SPECIFICATION MCSpec
CONSTANTS
    Year = {2025, 2026}
    RegionsOf <- MCRegionsOf
    Dataset = {"registration", "civil"}
    Registration = "registration"
    MaxEntries = 2
    Search = {"", "air"}
    Filter = {"selesai"}
    MaxPage = 2
    None = None
INVARIANT PublicTypeOK
INVARIANT RowsOfPeriod
INVARIANT AddressNamesPeriod
INVARIANT FieldAgrees
INVARIANT ShowsAddress
PROPERTY PeriodKept
PROPERTY PagesWaitEnd
PROPERTY AnswerKeepsChoices
CHECK_DEADLOCK FALSE
