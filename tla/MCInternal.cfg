SPECIFICATION MCSpec
CONSTANTS
    Year = {2025, 2026}
    NoYear = 0
    Query = {"", "b"}
    PageSize = 2
    Slot = {1}
    MaxLoads = 2
    Record = {1, 2, 3}
    Value = {"v"}
    AlwaysYears = {}
    Size = {1, 2}
    FixedSize = 2
    MaxDocs = 2
    MaxVersion = 1
    Region = {r1}
    Text = {a, b, huge}
    Refused = {huge}
    MaxCalls = 2
    MaxRows = 14
    TextLines = {1, 2, 3, 60}
    Length = {1, 2}
    Photo = {"a"}
    MaxPhotos = 1
    MaxFiles = 3
    Cells = {"a", "A", "a ", "b"}
    MaxLines = 2
    KeyOf <- MCKeyOf
    IndexOf <- MCIndexOf
    Has <- MCHas
    Matches <- MCMatches
    None = None
INVARIANT PagesTypeOK
INVARIANT ListsShowSearch
INVARIANT ExportsComplete
INVARIANT RowsMatch
INVARIANT NoticeMeansSaved
INVARIANT ImportMeansStored
INVARIANT CleanMeansKept
INVARIANT FeaturedReleased
INVARIANT SavedShown
PROPERTY WaitsEnd
CHECK_DEADLOCK FALSE
