------------------------------ MODULE RecordLists ------------------------------
(***************************************************************************)
(* The lists that the browser filters itself: BUM kampung, kelompok        *)
(* binaan, capaian and kendala, and the archive of all employees.  Each    *)
(* loads everything once; BUM kampung lets the page size be chosen, the    *)
(* others have filters beside the search, the archive has no pages and     *)
(* groups what it finds, BUM kampung and capaian delete from the list.     *)
(***************************************************************************)
EXTENDS Naturals, FiniteSets, FiniteSetsExt

CONSTANTS
    Record,      \* by the place the server lists them in
    Value,       \* what is typed or chosen
    Has,         \* the records each value of a filter finds
    AlwaysYears, \* getTahunAnggaranOptions: the years offered without a record
    Size,        \* pageSizeOptions
    FixedSize,   \* PAGE_SIZE
    None

Filter == {"query", "kabupaten", "kategori", "tahun"}

ListsAssumption ==
    /\ Record \subseteq Nat \ {0} /\ IsFiniteSet(Record) /\ None \notin Value
    /\ Has \in [Filter -> [Value -> SUBSET Record]] /\ AlwaysYears \subseteq Value
    /\ Size \subseteq Nat \ {0} /\ FixedSize \in Nat \ {0} /\ 0 \notin Record

VARIABLES
    here,               \* which list is open
    stored,             \* the rows of the server's table
    records, groups,    \* the list, and whether the kelompok it needs were loaded
    chosen, page, size,
    loading, error,
    target, call,       \* deleteTarget; the delete in flight
    unsure              \* history: a delete took effect and its answer was lost

shown == <<chosen, page, size>>
vars  == <<here, stored, records, groups, shown, loading, error, target, call, unsure>>

NoCall == [record |-> 0, state |-> "none"]

TypeOK ==
    /\ here \in {"bum", "kelompok", "capaian", "arsip"}
    /\ stored \subseteq Record /\ records \subseteq Record /\ groups \in BOOLEAN
    /\ chosen \in [Filter -> Value \cup {None}] /\ page \in Nat \ {0} /\ size \in Size \cup {FixedSize}
    /\ loading \in BOOLEAN /\ error \in BOOLEAN /\ unsure \in BOOLEAN
    /\ target \in Record \cup {0}
    /\ call \in {NoCall} \cup [record : Record, state : {"sent", "done", "failed"}]

\* The state of each page.
BumInit      == here = "bum" /\ size \in Size
KelompokInit == here = "kelompok" /\ size = FixedSize
CapaianInit  == here = "capaian" /\ size = FixedSize
ArsipInit    == here = "arsip" /\ size = FixedSize

Init ==
    /\ BumInit \/ KelompokInit \/ CapaianInit \/ ArsipInit
    /\ stored \in SUBSET Record /\ records = {} /\ groups = FALSE
    /\ chosen = [f \in Filter |-> None] /\ page = 1
    /\ loading = TRUE /\ error = FALSE /\ target = 0 /\ call = NoCall /\ unsure = FALSE

-----------------------------------------------------------------------------
Passes(f, r) == chosen[f] = None \/ r \in Has[f][chosen[f]]

\* filteredRecords of each page, and filteredArchives.
BumFound      == {r \in records : Passes("query", r)}
KelompokFound == {r \in records : \A f \in {"kabupaten", "kategori", "query"} : Passes(f, r)}
CapaianFound  == {r \in records : \A f \in Filter : Passes(f, r)}
ArsipFound    == {r \in records : \A f \in {"query", "kategori", "tahun"} : Passes(f, r)}
Found == CASE here = "bum" -> BumFound
           [] here = "kelompok" -> KelompokFound
           [] here = "capaian" -> CapaianFound
           [] here = "arsip" -> ArsipFound

\* totalPages, currentPage and paginatedRecords.
TotalPages == Max({1, (Cardinality(Found) + size - 1) \div size})
MutCurrentPage == page
CurrentPage == Min({page, TotalPages})
PagedRows ==
    LET rank(r) == Cardinality({s \in Found : s <= r}) IN
    {r \in Found : rank(r) > (CurrentPage - 1) * size /\ rank(r) <= CurrentPage * size}
\* archiveGroups shows every archive found, under the key of its group.
Rows == IF here = "arsip" THEN ArsipFound ELSE PagedRows

\* What the selects offer: a kelompok's for capaian and kendala, the years of
\* the records beside those that are always there.
KelompokOffers(f) == IF loading \/ error THEN {} ELSE Value
CapaianOffers(f) ==
    IF f = "tahun" THEN AlwaysYears \cup {v \in Value : records \cap Has[f][v] # {}}
    ELSE IF groups THEN Value ELSE {}
ArsipOffers(f) == IF f = "tahun" THEN {v \in Value : records \cap Has[f][v] # {}} ELSE Value

-----------------------------------------------------------------------------
\* The effect that loads: Promise.all, everything or nothing.
Load(withGroups) ==
    /\ loading /\ loading' = FALSE
    /\ \/ records' = stored /\ groups' = withGroups /\ error' = FALSE
       \/ error' = TRUE /\ UNCHANGED <<records, groups>>
    /\ UNCHANGED <<here, stored, shown, target, call, unsure>>
BumLoad      == here = "bum" /\ Load(FALSE)
KelompokLoad == here = "kelompok" /\ Load(FALSE)
CapaianLoad  == here = "capaian" /\ Load(TRUE)
ArsipLoad    == here = "arsip" /\ Load(FALSE)

\* A modal dialog hides the list.
Ready == target = 0

Choose(f, v) ==
    /\ Ready /\ v # chosen[f]
    /\ chosen' = [chosen EXCEPT ![f] = v] /\ page' = 1
    /\ UNCHANGED <<here, stored, records, groups, size, loading, error, target, call, unsure>>

BumSearch(v) == here = "bum" /\ Choose("query", v)
KelompokFilter(f, v) ==
    /\ here = "kelompok" /\ f # "tahun"
    /\ (f = "query" \/ v \in KelompokOffers(f) \cup {None})
    /\ Choose(f, v)
CapaianFilter(f, v) ==
    /\ here = "capaian" /\ (f = "query" \/ v \in CapaianOffers(f) \cup {None})
    /\ Choose(f, v)

ArsipFilter(f, v) ==
    /\ here = "arsip" /\ f # "kabupaten"
    /\ (f = "query" \/ v \in ArsipOffers(f) \cup {None})
    /\ Choose(f, v)

\* Reset Filter.
ResetFilters ==
    /\ here = "arsip" /\ chosen' = [f \in Filter |-> None]
    /\ UNCHANGED <<here, stored, records, groups, page, size, loading, error, target, call, unsure>>

BumSize(n) ==
    /\ here = "bum" /\ Ready /\ n # size
    /\ size' = n /\ page' = 1
    /\ UNCHANGED <<here, stored, records, groups, chosen, loading, error, target, call, unsure>>

\* Pagination, from the page shown.
TurnPage(p) ==
    /\ here # "arsip" /\ Ready /\ ~loading
    /\ \/ CurrentPage > 1 /\ p = CurrentPage - 1
       \/ CurrentPage < TotalPages /\ p = CurrentPage + 1
    /\ page' = p
    /\ UNCHANGED <<here, stored, records, groups, chosen, size, loading, error, target, call, unsure>>

\* A row's "Hapus", on the two lists that have one.
Ask(r) ==
    /\ Ready /\ ~loading /\ r \in Rows
    /\ target' = r
    /\ UNCHANGED <<here, stored, records, groups, shown, loading, error, call, unsure>>
BumAsk(r)     == here = "bum" /\ Ask(r)
CapaianAsk(r) == here = "capaian" /\ Ask(r)

\* ConfirmDeleteDialog, which the running delete locks.
CloseDialog ==
    /\ target # 0 /\ call = NoCall
    /\ target' = 0
    /\ UNCHANGED <<here, stored, records, groups, shown, loading, error, call, unsure>>
ConfirmDelete ==
    /\ target # 0 /\ call = NoCall
    /\ call' = [record |-> target, state |-> "sent"] /\ error' = FALSE
    /\ UNCHANGED <<here, stored, records, groups, shown, loading, target, unsure>>

ServeDelete ==
    /\ call.state = "sent"
    /\ \E effect, answered \in BOOLEAN :
         LET gone == effect /\ call.record \in stored IN
         /\ stored' = IF gone THEN stored \ {call.record} ELSE stored
         /\ call' = [call EXCEPT !.state = IF gone /\ answered THEN "done" ELSE "failed"]
         /\ unsure' = (unsure \/ (gone /\ ~answered))
    /\ UNCHANGED <<here, records, groups, shown, loading, error, target>>

\* handleDelete, once it is answered.
EndDelete ==
    /\ call' = NoCall
    /\ UNCHANGED <<here, stored, groups, shown, loading, unsure>>
Deleted ==
    /\ call.state = "done"
    /\ records' = records \ {call.record} /\ target' = 0 /\ error' = error
    /\ EndDelete
MutDeleteFailed ==
    /\ call.state = "failed"
    /\ error' = TRUE /\ records' = records \ {call.record} /\ target' = 0
    /\ EndDelete
DeleteFailed ==
    /\ call.state = "failed"
    /\ error' = TRUE /\ UNCHANGED <<records, target>>
    /\ EndDelete

DeleteStep == ServeDelete \/ Deleted \/ DeleteFailed

Next ==
    \/ BumLoad \/ KelompokLoad \/ CapaianLoad \/ ArsipLoad \/ ResetFilters
    \/ \E v \in Value \cup {None} :
         \/ BumSearch(v)
         \/ \E f \in Filter : KelompokFilter(f, v) \/ CapaianFilter(f, v) \/ ArsipFilter(f, v)
    \/ \E n \in Size : BumSize(n)
    \/ \E p \in {CurrentPage - 1, CurrentPage + 1} : TurnPage(p)
    \/ \E r \in Record : BumAsk(r) \/ CapaianAsk(r)
    \/ CloseDialog \/ ConfirmDelete \/ DeleteStep

\* A delete is served and answered, or fails.
Fairness == WF_vars(DeleteStep)

Spec == Init /\ [][Next]_vars /\ Fairness

-----------------------------------------------------------------------------
\* The list is the server's, and no row is shown as gone that is still there:
\* with no delete in flight they agree, unless the answer of one was lost.
ListMatches ==
    ~loading /\ call = NoCall /\ ~unsure => records = stored \/ (error /\ records = {})

\* No page of the list is empty while the search finds something: not after the
\* delete of the last row of the last page, nor of a page of another size.
PageShowsRows == Found # {} => Rows # {}

\* The dialog's button is disabled; it does not stay so.
Waiting == call # NoCall
===============================================================================
