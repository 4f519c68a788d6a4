-------------------------- MODULE InternalPagesProofs --------------------------
(***************************************************************************)
(* Proofs about internal pages, one page at a time: the release settings,  *)
(* the import of subkegiatan, the pages of a region's figures, and the     *)
(* documents on the page of an employee; and what they say of the internal *)
(* pages together.                                                         *)
(***************************************************************************)
EXTENDS MCInternal, FiniteSetTheorems, FunctionTheorems, SequenceTheorems,
        WellFoundedInduction, TLAPS

-----------------------------------------------------------------------------
(* The release settings.  For any set of years: the year the website opens   *)
(* with stays one of the years it shows, in the table and in the fields, and *)
(* a saved message stands over the fields that were saved.                   *)

\* A save in flight carries a form the page's own guards let through.
SaveSends == call.op = "save" => Released(call.settings)

\* Reloading takes the message away before its answer sets the fields.
LoadQuiet == loading => ~message

ReleaseInv == TypeOK /\ SaveSends /\ LoadQuiet /\ FeaturedReleased /\ SavedShown

\* The first of some years is one of them.
LEMMA FirstYearListed ==
    ASSUME NEW years \in SUBSET Year
    PROVE  /\ years = {} => FirstYear(years) = NoYear
           /\ years # {} => FirstYear(years) \in years
  BY ReleaseAssumption DEF FirstYear

\* Whatever settings are loaded, the form they make opens with a year it shows.
LEMMA NormalizedReleased ==
    ASSUME NEW r \in Release
    PROVE  /\ Normalized(r) \in Release
           /\ Released(Normalized(r)) \/ Normalized(r) = Empty
           /\ Released(r) => Normalized(r) = r
<1>1. r.published \in SUBSET Year /\ r.featured \in Year \cup {NoYear}
  BY DEF Release
<1>2. /\ r.published = {} => FirstYear(r.published) = NoYear
      /\ r.published # {} => FirstYear(r.published) \in r.published
  BY <1>1, FirstYearListed
<1>3. Normalized(r) \in Release
  BY <1>1, <1>2 DEF Normalized, Release, Released
<1>4. Released(Normalized(r)) \/ Normalized(r) = Empty
  BY <1>1, <1>2 DEF Normalized, Released, Empty
<1>5. Released(r) => Normalized(r) = r
  BY <1>1 DEF Normalized, Released, Release
<1> QED
  BY <1>3, <1>4, <1>5

\* The records the initial state is made of have their types.
LEMMA NoCallTyped == Empty \in Release /\ NoCall \in Call /\ Load \in Call
  BY DEF Empty, Release, NoCall, Load, Call, State

\* The inductive invariant holds when the page is mounted.
LEMMA ReleaseInvInit == Init => ReleaseInv
<1> SUFFICES ASSUME Init PROVE ReleaseInv
  OBVIOUS
<1>1. TypeOK
  BY NoCallTyped DEF Init, TypeOK, Load
<1>2. SaveSends /\ LoadQuiet /\ FeaturedReleased /\ SavedShown
  BY DEF Init, SaveSends, LoadQuiet, FeaturedReleased, SavedShown, Load
<1> QED
  BY <1>1, <1>2 DEF ReleaseInv

\* Every step, of the administrator, the server or a colleague, keeps it.
LEMMA ReleaseInvStep == ReleaseInv /\ [Next]_vars => ReleaseInv'
<1> SUFFICES ASSUME ReleaseInv, [Next]_vars PROVE ReleaseInv'
  OBVIOUS
<1> USE NoCallTyped DEF ReleaseInv
<1>1. ASSUME NEW y \in Year, Toggle(y) PROVE ReleaseInv'
  <2> DEFINE published == IF y \in fields.published THEN fields.published \ {y}
                                                  ELSE fields.published \cup {y}
  <2>1. fields.published \in SUBSET Year /\ fields.featured \in Year \cup {NoYear}
    BY DEF TypeOK, Release
  <2>2. published \in SUBSET Year
    BY <2>1
  <2>3. fields' = [featured |-> IF fields.featured \in published THEN fields.featured
                                                            ELSE FirstYear(published),
                 published |-> published]
    BY <1>1 DEF Toggle
  <2> HIDE DEF published
  <2>4. /\ published = {} => FirstYear(published) = NoYear
        /\ published # {} => FirstYear(published) \in published
    BY <2>2, FirstYearListed
  <2>5. fields' \in Release
    BY <2>1, <2>2, <2>3, <2>4 DEF Release
  <2>6. FeaturedReleased'
    BY <2>3, <2>4 DEF FeaturedReleased, Released, Empty
  <2>7. TypeOK'
    BY <1>1, <2>5 DEF Toggle, TypeOK
  <2> QED
    BY <1>1, <2>6, <2>7 DEF Toggle, SaveSends, LoadQuiet, SavedShown
<1>2. ASSUME NEW y \in Year, Feature(y) PROVE ReleaseInv'
  <2>1. fields' = [featured |-> y, published |-> fields.published \cup {y}]
    BY <1>2 DEF Feature
  <2>2. fields.published \in SUBSET Year
    BY DEF TypeOK, Release
  <2>3. fields' \in Release /\ FeaturedReleased'
    BY <2>1, <2>2 DEF Release, FeaturedReleased, Released
  <2> QED
    BY <1>2, <2>3 DEF Feature, TypeOK, SaveSends, LoadQuiet, SavedShown
<1>3. ASSUME Reload PROVE ReleaseInv'
  BY <1>3 DEF Reload, TypeOK, SaveSends, LoadQuiet, FeaturedReleased, SavedShown, Load
<1>4. ASSUME Save PROVE ReleaseInv'
  <2>1. CASE Released(fields)
    <3> DEFINE sent == [op |-> "save", state |-> "sent", settings |-> fields]
    <3>1. saving' = TRUE /\ error' = FALSE /\ call' = sent /\ message' = FALSE
      BY <1>4, <2>1 DEF Save
    <3>2. sent \in Call
      BY DEF TypeOK, Call, State
    <3>3. TypeOK'
      BY <1>4, <3>1, <3>2 DEF Save, TypeOK
    <3> QED
      BY <1>4, <2>1, <3>1, <3>3 DEF Save, TypeOK, SaveSends, LoadQuiet, FeaturedReleased, SavedShown
  <2>2. CASE ~Released(fields)
    BY <1>4, <2>2 DEF Save, TypeOK, SaveSends, LoadQuiet, FeaturedReleased, SavedShown
  <2> QED
    BY <2>1, <2>2
<1>5. ASSUME ServeLoad PROVE ReleaseInv'
  <2>1. call' = [op |-> "load", state |-> "done", settings |-> stored]
    BY <1>5 DEF ServeLoad
  <2>2. call' \in Call
    BY <2>1 DEF TypeOK, Valid, Call, State
  <2> QED
    BY <1>5, <2>1, <2>2 DEF ServeLoad, TypeOK, SaveSends, LoadQuiet, FeaturedReleased, SavedShown
<1>6. ASSUME ServeSave PROVE ReleaseInv'
  <2>1. PICK s \in {"done", "failed"} :
          call' = [op |-> "save", state |-> s, settings |-> call.settings]
    BY <1>6 DEF ServeSave
  <2>2. call.settings \in Release /\ Released(call.settings)
    BY <1>6, NoCallTyped DEF ServeSave, TypeOK, SaveSends, LoadQuiet, Call, NoCall
  <2>3. call' \in Call /\ stored' \in Valid
    BY <1>6, <2>1, <2>2 DEF ServeSave, Call, State, Valid
  <2> QED
    BY <1>6, <2>1, <2>2, <2>3 DEF ServeSave, TypeOK, SaveSends, LoadQuiet, FeaturedReleased, SavedShown
<1>7. ASSUME Refuse PROVE ReleaseInv'
  <2>1. call' = [op |-> call.op, state |-> "failed", settings |-> call.settings]
    BY <1>7 DEF Refuse
  <2>2. call.op \in {"load", "save"} /\ call.settings \in Release
    BY <1>7 DEF Refuse, TypeOK, Call, NoCall
  <2>3. call' \in Call
    BY <2>1, <2>2 DEF Call, State
  <2> QED
    BY <1>7, <2>1, <2>2, <2>3 DEF Refuse, TypeOK, SaveSends, LoadQuiet, FeaturedReleased, SavedShown
<1>8. ASSUME Loaded PROVE ReleaseInv'
  <2>1. call.settings \in Release
    BY <1>8 DEF Loaded, TypeOK, Call, NoCall
  <2>2. fields' \in Release /\ FeaturedReleased'
    BY <1>8, <2>1, NormalizedReleased DEF Loaded, FeaturedReleased
  <2>4. message' = FALSE /\ SavedShown'
    BY <1>8 DEF Loaded, SavedShown, LoadQuiet, TypeOK
  <2> QED
    BY <1>8, <2>2, <2>4 DEF Loaded, TypeOK, SaveSends, LoadQuiet, NoCall
<1>9. ASSUME Saved PROVE ReleaseInv'
  <2>1. call.settings \in Release /\ Released(call.settings)
    BY <1>9 DEF Saved, TypeOK, SaveSends, Call, NoCall
  <2>2. fields' = call.settings /\ saved' = call.settings
    BY <1>9, <2>1, NormalizedReleased DEF Saved
  <2>3. FeaturedReleased' /\ SavedShown'
    BY <2>1, <2>2 DEF FeaturedReleased, SavedShown, Released
  <2> QED
    BY <1>9, <2>1, <2>2, <2>3 DEF Saved, TypeOK, SaveSends, LoadQuiet, NoCall
<1>10. ASSUME Failed PROVE ReleaseInv'
  BY <1>10 DEF Failed, TypeOK, SaveSends, LoadQuiet, FeaturedReleased, SavedShown, NoCall
<1>11. ASSUME NEW r \in Valid, OtherSaves(r) PROVE ReleaseInv'
  BY <1>11 DEF OtherSaves, TypeOK, SaveSends, LoadQuiet, FeaturedReleased, SavedShown
<1>12. ASSUME UNCHANGED vars PROVE ReleaseInv'
  BY <1>12 DEF vars, TypeOK, SaveSends, LoadQuiet, FeaturedReleased, SavedShown
<1> QED
  BY <1>1, <1>2, <1>3, <1>4, <1>5, <1>6, <1>7, <1>8, <1>9, <1>10, <1>11, <1>12
  DEF Next, Answered

\* The page's state keeps its types, for any set of years.
THEOREM ReleaseTypeCorrect == Spec => []TypeOK
<1>1. ReleaseInv => TypeOK
  BY DEF ReleaseInv
<1> QED
  BY ReleaseInvInit, ReleaseInvStep, <1>1, PTL DEF Spec

\* The page never features a year it does not release (toggleRelease and
\* setFeatured keep the two together), for any set of years.
THEOREM ReleaseFeatured == Spec => []FeaturedReleased
<1>1. ReleaseInv => FeaturedReleased
  BY DEF ReleaseInv
<1> QED
  BY ReleaseInvInit, ReleaseInvStep, <1>1, PTL DEF Spec

\* While the page says its settings are saved, what it shows is what the server
\* confirmed last, for any set of years and whatever colleagues save meanwhile.
THEOREM ReleaseSavedShown == Spec => []SavedShown
<1>1. ReleaseInv => SavedShown
  BY DEF ReleaseInv
<1> QED
  BY ReleaseInvInit, ReleaseInvStep, <1>1, PTL DEF Spec

-----------------------------------------------------------------------------
\* An instance has a copy of its own of the operators its module extends.
LEMMA OneCardinality ==
    \A S : Import!Cardinality(S) = Cardinality(S) /\ Forms!Cardinality(S) = Cardinality(S)
BY DEF Import!Cardinality, Forms!Cardinality, Cardinality

-----------------------------------------------------------------------------
(* The import of subkegiatan.                                                *)

\* What the rows of the file are while the server is about to insert them, and
\* once it has: the second pass answers for the file of the dialog, because the
\* dialog takes no other one during a call, and what it found listed is listed
\* still or was deleted by others since.
Present(row)   == Import!Known(row) \/ KeyOf[row] \in lost
FileStored     == \A i \in DOMAIN file : file[i] # None /\ Present(file[i])
FileAwaited    == \A i \in DOMAIN file : file[i] # None /\ (file[i] \in rows \/ Present(file[i]))

ImportInv ==
    /\ Import!TypeOK
    /\ call = "insert" => FileAwaited
    /\ call = "imported" \/ kept => FileStored

\* A file has at most MaxLines rows, each a hierarchy or an error.
LEMMA FileLines ==
    ASSUME Import!ImportAssumption, NEW f \in Import!File \cup {Import!NoFile}
    PROVE  /\ IsFiniteSet(DOMAIN f) /\ Cardinality(DOMAIN f) \in 0..MaxLines
           /\ \A i \in DOMAIN f : f[i] \in Cells \cup {None}
<1>1. CASE f \in Import!File
  <2>1. PICK n \in 1..MaxLines : f \in [1..n -> Cells \cup {None}]
    BY <1>1 DEF Import!File
  <2>2. IsFiniteSet(1..n) /\ Cardinality(1..n) = n
    BY <2>1, FS_Interval DEF Import!ImportAssumption
  <2> QED
    BY <2>1, <2>2 DEF Import!ImportAssumption
<1>2. CASE f = Import!NoFile
  <2>1. DOMAIN f = {}
    BY <1>2 DEF Import!NoFile
  <2> QED
    BY <2>1, FS_EmptySet DEF Import!ImportAssumption
<1> QED
  BY <1>1, <1>2

\* A preview counts the file's rows.
LEMMA PreviewCounts ==
    ASSUME Import!ImportAssumption, NEW f \in Import!File \cup {Import!NoFile}
    PROVE  Import!Counts(f) \in Import!Preview
<1>1. ASSUME NEW s PROVE Import!Count(f, s) \in 0..MaxLines
  <2> DEFINE S == {i \in DOMAIN f : Import!Status(f, i) = s}
  <2>1. S \in SUBSET DOMAIN f
    OBVIOUS
  <2>2. /\ IsFiniteSet(DOMAIN f) /\ Cardinality(DOMAIN f) \in 0..MaxLines
    BY FileLines
  <2>3. IsFiniteSet(S) /\ Cardinality(S) <= Cardinality(DOMAIN f)
    BY <2>1, <2>2, FS_Subset
  <2>4. Cardinality(S) \in Nat
    BY <2>3, FS_CardinalityType
  <2>5. Cardinality(S) \in 0..MaxLines
    BY <2>2, <2>3, <2>4 DEF Import!ImportAssumption
  <2> QED
    BY <2>5, OneCardinality DEF Import!Count
<1> QED
  BY <1>1 DEF Import!Counts, Import!Preview

\* The second pass lets a file without an error through: each of its rows is to be
\* inserted, or listed already.
LEMMA NoErrorAwaited ==
    ASSUME Import!ImportAssumption, NEW f \in Import!File \cup {Import!NoFile},
           Import!Count(f, "error") = 0
    PROVE  \A i \in DOMAIN f : f[i] # None /\ (f[i] \in Import!Valid(f) \/ Import!Known(f[i]))
<1> DEFINE S == {i \in DOMAIN f : Import!Status(f, i) = "error"}
<1>1. IsFiniteSet(DOMAIN f)
  BY FileLines
<1>2. IsFiniteSet(S)
  BY <1>1, FS_Subset
<1>3. S = {}
  <2>1. Cardinality(S) = 0
    BY OneCardinality DEF Import!Count
  <2> QED
    BY <1>2, <2>1, FS_EmptySet
<1>4. ASSUME NEW i \in DOMAIN f
      PROVE  f[i] # None /\ (f[i] \in Import!Valid(f) \/ Import!Known(f[i]))
  <2>1. Import!Status(f, i) # "error"
    BY <1>3
  <2>2. f[i] # None
    BY <2>1 DEF Import!Status
  <2>3. Import!Status(f, i) = "existing" => Import!Known(f[i])
    BY DEF Import!Status
  <2>4. Import!Status(f, i) = "valid" => f[i] \in Import!Valid(f)
    BY DEF Import!Valid
  <2>5. Import!Status(f, i) \in {"error", "existing", "valid"}
    BY DEF Import!Status
  <2> QED
    BY <2>1, <2>2, <2>3, <2>4, <2>5
<1> QED
  BY <1>4

LEMMA ValidRows ==
    ASSUME Import!ImportAssumption, NEW f \in Import!File \cup {Import!NoFile}
    PROVE  Import!Valid(f) \subseteq Cells
<1>1. ASSUME NEW i \in DOMAIN f, Import!Status(f, i) = "valid" PROVE f[i] \in Cells
  <2>1. f[i] # None
    BY <1>1 DEF Import!Status
  <2>2. f[i] \in Cells \cup {None}
    BY FileLines
  <2> QED
    BY <2>1, <2>2
<1> QED
  BY <1>1 DEF Import!Valid

\* What others do to the table: rows come, or go and leave their keys in gone.
LEMMA PresentKept ==
    ASSUME NEW row,
           \/ stored \subseteq stored' /\ lost' = lost
           \/ \E r \in stored : stored' = stored \ {r} /\ lost' = lost \cup {KeyOf[r]}
    PROVE  Present(row) => Present(row)'
BY DEF Present, Import!Known

LEMMA ImportStep ==
    ASSUME Import!ImportAssumption, ImportInv, [Import!Next]_Import!vars
    PROVE  ImportInv'
<1> USE DEF ImportInv, Import!TypeOK
<1>1. CASE Import!OpenDialog
  BY <1>1 DEF Import!OpenDialog, FileAwaited, FileStored, Present, Import!Known
<1>2. CASE Import!CloseDialog
  BY <1>2, FileLines DEF Import!CloseDialog, FileAwaited, FileStored, Present, Import!Known, Import!NoFile, Import!ImportAssumption
<1>3. CASE Import!ProcessPreview
  BY <1>3 DEF Import!ProcessPreview, FileAwaited, FileStored, Present, Import!Known
<1>4. CASE Import!CommitImport
  BY <1>4 DEF Import!CommitImport, FileAwaited, FileStored, Present, Import!Known
<1>5. ASSUME NEW f \in Import!File \cup {Import!NoFile}, Import!ChooseFile(f) PROVE ImportInv'
  BY <1>5 DEF Import!ChooseFile, FileAwaited, FileStored, Present, Import!Known, Import!ImportAssumption
<1>6. ASSUME NEW r \in Cells, Import!Create(r) PROVE ImportInv'
  <2>1. \A row : Present(row) => Present(row)'
    BY <1>6, PresentKept DEF Import!Create
  <2> QED
    BY <1>6, <2>1 DEF Import!Create, Import!dialog, FileAwaited, FileStored
<1>7. ASSUME NEW r \in Cells, Import!Delete(r) PROVE ImportInv'
  <2>1. \A row : Present(row) => Present(row)'
    BY <1>7, PresentKept DEF Import!Delete
  <2> QED
    BY <1>7, <2>1 DEF Import!Delete, Import!dialog, FileAwaited, FileStored
<1>8. CASE Import!Previewed
  BY <1>8, PreviewCounts DEF Import!Previewed, FileAwaited, FileStored, Present, Import!Known, Import!ImportAssumption
<1>9. CASE Import!Listed
  <2>1. FileAwaited'
    BY <1>9, NoErrorAwaited
       DEF Import!Listed, Import!dialog, FileAwaited, Present, Import!Known
  <2>2. rows' \subseteq Cells
    BY <1>9, ValidRows DEF Import!Listed
  <2> QED
    BY <1>9, <2>1, <2>2
       DEF Import!Listed, Import!dialog, FileStored, Present, Import!Known
<1>10. CASE Import!Insert
  <2>1. \A row : Present(row) => Present(row)'
    BY <1>10, PresentKept DEF Import!Insert
  <2>2. \A row \in rows : Present(row)'
    BY <1>10 DEF Import!Insert, Present, Import!Known
  <2>3. FileStored'
    BY <1>10, <2>1, <2>2 DEF Import!Insert, Import!dialog, FileAwaited, FileStored
  <2> QED
    BY <1>10, <2>3 DEF Import!Insert, Import!dialog
<1>11. CASE Import!CallFails
  BY <1>11 DEF Import!CallFails, Import!dialog, FileAwaited, FileStored, Present, Import!Known
<1>12. CASE Import!Imported
  BY <1>12 DEF Import!Imported, FileAwaited, FileStored, Present, Import!Known
<1>13. CASE Import!ShowError
  BY <1>13 DEF Import!ShowError, FileAwaited, FileStored, Present, Import!Known, Import!ImportAssumption
<1>14. CASE UNCHANGED Import!vars
  BY <1>14 DEF Import!vars, Import!dialog, FileAwaited, FileStored, Present, Import!Known
<1> QED
  BY <1>1, <1>2, <1>3, <1>4, <1>5, <1>6, <1>7, <1>8, <1>9, <1>10, <1>11, <1>12, <1>13, <1>14
     DEF Import!Next, Import!CallStep

LEMMA ImportStart == Import!ImportAssumption /\ Import!Init => ImportInv
BY DEF Import!Init, ImportInv, Import!TypeOK, FileAwaited, FileStored, Import!ImportAssumption

LEMMA ImportInvHolds == ASSUME Import!ImportAssumption PROVE Import!Spec => []ImportInv
<1>1. Import!ImportAssumption /\ Import!Init => ImportInv
  BY ImportStart
<1>2. Import!ImportAssumption /\ ImportInv /\ [Import!Next]_Import!vars => ImportInv'
  BY ImportStep
<1> QED
  BY Import!ImportAssumption, <1>1, <1>2, PTL DEF Import!Spec

\* The values the dialog and the table hold, for any bound on the lines of a file.
THEOREM ImportTypeCorrect == ASSUME Import!ImportAssumption PROVE Import!Spec => []Import!TypeOK
<1>1. ImportInv => Import!TypeOK
  BY DEF ImportInv
<1> QED
  BY Import!ImportAssumption, ImportInvHolds, <1>1, PTL

\* The success the dialog shows is true of every row of its file, whoever else
\* creates and deletes subkegiatan meanwhile.
THEOREM ImportedIsStored ==
    ASSUME Import!ImportAssumption PROVE Import!Spec => []Import!ImportMeansStored
<1>1. ImportInv => Import!ImportMeansStored
  BY DEF ImportInv, Import!ImportMeansStored, FileStored, Present
<1> QED
  BY Import!ImportAssumption, ImportInvHolds, <1>1, PTL

-----------------------------------------------------------------------------
(* The pages of a region's figures.                                          *)

\* What dirty compares with is something the server gave or took; a load and the
\* answer to an own save are the only steps that set it, and both record it.
InitialKept == initial # None => initial \in kept

\* An answer to a save of the page that is no longer mounted changes nothing here.
LEMMA InitialKeptStep == InitialKept /\ [Forms!Next]_Forms!vars => InitialKept'
<1> SUFFICES ASSUME InitialKept, [Forms!Next]_Forms!vars PROVE InitialKept'
  OBVIOUS
<1> USE DEF InitialKept
<1>1. CASE Forms!RecordLoaded
  BY <1>1 DEF Forms!RecordLoaded
<1>2. CASE Forms!Arrive
  BY <1>2 DEF Forms!Arrive, Forms!page
<1>3. ASSUME NEW c \in calls, Forms!SaveStep(c) PROVE InitialKept'
  BY <1>3 DEF Forms!SaveStep, Forms!ServeSave, Forms!RefuseSave, Forms!SaveAnswered,
              Forms!SaveFailed, Forms!page
<1>4. CASE UNCHANGED <<initial, kept>>
  BY <1>4
<1>5. \/ Forms!RecordLoaded \/ Forms!Arrive \/ \E c \in calls : Forms!SaveStep(c)
      \/ UNCHANGED <<initial, kept>>
  BY DEF Forms!Next, Forms!vars, Forms!page, Forms!ListLoaded, Forms!LoadFailed, Forms!RetryList,
         Forms!OpenRegion, Forms!OpenAggregate, Forms!Go, Forms!Type, Forms!Submit, Forms!Cancel,
         Forms!EditLink, Forms!Breadcrumb, Forms!SidebarLink, Forms!OtherSaves
<1> QED
  BY <1>1, <1>2, <1>3, <1>4, <1>5

\* An edit form that counts as unchanged holds what the server gave or took.
THEOREM UnchangedIsKept == Forms!Spec => []Forms!CleanMeansKept
<1>1. Forms!Init => InitialKept
  BY DEF Forms!Init, InitialKept
<1>2. InitialKept => Forms!CleanMeansKept
  BY DEF InitialKept, Forms!CleanMeansKept, Forms!Dirty
<1> QED
  BY <1>1, <1>2, InitialKeptStep, PTL DEF Forms!Spec

\* The saves in flight are counted, which needs them to be finitely many.
FormsInv == Forms!TypeOK /\ IsFiniteSet(calls)

Asked == [region |-> at.region, sent |-> form, state |-> "sent", own |-> TRUE]

LEMMA PlaceOfRecord ==
    ASSUME NEW p \in Forms!Place, p.page \in {"edit", "preview"}
    PROVE  p.region \in Region /\ p \in [page : {"edit", "preview"}, region : Region]
BY DEF Forms!Place, Forms!List, Forms!Elsewhere

\* Replacing a call by its next state, or dropping it, keeps the bound.
LEMMA CallReplaced ==
    ASSUME NEW S, IsFiniteSet(S), NEW c \in S, NEW d
    PROVE  /\ IsFiniteSet((S \ {c}) \cup {d}) /\ Cardinality((S \ {c}) \cup {d}) <= Cardinality(S)
           /\ IsFiniteSet(S \ {c}) /\ Cardinality(S \ {c}) <= Cardinality(S)
           /\ Cardinality(S) \in Nat
<1>1. IsFiniteSet(S \ {c}) /\ Cardinality(S \ {c}) = Cardinality(S) - 1
  BY FS_RemoveElement
<1>2. Cardinality(S) \in Nat /\ Cardinality(S \ {c}) \in Nat
  BY <1>1, FS_CardinalityType
<1>3. /\ IsFiniteSet((S \ {c}) \cup {d})
      /\ Cardinality((S \ {c}) \cup {d}) = IF d \in S \ {c} THEN Cardinality(S \ {c})
                                                            ELSE Cardinality(S \ {c}) + 1
  BY <1>1, FS_AddElement
<1> QED
  BY <1>1, <1>2, <1>3

\* Leaving a page disowns its saves, and makes no new ones.
LEMMA CallsDisowned ==
    ASSUME NEW S, IsFiniteSet(S)
    PROVE  LET T == {[c EXCEPT !.own = FALSE] : c \in S}
           IN  IsFiniteSet(T) /\ Cardinality(T) <= Cardinality(S)
<1> DEFINE T == {[c EXCEPT !.own = FALSE] : c \in S}
           f == [c \in S |-> [c EXCEPT !.own = FALSE]]
<1>1. f \in [S -> T]
  OBVIOUS
<1>2. \A t \in T : \E c \in S : f[c] = t
  OBVIOUS
<1>3. f \in Surjection(S, T)
  BY <1>1, <1>2 DEF Surjection
<1> QED
  BY <1>3, FS_Surjection

LEMMA FormsStep ==
    ASSUME Forms!FormsAssumption, FormsInv, [Forms!Next]_Forms!vars
    PROVE  FormsInv'
<1> USE DEF FormsInv, Forms!TypeOK, Forms!page
<1>0. /\ Cardinality(calls) <= MaxCalls /\ Cardinality(calls) \in Nat /\ MaxCalls \in Nat
      /\ Cardinality(calls') <= MaxCalls => Forms!Cardinality(calls') <= MaxCalls
  BY OneCardinality, FS_CardinalityType DEF Forms!FormsAssumption
<1>1. CASE Forms!ListLoaded
  BY <1>1 DEF Forms!ListLoaded
<1>2. CASE Forms!RecordLoaded
  BY <1>2, PlaceOfRecord DEF Forms!RecordLoaded
<1>3. CASE Forms!LoadFailed \/ Forms!RetryList
  <2>1. UNCHANGED <<kind, at, goto, rows, form, initial, saving, kept, calls, stored, asked, lost>>
    BY <1>3 DEF Forms!LoadFailed, Forms!RetryList
  <2>2. loading' \in BOOLEAN /\ error' \in BOOLEAN
    BY <1>3 DEF Forms!LoadFailed, Forms!RetryList
  <2> QED
    BY <2>1, <2>2
<1>4. ASSUME NEW p \in Forms!Place, NEW b \in BOOLEAN, Forms!Go(p, b) PROVE FormsInv'
  BY <1>4 DEF Forms!Go
<1>5. ASSUME NEW p \in [page : {"edit", "preview"}, region : Region],
             Forms!OpenRegion(p) \/ Forms!OpenAggregate(p)
      PROVE  FormsInv'
  BY <1>4, <1>5 DEF Forms!OpenRegion, Forms!OpenAggregate, Forms!Place
<1>6. CASE Forms!Cancel \/ Forms!Breadcrumb \/ Forms!SidebarLink
  BY <1>4, <1>6 DEF Forms!Cancel, Forms!Breadcrumb, Forms!SidebarLink, Forms!Place
<1>7. CASE Forms!EditLink
  <2>1. at \in [page : {"edit", "preview"}, region : Region]
    BY <1>7, PlaceOfRecord DEF Forms!EditLink
  <2>2. [at EXCEPT !.page = "edit"] \in Forms!Place
    BY <2>1 DEF Forms!Place
  <2> QED
    BY <1>4, <1>7, <2>2 DEF Forms!EditLink
<1>8. ASSUME NEW text \in Text, Forms!Type(text) PROVE FormsInv'
  BY <1>8 DEF Forms!Type
<1>9. CASE Forms!Submit
  <2>1. Asked \in Forms!Call /\ Asked.own /\ Cardinality(calls) \in Nat
    BY <1>9, PlaceOfRecord, FS_CardinalityType DEF Forms!Submit, Forms!Call, Asked
  <2>2. CASE Forms!Parses(form)
    <3>1. calls' = calls \cup {Asked} /\ saving' /\ Cardinality(calls) < MaxCalls
      BY <1>9, <2>2, OneCardinality DEF Forms!Submit, Asked
    <3>2. /\ IsFiniteSet(calls \cup {Asked})
          /\ \/ Cardinality(calls \cup {Asked}) = Cardinality(calls)
             \/ Cardinality(calls \cup {Asked}) = Cardinality(calls) + 1
      BY FS_AddElement
    <3>3. IsFiniteSet(calls') /\ Cardinality(calls') <= MaxCalls
      BY <1>0, <3>1, <3>2
    <3> QED
      BY <1>0, <1>9, <2>1, <2>2, <3>1, <3>3 DEF Forms!Submit
  <2>3. CASE ~Forms!Parses(form)
    BY <1>9, <2>3 DEF Forms!Submit
  <2> QED
    BY <2>2, <2>3
<1>10. ASSUME NEW c \in calls, Forms!SaveStep(c) PROVE FormsInv'
  <2>1. /\ c \in Forms!Call /\ Cardinality(calls) \in Nat
        /\ \A s \in {"sent", "done", "failed"} :
             [c EXCEPT !.state = s] \in Forms!Call /\ [c EXCEPT !.state = s].own = c.own
    BY FS_CardinalityType DEF Forms!Call
  <2>2. ASSUME NEW s \in {"done", "failed"}, calls' = (calls \ {c}) \cup {[c EXCEPT !.state = s]}
        PROVE  /\ calls' \subseteq Forms!Call /\ IsFiniteSet(calls')
               /\ Forms!Cardinality(calls') <= MaxCalls
               /\ (\E d \in calls : d.own) => \E d \in calls' : d.own
    <3> DEFINE n == [c EXCEPT !.state = s]
    <3>1. n \in Forms!Call /\ n.own = c.own /\ calls' = (calls \ {c}) \cup {n}
      BY <2>1, <2>2
    <3> HIDE DEF n
    <3>2. /\ IsFiniteSet((calls \ {c}) \cup {n})
          /\ Cardinality((calls \ {c}) \cup {n}) <= Cardinality(calls)
      BY CallReplaced
    <3>3. Cardinality((calls \ {c}) \cup {n}) \in Nat
      BY <3>2, FS_CardinalityType
    <3>4. IsFiniteSet(calls') /\ Forms!Cardinality(calls') <= MaxCalls
      BY <1>0, <3>1, <3>2, <3>3
    <3>5. (\E d \in calls : d.own) => \E d \in calls' : d.own
      BY <3>1
    <3> QED
      BY <3>1, <3>4, <3>5
  <2>3. ASSUME calls' = calls \ {c}
        PROVE  /\ calls' \subseteq Forms!Call /\ IsFiniteSet(calls')
               /\ Forms!Cardinality(calls') <= MaxCalls
               /\ (\E d \in calls : d.own) /\ ~c.own => \E d \in calls' : d.own
    <3>1. IsFiniteSet(calls \ {c}) /\ Cardinality(calls \ {c}) <= Cardinality(calls)
      BY CallReplaced
    <3>2. Cardinality(calls \ {c}) \in Nat
      BY <3>1, FS_CardinalityType
    <3>3. IsFiniteSet(calls') /\ Forms!Cardinality(calls') <= MaxCalls
      BY <1>0, <2>3, <3>1, <3>2
    <3>4. (\E d \in calls : d.own) /\ ~c.own => \E d \in calls' : d.own
      BY <2>3
    <3> QED
      BY <2>3, <3>3, <3>4
  <2>4. CASE Forms!ServeSave(c)
    <3>1. stored' \in [Region -> Text \ Refused]
      BY <2>1, <2>4 DEF Forms!ServeSave, Forms!Call
    <3> QED
      BY <2>2, <2>4, <3>1 DEF Forms!ServeSave
  <2>5. CASE Forms!RefuseSave(c)
    BY <2>2, <2>5 DEF Forms!RefuseSave
  <2>6. CASE Forms!SaveAnswered(c)
    <3>1. c.own \in BOOLEAN /\ c.sent \in Text /\ c.region \in Region
      BY <2>1 DEF Forms!Call
    <3>2. /\ goto' \in Forms!Place /\ initial' \in Text \cup {None} /\ kept' \subseteq Text
          /\ asked' \in BOOLEAN /\ error' \in BOOLEAN
      BY <2>6, <3>1 DEF Forms!SaveAnswered, Forms!Place
    <3> QED
      BY <2>3, <2>6, <3>1, <3>2 DEF Forms!SaveAnswered, Forms!EndSave
  <2>7. CASE Forms!SaveFailed(c)
    <3>1. c.own \in BOOLEAN
      BY <2>1 DEF Forms!Call
    <3> QED
      BY <2>3, <2>7, <3>1 DEF Forms!SaveFailed, Forms!EndSave
  <2> QED
    BY <1>10, <2>4, <2>5, <2>6, <2>7 DEF Forms!SaveStep
<1>11. CASE Forms!Arrive
  <2>1. CASE goto = at
    BY <1>11, <2>1 DEF Forms!Arrive
  <2>2. CASE goto # at
    <3>1. calls' = {[c EXCEPT !.own = FALSE] : c \in calls}
      BY <1>11, <2>2 DEF Forms!Arrive
    <3>2. calls' \subseteq Forms!Call
      BY ZenonT(40), <3>1 DEF Forms!Call
    <3>3. /\ IsFiniteSet(calls') /\ Cardinality(calls') <= Cardinality(calls)
          /\ Cardinality(calls') \in Nat /\ Cardinality(calls) \in Nat
      BY <3>1, CallsDisowned, FS_CardinalityType
    <3>4. Forms!Cardinality(calls') <= MaxCalls
      BY <1>0, <3>3
    <3> QED
      BY <1>11, <2>2, <3>2, <3>3, <3>4 DEF Forms!Arrive
  <2> QED
    BY <2>1, <2>2
<1>12. ASSUME NEW r \in Region, NEW text \in Text \ Refused, Forms!OtherSaves(r, text)
       PROVE  FormsInv'
  BY <1>12 DEF Forms!OtherSaves
<1>13. CASE UNCHANGED Forms!vars
  BY <1>13 DEF Forms!vars
<1> QED
  BY <1>1, <1>2, <1>3, <1>5, <1>6, <1>7, <1>8, <1>9, <1>10, <1>11, <1>12, <1>13 DEF Forms!Next

LEMMA FormsStart == ASSUME Forms!FormsAssumption, Forms!Init PROVE FormsInv
<1>1. IsFiniteSet(calls) /\ Forms!Cardinality(calls) = 0
  BY OneCardinality, FS_EmptySet DEF Forms!Init
<1>2. Forms!Cardinality(calls) <= MaxCalls
  BY <1>1 DEF Forms!FormsAssumption
<1>3. at \in Forms!Place
  BY DEF Forms!Init, Forms!Place
<1> QED
  BY <1>1, <1>2, <1>3 DEF FormsInv, Forms!Init, Forms!TypeOK

\* The values the pages' variables hold; the button of a save is disabled only
\* while a save of this page is in flight.
THEOREM FormsTypeCorrect == ASSUME Forms!FormsAssumption PROVE Forms!Spec => []Forms!TypeOK
<1>1. Forms!FormsAssumption /\ Forms!Init => FormsInv
  BY FormsStart
<1>2. Forms!FormsAssumption /\ FormsInv /\ [Forms!Next]_Forms!vars => FormsInv'
  BY FormsStep
<1>3. FormsInv => Forms!TypeOK
  BY DEF FormsInv
<1> QED
  BY Forms!FormsAssumption, <1>1, <1>2, <1>3, PTL DEF Forms!Spec

-----------------------------------------------------------------------------
(* The documents of an employee.                                             *)

Done(k) == {c \in calls : c.kind = k /\ c.state = "done"}

\* Numbers are given once: to a document, and with it to the calls about it.
IdsIssued ==
    /\ \A d, e \in stored : d.id = e.id => d = e
    /\ \A d, e \in documents : d.id = e.id => d = e
    /\ \A d \in stored \cup documents : d.id <= issued
    /\ \A c \in calls : c.at <= issued

IdleUnlessFound ==
    phase # "found" => calls = {} /\ documents = {} /\ metadataTarget = None /\ deleteTarget = None

\* Both forms are open for listed documents.
FormsListed ==
    /\ metadataTarget # None => \E d \in documents : d.id = metadataTarget
    /\ deleteTarget # None => \E d \in documents : d.id = deleteTarget

\* The dialog stays open during a delete and keeps the metadata form from being
\* opened for another document; it may have closed, when a change was answered.
DeleteModal ==
    \A c \in calls : c.kind = "delete" => deleteTarget = c.at /\ metadataTarget \in {c.form, None}

\* A new document is not listed before the answer, so that no form was open for it;
\* a change answers with the document it was sent for.
AnswersFit ==
    /\ \A c \in Done("upload") :
         /\ c.answer \in Pegawai!Doc /\ c.answer.id <= issued
         /\ \A d \in documents : d.id # c.answer.id
         /\ \A b \in calls : b.kind # "upload" => b.at # c.answer.id
    /\ \A c \in Done("metadata") : c.answer \in Pegawai!Doc /\ c.answer.id = c.at

\* What the list will show once the answers under way are folded into it, in
\* whatever order they arrive.
Shown(d) ==
    \/ \E c \in Done("upload") : d = c.answer
    \/ /\ \E e \in documents : e.id = d.id
       /\ \A c \in Done("delete") : c.at # d.id
       /\ \A c \in Done("metadata") : c.at = d.id => d = c.answer
       /\ (\A c \in Done("metadata") : c.at # d.id) => d \in documents

\* The server's documents are just that, unless an answer was lost.
ListFollows == phase = "found" /\ ~unsure => \A d \in Pegawai!Doc : d \in stored <=> Shown(d)

PegawaiInv ==
    /\ Pegawai!TypeOK /\ IdsIssued /\ IdleUnlessFound /\ FormsListed /\ DeleteModal
    /\ AnswersFit /\ ListFollows

\* Of the calls in flight one becomes another of its kind: n.
LEMMA CallServed ==
    ASSUME Pegawai!TypeOK, NEW c \in calls, NEW s \in {"done", "failed"},
           NEW a \in Pegawai!Doc \cup {None}, Pegawai!Served(c, s, a)
    PROVE  \E n \in Pegawai!Call :
             /\ n.kind = c.kind /\ n.at = c.at /\ n.form = c.form /\ n.state = s /\ n.answer = a
             /\ calls' = (calls \ {c}) \cup {n}
             /\ calls' \subseteq Pegawai!Call /\ \A b, d \in calls' : b.kind = d.kind => b = d
             /\ \A b \in calls' : \E d \in calls : b.kind = d.kind /\ b.at = d.at /\ b.form = d.form
             /\ \A k : Done(k)' = IF k = c.kind /\ s = "done" THEN {n} ELSE Done(k)
             /\ Done(c.kind) = {}
<1> DEFINE n == [c EXCEPT !.state = s, !.answer = a]
<1>1. /\ n \in Pegawai!Call /\ n.kind = c.kind /\ n.at = c.at /\ n.form = c.form
      /\ n.state = s /\ n.answer = a
  BY DEF Pegawai!TypeOK, Pegawai!Call
<1>2. c.state = "sent" /\ calls' = (calls \ {c}) \cup {n}
  BY DEF Pegawai!Served
<1> HIDE DEF n
<1>3. calls' \subseteq Pegawai!Call /\ \A b, d \in calls' : b.kind = d.kind => b = d
  BY <1>1, <1>2 DEF Pegawai!TypeOK
<1>4. \A b \in calls' : \E d \in calls : b.kind = d.kind /\ b.at = d.at /\ b.form = d.form
  BY <1>1, <1>2
<1>5. Done(c.kind) = {}
  BY <1>2 DEF Done, Pegawai!TypeOK
<1>6. ASSUME NEW k PROVE Done(k)' = IF k = c.kind /\ s = "done" THEN {n} ELSE Done(k)
  BY <1>1, <1>2 DEF Done, Pegawai!TypeOK
<1> QED
  BY <1>1, <1>2, <1>3, <1>4, <1>5, <1>6

\* An answer is folded in, or an error shown, and the call is over.
LEMMA CallEnded ==
    ASSUME Pegawai!TypeOK, NEW c \in calls, calls' = calls \ {c}
    PROVE  /\ calls' \subseteq calls
           /\ \A b \in calls' : b.kind # c.kind
           /\ \A k : Done(k)' = IF k = c.kind THEN {} ELSE Done(k)
           /\ Done(c.kind) = IF c.state = "done" THEN {c} ELSE {}
BY DEF Done, Pegawai!TypeOK

\* The forms: the server, the list and the calls stay.
LEMMA FormSteps ==
    ASSUME PegawaiInv, UNCHANGED <<stored, issued, phase, documents, calls, unsure>>,
           Pegawai!TypeOK', FormsListed', DeleteModal', phase = "found"
    PROVE  PegawaiInv'
<1>1. IdsIssued' /\ IdleUnlessFound'
  BY DEF PegawaiInv, IdsIssued, IdleUnlessFound
<1>2. \A k : Done(k)' = Done(k)
  BY DEF Done
<1>3. AnswersFit'
  BY <1>2 DEF PegawaiInv, AnswersFit
<1>4. ListFollows'
  BY <1>2 DEF PegawaiInv, ListFollows, Shown
<1> QED
  BY <1>1, <1>3, <1>4 DEF PegawaiInv

\* A handler sends its call, for the document its form is open for, or for none.
LEMMA SendStep ==
    ASSUME PegawaiInv, Pegawai!DocumentsAssumption, phase = "found",
           NEW k \in Pegawai!Kind, NEW t \in 0..MaxDocs, Pegawai!Send(k, t),
           t = 0 \/ \E d \in documents : d.id = t,
           k = "delete" => t = deleteTarget
    PROVE  PegawaiInv'
<1> DEFINE n == [kind |-> k, at |-> t, form |-> metadataTarget, state |-> "sent", answer |-> None]
<1> USE DEF PegawaiInv
<1>1. /\ calls' = calls \cup {n} /\ \A c \in calls : c.kind # k
      /\ UNCHANGED <<stored, issued, phase, documents, unsure>>
      /\ UNCHANGED <<uploadOpen, file, metadataTarget, deleteTarget>> /\ error' = FALSE
  BY DEF Pegawai!Send, Pegawai!Busy, Pegawai!server, Pegawai!forms
<1>2. /\ n \in Pegawai!Call /\ n.kind = k /\ n.at = t /\ n.form = metadataTarget
      /\ n.state = "sent"
  BY DEF Pegawai!TypeOK, Pegawai!Call
<1> HIDE DEF n
<1>3. Pegawai!TypeOK'
  BY <1>1, <1>2 DEF Pegawai!TypeOK
<1>4. t <= issued
  BY DEF IdsIssued, Pegawai!TypeOK
<1>5. IdsIssued' /\ IdleUnlessFound' /\ FormsListed' /\ DeleteModal'
  BY <1>1, <1>2, <1>4 DEF IdsIssued, IdleUnlessFound, FormsListed, DeleteModal
<1>6. \A i : Done(i)' = Done(i)
  BY <1>1, <1>2 DEF Done
<1>7. \A c \in Done("upload") : k # "upload" => t # c.answer.id
  BY <1>1 DEF AnswersFit, Done, Pegawai!Doc
<1>8. AnswersFit'
  BY <1>1, <1>2, <1>6, <1>7 DEF AnswersFit
<1>9. ListFollows'
  BY <1>1, <1>6 DEF ListFollows, Shown
<1> QED
  BY <1>3, <1>5, <1>8, <1>9

\* What the server does for a call keeps its numbering.
LEMMA EffectKeeps ==
    ASSUME PegawaiInv, Pegawai!DocumentsAssumption, NEW c \in calls, Pegawai!Effect(c)
    PROVE  /\ stored' \subseteq Pegawai!Doc /\ issued' \in 0..MaxDocs /\ issued <= issued'
           /\ \A d, e \in stored' : d.id = e.id => d = e
           /\ \A d \in stored' : d.id <= issued'
<1> USE DEF PegawaiInv, Pegawai!TypeOK, IdsIssued, Pegawai!DocumentsAssumption
<1>1. CASE /\ c.kind = "upload" /\ issued < MaxDocs /\ issued' = issued + 1
           /\ stored' = stored \cup {[id |-> issued + 1, version |-> 0]}
  <2>1. [id |-> issued + 1, version |-> 0] \in Pegawai!Doc
    BY <1>1 DEF Pegawai!Doc
  <2>2. \A d \in stored : d.id \in Nat
    BY DEF Pegawai!Doc
  <2> QED
    BY <1>1, <2>1, <2>2
<1>2. ASSUME NEW d \in stored, c.kind = "metadata", d.id = c.at, d.version < MaxVersion,
             stored' = (stored \ {d}) \cup {[d EXCEPT !.version = @ + 1]}, issued' = issued
      PROVE  /\ stored' \subseteq Pegawai!Doc /\ issued' \in 0..MaxDocs /\ issued <= issued'
             /\ \A e, f \in stored' : e.id = f.id => e = f
             /\ \A e \in stored' : e.id <= issued'
  <2> DEFINE n == [d EXCEPT !.version = @ + 1]
  <2>1. n \in Pegawai!Doc /\ n.id = d.id
    BY <1>2 DEF Pegawai!Doc
  <2>2. stored' = (stored \ {d}) \cup {n}
    BY <1>2
  <2> HIDE DEF n
  <2> QED
    BY <1>2, <2>1, <2>2
<1>3. ASSUME NEW d \in stored, stored' = stored \ {d}, issued' = issued
      PROVE  /\ stored' \subseteq Pegawai!Doc /\ issued' \in 0..MaxDocs /\ issued <= issued'
             /\ \A e, f \in stored' : e.id = f.id => e = f
             /\ \A e \in stored' : e.id <= issued'
  BY <1>3
<1> QED
  BY <1>1, <1>2, <1>3 DEF Pegawai!Effect

\* The document a call is answered with is the one it was about.
LEMMA AnswerAbout ==
    ASSUME PegawaiInv, Pegawai!DocumentsAssumption, NEW c \in calls, Pegawai!Effect(c),
           NEW a \in (stored \cup stored') \ (stored \cap stored'),
           c.kind = "delete" \/ a \in stored'
    PROVE  \/ /\ c.kind = "upload" /\ a.id = issued + 1 /\ issued' = issued + 1
              /\ stored' = stored \cup {a}
           \/ /\ c.kind = "metadata" /\ a.id = c.at /\ issued' = issued
              /\ \E d \in stored : d.id = c.at /\ stored' = (stored \ {d}) \cup {a}
           \/ /\ c.kind = "delete" /\ a.id = c.at /\ issued' = issued
              /\ a \in stored /\ stored' = stored \ {a}
<1>1. CASE /\ c.kind = "upload" /\ issued < MaxDocs /\ issued' = issued + 1
           /\ stored' = stored \cup {[id |-> issued + 1, version |-> 0]}
  BY <1>1
<1>2. ASSUME NEW d \in stored, c.kind = "metadata", d.id = c.at, d.version < MaxVersion,
             stored' = (stored \ {d}) \cup {[d EXCEPT !.version = @ + 1]}, issued' = issued
      PROVE  a.id = c.at /\ stored' = (stored \ {d}) \cup {a}
  <2> DEFINE n == [d EXCEPT !.version = @ + 1]
  <2>1. n.id = d.id
    BY DEF PegawaiInv, Pegawai!TypeOK, Pegawai!Doc
  <2>2. stored' = (stored \ {d}) \cup {n}
    BY <1>2
  <2> HIDE DEF n
  <2>3. a = n
    BY <1>2, <2>2
  <2> QED
    BY <1>2, <2>1, <2>2, <2>3
<1>3. ASSUME NEW d \in stored, c.kind = "delete", d.id = c.at, stored' = stored \ {d}, issued' = issued
      PROVE  a.id = c.at /\ a \in stored /\ stored' = stored \ {a}
  BY <1>3
<1> QED
  BY <1>1, <1>2, <1>3 DEF Pegawai!Effect

\* A call is served: all but what the list follows.
LEMMA ServeKeeps ==
    ASSUME PegawaiInv, Pegawai!DocumentsAssumption, NEW c \in calls,
           Pegawai!Effect(c) \/ UNCHANGED <<stored, issued>>,
           NEW s \in {"done", "failed"}, NEW a \in Pegawai!Doc \cup {None},
           Pegawai!Served(c, s, a), unsure' \in BOOLEAN,
           s = "done" /\ c.kind = "upload" => a \in Pegawai!Doc /\ a.id = issued + 1 /\ issued' = issued + 1,
           s = "done" /\ c.kind = "metadata" => a \in Pegawai!Doc /\ a.id = c.at
    PROVE  /\ Pegawai!TypeOK' /\ IdsIssued' /\ IdleUnlessFound' /\ FormsListed' /\ DeleteModal'
           /\ AnswersFit'
<1> USE DEF PegawaiInv
<1>1. /\ stored' \subseteq Pegawai!Doc /\ issued' \in 0..MaxDocs /\ issued <= issued'
      /\ \A d, e \in stored' : d.id = e.id => d = e
      /\ \A d \in stored' : d.id <= issued'
  BY EffectKeeps DEF Pegawai!TypeOK, IdsIssued
<1>2. PICK n \in Pegawai!Call :
        /\ n.kind = c.kind /\ n.at = c.at /\ n.form = c.form /\ n.state = s /\ n.answer = a
        /\ calls' = (calls \ {c}) \cup {n}
        /\ calls' \subseteq Pegawai!Call /\ \A b, d \in calls' : b.kind = d.kind => b = d
        /\ \A b \in calls' : \E d \in calls : b.kind = d.kind /\ b.at = d.at /\ b.form = d.form
        /\ \A k : Done(k)' = IF k = c.kind /\ s = "done" THEN {n} ELSE Done(k)
        /\ Done(c.kind) = {}
  BY CallServed
<1>3. UNCHANGED <<phase, documents, uploadOpen, file, metadataTarget, deleteTarget, error>>
  BY DEF Pegawai!Served, Pegawai!forms
<1>4. Pegawai!TypeOK'
  BY <1>1, <1>2, <1>3 DEF Pegawai!TypeOK
<1>5. /\ \A d \in documents : d.id \in Nat
      /\ \A d \in stored' : d.id \in Nat
      /\ \A b \in calls : b.at \in Nat
      /\ issued \in Nat /\ issued' \in Nat
  BY <1>1 DEF Pegawai!TypeOK, Pegawai!Doc, Pegawai!Call
<1>6. IdsIssued'
  <2>1. \A b \in calls' : b.at <= issued'
    BY <1>1, <1>2, <1>5 DEF IdsIssued
  <2>2. \A d \in documents' : d.id <= issued'
    BY <1>1, <1>3, <1>5 DEF IdsIssued
  <2> QED
    BY <1>1, <1>3, <2>1, <2>2 DEF IdsIssued
<1>7. IdleUnlessFound' /\ FormsListed'
  BY <1>2, <1>3 DEF IdleUnlessFound, FormsListed
<1>8. DeleteModal'
  BY <1>2, <1>3 DEF DeleteModal
<1>9. ASSUME NEW b \in Done("upload")'
      PROVE  /\ b.answer \in Pegawai!Doc /\ b.answer.id <= issued'
             /\ \A d \in documents' : d.id # b.answer.id
             /\ \A e \in calls' : e.kind # "upload" => e.at # b.answer.id
  <2>1. CASE b = n /\ s = "done" /\ c.kind = "upload"
    <3>1. \A d \in documents : d.id # a.id
      BY <1>5, <2>1 DEF IdsIssued
    <3>2. \A e \in calls : e.at # a.id
      BY <1>5, <2>1 DEF IdsIssued
    <3> QED
      BY <1>2, <1>3, <1>5, <2>1, <3>1, <3>2
  <2>2. CASE b \in Done("upload")
    <3>1. /\ b.answer \in Pegawai!Doc /\ b.answer.id <= issued
          /\ \A d \in documents : d.id # b.answer.id
          /\ \A e \in calls : e.kind # "upload" => e.at # b.answer.id
      BY <2>2 DEF AnswersFit
    <3>2. b.answer.id \in Nat
      BY <3>1 DEF Pegawai!Doc
    <3> QED
      BY <1>1, <1>2, <1>3, <1>5, <3>1, <3>2
  <2> QED
    BY <1>2, <1>9, <2>1, <2>2
<1>10. ASSUME NEW b \in Done("metadata")'
       PROVE  b.answer \in Pegawai!Doc /\ b.answer.id = b.at
  BY <1>2, <1>10 DEF AnswersFit
<1> QED
  BY <1>4, <1>6, <1>7, <1>8, <1>9, <1>10 DEF AnswersFit

\* A call is served and will be answered: the answer makes up for what changed.
LEMMA ServeStep ==
    ASSUME PegawaiInv, Pegawai!DocumentsAssumption, NEW c \in calls, Pegawai!Serve(c)
    PROVE  PegawaiInv'
<1> USE DEF PegawaiInv
<1>1. PICK a \in (stored \cup stored') \ (stored \cap stored') :
        (c.kind = "delete" \/ a \in stored') /\ Pegawai!Served(c, "done", a)
  BY DEF Pegawai!Serve
<1>2. \/ /\ c.kind = "upload" /\ a.id = issued + 1 /\ issued' = issued + 1
         /\ stored' = stored \cup {a}
      \/ /\ c.kind = "metadata" /\ a.id = c.at /\ issued' = issued
         /\ \E d \in stored : d.id = c.at /\ stored' = (stored \ {d}) \cup {a}
      \/ /\ c.kind = "delete" /\ a.id = c.at /\ issued' = issued
         /\ a \in stored /\ stored' = stored \ {a}
  BY <1>1, AnswerAbout DEF Pegawai!Serve
<1>3. a \in Pegawai!Doc
  BY <1>1, EffectKeeps DEF Pegawai!Serve, Pegawai!TypeOK
<1>4. unsure' = unsure /\ unsure \in BOOLEAN
  BY DEF Pegawai!Serve, Pegawai!TypeOK
<1>5. /\ Pegawai!TypeOK' /\ IdsIssued' /\ IdleUnlessFound' /\ FormsListed' /\ DeleteModal'
      /\ AnswersFit'
  BY <1>1, <1>2, <1>3, <1>4, ServeKeeps DEF Pegawai!Serve
<1>6. PICK n \in Pegawai!Call :
        /\ n.kind = c.kind /\ n.at = c.at /\ n.state = "done" /\ n.answer = a
        /\ calls' = (calls \ {c}) \cup {n}
        /\ \A k : Done(k)' = IF k = c.kind THEN {n} ELSE Done(k)
        /\ Done(c.kind) = {}
  BY <1>1, <1>3, CallServed
<1>7. UNCHANGED <<phase, documents>>
  BY <1>1 DEF Pegawai!Served
<1>8. SUFFICES ASSUME phase = "found", ~unsure, NEW x \in Pegawai!Doc PROVE (x \in stored <=> Shown(x))'
  BY <1>4, <1>5, <1>7 DEF ListFollows
<1>9. x \in stored <=> Shown(x)
  BY <1>8 DEF ListFollows
<1>10. \A d \in Done("upload") : d.answer.id # c.at \/ c.kind = "upload"
  BY DEF AnswersFit
<1>11. CASE c.kind = "upload"
  <2>1. /\ Done("upload") = {} /\ Done("upload")' = {n}
        /\ Done("delete")' = Done("delete") /\ Done("metadata")' = Done("metadata")
    BY <1>6, <1>11
  <2>2. stored' = stored \cup {a}
    BY <1>2, <1>11
  <2> QED
    BY <1>6, <1>7, <1>9, <2>1, <2>2 DEF Shown
<1>12. CASE c.kind = "metadata"
  <2>1. /\ Done("metadata") = {} /\ Done("metadata")' = {n}
        /\ Done("delete")' = Done("delete") /\ Done("upload")' = Done("upload")
    BY <1>6, <1>12
  <2>2. PICK d \in stored : d.id = c.at /\ stored' = (stored \ {d}) \cup {a}
    BY <1>2, <1>12
  <2>3. a.id = c.at
    BY <1>2, <1>12
  <2>4. CASE x.id = c.at
    <3>1. x \in stored' <=> x = a
      BY <2>2, <2>3, <2>4 DEF IdsIssued
    <3>2. d \in Pegawai!Doc /\ Shown(d)
      BY <1>8, <2>2 DEF ListFollows, Pegawai!TypeOK
    <3>3. \A b \in Done("upload") : b.answer.id # x.id
      BY <1>10, <1>12, <2>4
    <3>4. d \in documents /\ \A b \in Done("delete") : b.at # d.id
      BY <2>1, <2>2, <2>4, <3>2, <3>3 DEF Shown
    <3>5. Shown(x)' <=> x = a
      BY <1>6, <1>7, <2>1, <2>2, <2>3, <2>4, <3>3, <3>4 DEF Shown
    <3> QED
      BY <3>1, <3>5
  <2>5. CASE x.id # c.at
    <3>1. x \in stored' <=> x \in stored
      BY <2>2, <2>3, <2>5
    <3>2. Shown(x)' <=> Shown(x)
      BY <1>6, <1>7, <2>1, <2>5 DEF Shown
    <3> QED
      BY <1>9, <3>1, <3>2
  <2> QED
    BY <2>4, <2>5
<1>13. CASE c.kind = "delete"
  <2>1. /\ Done("delete") = {} /\ Done("delete")' = {n}
        /\ Done("metadata")' = Done("metadata") /\ Done("upload")' = Done("upload")
    BY <1>6, <1>13
  <2>2. stored' = stored \ {a} /\ a \in stored /\ a.id = c.at
    BY <1>2, <1>13
  <2>3. CASE x.id = c.at
    <3>1. x \notin stored'
      BY <2>2, <2>3 DEF IdsIssued
    <3>2. ~ Shown(x)'
      BY <1>6, <1>10, <1>13, <2>1, <2>3 DEF Shown
    <3> QED
      BY <3>1, <3>2
  <2>4. CASE x.id # c.at
    <3>1. x \in stored' <=> x \in stored
      BY <2>2, <2>4
    <3>2. Shown(x)' <=> Shown(x)
      BY <1>6, <1>7, <2>1, <2>4 DEF Shown
    <3> QED
      BY <1>9, <3>1, <3>2
  <2> QED
    BY <2>3, <2>4
<1> QED
  BY <1>2, <1>11, <1>12, <1>13

\* It fails, having taken effect or not: then nothing is to be folded in.
LEMMA FailStep ==
    ASSUME PegawaiInv, Pegawai!DocumentsAssumption, NEW c \in calls,
           Pegawai!LoseAnswer(c) \/ Pegawai!Refuse(c)
    PROVE  PegawaiInv'
<1> USE DEF PegawaiInv
<1>1. /\ Pegawai!Served(c, "failed", None) /\ unsure' \in BOOLEAN
      /\ Pegawai!Effect(c) \/ UNCHANGED <<stored, issued>>
  BY DEF Pegawai!LoseAnswer, Pegawai!Refuse, Pegawai!server, Pegawai!TypeOK
<1>2. /\ Pegawai!TypeOK' /\ IdsIssued' /\ IdleUnlessFound' /\ FormsListed' /\ DeleteModal'
      /\ AnswersFit'
  BY <1>1, ServeKeeps
<1>3. CASE Pegawai!LoseAnswer(c)
  BY <1>2, <1>3 DEF Pegawai!LoseAnswer, ListFollows
<1>4. CASE Pegawai!Refuse(c)
  <2>1. UNCHANGED <<stored, unsure, phase, documents>>
    BY <1>4 DEF Pegawai!Refuse, Pegawai!Served, Pegawai!server
  <2>2. \A k : Done(k)' = Done(k)
    BY <1>1, CallServed
  <2>3. ListFollows'
    BY <2>1, <2>2 DEF ListFollows, Shown
  <2> QED
    BY <1>2, <2>3
<1> QED
  BY <1>3, <1>4

\* An answer is folded in; what the list will show in the end stays.
LEMMA AnswerStep ==
    ASSUME PegawaiInv, Pegawai!DocumentsAssumption, NEW c \in calls,
           \/ Pegawai!Uploaded(c) \/ Pegawai!MetadataUpdated(c)
           \/ Pegawai!Deleted(c) \/ Pegawai!Failed(c)
    PROVE  PegawaiInv'
<1> USE DEF PegawaiInv
<1>1. /\ calls' = calls \ {c} /\ UNCHANGED <<stored, issued, phase, unsure>>
      /\ c \in Pegawai!Call /\ c.state \in {"done", "failed"}
  BY DEF Pegawai!Uploaded, Pegawai!MetadataUpdated, Pegawai!Deleted, Pegawai!Failed,
         Pegawai!server, Pegawai!TypeOK
<1>2. /\ calls' \subseteq calls
      /\ \A b \in calls' : b.kind # c.kind
      /\ \A k : Done(k)' = IF k = c.kind THEN {} ELSE Done(k)
      /\ Done(c.kind) = IF c.state = "done" THEN {c} ELSE {}
  BY <1>1, CallEnded
<1>3. phase = "found"
  BY DEF IdleUnlessFound
<1>4. CASE Pegawai!Uploaded(c)
  <2>1. /\ c.state = "done" /\ c.kind = "upload" /\ documents' = documents \cup {c.answer}
        /\ uploadOpen' = FALSE /\ file' = None
        /\ UNCHANGED <<metadataTarget, deleteTarget, error>>
    BY <1>4 DEF Pegawai!Uploaded, Pegawai!ResetUpload
  <2>2. /\ Done("upload") = {c} /\ Done("upload")' = {}
        /\ Done("metadata")' = Done("metadata") /\ Done("delete")' = Done("delete")
    BY <1>2, <2>1
  <2>3. /\ c.answer \in Pegawai!Doc /\ c.answer.id <= issued
        /\ \A d \in documents : d.id # c.answer.id
        /\ \A b \in calls : b.kind # "upload" => b.at # c.answer.id
    BY <2>2 DEF AnswersFit
  <2>4. Pegawai!TypeOK'
    BY <1>1, <1>2, <2>1, <2>3 DEF Pegawai!TypeOK
  <2>5. IdsIssued' /\ IdleUnlessFound' /\ FormsListed' /\ DeleteModal'
    BY <1>1, <1>2, <1>3, <2>1, <2>3 DEF IdsIssued, IdleUnlessFound, FormsListed, DeleteModal
  <2>6. AnswersFit'
    BY <2>2 DEF AnswersFit
  <2>7. \A b \in Done("metadata") \cup Done("delete") : b.at # c.answer.id
    BY <2>3 DEF Done
  <2>8. \A x \in Pegawai!Doc : Shown(x)' <=> Shown(x)
    BY <2>1, <2>2, <2>3, <2>7 DEF Shown
  <2>9. ListFollows'
    BY <1>1, <2>8 DEF ListFollows
  <2> QED
    BY <2>4, <2>5, <2>6, <2>9
<1>5. CASE Pegawai!MetadataUpdated(c)
  <2>1. /\ c.state = "done" /\ c.kind = "metadata"
        /\ documents' = {IF d.id = c.answer.id THEN c.answer ELSE d : d \in documents}
        /\ metadataTarget' = None
        /\ UNCHANGED <<uploadOpen, file, deleteTarget, error>>
    BY <1>5 DEF Pegawai!MetadataUpdated
  <2>2. /\ Done("metadata") = {c} /\ Done("metadata")' = {}
        /\ Done("upload")' = Done("upload") /\ Done("delete")' = Done("delete")
    BY <1>2, <2>1
  <2>3. c.answer \in Pegawai!Doc /\ c.answer.id = c.at
    BY <2>2 DEF AnswersFit
  <2>4. /\ \A d \in documents' : \E e \in documents : e.id = d.id
        /\ \A e \in documents : \E d \in documents' : e.id = d.id
        /\ \A d : d \in documents' <=>
             \/ d \in documents /\ d.id # c.at
             \/ d = c.answer /\ \E e \in documents : e.id = c.at
    BY <2>1, <2>3
  <2>5. Pegawai!TypeOK'
    BY <1>1, <1>2, <2>1, <2>3 DEF Pegawai!TypeOK
  <2>6. IdsIssued'
    BY <1>1, <1>2, <2>3, <2>4 DEF IdsIssued
  <2>7. IdleUnlessFound' /\ FormsListed' /\ DeleteModal'
    BY <1>1, <1>2, <1>3, <2>1, <2>4 DEF IdleUnlessFound, FormsListed, DeleteModal
  <2>8. AnswersFit'
    BY <1>1, <1>2, <2>2, <2>4 DEF AnswersFit
  <2>9. \A x \in Pegawai!Doc : Shown(x)' <=> Shown(x)
    <3> SUFFICES ASSUME NEW x \in Pegawai!Doc PROVE Shown(x)' <=> Shown(x)
      OBVIOUS
    <3>1. (\E e \in documents : e.id = x.id)' <=> \E e \in documents : e.id = x.id
      BY <2>4
    <3>2. CASE x.id = c.at
      BY <2>2, <2>3, <2>4, <3>1, <3>2 DEF Shown
    <3>3. CASE x.id # c.at
      BY <2>2, <2>3, <2>4, <3>1, <3>3 DEF Shown
    <3> QED
      BY <3>2, <3>3
  <2>10. ListFollows'
    BY <1>1, <2>9 DEF ListFollows
  <2> QED
    BY <2>5, <2>6, <2>7, <2>8, <2>10
<1>6. CASE Pegawai!Deleted(c)
  <2>1. /\ c.state = "done" /\ c.kind = "delete"
        /\ documents' = {d \in documents : d.id # c.at}
        /\ deleteTarget' = None
        /\ metadataTarget' = IF c.form = c.at THEN None ELSE metadataTarget
        /\ UNCHANGED <<uploadOpen, file, error>>
    BY <1>6 DEF Pegawai!Deleted
  <2>2. /\ Done("delete") = {c} /\ Done("delete")' = {}
        /\ Done("upload")' = Done("upload") /\ Done("metadata")' = Done("metadata")
    BY <1>2, <2>1
  <2>3. Pegawai!TypeOK'
    BY <1>1, <1>2, <2>1 DEF Pegawai!TypeOK
  <2>4. IdsIssued' /\ IdleUnlessFound'
    BY <1>1, <1>2, <1>3, <2>1 DEF IdsIssued, IdleUnlessFound
  <2>5. FormsListed'
    <3>1. metadataTarget \in {c.form, None}
      BY <2>1 DEF DeleteModal
    <3> QED
      BY <2>1, <3>1 DEF FormsListed
  <2>6. DeleteModal'
    BY <1>2, <2>1 DEF DeleteModal
  <2>7. AnswersFit'
    BY <1>1, <1>2, <2>1, <2>2 DEF AnswersFit
  <2>8. \A b \in Done("upload") : b.answer.id # c.at
    BY <2>1 DEF AnswersFit
  <2>9. \A x \in Pegawai!Doc : Shown(x)' <=> Shown(x)
    BY <2>1, <2>2, <2>8 DEF Shown
  <2>10. ListFollows'
    BY <1>1, <2>9 DEF ListFollows
  <2> QED
    BY <2>3, <2>4, <2>5, <2>6, <2>7, <2>10
<1>7. CASE Pegawai!Failed(c)
  <2>1. /\ c.state = "failed" /\ error' = TRUE
        /\ UNCHANGED <<documents, uploadOpen, file, metadataTarget, deleteTarget>>
    BY <1>7 DEF Pegawai!Failed, Pegawai!forms
  <2>2. \A k : Done(k)' = Done(k)
    BY <1>2, <2>1
  <2>3. Pegawai!TypeOK'
    BY <1>1, <1>2, <2>1 DEF Pegawai!TypeOK
  <2>4. IdsIssued' /\ IdleUnlessFound' /\ FormsListed' /\ DeleteModal'
    BY <1>1, <1>2, <1>3, <2>1 DEF IdsIssued, IdleUnlessFound, FormsListed, DeleteModal
  <2>5. AnswersFit' /\ ListFollows'
    BY <1>1, <1>2, <2>1, <2>2 DEF AnswersFit, ListFollows, Shown
  <2> QED
    BY <2>3, <2>4, <2>5
<1> QED
  BY <1>4, <1>5, <1>6, <1>7

LEMMA PegawaiStep ==
    ASSUME PegawaiInv, Pegawai!DocumentsAssumption, [Pegawai!Next]_Pegawai!vars
    PROVE  PegawaiInv'
<1> USE DEF PegawaiInv
<1>1. CASE Pegawai!Loaded
  <2>1. /\ phase # "found" /\ phase' = "found" /\ documents' = stored
        /\ UNCHANGED <<stored, issued, uploadOpen, file, metadataTarget, deleteTarget, calls, unsure>>
        /\ error' = FALSE
    BY <1>1 DEF Pegawai!Loaded, Pegawai!server, Pegawai!forms
  <2>2. calls = {} /\ metadataTarget = None /\ deleteTarget = None
    BY <2>1 DEF IdleUnlessFound
  <2>3. Pegawai!TypeOK'
    BY <2>1 DEF Pegawai!TypeOK
  <2>4. IdsIssued' /\ IdleUnlessFound' /\ FormsListed' /\ DeleteModal'
    BY <2>1, <2>2 DEF IdsIssued, IdleUnlessFound, FormsListed, DeleteModal
  <2>5. AnswersFit' /\ ListFollows'
    BY <2>1, <2>2 DEF AnswersFit, ListFollows, Shown, Done
  <2> QED
    BY <2>3, <2>4, <2>5
<1>2. CASE Pegawai!LoadFailed
  <2>1. /\ phase # "found" /\ phase' = "missing"
        /\ UNCHANGED <<stored, issued, documents, uploadOpen, file, metadataTarget, deleteTarget,
                       calls, unsure>>
        /\ error' = TRUE
    BY <1>2 DEF Pegawai!LoadFailed, Pegawai!server, Pegawai!forms
  <2>2. Pegawai!TypeOK'
    BY <2>1 DEF Pegawai!TypeOK
  <2>3. IdsIssued' /\ IdleUnlessFound' /\ FormsListed' /\ DeleteModal'
    BY <2>1 DEF IdsIssued, IdleUnlessFound, FormsListed, DeleteModal
  <2>4. AnswersFit' /\ ListFollows'
    BY <2>1 DEF AnswersFit, ListFollows, Done
  <2> QED
    BY <2>2, <2>3, <2>4
<1>3. CASE \/ Pegawai!ToggleUpload \/ Pegawai!CancelUpload
           \/ \E f \in Pegawai!File \cup {None} : Pegawai!ChooseFile(f)
  <2>1. /\ phase = "found"
        /\ UNCHANGED <<stored, issued, phase, documents, metadataTarget, deleteTarget, error,
                       calls, unsure>>
        /\ uploadOpen' \in BOOLEAN /\ file' \in Pegawai!File \cup {None}
    BY <1>3 DEF Pegawai!ToggleUpload, Pegawai!CancelUpload, Pegawai!ChooseFile, Pegawai!Ready,
                Pegawai!ResetUpload, Pegawai!server, Pegawai!TypeOK
  <2>2. Pegawai!TypeOK'
    BY <2>1 DEF Pegawai!TypeOK
  <2>3. FormsListed' /\ DeleteModal'
    BY <2>1 DEF FormsListed, DeleteModal
  <2> QED
    BY <2>1, <2>2, <2>3, FormSteps
<1>4. ASSUME NEW d \in documents, Pegawai!StartMetadata(d) \/ Pegawai!AskDelete(d) PROVE PegawaiInv'
  <2>1. /\ phase = "found" /\ deleteTarget = None
        /\ UNCHANGED <<stored, issued, phase, documents, uploadOpen, file, calls, unsure>>
        /\ error' \in BOOLEAN
        /\ \/ metadataTarget' = d.id /\ deleteTarget' = None
           \/ deleteTarget' = d.id /\ metadataTarget' = metadataTarget
    BY <1>4 DEF Pegawai!StartMetadata, Pegawai!AskDelete, Pegawai!Ready, Pegawai!server,
                Pegawai!TypeOK
  <2>2. d.id \in 1..MaxDocs /\ d.id # None
    BY DEF Pegawai!TypeOK, Pegawai!Doc, Pegawai!DocumentsAssumption
  <2>3. Pegawai!TypeOK'
    BY <2>1, <2>2 DEF Pegawai!TypeOK
  <2>4. \A c \in calls : c.kind # "delete"
    <3>1. \A c \in calls : c.at # None
      BY DEF Pegawai!TypeOK, Pegawai!Call, Pegawai!DocumentsAssumption
    <3> QED
      BY <2>1, <3>1 DEF DeleteModal
  <2>5. FormsListed' /\ DeleteModal'
    BY <2>1, <2>4 DEF FormsListed, DeleteModal
  <2> QED
    BY <2>1, <2>3, <2>5, FormSteps
<1>5. CASE Pegawai!CancelMetadata \/ Pegawai!CloseDialog
  <2>1. /\ UNCHANGED <<stored, issued, phase, documents, uploadOpen, file, error, calls, unsure>>
        /\ metadataTarget' \in {metadataTarget, None} /\ deleteTarget' \in {deleteTarget, None}
        /\ deleteTarget' = deleteTarget \/ \A c \in calls : c.kind # "delete"
    BY <1>5 DEF Pegawai!CancelMetadata, Pegawai!CloseDialog, Pegawai!Busy, Pegawai!server
  <2>2. phase = "found"
    BY <1>5 DEF Pegawai!CancelMetadata, Pegawai!CloseDialog, Pegawai!Ready, IdleUnlessFound
  <2>3. Pegawai!TypeOK'
    BY <2>1 DEF Pegawai!TypeOK
  <2>4. FormsListed' /\ DeleteModal'
    BY <2>1 DEF FormsListed, DeleteModal
  <2> QED
    BY <2>1, <2>2, <2>3, <2>4, FormSteps
<1>6. CASE Pegawai!SubmitUpload
  BY <1>6, SendStep
     DEF Pegawai!SubmitUpload, Pegawai!Ready, Pegawai!Kind, Pegawai!DocumentsAssumption
<1>7. CASE Pegawai!SubmitMetadata
  <2>1. phase = "found" /\ metadataTarget \in 0..MaxDocs /\ Pegawai!Send("metadata", metadataTarget)
    BY <1>7 DEF Pegawai!SubmitMetadata, Pegawai!Ready, Pegawai!TypeOK
  <2>2. \E d \in documents : d.id = metadataTarget
    BY <1>7 DEF Pegawai!SubmitMetadata, FormsListed
  <2> QED
    BY <2>1, <2>2, SendStep DEF Pegawai!Kind
<1>8. CASE Pegawai!ConfirmDelete
  <2>1. phase = "found" /\ deleteTarget \in 0..MaxDocs /\ Pegawai!Send("delete", deleteTarget)
    BY <1>8 DEF Pegawai!ConfirmDelete, IdleUnlessFound, Pegawai!TypeOK
  <2>2. \E d \in documents : d.id = deleteTarget
    BY <1>8 DEF Pegawai!ConfirmDelete, FormsListed
  <2> QED
    BY <2>1, <2>2, SendStep DEF Pegawai!Kind
<1>9. ASSUME NEW c \in calls, Pegawai!CallStep(c) PROVE PegawaiInv'
  BY <1>9, ServeStep, FailStep, AnswerStep DEF Pegawai!CallStep
<1>10. CASE UNCHANGED Pegawai!vars
  <2>1. UNCHANGED <<stored, issued, phase, documents, uploadOpen, file, metadataTarget,
                    deleteTarget, error, calls, unsure>>
    BY <1>10 DEF Pegawai!vars, Pegawai!server, Pegawai!forms
  <2>2. Pegawai!TypeOK'
    BY <2>1 DEF Pegawai!TypeOK
  <2>3. IdsIssued' /\ IdleUnlessFound' /\ FormsListed' /\ DeleteModal'
    BY <2>1 DEF IdsIssued, IdleUnlessFound, FormsListed, DeleteModal
  <2>4. \A k : Done(k)' = Done(k)
    BY <2>1 DEF Done
  <2>5. AnswersFit' /\ ListFollows'
    BY <2>1, <2>4 DEF AnswersFit, ListFollows, Shown
  <2> QED
    BY <2>2, <2>3, <2>5
<1> QED
  BY <1>1, <1>2, <1>3, <1>4, <1>5, <1>6, <1>7, <1>8, <1>9, <1>10 DEF Pegawai!Next

LEMMA PegawaiStart ==
    ASSUME Pegawai!DocumentsAssumption, Pegawai!Init PROVE PegawaiInv
<1>1. /\ issued \in 0..MaxDocs /\ stored = {[id |-> i, version |-> 0] : i \in 1..issued}
      /\ phase = "loading" /\ documents = {} /\ uploadOpen = FALSE /\ file = None
      /\ metadataTarget = None /\ deleteTarget = None
      /\ error = FALSE /\ calls = {} /\ unsure = FALSE
  BY DEF Pegawai!Init
<1>2. \A d \in stored : d \in Pegawai!Doc /\ d.version = 0 /\ d.id <= issued
  BY <1>1 DEF Pegawai!Doc, Pegawai!DocumentsAssumption
<1>3. \A d, e \in stored : d.id = e.id => d = e
  BY <1>1
<1>4. Pegawai!TypeOK
  BY <1>1, <1>2 DEF Pegawai!TypeOK
<1>5. IdsIssued /\ IdleUnlessFound /\ FormsListed /\ DeleteModal
  BY <1>1, <1>2, <1>3 DEF IdsIssued, IdleUnlessFound, FormsListed, DeleteModal
<1>6. AnswersFit /\ ListFollows
  BY <1>1 DEF AnswersFit, ListFollows, Done
<1> QED
  BY <1>4, <1>5, <1>6 DEF PegawaiInv

LEMMA PegawaiInvHolds == ASSUME Pegawai!DocumentsAssumption PROVE Pegawai!Spec => []PegawaiInv
<1>1. Pegawai!DocumentsAssumption /\ Pegawai!Init => PegawaiInv
  BY PegawaiStart
<1>2. Pegawai!DocumentsAssumption /\ PegawaiInv /\ [Pegawai!Next]_Pegawai!vars => PegawaiInv'
  BY PegawaiStep
<1> QED
  BY Pegawai!DocumentsAssumption, <1>1, <1>2, PTL DEF Pegawai!Spec

LEMMA PegawaiFollows == PegawaiInv => Pegawai!DocumentsMatch /\ Pegawai!FormHasDocument
<1>1. PegawaiInv => Pegawai!DocumentsMatch
  <2> SUFFICES ASSUME PegawaiInv, phase = "found", calls = {}, ~unsure PROVE documents = stored
    BY DEF Pegawai!DocumentsMatch
  <2>1. \A k : Done(k) = {}
    BY DEF Done
  <2>2. \A d \in Pegawai!Doc : d \in stored <=> d \in documents
    BY <2>1 DEF PegawaiInv, ListFollows, Shown
  <2> QED
    BY <2>2 DEF PegawaiInv, Pegawai!TypeOK
<1>2. PegawaiInv => Pegawai!FormHasDocument
  BY DEF PegawaiInv, FormsListed, Pegawai!FormHasDocument
<1> QED
  BY <1>1, <1>2

\* The values the page and the server hold; one call of a kind is in flight.
THEOREM PegawaiTypeCorrect ==
    ASSUME Pegawai!DocumentsAssumption PROVE Pegawai!Spec => []Pegawai!TypeOK
<1>1. PegawaiInv => Pegawai!TypeOK
  BY DEF PegawaiInv
<1> QED
  BY Pegawai!DocumentsAssumption, PegawaiInvHolds, <1>1, PTL

\* The list of documents is the server's once nothing is in flight, however an
\* upload, a change and a delete overtook each other.
THEOREM DocumentsFollowServer ==
    ASSUME Pegawai!DocumentsAssumption PROVE Pegawai!Spec => []Pegawai!DocumentsMatch
<1>1. PegawaiInv => Pegawai!DocumentsMatch
  BY PegawaiFollows
<1> QED
  BY Pegawai!DocumentsAssumption, PegawaiInvHolds, <1>1, PTL

\* The metadata form is open for a listed document only, whatever was deleted while
\* it was.
THEOREM FormFollowsList ==
    ASSUME Pegawai!DocumentsAssumption PROVE Pegawai!Spec => []Pegawai!FormHasDocument
<1>1. PegawaiInv => Pegawai!FormHasDocument
  BY PegawaiFollows
<1> QED
  BY Pegawai!DocumentsAssumption, PegawaiInvHolds, <1>1, PTL

-----------------------------------------------------------------------------
(* The sheet of approval, for any number of records and lines of text.       *)

LEMMA LesserOfTwo == \A a, b \in Nat : Files!Min({a, b}) = IF a <= b THEN a ELSE b
<1> SUFFICES ASSUME NEW a \in Nat, NEW b \in Nat
             PROVE  Files!Min({a, b}) = IF a <= b THEN a ELSE b
  OBVIOUS
<1>1. Files!Min({a, b}) = CHOOSE x \in {a, b} : \A y \in {a, b} : x <= y
  BY DEF Files!Min
<1>2. \A x \in {a, b} : (\A y \in {a, b} : x <= y) <=> x = IF a <= b THEN a ELSE b
  OBVIOUS
<1> QED
  BY <1>1, <1>2

LEMMA GreaterOfTwo == \A a, b \in Nat : Files!Max({a, b}) = IF a >= b THEN a ELSE b
<1> SUFFICES ASSUME NEW a \in Nat, NEW b \in Nat
             PROVE  Files!Max({a, b}) = IF a >= b THEN a ELSE b
  OBVIOUS
<1>1. Files!Max({a, b}) = CHOOSE x \in {a, b} : \A y \in {a, b} : x >= y
  BY DEF Files!Max
<1>2. \A x \in {a, b} : (\A y \in {a, b} : x >= y) <=> x = IF a >= b THEN a ELSE b
  OBVIOUS
<1> QED
  BY <1>1, <1>2

\* A row of fitted cells is at most three lines high.  Those lines end within it, and
\* twice as many less than 7 mm below it.
LEMMA RowsAreLow ==
    ASSUME Files!ExportsAssumption, NEW two \in TextLines, NEW three \in TextLines
    PROVE  /\ Files!RowHeight(two, three) \in 80..129
           /\ Files!Lines(two, three) \in 1..3
           /\ Files!TextEnd(Files!Lines(two, three)) <= Files!RowHeight(two, three)
           /\ \A lines \in Files!Redrawn(Files!Lines(two, three)) :
                 /\ lines \in Nat /\ Files!TextEnd(lines) \in Nat
                 /\ Files!TextEnd(lines) <= Files!RowHeight(two, three) + 70
<1>1. two \in Nat \ {0} /\ three \in Nat \ {0}
  BY DEF Files!ExportsAssumption
<1>2. Files!Fitted(two, 2) \in 1..2 /\ Files!Fitted(three, 3) \in 1..3
  <2>1. /\ Files!Fitted(two, 2) = IF two <= 2 THEN two ELSE 2
        /\ Files!Fitted(three, 3) = IF three <= 3 THEN three ELSE 3
    BY <1>1, LesserOfTwo DEF Files!Fitted
  <2> QED
    BY <1>1, <2>1
<1> DEFINE m == Files!Lines(two, three)
<1>3. m \in 1..3
  BY <1>2, GreaterOfTwo DEF Files!Lines
<1> HIDE DEF m
<1>4. Files!RowHeight(two, three) = IF 80 >= 33 * m + 30 THEN 80 ELSE 33 * m + 30
  <2>1. 80 \in Nat /\ 33 * m + 30 \in Nat
    BY <1>3
  <2>2. Files!RowHeight(two, three) = Files!Max({80, 33 * m + 30})
    BY DEF Files!RowHeight, Files!LeastHeight, m
  <2> QED
    BY <2>1, <2>2, GreaterOfTwo
<1>5. /\ Files!RowHeight(two, three) \in 80..129
      /\ Files!TextEnd(m) <= Files!RowHeight(two, three)
  BY <1>3, <1>4 DEF Files!TextEnd
<1>6. \A lines \in Files!Redrawn(m) :
         /\ lines \in Nat /\ Files!TextEnd(lines) \in Nat
         /\ Files!TextEnd(lines) <= Files!RowHeight(two, three) + 70
  BY <1>3, <1>4 DEF Files!TextEnd, Files!Redrawn
<1> QED
  BY <1>3, <1>5, <1>6 DEF m

\* The first row follows the intro; a table that is begun has a row at once.  What was
\* drawn ends within its part of the page, and only the whole document is announced.
\* Text that runs over its row ends less than 7 mm below, which is less than the height
\* of the next and than what is kept free of the footer.
SheetInv ==
    /\ doc \in Files!Doc
    /\ kind \in {"pdf", "xlsx"} /\ phase \in {"idle", "logo", "rows", "footers", "entries"}
    /\ kind = "xlsx" => phase \in {"idle", "entries"}
    /\ doc.top >= doc.above /\ doc.bottom <= Files!FooterLine
    /\ doc.drawn > 0 => doc.filled = doc.tables
    /\ doc.cursor <= Files!TableBottom /\ doc.text <= doc.cursor + 70
    /\ ~doc.split => doc.text <= doc.cursor
    /\ phase = "rows" =>
          /\ doc.bottom <= Files!TableBottom
          /\ doc.drawn > 0 => doc.onPage > 0
          /\ doc.drawn = 0 => doc.onPage = 0 /\ doc.filled = 0 /\ doc.tables = 1
                              /\ doc.cursor = 1110
    /\ phase = "footers" => doc.drawn = rows
    /\ exported => /\ phase \in {"idle", "entries"}
                   /\ doc.drawn = rows /\ doc.footers = doc.pages

\* What the three steps that draw make of a document is a document.
Begun(d, pages, tables, cursor) ==
    [d EXCEPT !.pages = pages, !.tables = tables, !.cursor = cursor]
WithRow(d, pages, tables, filled, onPage, drawn, top, bottom, text, split) ==
    [d EXCEPT !.pages = pages, !.tables = tables, !.filled = filled, !.onPage = onPage,
              !.drawn = drawn, !.cursor = bottom, !.above = top, !.top = top,
              !.bottom = bottom, !.text = text, !.split = split]
Signed(d, pages, above, top, bottom) ==
    [d EXCEPT !.pages = pages, !.above = above, !.top = top, !.bottom = bottom]

LEMMA DocBegun ==
    ASSUME NEW d \in Files!Doc, NEW pages \in Nat, NEW tables \in Nat, NEW cursor \in Nat
    PROVE  Begun(d, pages, tables, cursor) \in Files!Doc
BY Zenon DEF Files!Doc, Begun

LEMMA DocWithRow ==
    ASSUME NEW d \in Files!Doc, NEW pages \in Nat, NEW tables \in Nat, NEW filled \in Nat,
           NEW onPage \in Nat, NEW drawn \in Nat, NEW top \in Nat, NEW bottom \in Nat,
           NEW text \in Nat, NEW split \in BOOLEAN
    PROVE  WithRow(d, pages, tables, filled, onPage, drawn, top, bottom, text, split)
             \in Files!Doc
BY Zenon DEF Files!Doc, WithRow

LEMMA DocSigned ==
    ASSUME NEW d \in Files!Doc, NEW pages \in Nat, NEW above \in Nat, NEW top \in Nat,
           NEW bottom \in Nat
    PROVE  Signed(d, pages, above, top, bottom) \in Files!Doc
BY Zenon DEF Files!Doc, Signed

LEMMA SheetStart == ASSUME Files!Init PROVE SheetInv
<1>1. Files!NoDoc \in Files!Doc /\ Files!NoDoc.drawn = 0 /\ Files!NoDoc.top = 0
      /\ Files!NoDoc.above = 0 /\ Files!NoDoc.bottom = 0 /\ Files!NoDoc.cursor = 0
      /\ Files!NoDoc.text = 0
  BY DEF Files!NoDoc, Files!Doc
<1> QED
  BY <1>1 DEF Files!Init, SheetInv, Files!FooterLine, Files!TableBottom, Files!PageHeight

LEMMA SheetStep ==
    ASSUME Files!ExportsAssumption, SheetInv, [Files!Next]_Files!vars
    PROVE  SheetInv'
<1> USE DEF Files!FooterLine, Files!TableBottom, Files!PageHeight
<1>1. CASE Files!DownloadPdf
  <2>1. Files!NoDoc \in Files!Doc /\ Files!NoDoc.drawn = 0 /\ Files!NoDoc.top = 0
        /\ Files!NoDoc.above = 0 /\ Files!NoDoc.bottom = 0 /\ Files!NoDoc.cursor = 0
        /\ Files!NoDoc.text = 0
    BY DEF Files!NoDoc, Files!Doc
  <2> QED
    BY <1>1, <2>1 DEF Files!DownloadPdf, SheetInv
<1>2. CASE Files!DownloadXlsx
  BY <1>2 DEF Files!DownloadXlsx, SheetInv
<1>3. CASE Files!StartDocument
  <2> DEFINE d == [Files!NoDoc EXCEPT !.pages = 1, !.tables = 1,
                                      !.cursor = Files!TableStart(Files!IntroEnd + 50)]
  <2>1. /\ d \in Files!Doc /\ d.top = 0 /\ d.above = 0 /\ d.bottom = 0 /\ d.drawn = 0
        /\ d.onPage = 0 /\ d.filled = 0 /\ d.tables = 1 /\ d.cursor = 1110
        /\ d.text = 0
    <3>1. Files!TableStart(Files!IntroEnd + 50) = 1110
      BY DEF Files!TableStart, Files!IntroEnd
    <3>2. d = [Files!NoDoc EXCEPT !.pages = 1, !.tables = 1, !.cursor = 1110]
      BY ZenonT(40), <3>1
    <3>3. /\ Files!NoDoc \in Files!Doc /\ Files!NoDoc.top = 0 /\ Files!NoDoc.above = 0
          /\ Files!NoDoc.bottom = 0 /\ Files!NoDoc.drawn = 0 /\ Files!NoDoc.onPage = 0
          /\ Files!NoDoc.filled = 0 /\ Files!NoDoc.text = 0
      BY DEF Files!NoDoc, Files!Doc
    <3> HIDE DEF d
    <3>4. d \in Files!Doc
      <4>1. 1 \in Nat /\ 1110 \in Nat
        OBVIOUS
      <4>2. d = Begun(Files!NoDoc, 1, 1, 1110)
        BY <3>2 DEF Begun
      <4> QED
        BY <3>3, <4>1, <4>2, DocBegun
    <3> QED
      BY <3>2, <3>3, <3>4, SMT DEF Files!NoDoc
  <2> HIDE DEF d
  <2>2. doc' = d /\ phase' = "rows" /\ phase = "logo" /\ UNCHANGED <<kind, rows, exported>>
    BY <1>3 DEF Files!StartDocument, d
  <2> QED
    BY <2>1, <2>2 DEF SheetInv
<1>4. ASSUME NEW two \in TextLines, NEW three \in TextLines, Files!DrawRow(two, three)
      PROVE  SheetInv'
  <2> DEFINE height == Files!RowHeight(two, three)
             fitted == Files!Lines(two, three)
             breaks == doc.cursor + height > Files!TableBottom
             top == IF breaks THEN Files!TableStart(310) ELSE doc.cursor
             bottom == top + height
             pages == doc.pages + (IF breaks THEN 1 ELSE 0)
             tables == doc.tables + (IF breaks THEN 1 ELSE 0)
             filled == IF breaks \/ doc.onPage = 0 THEN doc.filled + 1 ELSE doc.filled
             onPage == IF breaks THEN 1 ELSE doc.onPage + 1
             drawn == doc.drawn + 1
             before == IF breaks THEN 0 ELSE doc.text
             end(lines) == top + Files!TextEnd(lines)
  <2>1. height \in 80..129 /\ fitted \in 1..3
    BY RowsAreLow
  <2>2. /\ Files!TextEnd(fitted) <= height
        /\ \A lines \in Files!Redrawn(fitted) :
              lines \in Nat /\ Files!TextEnd(lines) \in Nat /\ Files!TextEnd(lines) <= height + 70
    BY RowsAreLow
  <2> HIDE DEF height, fitted
  <2>3. phase = "rows" /\ UNCHANGED <<kind, phase, rows, exported>>
    BY <1>4 DEF Files!DrawRow
  <2>4. PICK lines \in Files!Redrawn(fitted) :
           doc' = [doc EXCEPT !.pages = pages, !.tables = tables, !.filled = filled,
                              !.onPage = onPage, !.drawn = drawn, !.cursor = bottom,
                              !.above = top, !.top = top, !.bottom = bottom,
                              !.text = Files!Max({before, end(lines)}),
                              !.split = lines > fitted]
    <3> HIDE DEF Files!FooterLine, Files!TableBottom, Files!PageHeight
    <3> QED
      BY <1>4, ZenonT(40) DEF Files!DrawRow, height, fitted
  <2> DEFINE text == Files!Max({before, end(lines)})
             split == lines > fitted
  <2>5. /\ doc.pages \in Nat /\ doc.cursor \in Nat /\ doc.tables \in Nat /\ doc.filled \in Nat
        /\ doc.onPage \in Nat /\ doc.drawn \in Nat /\ doc.footers \in Nat /\ doc.text \in Nat
    BY DEF SheetInv, Files!Doc
  <2>6. /\ top \in Nat /\ bottom \in Nat /\ bottom <= Files!TableBottom
        /\ pages \in Nat /\ tables \in Nat /\ filled \in Nat /\ onPage \in Nat /\ drawn \in Nat
    BY <2>1, <2>3, <2>5 DEF SheetInv, Files!TableStart
  <2>7. filled = tables /\ onPage > 0 /\ drawn > 0
    <3>1. doc.drawn = 0 => ~breaks
      BY <2>1, <2>3 DEF SheetInv
    <3> QED
      BY <2>3, <2>5, <3>1 DEF SheetInv
  <2>8. text \in Nat /\ text <= bottom + 70 /\ (~split => text <= bottom)
    <3>1. before \in Nat /\ before <= bottom
      BY <2>1, <2>5 DEF SheetInv, Files!TableStart
    <3>2. end(lines) \in Nat /\ end(lines) <= bottom + 70
      BY <2>2, <2>6, <2>1
    <3>3. ~split => end(lines) <= bottom
      <4>1. ~split => lines = fitted
        BY <2>1 DEF Files!Redrawn
      <4> QED
        BY <2>1, <2>2, <2>6, <4>1
    <3>4. text = IF before >= end(lines) THEN before ELSE end(lines)
      <4> HIDE DEF before, end
      <4> QED
        BY <3>1, <3>2, GreaterOfTwo
    <3> HIDE DEF before, end, text, split, bottom
    <3>5. bottom \in Nat
      BY <2>6
    <3> QED
      BY <3>1, <3>2, <3>3, <3>4, <3>5
  <2>9. split \in BOOLEAN
    OBVIOUS
  <2> HIDE DEF breaks, top, bottom, pages, tables, filled, onPage, drawn, text, split
  <2>10. doc' = WithRow(doc, pages, tables, filled, onPage, drawn, top, bottom, text, split)
    BY <2>4, Zenon DEF WithRow, text, split
  <2>11. doc \in Files!Doc
    BY DEF SheetInv
  <2>12. doc' \in Files!Doc
    <3>1. /\ pages \in Nat /\ tables \in Nat /\ filled \in Nat /\ onPage \in Nat
          /\ drawn \in Nat /\ top \in Nat /\ bottom \in Nat /\ text \in Nat
      BY <2>6, <2>8
    <3>2. WithRow(doc, pages, tables, filled, onPage, drawn, top, bottom, text, split)
            \in Files!Doc
      BY <2>9, <2>11, <3>1, DocWithRow, ZenonT(40)
    <3> QED
      BY <2>10, <3>2
  <2>13. /\ doc'.tables = tables /\ doc'.filled = filled /\ doc'.onPage = onPage
         /\ doc'.drawn = drawn /\ doc'.cursor = bottom /\ doc'.text = text
         /\ doc'.above = top /\ doc'.top = top /\ doc'.bottom = bottom /\ doc'.split = split
    BY <2>10, <2>11, SMTT(30) DEF Files!Doc, WithRow
  <2> QED
    BY <2>3, <2>6, <2>7, <2>8, <2>12, <2>13 DEF SheetInv
<1>5. CASE Files!Sign
  <2> DEFINE breaks == doc.cursor + 110 + 580 > Files!FooterLine
             top == IF breaks THEN 380 ELSE doc.cursor + 110
             free == Files!Max({doc.cursor, doc.text})
             above == IF breaks THEN 230 ELSE free
             added == IF breaks THEN doc.pages + 1 ELSE doc.pages
  <2>1. /\ phase = "rows" /\ doc.drawn = rows /\ phase' = "footers" /\ UNCHANGED <<kind, rows, exported>>
        /\ doc' = [doc EXCEPT !.pages = added, !.above = above, !.top = top, !.bottom = top + 540]
    BY <1>5 DEF Files!Sign
  <2>2. /\ doc.pages \in Nat /\ doc.cursor \in Nat /\ doc.text \in Nat
    BY DEF SheetInv, Files!Doc
  <2>3. /\ added \in Nat /\ above \in Nat /\ top \in Nat /\ top + 540 \in Nat
        /\ top >= above /\ top + 540 <= Files!FooterLine
    <3>1. free = IF doc.cursor >= doc.text THEN doc.cursor ELSE doc.text
      BY <2>2, GreaterOfTwo
    <3> HIDE DEF free
    <3>2. free \in Nat /\ free <= doc.cursor + 70
      BY <2>2, <3>1 DEF SheetInv
    <3> QED
      BY <2>2, <3>2
  <2> HIDE DEF breaks, top, free, above, added
  <2>4. doc' \in Files!Doc
    <3>1. doc \in Files!Doc
      BY DEF SheetInv
    <3>2. doc' = Signed(doc, added, above, top, top + 540)
      BY <2>1 DEF Signed
    <3> QED
      BY <2>3, <3>1, <3>2, DocSigned
  <2>5. /\ doc'.above = above /\ doc'.top = top /\ doc'.bottom = top + 540
        /\ doc'.drawn = doc.drawn /\ doc'.filled = doc.filled /\ doc'.tables = doc.tables
        /\ doc'.cursor = doc.cursor /\ doc'.text = doc.text /\ doc'.split = doc.split
    BY <2>1 DEF SheetInv, Files!Doc
  <2> QED
    BY <2>1, <2>3, <2>4, <2>5 DEF SheetInv
<1>6. CASE Files!AddFooter
  <2>1. /\ phase = "footers" /\ doc' = [doc EXCEPT !.footers = @ + 1]
        /\ UNCHANGED <<kind, phase, rows, exported>>
    BY <1>6 DEF Files!AddFooter
  <2>2. /\ doc' \in Files!Doc /\ doc'.above = doc.above /\ doc'.top = doc.top
        /\ doc'.bottom = doc.bottom /\ doc'.drawn = doc.drawn /\ doc'.filled = doc.filled
        /\ doc'.tables = doc.tables /\ doc'.cursor = doc.cursor /\ doc'.text = doc.text
        /\ doc'.split = doc.split
    BY <2>1 DEF SheetInv, Files!Doc
  <2> QED
    BY <2>1, <2>2 DEF SheetInv
<1>7. CASE Files!SavePdf
  BY <1>7 DEF Files!SavePdf, SheetInv
<1>8. CASE Files!PdfFails
  BY <1>8 DEF Files!PdfFails, SheetInv
<1>9. ASSUME NEW chars \in Length, Files!AddEntry(chars) PROVE SheetInv'
  BY <1>9 DEF Files!AddEntry, SheetInv
<1>10. CASE Files!EndZip
  BY <1>10 DEF Files!EndZip, SheetInv
<1>11. CASE UNCHANGED Files!vars
  BY <1>11 DEF Files!vars, SheetInv
<1> QED
  BY <1>1, <1>2, <1>3, <1>4, <1>5, <1>6, <1>7, <1>8, <1>9, <1>10, <1>11
     DEF Files!Next, Files!Build

LEMMA SheetKeeps == SheetInv => Files!SheetComplete
BY DEF SheetInv, Files!SheetComplete, Files!Doc, Files!LeastHeight,
       Files!FooterLine, Files!TableBottom, Files!PageHeight

\* No row's frame and no signature runs over its page or over what is above it, no table
\* is left without a row, and what is announced is the whole document, however many
\* records there are and however long their texts.  The text stays in its row, or, when
\* doc.text splits a line of it again, ends in the row below and above the footer.
THEOREM SheetFits == ASSUME Files!ExportsAssumption PROVE Files!Spec => []Files!SheetComplete
<1>1. Files!Init => SheetInv
  BY SheetStart
<1>2. Files!ExportsAssumption /\ SheetInv /\ [Files!Next]_Files!vars => SheetInv'
  BY SheetStep
<1>3. SheetInv => Files!SheetComplete
  BY SheetKeeps
<1> QED
  BY Files!ExportsAssumption, <1>1, <1>2, <1>3, PTL DEF Files!Spec

-----------------------------------------------------------------------------
(* The archive of the workbook.  Where a part is put is a sum over the parts  *)
(* before it, a recursion over data: that it is well defined is proved first, *)
(* from the least element every set of numbers has.                          *)

\* Every set of numbers has a least one: induction, as a fact about sets.
LEMMA LeastNumber ==
    ASSUME NEW T \in SUBSET Nat, T # {}
    PROVE  \E m \in T : \A k \in T : m <= k
<1> DEFINE R == OpToRel(<, Nat)
<1>1. IsWellFoundedOn(R, Nat)
  BY NatLessThanWellFounded
<1>2. PICK m \in T : \A k \in T : ~ (<<k, m>> \in R)
  <2> HIDE DEF R
  <2> QED BY <1>1, WFMin
<1>3. \A k, m2 \in Nat : <<k, m2>> \in R <=> k < m2
  BY DEF OpToRel
<1>4. \A k \in T : ~ (k < m)
  <2> HIDE DEF R
  <2> QED BY <1>2, <1>3
<1>5. \A k \in T : m <= k
  BY <1>4
<1> QED BY <1>5

\* A sequence without its last element.
LEMMA Shortened ==
    ASSUME NEW s \in Seq(Nat), s # <<>>
    PROVE  /\ Files!Front(s) \in Seq(Nat) /\ Len(s) \in Nat \ {0} /\ Len(Files!Front(s)) = Len(s) - 1
           /\ Files!Last(s) \in Nat
           /\ \A i \in 1..(Len(s) - 1) : Files!Front(s)[i] = s[i]
<1>1. Len(s) \in Nat \ {0}
  OBVIOUS
<1>2. Files!Front(s) \in Seq(Nat)
  BY <1>1 DEF Files!Front
<1>3. Len(Files!Front(s)) = Len(s) - 1
  <2>1. 1 \in 1..(Len(s)+1) /\ Len(s)-1 \in 0..Len(s) /\ (Len(s)-1) - 1 + 1 = Len(s) - 1
    BY <1>1
  <2> QED
    BY <1>1, <2>1, SubSeqProperties DEF Files!Front
<1>4. \A i \in 1..(Len(s) - 1) : Files!Front(s)[i] = s[i]
  BY <1>1 DEF Files!Front
<1> QED
  BY <1>1, <1>2, <1>3, <1>4 DEF Files!Last

\* t: what the first i lengths of s sum up to, for every i.
Running(s, t) ==
    /\ t \in [0..Len(s) -> Nat] /\ t[0] = 0
    /\ \A i \in 1..Len(s) : t[i] = t[i-1] + s[i]

LEMMA RunningOfFront ==
    ASSUME NEW s \in Seq(Nat), s # <<>>, NEW t, Running(s, t)
    PROVE  Running(Files!Front(s), [i \in 0..(Len(s)-1) |-> t[i]])
<1> DEFINE u == [i \in 0..(Len(s)-1) |-> t[i]]
<1>1. Len(Files!Front(s)) = Len(s) - 1 /\ Len(s) \in Nat \ {0}
  BY Shortened
<1>2. u \in [0..Len(Files!Front(s)) -> Nat] /\ u[0] = 0
  BY <1>1 DEF Running
<1>3. ASSUME NEW i \in 1..(Len(s) - 1) PROVE u[i] = u[i-1] + Files!Front(s)[i]
  <2>1. i \in 1..Len(s) /\ i \in 0..(Len(s)-1) /\ i-1 \in 0..(Len(s)-1)
    BY <1>1
  <2>2. t[i] = t[i-1] + s[i]
    BY <2>1 DEF Running
  <2>3. Files!Front(s)[i] = s[i]
    BY Shortened
  <2> QED
    BY <2>1, <2>2, <2>3
<1> HIDE DEF u
<1>4. Running(Files!Front(s), u)
  BY <1>1, <1>2, <1>3 DEF Running
<1> QED
  BY <1>4 DEF u

LEMMA RunningExists == \A s \in Seq(Nat) : \E t : Running(s, t)
<1> DEFINE Bad == {n \in Nat : \E s \in Seq(Nat) : Len(s) = n /\ ~ \E t : Running(s, t)}
<1>1. SUFFICES ASSUME Bad # {} PROVE FALSE
  BY DEF Bad
<1>2. PICK n \in Bad : \A k \in Bad : n <= k
  <2>1. Bad \in SUBSET Nat
    OBVIOUS
  <2> HIDE DEF Bad
  <2> QED
    BY <1>1, <2>1, LeastNumber
<1>3. PICK s \in Seq(Nat) : Len(s) = n /\ ~ \E t : Running(s, t)
  OBVIOUS
<1>4. CASE s = <<>>
  <2>1. Len(s) = 0
    BY <1>4
  <2>2. Running(s, [i \in 0..0 |-> 0])
    BY <2>1 DEF Running
  <2> QED
    BY <1>3, <2>2
<1>5. CASE s # <<>>
  <2>1. /\ Files!Front(s) \in Seq(Nat) /\ Len(s) \in Nat \ {0} /\ Len(Files!Front(s)) = Len(s) - 1
        /\ Files!Last(s) \in Nat
        /\ \A i \in 1..(Len(s) - 1) : Files!Front(s)[i] = s[i]
    BY <1>5, Shortened
  <2>2. Len(Files!Front(s)) \notin Bad
    <3> HIDE DEF Bad
    <3> QED BY <1>2, <1>3, <2>1
  <2>3. PICK u : Running(Files!Front(s), u)
    BY <2>1, <2>2
  <2> DEFINE t == [i \in 0..Len(s) |-> IF i = Len(s) THEN u[Len(s) - 1] + Files!Last(s) ELSE u[i]]
  <2>4. u \in [0..(Len(s) - 1) -> Nat] /\ u[0] = 0
        /\ \A i \in 1..(Len(s) - 1) : u[i] = u[i-1] + Files!Front(s)[i]
    BY <2>1, <2>3 DEF Running
  <2>5. t \in [0..Len(s) -> Nat] /\ t[0] = 0
    <3>1. \A i \in 0..Len(s) : i # Len(s) => i \in 0..(Len(s)-1)
      BY <2>1
    <3>2. u[Len(s) - 1] + Files!Last(s) \in Nat
      <4>1. Len(s) - 1 \in 0..(Len(s) - 1)
        BY <2>1
      <4>2. u[Len(s) - 1] \in Nat
        BY <2>4, <4>1
      <4> QED
        BY <2>1, <4>2
    <3>3. \A i \in 0..Len(s) : i # Len(s) => u[i] \in Nat
      BY <3>1, <2>4
    <3>4. t \in [0..Len(s) -> Nat]
      BY <3>2, <3>3
    <3>5. 0 \in 0..Len(s) /\ 0 # Len(s)
      BY <2>1
    <3> QED
      BY <2>4, <3>4, <3>5
  <2>6. ASSUME NEW i \in 1..Len(s) PROVE t[i] = t[i-1] + s[i]
    <3>1. CASE i = Len(s)
      BY <2>1, <3>1 DEF Files!Last
    <3>2. CASE i # Len(s)
      <4>1. i \in 1..(Len(s) - 1) /\ i-1 \in 0..(Len(s)-1) /\ i-1 # Len(s) /\ i \in 0..Len(s) /\ i-1 \in 0..Len(s)
        BY <2>1, <3>2
      <4>2. t[i] = u[i] /\ t[i-1] = u[i-1]
        BY <3>2, <4>1
      <4> HIDE DEF t
      <4> QED
        BY <2>1, <2>4, <4>1, <4>2
    <3> QED
      BY <3>1, <3>2
  <2> HIDE DEF t
  <2>7. Running(s, t)
    BY <2>5, <2>6 DEF Running
  <2> QED
    BY <1>3, <2>7
<1> QED
  BY <1>4, <1>5

LEMMA RunningUnique ==
    ASSUME NEW s \in Seq(Nat), NEW t, NEW u, Running(s, t), Running(s, u)
    PROVE  t = u
<1> DEFINE Bad == {i \in 0..Len(s) : t[i] # u[i]}
<1>1. CASE Bad = {}
  <2>1. t \in [0..Len(s) -> Nat] /\ u \in [0..Len(s) -> Nat]
    BY DEF Running
  <2>2. \A i \in 0..Len(s) : t[i] = u[i]
    BY <1>1
  <2> HIDE DEF Bad
  <2> QED
    BY <2>1, <2>2
<1>2. ASSUME Bad # {} PROVE FALSE
  <2>1. Len(s) \in Nat /\ Bad \in SUBSET Nat
    OBVIOUS
  <2>2. PICK i \in Bad : \A k \in Bad : i <= k
    <3> HIDE DEF Bad
    <3> QED
      BY <1>2, <2>1, LeastNumber
  <2>3. i \in 0..Len(s) /\ t[i] # u[i]
    OBVIOUS
  <2>4. i # 0
    BY <2>3 DEF Running
  <2>5. i \in 1..Len(s) /\ i-1 \in 0..Len(s) /\ ~ (i <= i-1)
    BY <2>1, <2>3, <2>4
  <2>6. t[i-1] = u[i-1]
    BY <2>2, <2>5
  <2>7. t[i] = t[i-1] + s[i] /\ u[i] = u[i-1] + s[i]
    BY <2>5 DEF Running
  <2> QED
    BY <2>3, <2>6, <2>7
<1> QED
  BY <1>1, <1>2

\* The recursion of the model has a solution, and so is what it says.
LEMMA BytesUnfolded ==
    \A s \in Seq(Nat) : Files!Bytes[s] = IF s = <<>> THEN 0 ELSE Files!Bytes[Files!Front(s)] + Files!Last(s)
<1> DEFINE T(s) == CHOOSE t : Running(s, t)
           G == [s \in Seq(Nat) |-> T(s)[Len(s)]]
           E(g) == g = [s \in Seq(Nat) |-> IF s = <<>> THEN 0 ELSE g[Files!Front(s)] + Files!Last(s)]
<1>1. \A s \in Seq(Nat) : Running(s, T(s))
  BY RunningExists
<1>2. ASSUME NEW s \in Seq(Nat)
      PROVE  G[s] = IF s = <<>> THEN 0 ELSE G[Files!Front(s)] + Files!Last(s)
  <2>1. CASE s = <<>>
    <3>1. Len(s) = 0
      BY <2>1
    <3>2. T(s)[0] = 0
      BY <1>1 DEF Running
    <3> QED
      BY <2>1, <3>1, <3>2
  <2>2. CASE s # <<>>
    <3>1. Files!Front(s) \in Seq(Nat) /\ Len(s) \in Nat \ {0} /\ Len(Files!Front(s)) = Len(s) - 1
      BY <2>2, Shortened
    <3>2. T(Files!Front(s)) = [i \in 0..(Len(s)-1) |-> T(s)[i]]
      <4>1. Running(Files!Front(s), [i \in 0..(Len(s)-1) |-> T(s)[i]])
        BY <1>1, <2>2, RunningOfFront
      <4>2. Running(Files!Front(s), T(Files!Front(s)))
        BY <1>1, <3>1
      <4> HIDE DEF T
      <4> QED
        BY <3>1, <4>1, <4>2, RunningUnique
    <3>3. G[Files!Front(s)] = T(s)[Len(s) - 1]
      <4> HIDE DEF T
      <4> QED
        BY <3>1, <3>2
    <3>4. T(s)[Len(s)] = T(s)[Len(s) - 1] + Files!Last(s)
      <4>1. Running(s, T(s))
        BY <1>1
      <4> HIDE DEF T
      <4> QED
        BY <3>1, <4>1 DEF Running, Files!Last
    <3> QED
      BY <2>2, <3>3, <3>4
  <2> QED
    BY <2>1, <2>2
<1>3. E(G)
  <2> DEFINE H == [s \in Seq(Nat) |-> IF s = <<>> THEN 0 ELSE G[Files!Front(s)] + Files!Last(s)]
  <2>1. DOMAIN G = Seq(Nat) /\ DOMAIN H = Seq(Nat)
    OBVIOUS
  <2>2. \A s \in Seq(Nat) : G[s] = H[s]
    BY <1>2
  <2>3. G = H
    <3> HIDE DEF T
    <3> QED BY <2>2
  <2> QED
    BY <2>3
<1>4. E(Files!Bytes)
  <2>1. Files!Bytes = CHOOSE g : E(g)
    BY DEF Files!Bytes
  <2> HIDE DEF E, G
  <2> QED
    BY <1>3, <2>1
<1> QED
  BY <1>4

LEMMA BytesNumber == \A s \in Seq(Nat) : Files!Bytes[s] \in Nat
<1> DEFINE Bad == {n \in Nat : \E s \in Seq(Nat) : Len(s) = n /\ Files!Bytes[s] \notin Nat}
<1>1. SUFFICES ASSUME Bad # {} PROVE FALSE
  BY DEF Bad
<1>2. PICK n \in Bad : \A k \in Bad : n <= k
  <2>1. Bad \in SUBSET Nat
    OBVIOUS
  <2> HIDE DEF Bad
  <2> QED
    BY <1>1, <2>1, LeastNumber
<1>3. PICK s \in Seq(Nat) : Len(s) = n /\ Files!Bytes[s] \notin Nat
  OBVIOUS
<1>4. s # <<>>
  BY <1>3, BytesUnfolded
<1>5. /\ Files!Front(s) \in Seq(Nat) /\ Len(s) \in Nat \ {0}
      /\ Len(Files!Front(s)) = Len(s) - 1 /\ Files!Last(s) \in Nat
  BY <1>4, Shortened
<1>6. Len(Files!Front(s)) \notin Bad
  <2> HIDE DEF Bad
  <2> QED
    BY <1>2, <1>3, <1>5
<1>7. Files!Bytes[Files!Front(s)] \in Nat
  BY <1>5, <1>6
<1> QED
  BY <1>3, <1>4, <1>5, <1>7, BytesUnfolded

LEMMA BytesAppended ==
    ASSUME NEW s \in Seq(Nat), NEW a \in Nat
    PROVE  Files!Bytes[Append(s, a)] = Files!Bytes[s] + a
<1>1. Append(s, a) \in Seq(Nat) /\ Append(s, a) # <<>> /\ Len(Append(s, a)) = Len(s) + 1
      /\ Len(s) \in Nat
  OBVIOUS
<1>2. Files!Last(Append(s, a)) = a
  BY <1>1 DEF Files!Last
<1>3. Files!Front(Append(s, a)) = s
  <2>1. /\ Files!Front(Append(s, a)) \in Seq(Nat) /\ Len(Files!Front(Append(s, a))) = Len(s)
        /\ \A i \in 1..Len(s) : Files!Front(Append(s, a))[i] = Append(s, a)[i]
    <3>1. Len(Append(s, a)) - 1 = Len(s)
      BY <1>1
    <3> DEFINE t == Append(s, a)
    <3>2. t \in Seq(Nat) /\ t # <<>> /\ Len(t) - 1 = Len(s)
      BY <1>1, <3>1
    <3> HIDE DEF t
    <3>3. /\ Files!Front(t) \in Seq(Nat) /\ Len(Files!Front(t)) = Len(s)
          /\ \A i \in 1..Len(s) : Files!Front(t)[i] = t[i]
      BY <3>2, Shortened
    <3> QED
      BY <3>3 DEF t
  <2>2. \A i \in 1..Len(s) : Append(s, a)[i] = s[i]
    OBVIOUS
  <2> QED
    BY <2>1, <2>2, SeqEqual
<1> QED
  BY <1>1, <1>2, <1>3, BytesUnfolded

\* Two more parts move none of those before them.
LEMMA PartsAdded ==
    ASSUME NEW s \in Seq(Nat), NEW a \in Nat, NEW b \in Nat
    PROVE  /\ s \o <<a, b>> \in Seq(Nat) /\ Len(s \o <<a, b>>) = Len(s) + 2
           /\ Files!Bytes[s \o <<a, b>>] = Files!Bytes[s] + a + b
           /\ \A k \in 0..Len(s) : SubSeq(s \o <<a, b>>, 1, k) = SubSeq(s, 1, k)
           /\ \A i \in 1..Len(s) : (s \o <<a, b>>)[i] = s[i]
           /\ (s \o <<a, b>>)[Len(s) + 2] = b
<1> DEFINE t == s \o <<a, b>>
<1>1. t \in Seq(Nat) /\ Len(t) = Len(s) + 2 /\ Len(s) \in Nat
  OBVIOUS
<1>2. \A i \in 1..Len(s) : t[i] = s[i]
  OBVIOUS
<1>3. t[Len(s) + 1] = a /\ t[Len(s) + 2] = b
  OBVIOUS
<1>4. t = Append(Append(s, a), b)
  OBVIOUS
<1> HIDE DEF t
<1>5. Files!Bytes[t] = Files!Bytes[s] + a + b
  <2>1. Append(s, a) \in Seq(Nat)
    OBVIOUS
  <2>2. Files!Bytes[t] = Files!Bytes[Append(s, a)] + b
    BY <1>4, <2>1, BytesAppended
  <2> QED
    BY <2>2, BytesAppended
<1>6. ASSUME NEW k \in 0..Len(s) PROVE SubSeq(t, 1, k) = SubSeq(s, 1, k)
  <2>1. \A i \in 1..k : t[i] = s[i] /\ s[i] \in Nat
    BY SMTT(30), <1>1, <1>2
  <2>2. k \in Int /\ k - 1 + 1 = k /\ (IF 1 <= k THEN k - 1 + 1 ELSE 0) = k
    BY <1>1
  <2>3. /\ SubSeq(t, 1, k) \in Seq(Nat) /\ Len(SubSeq(t, 1, k)) = k
        /\ \A i \in 1..k : SubSeq(t, 1, k)[i] = t[i]
    BY <2>1, <2>2, SubSeqProperties
  <2>4. /\ SubSeq(s, 1, k) \in Seq(Nat) /\ Len(SubSeq(s, 1, k)) = k
        /\ \A i \in 1..k : SubSeq(s, 1, k)[i] = s[i]
    BY <2>1, <2>2, SubSeqProperties
  <2> QED
    BY <2>1, <2>3, <2>4, SeqEqual
<1> QED
  BY <1>1, <1>2, <1>3, <1>5, <1>6 DEF t

\* The offset the loop carries is where the next part is put, and every entry written so
\* far, and the directory, was given the offset at its time.
ArchiveInv ==
    /\ zip \in Files!Archive
    /\ phase = "entries" => zip.end = None
    /\ Len(zip.parts) = 2 * Len(zip.central)
    /\ zip.offset = Files!Bytes[zip.parts]
    /\ \A i \in DOMAIN zip.central :
         zip.central[i].offset = Files!Before(2 * i - 1) /\ zip.central[i].size = zip.parts[2 * i]
    /\ zip.end # None => zip.end.offset = zip.offset

LEMMA NoParts == Files!Bytes[<<>>] = 0
<1>1. <<>> \in Seq(Nat)
  OBVIOUS
<1> QED
  BY <1>1, BytesUnfolded

LEMMA NoZipFits ==
    ASSUME zip = Files!NoZip
    PROVE  ArchiveInv
<1>1. zip \in Files!Archive
  BY DEF Files!NoZip, Files!Archive
<1>2. /\ zip.parts = <<>> /\ zip.central = <<>> /\ zip.offset = 0 /\ zip.end = None
  BY DEF Files!NoZip
<1>3. Files!Bytes[<<>>] = 0
  BY NoParts
<1> QED
  BY <1>1, <1>2, <1>3 DEF ArchiveInv

\* The lengths of the names of the entries.
LEMMA PathLengths == Len(Files!Paths) = 6 /\ \A i \in 1..6 : Files!Paths[i] \in Nat
BY DEF Files!Paths

LEMMA EntryAdded ==
    ASSUME Files!ExportsAssumption, ArchiveInv, NEW chars \in Length, Files!AddEntry(chars)
    PROVE  ArchiveInv'
<1> DEFINE entry == Len(zip.central) + 1
           a == 30 + Files!Paths[entry]
<1>1. /\ zip.parts \in Seq(Nat) /\ zip.offset \in Nat
      /\ zip.central \in Seq([path : Nat, size : Nat, offset : Nat])
      /\ Len(zip.central) \in Nat
  BY DEF ArchiveInv, Files!Archive
<1>2. phase = "entries" /\ Len(zip.central) < 6 /\ zip.end = None /\ phase' = phase
  BY PathLengths DEF ArchiveInv, Files!AddEntry
<1> DEFINE n == Len(zip.central)
<1>0. entry = n + 1 /\ n \in 0..5 /\ entry \in 1..6
  <2>1. n \in Nat /\ n < 6 /\ entry = n + 1
    BY <1>1, <1>2
  <2> HIDE DEF n, entry
  <2> QED
    BY <2>1
<1>3. PICK bytes \in Files!Encoded(entry, chars) :
        zip' = [zip EXCEPT !.parts = @ \o <<a, bytes>>,
                           !.central = Append(@, [path |-> Files!Paths[entry], size |-> bytes,
                                                  offset |-> zip.offset]),
                           !.offset = @ + a + bytes]
  <2>1. \A bytes \in Files!Encoded(entry, chars) :
           zip.offset + 30 + Files!Paths[entry] + bytes = zip.offset + a + bytes
    <3>1. chars \in Nat
      BY DEF Files!ExportsAssumption
    <3>2. \A bytes \in Files!Encoded(entry, chars) : bytes \in Nat
      BY <3>1 DEF Files!Encoded
    <3> DEFINE p == Files!Paths[entry]
    <3>3. p \in Nat
      BY <1>0, PathLengths
    <3>4. zip.offset \in Nat
      BY <1>1
    <3> HIDE DEF p
    <3>5. \A bytes \in Nat : zip.offset + 30 + p + bytes = zip.offset + (30 + p) + bytes
      BY <3>3, <3>4
    <3> QED
      BY <3>2, <3>5 DEF p
  <2> HIDE DEF entry
  <2> QED
    BY <2>1 DEF Files!AddEntry, entry
<1>4. entry \in 1..6 /\ Files!Paths[entry] \in Nat /\ a \in Nat /\ bytes \in Nat
  <2>1. chars \in Nat
    BY DEF Files!ExportsAssumption
  <2>2. bytes \in Nat
    BY <2>1 DEF Files!Encoded
  <2>3. Files!Paths[entry] \in Nat
    BY <1>0, PathLengths
  <2> QED
    BY <1>0, <2>2, <2>3
<1> HIDE DEF a, entry, n
<1> DEFINE header == [path |-> Files!Paths[entry], size |-> bytes, offset |-> zip.offset]
<1>5. header \in [path : Nat, size : Nat, offset : Nat] /\ header.size = bytes
      /\ header.offset = zip.offset
  BY <1>1, <1>4
<1> HIDE DEF header
<1>6. /\ zip'.parts = zip.parts \o <<a, bytes>> /\ zip'.central = Append(zip.central, header)
      /\ zip'.offset = zip.offset + a + bytes /\ zip'.end = zip.end
      /\ zip' = [parts |-> zip'.parts, central |-> zip'.central, offset |-> zip'.offset,
                 end |-> zip'.end]
  BY <1>3 DEF ArchiveInv, Files!Archive, header
<1>7. /\ zip'.parts \in Seq(Nat) /\ Len(zip'.parts) = Len(zip.parts) + 2
      /\ Files!Bytes[zip'.parts] = Files!Bytes[zip.parts] + a + bytes
      /\ \A k \in 0..Len(zip.parts) : SubSeq(zip'.parts, 1, k) = SubSeq(zip.parts, 1, k)
      /\ \A i \in 1..Len(zip.parts) : zip'.parts[i] = zip.parts[i]
      /\ zip'.parts[Len(zip.parts) + 2] = bytes
  BY SMTT(30), <1>1, <1>4, <1>6, PartsAdded
<1>8. /\ zip'.central \in Seq([path : Nat, size : Nat, offset : Nat])
      /\ Len(zip'.central) = Len(zip.central) + 1
      /\ \A i \in 1..Len(zip.central) : zip'.central[i] = zip.central[i]
      /\ zip'.central[Len(zip.central) + 1] = header
  BY <1>1, <1>5, <1>6
<1>9. zip' \in Files!Archive
  <2>1. zip'.offset \in Nat
    BY SMTT(30), <1>1, <1>4, <1>6
  <2>2. zip'.end \in {None} \cup [size : Nat, offset : Nat]
    BY <1>2, <1>6
  <2> QED
    BY <1>6, <1>7, <1>8, <2>1, <2>2 DEF Files!Archive
<1>10. Len(zip.parts) = 2 * n /\ zip.offset = Files!Bytes[zip.parts]
  BY DEF ArchiveInv, n
<1>11. ASSUME NEW i \in DOMAIN zip'.central
       PROVE  /\ zip'.central[i].offset = Files!Before(2 * i - 1)'
              /\ zip'.central[i].size = zip'.parts[2 * i]
  <2>1. Files!Before(2 * i - 1)' = Files!Bytes[SubSeq(zip'.parts, 1, 2 * i - 1 - 1)]
    BY DEF Files!Before
  <2>2. i \in 1..(n + 1)
    BY SMTT(30), <1>8 DEF n
  <2>3. CASE i \in 1..n
    <3>1. 2 * i - 1 - 1 \in 0..(2 * n) /\ 2 * i \in 1..(2 * n)
      BY <1>0, <2>3
    <3>2. i \in DOMAIN zip.central
      BY <1>1, <2>3 DEF n
    <3>3. /\ zip.central[i].offset = Files!Before(2 * i - 1)
          /\ zip.central[i].size = zip.parts[2 * i]
      BY <3>2 DEF ArchiveInv
    <3>4. zip'.central[i] = zip.central[i]
      BY <1>8, <2>3 DEF n
    <3>5. SubSeq(zip'.parts, 1, 2 * i - 1 - 1) = SubSeq(zip.parts, 1, 2 * i - 1 - 1)
      BY <1>7, <1>10, <3>1
    <3>6. zip'.parts[2 * i] = zip.parts[2 * i]
      BY <1>7, <1>10, <3>1
    <3> QED
      BY <2>1, <3>3, <3>4, <3>5, <3>6 DEF Files!Before
  <2>4. CASE i = n + 1
    <3>1. 2 * i - 1 - 1 = Len(zip.parts) /\ 2 * i = Len(zip.parts) + 2
          /\ Len(zip.parts) \in 0..Len(zip.parts)
      BY <1>0, <1>10, <2>4
    <3>2. SubSeq(zip'.parts, 1, Len(zip.parts)) = zip.parts
      BY <1>1, <1>7, <3>1, SubSeqFull
    <3>3. zip'.central[i] = header
      BY <1>8, <2>4 DEF n
    <3> QED
      BY <1>5, <1>7, <1>10, <2>1, <3>1, <3>2, <3>3
  <2> QED
    BY <1>0, <2>2, <2>3, <2>4
<1>12. Len(zip'.parts) = 2 * Len(zip'.central) /\ zip'.offset = Files!Bytes[zip'.parts]
  <2>1. Len(zip'.central) = n + 1
    BY <1>8 DEF n
  <2>2. Len(zip'.parts) = 2 * n + 2
    <3>1. Len(zip'.parts) = Len(zip.parts) + 2
      BY <1>7
    <3> QED
      BY <1>10, <3>1
  <2>3. 2 * n + 2 = 2 * (n + 1)
    BY <1>0
  <2>4. zip'.offset = Files!Bytes[zip'.parts]
    <3>1. zip'.offset = zip.offset + a + bytes
      BY <1>6
    <3>2. Files!Bytes[zip'.parts] = Files!Bytes[zip.parts] + a + bytes
      BY <1>7
    <3> QED
      BY <1>10, <3>1, <3>2
  <2> QED
    BY <2>1, <2>2, <2>3, <2>4
<1> QED
  BY <1>2, <1>6, <1>9, <1>11, <1>12 DEF ArchiveInv

LEMMA DirectoryNumber == ASSUME ArchiveInv PROVE Files!DirectorySize \in Nat
<1> DEFINE lengths == [i \in DOMAIN zip.central |-> 46 + zip.central[i].path]
<1>1. zip.central \in Seq([path : Nat, size : Nat, offset : Nat])
  BY DEF ArchiveInv, Files!Archive
<1>2. Len(zip.central) \in Nat /\ DOMAIN zip.central = 1..Len(zip.central)
  BY <1>1
<1>3. \A i \in DOMAIN zip.central : zip.central[i].path \in Nat
  <2> DEFINE Entry == [path : Nat, size : Nat, offset : Nat]
  <2>1. \A i \in DOMAIN zip.central : zip.central[i] \in Entry
    <3>1. zip.central \in Seq(Entry)
      BY <1>1
    <3> HIDE DEF Entry
    <3> QED
      BY <1>2, <3>1, ElementOfSeq
  <2> QED
    BY <2>1
<1>4. lengths \in [1..Len(zip.central) -> Nat]
  BY <1>2, <1>3
<1>5. lengths \in Seq(Nat)
  <2> HIDE DEF lengths
  <2> QED
    BY <1>2, <1>4
<1>6. Files!Bytes[lengths] \in Nat
  BY <1>5, BytesNumber
<1> QED
  BY <1>6 DEF Files!DirectorySize

LEMMA ArchiveStep ==
    ASSUME Files!ExportsAssumption, ArchiveInv, [Files!Next]_Files!vars
    PROVE  ArchiveInv'
<1>1. CASE UNCHANGED <<zip, phase>>
  BY <1>1 DEF ArchiveInv, Files!Before
<1>2. CASE Files!DownloadPdf \/ Files!StartDocument \/ Files!Sign \/ Files!AddFooter
           \/ Files!SavePdf \/ Files!PdfFails \/ \E two, three \in TextLines : Files!DrawRow(two, three)
  <2>1. zip' = zip /\ phase' # "entries"
    BY <1>2 DEF Files!DownloadPdf, Files!StartDocument, Files!Sign, Files!AddFooter, Files!SavePdf,
                Files!PdfFails, Files!DrawRow
  <2> QED
    BY <2>1 DEF ArchiveInv, Files!Before
<1>3. CASE Files!DownloadXlsx
  <2>1. zip' = Files!NoZip
    BY <1>3 DEF Files!DownloadXlsx
  <2>2. ASSUME NEW z, z = Files!NoZip
        PROVE  /\ z \in Files!Archive /\ z.parts = <<>> /\ z.central = <<>> /\ z.offset = 0
               /\ z.end = None
    BY <2>2 DEF Files!NoZip, Files!Archive
  <2>3. Files!Bytes[<<>>] = 0
    BY NoParts
  <2> QED
    BY <2>1, <2>2, <2>3 DEF ArchiveInv
<1>4. ASSUME NEW chars \in Length, Files!AddEntry(chars) PROVE ArchiveInv'
  BY <1>4, EntryAdded
<1>5. CASE Files!EndZip
  <2>1. /\ phase' = "idle"
        /\ zip' = [zip EXCEPT !.end = [size |-> Files!DirectorySize, offset |-> zip.offset]]
    BY <1>5 DEF Files!EndZip
  <2>2. Files!DirectorySize \in Nat
    BY DirectoryNumber
  <2>3. /\ zip' \in Files!Archive /\ zip'.parts = zip.parts /\ zip'.central = zip.central
        /\ zip'.offset = zip.offset /\ zip'.end.offset = zip.offset
    BY <2>1, <2>2 DEF ArchiveInv, Files!Archive
  <2> QED
    BY <2>1, <2>3 DEF ArchiveInv, Files!Before
<1>6. CASE UNCHANGED Files!vars
  BY <1>1, <1>6 DEF Files!vars
<1> QED
  BY <1>2, <1>3, <1>4, <1>5, <1>6 DEF Files!Next, Files!Build

\* Both exports: what is laid out, and what is packed, with the types of the rest.
ExportsInv == Files!TypeOK /\ SheetInv /\ ArchiveInv

LEMMA ExportsStart == ASSUME Files!Init PROVE ExportsInv
<1>1. SheetInv /\ ArchiveInv
  BY SheetStart, NoZipFits DEF Files!Init
<1> QED
  BY <1>1 DEF ExportsInv, SheetInv, ArchiveInv, Files!Init, Files!TypeOK

LEMMA ExportsStep ==
    ASSUME Files!ExportsAssumption, ExportsInv, [Files!Next]_Files!vars
    PROVE  ExportsInv'
<1>1. SheetInv' /\ ArchiveInv'
  BY SheetStep, ArchiveStep DEF ExportsInv
<1>2. rows' = rows /\ exported' \in BOOLEAN /\ error' \in BOOLEAN
  <2>1. exported \in BOOLEAN /\ error \in BOOLEAN
    BY DEF ExportsInv, Files!TypeOK
  <2> QED
    BY ZenonT(40), <2>1 DEF Files!Next, Files!Build, Files!vars, Files!DownloadPdf, Files!StartDocument,
                Files!Sign, Files!AddFooter, Files!SavePdf, Files!PdfFails, Files!DrawRow,
                Files!DownloadXlsx, Files!AddEntry, Files!EndZip
<1>3. Files!TypeOK'
  BY <1>1, <1>2 DEF ExportsInv, SheetInv, ArchiveInv, Files!TypeOK
<1> QED
  BY <1>1, <1>3 DEF ExportsInv

\* The end record is where the directory is: behind all parts.
LEMMA ArchiveFits == ArchiveInv => Files!EntriesFound
<1> SUFFICES ASSUME ArchiveInv PROVE Files!EntriesFound
  OBVIOUS
<1>1. zip.parts \in Seq(Nat)
  BY DEF ArchiveInv, Files!Archive
<1>2. SubSeq(zip.parts, 1, Len(zip.parts) + 1 - 1) = zip.parts
  <2>1. Len(zip.parts) + 1 - 1 = Len(zip.parts)
    BY <1>1
  <2> QED
    BY <1>1, <2>1, SubSeqFull
<1>3. Files!Before(Len(zip.parts) + 1) = zip.offset
  <2>1. Files!Before(Len(zip.parts) + 1) = Files!Bytes[SubSeq(zip.parts, 1, Len(zip.parts) + 1 - 1)]
    BY DEF Files!Before
  <2>2. zip.offset = Files!Bytes[zip.parts]
    BY DEF ArchiveInv
  <2> QED
    BY <1>2, <2>1, <2>2
<1>4. zip.end # None => zip.end.offset = Files!Before(Len(zip.parts) + 1)
  BY <1>3 DEF ArchiveInv
<1>5. \A i \in DOMAIN zip.central : /\ zip.central[i].offset = Files!Before(2 * i - 1)
                                   /\ zip.central[i].size = zip.parts[2 * i]
  BY DEF ArchiveInv
<1> QED
  BY <1>4, <1>5 DEF Files!EntriesFound

\* The values the exports' variables hold: the offsets are numbers of bytes.
THEOREM ExportsTypeCorrect == ASSUME Files!ExportsAssumption PROVE Files!Spec => []Files!TypeOK
<1>1. Files!Init => ExportsInv
  BY ExportsStart
<1>2. Files!ExportsAssumption /\ ExportsInv /\ [Files!Next]_Files!vars => ExportsInv'
  BY ExportsStep
<1>3. ExportsInv => Files!TypeOK
  BY DEF ExportsInv
<1> QED
  BY Files!ExportsAssumption, <1>1, <1>2, <1>3, PTL DEF Files!Spec

\* The directory of the workbook finds every entry where the concatenation puts it,
\* whatever the lengths of the contents are.
THEOREM WorkbookOpens == ASSUME Files!ExportsAssumption PROVE Files!Spec => []Files!EntriesFound
<1>1. Files!Init => ExportsInv
  BY ExportsStart
<1>2. Files!ExportsAssumption /\ ExportsInv /\ [Files!Next]_Files!vars => ExportsInv'
  BY ExportsStep
<1>3. ExportsInv => Files!EntriesFound
  BY ArchiveFits DEF ExportsInv
<1> QED
  BY Files!ExportsAssumption, <1>1, <1>2, <1>3, PTL DEF Files!Spec

-----------------------------------------------------------------------------
(* The internal pages together.  A page that is mounted stays mounted, starts *)
(* in its own initial state, and every step is one of its own.                *)

LEMMA MountedStays == [MCNext]_mcvars => mounted' = mounted
BY DEF MCNext, mcvars

LEMMA OneMounts ==
    ASSUME MCInit
    PROVE  /\ mounted = "import" => Import!Init
           /\ mounted = "forms" => Forms!Init
           /\ mounted = "pegawai" => Pegawai!Init
BY DEF MCInit, MountRelease, MountKampung, MountLists, MountPegawai, MountForms, MountFiles,
       MountOtsus, MountDaftar, MountImport

LEMMA ImportSteps == [MCNext]_mcvars /\ mounted = "import" => [Import!Next]_Import!vars
BY DEF MCNext, mcvars, vars, NoRelease, Import!vars, Import!dialog

LEMMA FormsSteps == [MCNext]_mcvars /\ mounted = "forms" => [Forms!Next]_Forms!vars
BY DEF MCNext, mcvars, vars, NoRelease, Forms!vars, Forms!page

LEMMA PegawaiSteps == [MCNext]_mcvars /\ mounted = "pegawai" => [Pegawai!Next]_Pegawai!vars
BY DEF MCNext, mcvars, vars, NoRelease, Pegawai!vars, Pegawai!server, Pegawai!forms

\* The success of an import means that every row of the file is in the table.
THEOREM PagesImportMeansStored == MCSpec => []ImportMeansStored
<1> DEFINE Inv == mounted = "import" => ImportInv
<1>1. MCInit => Inv
  BY OneMounts, InternalAssumption, ImportStart
<1>2. Inv /\ [MCNext]_mcvars => Inv'
  BY MountedStays, ImportSteps, InternalAssumption, ImportStep
<1>3. Inv => ImportMeansStored
  BY DEF ImportInv, ImportMeansStored, Import!ImportMeansStored, FileStored, Present
<1> QED
  BY <1>1, <1>2, <1>3, PTL DEF MCSpec

\* An edit form without changes holds what the server has given or taken.
THEOREM PagesCleanMeansKept == MCSpec => []CleanMeansKept
<1> DEFINE Inv == mounted = "forms" => InitialKept
<1>1. MCInit => Inv
  BY OneMounts DEF Forms!Init, InitialKept
<1>2. Inv /\ [MCNext]_mcvars => Inv'
  BY MountedStays, FormsSteps, InitialKeptStep
<1>3. Inv => CleanMeansKept
  BY DEF InitialKept, CleanMeansKept, Forms!CleanMeansKept, Forms!Dirty
<1> QED
  BY <1>1, <1>2, <1>3, PTL DEF MCSpec
===============================================================================
