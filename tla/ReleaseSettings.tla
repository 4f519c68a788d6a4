---------------------------- MODULE ReleaseSettings ----------------------------
(***************************************************************************)
(* The page where an administrator chooses which years of the regions'     *)
(* figures the website shows, and which of them it opens with.  The fields *)
(* stay enabled during a save, and a colleague may save from another page. *)
(***************************************************************************)
EXTENDS Naturals

CONSTANTS
    Year,   \* availableTahunAnggaran, up to the current year
    NoYear  \* the empty featuredTahunAnggaran

\* Any years of the table have a latest one.
ASSUME ReleaseAssumption ==
    /\ Year \subseteq Nat /\ NoYear \notin Year
    /\ \A years \in SUBSET Year : years # {} => \E y \in years : \A z \in years : z <= y

VARIABLES
    stored,            \* data_wilayah_public_settings
    known,             \* settings were loaded, with their years
    fields,
    loading, saving,
    call,              \* the request in flight
    message, error,
    saved               \* history: the answer to the page's last save

vars == <<stored, known, fields, loading, saving, call, message, error, saved>>

Release == [featured : Year \cup {NoYear}, published : SUBSET Year]
Empty == [featured |-> NoYear, published |-> {}]

\* What UpdateWebsiteSettings accepts: the featured year is published.
Released(r) == r.featured \in r.published
Valid == {r \in Release : Released(r)}

State == {"sent", "done", "failed"}
NoCall == [op |-> "none", state |-> "done", settings |-> Empty]
Load == [op |-> "load", state |-> "sent", settings |-> Empty]
Call == {NoCall} \cup [op : {"load", "save"}, state : State, settings : Release]

TypeOK ==
    /\ stored \in Valid /\ known \in BOOLEAN /\ fields \in Release
    /\ loading \in BOOLEAN /\ saving \in BOOLEAN
    /\ (loading <=> call.op = "load") /\ (saving <=> call.op = "save")
    /\ call \in Call
    /\ message \in BOOLEAN /\ error \in BOOLEAN /\ saved \in Release

Init ==
    /\ stored \in Valid /\ known = FALSE /\ fields = Empty
    /\ loading = TRUE /\ saving = FALSE /\ call = Load
    /\ message = FALSE /\ error = FALSE /\ saved = Empty

-----------------------------------------------------------------------------
AvailableYears == IF known THEN Year ELSE {}

\* The years are listed the latest first: [0] is the latest.
FirstYear(years) ==
    IF years = {} THEN NoYear ELSE CHOOSE y \in years : \A z \in years : z <= y

\* normalizeReleaseSettings and releaseFormFromSettings.
Normalized(r) ==
    [featured |-> IF Released(r) THEN r.featured ELSE FirstYear(r.published),
     published |-> r.published]

\* updatePublishedYear: a switch of the table.
MutToggle(year) ==
    /\ ~loading /\ year \in AvailableYears
    /\ fields' = [fields EXCEPT !.published =
                  IF year \in fields.published THEN fields.published \ {year}
                                             ELSE fields.published \cup {year}]
    /\ message' = FALSE /\ error' = FALSE
    /\ UNCHANGED <<stored, known, loading, saving, call, saved>>
Toggle(year) ==
    /\ ~loading /\ year \in AvailableYears
    /\ LET published == IF year \in fields.published THEN fields.published \ {year}
                                                   ELSE fields.published \cup {year}
       IN fields' = [featured |-> IF fields.featured \in published THEN fields.featured
                                                               ELSE FirstYear(published),
                   published |-> published]
    /\ message' = FALSE /\ error' = FALSE
    /\ UNCHANGED <<stored, known, loading, saving, call, saved>>

\* handleFeaturedChange: the select, or a row's radio button.
MutFeature(year) ==
    /\ ~loading /\ year \in AvailableYears
    /\ fields' = [featured |-> year, published |-> fields.published \cup {year}]
    /\ UNCHANGED <<stored, known, loading, saving, call, message, error, saved>>
Feature(year) ==
    /\ ~loading /\ year \in AvailableYears
    /\ fields' = [featured |-> year, published |-> fields.published \cup {year}]
    /\ message' = FALSE /\ error' = FALSE
    /\ UNCHANGED <<stored, known, loading, saving, call, saved>>

\* Muat Ulang.
Reload ==
    /\ ~loading /\ ~saving
    /\ loading' = TRUE /\ call' = Load
    /\ message' = FALSE /\ error' = FALSE
    /\ UNCHANGED <<stored, known, fields, saving, saved>>

Save ==
    /\ ~loading /\ ~saving /\ known
    /\ message' = FALSE
    /\ IF Released(fields)
         THEN /\ saving' = TRUE /\ error' = FALSE
              /\ call' = [op |-> "save", state |-> "sent", settings |-> fields]
         ELSE error' = TRUE /\ UNCHANGED <<saving, call>>
    /\ UNCHANGED <<stored, known, fields, loading, saved>>

\* The request is served; its answer may be lost after it took effect.
ServeLoad ==
    /\ call.op = "load" /\ call.state = "sent"
    /\ call' = [op |-> "load", state |-> "done", settings |-> stored]
    /\ UNCHANGED <<stored, known, fields, loading, saving, message, error, saved>>
ServeSave ==
    /\ call.op = "save" /\ call.state = "sent"
    /\ stored' = call.settings
    /\ \E s \in {"done", "failed"} :
         call' = [op |-> "save", state |-> s, settings |-> call.settings]
    /\ UNCHANGED <<known, fields, loading, saving, message, error, saved>>
Refuse ==
    /\ call.op # "none" /\ call.state = "sent"
    /\ call' = [op |-> call.op, state |-> "failed", settings |-> call.settings]
    /\ UNCHANGED <<stored, known, fields, loading, saving, message, error, saved>>

Loaded ==
    /\ call.op = "load" /\ call.state = "done"
    /\ known' = TRUE /\ fields' = Normalized(call.settings)
    /\ loading' = FALSE /\ call' = NoCall
    /\ UNCHANGED <<stored, saving, message, error, saved>>
\* The fields are set to the answer, whatever was chosen during the save.
Saved ==
    /\ call.op = "save" /\ call.state = "done"
    /\ fields' = Normalized(call.settings) /\ saved' = call.settings /\ message' = TRUE
    /\ saving' = FALSE /\ call' = NoCall
    /\ UNCHANGED <<stored, known, loading, error>>
MutFailed ==
    /\ call.state = "failed"
    /\ error' = TRUE /\ call' = NoCall
    /\ UNCHANGED <<stored, known, fields, loading, saving, message, saved>>
Failed ==
    /\ call.state = "failed"
    /\ error' = TRUE /\ loading' = FALSE /\ saving' = FALSE /\ call' = NoCall
    /\ UNCHANGED <<stored, known, fields, message, saved>>

OtherSaves(r) ==
    /\ stored' = r
    /\ UNCHANGED <<known, fields, loading, saving, call, message, error, saved>>

Answered == ServeLoad \/ ServeSave \/ Refuse \/ Loaded \/ Saved \/ Failed

Next ==
    \/ \E y \in Year : Toggle(y) \/ Feature(y)
    \/ Reload \/ Save
    \/ Answered
    \/ \E r \in Valid : OtherSaves(r)

Fairness == WF_vars(Answered)

Spec == Init /\ [][Next]_vars /\ Fairness

-----------------------------------------------------------------------------
\* The year the website opens with is one of those it shows, in the form too,
\* in whatever order years are switched off and featured, before and during a
\* save; only a form with no year at all has none.
FeaturedReleased == Released(fields) \/ fields = Empty

\* "Berhasil disimpan" is shown only over fields that hold what was saved.
SavedShown == message => fields = saved /\ Released(saved)

\* The page does not stay so.
Waiting == loading \/ saving
===============================================================================
