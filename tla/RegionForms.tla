------------------------------ MODULE RegionForms ------------------------------
(***************************************************************************)
(* The pages of one region's figures: data kependudukan, and the two       *)
(* aggregates pendaftaran penduduk and pencatatan sipil.  A list leads to  *)
(* the preview and the edit form of a record; a save that is answered goes *)
(* to the preview, from wherever its user has gone meanwhile.  The figures *)
(* of a record are one text: what the form's fields hold.                  *)
(***************************************************************************)
EXTENDS Naturals, FiniteSets

CONSTANTS
    Region,
    Text,       \* what the browser lets a form be submitted with
    Refused,    \* of these, what exceeds the column's integer
    MaxCalls,   \* bound: saves in flight at once
    None

FormsAssumption ==
    /\ Refused \subseteq Text /\ Text # Refused /\ Region # {}
    /\ None \notin Text \cup Region /\ MaxCalls \in Nat \ {0}

VARIABLES
    kind,             \* which of the pages
    at, goto,         \* the route, and the one being navigated to
    rows,             \* the list's regions
    form, initial,    \* the edit form, and initial, that dirty compares it with
    loading, saving, error,
    calls,            \* saves in flight; own: their page is still mounted
    stored,           \* the server's figures
    kept, asked, lost \* history: texts the server gave or took since the page was
                      \* mounted; the navigation is not a link the user followed;
                      \* a link left a dirty form

page == <<rows, form, initial, loading, saving, error, kept>>
vars == <<kind, at, goto, page, calls, stored, asked, lost>>

List      == [page |-> "list", region |-> None]
Elsewhere == [page |-> "elsewhere", region |-> None]
Place     == {List, Elsewhere} \cup [page : {"edit", "preview"}, region : Region]
Call      == [region : Region, sent : Text, state : {"sent", "done", "failed"}, own : BOOLEAN]

TypeOK ==
    /\ kind \in {"kependudukan", "agregat"}
    /\ at \in Place /\ goto \in Place \cup {None}
    /\ rows \in {None} \cup [Region -> Text \ Refused]
    /\ form \in Text \cup {None} /\ initial \in Text \cup {None}
    /\ loading \in BOOLEAN /\ saving \in BOOLEAN /\ error \in BOOLEAN
    /\ calls \subseteq Call /\ Cardinality(calls) <= MaxCalls
    /\ stored \in [Region -> Text \ Refused] /\ kept \subseteq Text
    /\ asked \in BOOLEAN /\ lost \in BOOLEAN
    /\ saving => at.page = "edit" /\ \E c \in calls : c.own

Init ==
    /\ kind \in {"kependudukan", "agregat"} /\ at = List /\ goto = None
    /\ rows = None /\ form = None /\ initial = None
    /\ loading = TRUE /\ saving = FALSE /\ error = FALSE
    /\ calls = {} /\ stored \in [Region -> Text \ Refused]
    /\ kept = {} /\ asked = FALSE /\ lost = FALSE

-----------------------------------------------------------------------------
\* The lists.
ListLoaded ==
    /\ at = List /\ loading
    /\ rows' = stored /\ loading' = FALSE
    /\ UNCHANGED <<kind, at, goto, form, initial, saving, error, kept, calls, stored, asked, lost>>

\* Muat Ulang, beside the error.
RetryList ==
    /\ at = List /\ error /\ ~loading
    /\ loading' = TRUE /\ error' = FALSE
    /\ UNCHANGED <<kind, at, goto, rows, form, initial, saving, kept, calls, stored, asked, lost>>

Go(place, unprompted) ==
    /\ goto' = place /\ asked' = unprompted
    /\ UNCHANGED <<kind, at, page, calls, stored, lost>>

\* Lihat and Edit of a row of either list.
OpenRegion(p) == kind = "kependudukan" /\ at = List /\ ~loading /\ rows # None /\ Go(p, FALSE)
OpenAggregate(p) == kind = "agregat" /\ at = List /\ ~loading /\ rows # None /\ Go(p, FALSE)

-----------------------------------------------------------------------------
\* The record's page.
Dirty == at.page = "edit" /\ form # None /\ form # initial

RecordLoaded ==
    /\ at.page \in {"edit", "preview"} /\ loading
    /\ form' = stored[at.region] /\ initial' = stored[at.region] /\ kept' = {stored[at.region]}
    /\ loading' = FALSE
    /\ UNCHANGED <<kind, at, goto, rows, saving, error, calls, stored, asked, lost>>

\* Either request fails, or its answer has no such region.
LoadFailed ==
    /\ loading /\ loading' = FALSE /\ error' = TRUE
    /\ UNCHANGED <<kind, at, goto, rows, form, initial, saving, kept, calls, stored, asked, lost>>

\* DataFieldSection disables its fields during a save, the aggregates' form does not.
FieldsEnabled == kind = "kependudukan" => ~saving

Type(text) ==
    /\ at.page = "edit" /\ form # None /\ FieldsEnabled
    /\ form' = text
    /\ UNCHANGED <<kind, at, goto, rows, initial, loading, saving, error, kept, calls, stored, asked, lost>>

\* payloadFromForm: the aggregates' refuses what exceeds the column.
Parses(text) == kind = "agregat" => text \notin Refused

Submit ==
    /\ at.page = "edit" /\ form # None /\ ~saving
    /\ IF Parses(form)
         THEN /\ Cardinality(calls) < MaxCalls
              /\ calls' = calls \cup {[region |-> at.region, sent |-> form, state |-> "sent", own |-> TRUE]}
              /\ saving' = TRUE /\ error' = FALSE
         ELSE /\ error' = TRUE /\ UNCHANGED <<calls, saving>>
    /\ UNCHANGED <<kind, at, goto, rows, form, initial, loading, kept, stored, asked, lost>>

\* The update; its answer may be lost after it took effect.
ServeSave(c) ==
    /\ c.state = "sent" /\ c.sent \notin Refused
    /\ stored' = [stored EXCEPT ![c.region] = c.sent]
    /\ \E s \in {"done", "failed"} : calls' = (calls \ {c}) \cup {[c EXCEPT !.state = s]}
    /\ UNCHANGED <<kind, at, goto, page, asked, lost>>
RefuseSave(c) ==
    /\ c.state = "sent"
    /\ calls' = (calls \ {c}) \cup {[c EXCEPT !.state = "failed"]}
    /\ UNCHANGED <<kind, at, goto, page, stored, asked, lost>>

EndSave(c) ==
    /\ calls' = calls \ {c}
    /\ saving' = (saving /\ ~c.own)
    /\ UNCHANGED <<kind, at, rows, form, loading, stored, lost>>

\* What submit sent is what initial becomes; the form may have changed since.
MutSaveAnswered(c) ==
    /\ c.state = "done"
    /\ goto' = [page |-> "preview", region |-> c.region] /\ asked' = TRUE
    /\ initial' = IF c.own THEN form ELSE initial
    /\ kept' = IF c.own THEN kept \cup {c.sent} ELSE kept
    /\ error' = error
    /\ EndSave(c)
SaveAnswered(c) ==
    /\ c.state = "done"
    /\ goto' = [page |-> "preview", region |-> c.region] /\ asked' = TRUE
    /\ initial' = IF c.own THEN c.sent ELSE initial
    /\ kept' = IF c.own THEN kept \cup {c.sent} ELSE kept
    /\ error' = error
    /\ EndSave(c)

MutSaveFailed(c) ==
    /\ c.state = "failed" /\ error' = TRUE
    /\ calls' = calls \ {c}
    /\ UNCHANGED <<kind, at, goto, rows, form, initial, loading, saving, kept, stored, asked, lost>>
SaveFailed(c) ==
    /\ c.state = "failed" /\ error' = (error \/ c.own)
    /\ UNCHANGED <<goto, initial, kept, asked>>
    /\ EndSave(c)

\* Batal: confirmDiscard asks first when the form is dirty.
Cancel == at.page = "edit" /\ form # None /\ Go(List, TRUE)

\* The Edit link of a preview, the breadcrumb of a record, and the sidebar ask nothing.
EditLink == at.page = "preview" /\ form # None /\ Go([at EXCEPT !.page = "edit"], FALSE)
Breadcrumb == at.page \in {"edit", "preview"} /\ Go(List, FALSE)
SidebarLink == \E p \in {List, Elsewhere} : Go(p, FALSE)

\* The navigation completes: another page is mounted, the same one stays.
Arrive ==
    /\ goto # None /\ at' = goto /\ goto' = None /\ asked' = FALSE
    /\ IF goto = at
         THEN UNCHANGED <<page, calls, lost>>
         ELSE /\ rows' = None /\ form' = None /\ initial' = None /\ kept' = {}
              /\ loading' = (goto # Elsewhere) /\ saving' = FALSE /\ error' = FALSE
              /\ calls' = {[c EXCEPT !.own = FALSE] : c \in calls}
              /\ lost' = (lost \/ (Dirty /\ ~asked))
    /\ UNCHANGED <<kind, stored>>

\* A colleague saves the region's figures.
OtherSaves(r, text) ==
    /\ stored' = [stored EXCEPT ![r] = text]
    /\ UNCHANGED <<kind, at, goto, page, calls, asked, lost>>

SaveStep(c) == ServeSave(c) \/ RefuseSave(c) \/ SaveAnswered(c) \/ SaveFailed(c)

Next ==
    \/ ListLoaded \/ RecordLoaded \/ LoadFailed \/ RetryList
    \/ \E p \in [page : {"edit", "preview"}, region : Region] : OpenRegion(p) \/ OpenAggregate(p)
    \/ \E text \in Text : Type(text)
    \/ Submit \/ Cancel \/ EditLink \/ Breadcrumb \/ SidebarLink \/ Arrive
    \/ \E c \in calls : SaveStep(c)
    \/ \E r \in Region, text \in Text \ Refused : OtherSaves(r, text)

\* A load and every save are answered or fail.
Fairness ==
    /\ WF_vars(ListLoaded \/ RecordLoaded \/ LoadFailed)
    /\ WF_vars(\E c \in calls : SaveStep(c))

Spec == Init /\ [][Next]_vars /\ Fairness

-----------------------------------------------------------------------------
\* A form that counts as unchanged holds figures the server gave the page or took
\* from it: what was typed during a save, which the save did not send, is still
\* dirty once it is answered, and warned about.
CleanMeansKept == at.page = "edit" /\ form # None /\ ~Dirty => form \in kept

\* The page does not stay loading, nor its button disabled.
Waiting == loading \/ saving

\* A changed form is left only after a confirmation.
LeaveAsks == ~lost
===============================================================================
