------------------------------- MODULE OtsusList -------------------------------
(***************************************************************************)
(* The internal list of Otsus labels.  One effect loads it: every change   *)
(* of the search, and every deletion, drops the load before it and starts  *)
(* a timer, after which the next load is sent.  The summary cards count    *)
(* the rows of the last load without a search.                             *)
(***************************************************************************)
EXTENDS Naturals, FiniteSets

CONSTANTS
    Label, Search,
    Matches,  \* the labels each search finds; "" finds all
    None

OtsusListAssumption ==
    /\ "" \in Search /\ Matches \in [Search -> SUBSET Label] /\ Matches[""] = Label
    /\ None \notin Label /\ None \notin {"sent", "done", "failed"}

VARIABLES
    labels,         \* the server's labels of the year
    search,
    rows, summary,  \* rows, summaryRows
    load, answer,   \* the load of the effect that is active; what it was served
    loading,
    target,         \* the label the delete dialog asks about
    delete,         \* the delete call: deleting says whether there is one
    counted,        \* history: a load without a search was answered
    unsure          \* history: a delete took effect and its answer was lost

vars == <<labels, search, rows, summary, load, answer, loading, target, delete, counted, unsure>>

TypeOK ==
    /\ labels \subseteq Label /\ search \in Search
    /\ rows \subseteq Label /\ summary \subseteq Label /\ answer \subseteq Label
    /\ load \in {"armed", "sent", "read", "shown", "failed"} /\ loading \in BOOLEAN
    /\ target \in Label \cup {None} /\ delete \in {None, "sent", "done", "failed"}
    /\ counted \in BOOLEAN /\ unsure \in BOOLEAN

Init ==
    /\ labels = Label /\ search = "" /\ rows = {} /\ summary = {}
    /\ load = "armed" /\ answer = {} /\ loading = TRUE
    /\ target = None /\ delete = None /\ counted = FALSE /\ unsure = FALSE

\* The effect runs again: the load before it is not active any more.
MutRestart == load' = (IF load = "read" THEN "read" ELSE "armed") /\ UNCHANGED answer
Restart == load' = "armed" /\ answer' = {}

\* The open dialog is modal.
Type(s) ==
    /\ target = None /\ s # search
    /\ search' = s /\ Restart
    /\ UNCHANGED <<labels, rows, summary, loading, target, delete, counted, unsure>>

AskDelete(l) ==
    /\ target = None /\ ~loading /\ l \in rows
    /\ target' = l
    /\ UNCHANGED <<labels, search, rows, summary, load, answer, loading, delete, counted, unsure>>

CloseDialog ==
    /\ target # None /\ delete = None
    /\ target' = None
    /\ UNCHANGED <<labels, search, rows, summary, load, answer, loading, delete, counted, unsure>>

ConfirmDelete ==
    /\ target # None /\ delete = None
    /\ delete' = "sent"
    /\ UNCHANGED <<labels, search, rows, summary, load, answer, loading, target, counted, unsure>>

-----------------------------------------------------------------------------
TimerFires ==
    /\ load = "armed" /\ load' = "sent" /\ loading' = TRUE
    /\ UNCHANGED <<labels, search, rows, summary, answer, target, delete, counted, unsure>>

\* The server reads the rows the search finds.
Read ==
    /\ load = "sent" /\ load' = "read" /\ answer' = labels \cap Matches[search]
    /\ UNCHANGED <<labels, search, rows, summary, loading, target, delete, counted, unsure>>

LoadAnswered ==
    /\ load = "read" /\ load' = "shown" /\ answer' = {} /\ loading' = FALSE
    /\ rows' = answer
    /\ summary' = IF search = "" THEN answer ELSE summary
    /\ counted' = (counted \/ search = "")
    /\ UNCHANGED <<labels, search, target, delete, unsure>>

LoadFailed ==
    /\ load \in {"sent", "read"} /\ load' = "failed" /\ answer' = {} /\ loading' = FALSE
    /\ UNCHANGED <<labels, search, rows, summary, target, delete, counted, unsure>>

LoadStep == TimerFires \/ Read \/ LoadAnswered \/ LoadFailed

\* The server deletes the label, or finds none; the answer may be lost.
ServeDelete ==
    /\ delete = "sent"
    /\ \/ /\ target \in labels /\ labels' = labels \ {target}
          /\ delete' \in {"done", "failed"} /\ unsure' = (unsure \/ delete' = "failed")
       \/ delete' = "failed" /\ UNCHANGED <<labels, unsure>>
    /\ UNCHANGED <<search, rows, summary, load, answer, loading, target, counted>>

MutDeleted ==
    /\ delete = "done" /\ delete' = None /\ target' = None
    /\ Restart
    /\ UNCHANGED <<labels, search, rows, summary, loading, counted, unsure>>
Deleted ==
    /\ delete = "done" /\ delete' = None /\ target' = None
    /\ summary' = summary \ {target}
    /\ Restart
    /\ UNCHANGED <<labels, search, rows, loading, counted, unsure>>

DeleteFailed ==
    /\ delete = "failed" /\ delete' = None
    /\ UNCHANGED <<labels, search, rows, summary, load, answer, loading, target, counted, unsure>>

DeleteStep == ServeDelete \/ Deleted \/ DeleteFailed

Next ==
    \/ \E s \in Search : Type(s)
    \/ \E l \in Label : AskDelete(l)
    \/ CloseDialog \/ ConfirmDelete \/ LoadStep \/ DeleteStep

\* The timer fires, and calls are answered or fail.
Fairness == WF_vars(LoadStep) /\ WF_vars(DeleteStep)
Spec == Init /\ [][Next]_vars /\ Fairness

-----------------------------------------------------------------------------
\* Once the last load was shown and nothing is in flight, the rows are those the
\* search finds, and the cards count all labels, those deleted during a search
\* included, once a load without a search was answered.  (A deletion whose answer
\* was lost is known with the next load only.)
ListAgrees ==
    load = "shown" /\ delete = None /\ ~unsure =>
        /\ rows = labels \cap Matches[search]
        /\ counted => summary = labels

\* The skeleton, or the disabled dialog; neither stays.
Waiting == delete # None
===============================================================================
