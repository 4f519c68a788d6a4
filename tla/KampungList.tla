------------------------------ MODULE KampungList ------------------------------
(***************************************************************************)
(* The list of data kampung, the one list of the front end that the server *)
(* searches and pages.  A change of the search or of the page arms a timer *)
(* that loads the list; each load is numbered, and only the last one asked *)
(* for may show its answer.  A delete answers by loading the page it was   *)
(* confirmed on, or the page before when it took that page's last row.     *)
(***************************************************************************)
EXTENDS Naturals, FiniteSets, FiniteSetsExt

CONSTANTS
    Query,         \* what is typed in the search field
    Matches,       \* the records each search finds
    PageSize,
    Slot,          \* bound: the deletes in flight
    MaxLoads,      \* bound: a load starts only while fewer are in flight
    NoRecord

AllRecords == UNION {Matches[q] : q \in Query}

KampungAssumption ==
    /\ "" \in Query /\ Matches \in [Query -> SUBSET Nat] /\ IsFiniteSet(AllRecords)
    /\ PageSize \in Nat \ {0} /\ MaxLoads \in Nat /\ NoRecord \notin AllRecords

VARIABLES
    stored,                        \* the rows of the table of this year
    query, page, records, total,   \* the page's state, and
    loading, error,                \* whether it waits or shows an error,
    target,                        \* the record of the open delete dialog,
    armed,                         \* the 300 ms timer runs
    loads, deletes,                \* the calls in flight
    excused                         \* history: the last load was a delete's, for a search
                                   \* that was no longer the one in the field
shown == <<records, total, page>>
ui    == <<query, page, records, total, loading, error, target, armed>>
vars  == <<stored, ui, loads, deletes, excused>>

Pages(n) == Max({1, (n + PageSize - 1) \div PageSize})

\* DataKampungRepository.List: the page asked for, or the last there is.
Answer(p, q) ==
    LET found == stored \cap Matches[q]
        at    == Min({p, Pages(Cardinality(found))})
        rank(r) == Cardinality({s \in found : s <= r})
    IN  [records |-> {r \in found : rank(r) > (at - 1) * PageSize /\ rank(r) <= at * PageSize},
         total   |-> Cardinality(found),
         page    |-> at]

Answers == [records : SUBSET AllRecords, total : Nat, page : Nat \ {0}]
NoAnswer == [records |-> {}, total |-> 0, page |-> 0]
Load    == [page : Nat \ {0}, query : Query, newest : BOOLEAN,
            for : Slot \cup {0}, answer : Answers \cup {NoAnswer}]
Delete  == [slot : Slot, record : AllRecords, page : Nat \ {0}, query : Query,
            last : BOOLEAN, state : {"sent", "deleted", "failed", "reload"}]

TypeOK ==
    /\ stored \subseteq AllRecords
    /\ query \in Query /\ page \in Nat \ {0}
    /\ records \subseteq AllRecords /\ total \in Nat
    /\ loading \in BOOLEAN /\ error \in BOOLEAN /\ armed \in BOOLEAN /\ excused \in BOOLEAN
    /\ target \in AllRecords \cup {NoRecord}
    /\ loads \subseteq Load /\ deletes \subseteq Delete

Init ==
    /\ stored = AllRecords
    /\ query = "" /\ page = 1 /\ records = {} /\ total = 0
    /\ loading = TRUE /\ error = FALSE /\ target = NoRecord /\ armed = TRUE
    /\ loads = {} /\ deletes = {} /\ excused = FALSE

-----------------------------------------------------------------------------
\* loadData, up to its fetch: every earlier load loses its claim.  One that no
\* delete waits for can then do nothing any more, and is forgotten.
MutStartLoad(p, q, slot, pending) ==
    /\ loads' = pending \cup {[page |-> p, query |-> q, newest |-> TRUE,
                               for |-> slot, answer |-> NoAnswer]}
    /\ loading' = TRUE /\ error' = FALSE
StartLoad(p, q, slot, pending) ==
    /\ loads' = {[l EXCEPT !.newest = FALSE] : l \in {m \in pending : m.for # 0}}
                \cup {[page |-> p, query |-> q, newest |-> TRUE,
                       for |-> slot, answer |-> NoAnswer]}
    /\ loading' = TRUE /\ error' = FALSE

\* The effect on [page, query]: any change of either arms the timer anew.
Rearm == armed' = (armed \/ page' # page \/ query' # query)

TimerFires ==
    /\ armed /\ Cardinality(loads) < MaxLoads
    /\ StartLoad(page, query, 0, loads)
    /\ armed' = FALSE /\ excused' = FALSE
    /\ UNCHANGED <<stored, query, shown, target, deletes>>

\* The search field.
Type(q) ==
    /\ target = NoRecord /\ q # query
    /\ query' = q /\ page' = 1
    /\ UNCHANGED <<stored, records, total, loading, error, target, loads, deletes, excused>>
    /\ Rearm

\* The table's "Hapus": it opens the dialog.
AskDelete(r) ==
    /\ target = NoRecord /\ ~loading /\ r \in records
    /\ target' = r
    /\ UNCHANGED <<stored, query, shown, loading, error, armed, loads, deletes, excused>>

\* Pagination, shown under the table.
TurnPage(p) ==
    /\ target = NoRecord /\ ~loading /\ total > 0
    /\ \/ page > 1 /\ p = page - 1
       \/ page < Pages(total) /\ p = page + 1
    /\ page' = p
    /\ UNCHANGED <<stored, query, records, total, loading, error, target, loads, deletes, excused>>
    /\ Rearm

\* ConfirmDeleteDialog: this page never says that a delete is running, so the
\* dialog can always be closed and its button pressed.
CloseDialog ==
    /\ target # NoRecord
    /\ target' = NoRecord
    /\ UNCHANGED <<stored, query, shown, loading, error, armed, loads, deletes, excused>>

\* handleDelete, up to its fetch, with the state of the render it was made in.
ConfirmDelete(slot) ==
    /\ target # NoRecord /\ \A d \in deletes : d.slot # slot
    /\ deletes' = deletes \cup {[slot |-> slot, record |-> target, page |-> page, query |-> query,
                                 last |-> Cardinality(records) = 1, state |-> "sent"]}
    /\ error' = FALSE
    /\ UNCHANGED <<stored, query, shown, loading, target, armed, loads, excused>>

-----------------------------------------------------------------------------
\* The server: DataKampungRepository.Delete finds the row or not.
ServeDelete(d) ==
    /\ d.state = "sent"
    /\ \E ok \in BOOLEAN :
         LET found == ok /\ d.record \in stored IN
         /\ stored' = IF found THEN stored \ {d.record} ELSE stored
         /\ deletes' = (deletes \ {d}) \cup
                       {[d EXCEPT !.state = IF found THEN "deleted" ELSE "failed"]}
    /\ UNCHANGED <<ui, loads, excused>>

ServeLoad(l) ==
    /\ l.answer = NoAnswer
    /\ loads' = (loads \ {l}) \cup {[l EXCEPT !.answer = Answer(l.page, l.query)]}
    /\ UNCHANGED <<stored, ui, deletes, excused>>

\* handleDelete, once the delete is answered.
DeleteFailed(d) ==
    /\ d.state = "failed"
    /\ deletes' = deletes \ {d}
    /\ error' = TRUE /\ target' = NoRecord
    /\ UNCHANGED <<stored, query, shown, loading, armed, loads, excused>>

MutDeletedLastRow(d) ==
    /\ d.state = "deleted" /\ d.last
    /\ page' = d.page - 1
    /\ deletes' = deletes \ {d}
    /\ target' = NoRecord
    /\ UNCHANGED <<stored, query, records, total, loading, error, loads, excused>>
    /\ Rearm
DeletedLastRow(d) ==
    /\ d.state = "deleted" /\ d.last /\ d.page > 1
    /\ page' = d.page - 1
    /\ deletes' = deletes \ {d}
    /\ target' = NoRecord
    /\ UNCHANGED <<stored, query, records, total, loading, error, loads, excused>>
    /\ Rearm

DeletedReload(d) ==
    /\ d.state = "deleted" /\ ~(d.last /\ d.page > 1)
    /\ StartLoad(d.page, d.query, d.slot, loads)
    /\ deletes' = (deletes \ {d}) \cup {[d EXCEPT !.state = "reload"]}
    /\ excused' = (d.query # query)
    /\ UNCHANGED <<stored, query, shown, target, armed>>

\* The delete that awaits a load ends with it, and closes the dialog.
EndDelete(l) ==
    LET mine == {d \in deletes : d.slot = l.for} IN
    /\ deletes' = deletes \ mine
    /\ target' = IF mine = {} THEN target ELSE NoRecord

\* loadData, once the fetch is answered.
MutShowAnswer(l) ==
    /\ records' = l.answer.records /\ total' = l.answer.total
    /\ page' = page
ShowAnswer(l) ==
    /\ records' = l.answer.records /\ total' = l.answer.total
    /\ page' = l.answer.page

LoadAnswered(l) ==
    /\ l.answer # NoAnswer
    /\ loads' = loads \ {l}
    /\ EndDelete(l)
    /\ IF l.newest THEN ShowAnswer(l) /\ loading' = FALSE
                   ELSE UNCHANGED <<shown, loading>>
    /\ UNCHANGED <<stored, query, error, excused>>
    /\ Rearm

LoadFailed(l) ==
    /\ loads' = loads \ {l}
    /\ EndDelete(l)
    /\ IF l.newest THEN error' = TRUE /\ loading' = FALSE /\ excused' = TRUE
                   ELSE UNCHANGED <<error, loading, excused>>
    /\ UNCHANGED <<stored, query, shown, armed>>

\* The other users of the office delete rows too.
OtherDeletes(r) ==
    /\ r \in stored
    /\ stored' = stored \ {r}
    /\ UNCHANGED <<ui, loads, deletes, excused>>

User == \/ \E q \in Query : Type(q)
        \/ \E r \in AllRecords : AskDelete(r) \/ OtherDeletes(r)
        \/ \E p \in 1..Pages(Cardinality(AllRecords)) : TurnPage(p)
        \/ CloseDialog
        \/ \E slot \in Slot : ConfirmDelete(slot)
DeleteStep(d) == ServeDelete(d) \/ DeleteFailed(d) \/ DeletedLastRow(d) \/ DeletedReload(d)
LoadStep(l) == ServeLoad(l) \/ LoadAnswered(l) \/ LoadFailed(l)

Next == \/ User \/ TimerFires
        \/ \E d \in deletes : DeleteStep(d)
        \/ \E l \in loads : LoadStep(l)

\* Every call is answered, or fails.
Fairness ==
    /\ WF_vars(\E l \in loads : l.for = 0 /\ LoadStep(l))
    /\ \A slot \in Slot :
         /\ WF_vars(\E d \in deletes : d.slot = slot /\ DeleteStep(d))
         /\ WF_vars(\E l \in loads : l.for = slot /\ LoadStep(l))

Spec == Init /\ [][Next]_vars /\ Fairness

-----------------------------------------------------------------------------
Idle == ~armed /\ ~loading

\* Answers may come in any order: once nothing is awaited, the rows are those of
\* the search in the field.  (Not after a failed load, whose error a delete clears
\* while the old rows stay, nor after a delete whose dialog was closed to type
\* another search: its handler loads the list for the search it was made with.)
SearchShown == Idle /\ ~excused => records \subseteq Matches[query]

\* However many rows went away meanwhile, the page the list rests on exists.
PageExists == Idle /\ ~excused => page \in 1..Pages(total)

\* The dialog's buttons are disabled; they do not stay so, also when the load the
\* delete waits for was overtaken by another.
Waiting == deletes # {}
===============================================================================
