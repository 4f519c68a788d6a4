--------------------------- MODULE DocumentRegister ---------------------------
(***************************************************************************)
(* What the Otsus document store promises to a reader, whatever the        *)
(* interleaving: a register of documents that changes by whole steps.  A   *)
(* label appears and, once dropped, is gone with every document it has; a  *)
(* document is published, withdrawn, or, for the LPJ, exchanged for its    *)
(* successor; a label never has two LPJs; and what the register lists can  *)
(* always be read.                                                         *)
(***************************************************************************)
CONSTANTS Label, Kind, File, Single   \* Single: the kinds a label has one of

VARIABLES label, listed

Document == [label: Label, kind: Kind, file: File, readable: BOOLEAN]

Init ==
    /\ label = [l \in Label |-> "unborn"]
    /\ listed = {}

Create(l) ==
    /\ label[l] = "unborn"
    /\ label' = [label EXCEPT ![l] = "live"]
    /\ UNCHANGED listed

\* A file belongs to one document, and a readable one when it is listed.
Fresh(f) == \A d \in listed : d.file # f
Entry(l, k, f) == [label |-> l, kind |-> k, file |-> f, readable |-> TRUE]

Publish(l, k, f) ==
    /\ label[l] = "live" /\ Fresh(f)
    /\ k \in Single => \A d \in listed : ~(d.label = l /\ d.kind = k)
    /\ listed' = listed \cup {Entry(l, k, f)}
    /\ UNCHANGED label

Exchange(d, f) ==
    /\ d.kind \in Single /\ Fresh(f)
    /\ listed' = (listed \ {d}) \cup {Entry(d.label, d.kind, f)}
    /\ UNCHANGED label

Withdraw(d) ==
    /\ listed' = listed \ {d}
    /\ UNCHANGED label

Drop(l) ==
    /\ label[l] = "live"
    /\ label' = [label EXCEPT ![l] = "gone"]
    /\ listed' = {d \in listed : d.label # l}

Next ==
    \/ \E l \in Label : Create(l) \/ Drop(l)
    \/ \E l \in Label, k \in Kind, f \in File : Publish(l, k, f)
    \/ \E d \in listed : Withdraw(d) \/ \E f \in File : Exchange(d, f)

Spec == Init /\ [][Next]_<<label, listed>>
===============================================================================
