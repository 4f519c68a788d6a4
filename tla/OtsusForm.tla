------------------------------- MODULE OtsusForm -------------------------------
(***************************************************************************)
(* The form of an Otsus label.  Its submit is a chain of calls: the label, *)
(* then each chosen photo, the LPJ and the DPA, each sent when the former  *)
(* is answered; the first failure ends the chain and keeps the choices.    *)
(* The switches and the delete buttons of the documents that are shown act *)
(* at once, each with a call of its own, also while a submit is running.   *)
(* The fields of the label and the messages are left out.                  *)
(***************************************************************************)
EXTENDS Naturals, FiniteSets, Sequences

CONSTANTS
    Photo,      \* the photos the user may choose and validateFiles accepts
    MaxPhotos,  \* bound: photos chosen at once
    MaxFiles,   \* bound: files the server ever stores
    Slot,       \* bound: calls of switches and delete buttons in flight
    None

OtsusFormAssumption ==
    /\ MaxPhotos \in Nat /\ MaxFiles \in Nat \ {0}
    /\ None \notin Photo \cup {"lpj", "dpa"} /\ {"label", "lpj", "dpa"} \cap Photo = {}

\* What a call can be about.  The label itself is number 0.
Kind == {"label", "photo", "lpj", "dpa"}
Item == [kind : Kind, file : 0..MaxFiles, public : BOOLEAN, from : Photo \cup {"lpj", "dpa", None}]
Label == [kind |-> "label", file |-> 0, public |-> FALSE, from |-> None]

VARIABLES
    stored, issued,      \* the server: the label with its documents; files so far
    mode, phase,         \* "add" or "edit"; "left" by Batal, "saved" with the notice
    detail,              \* the label and documents shown, {} in "add"
    todo, sent,          \* the calls a running submit has still to make; all of them
    calls,               \* the calls of switches and delete buttons in flight
    unsure,              \* history: shown files of which the page cannot know the flag
    again,               \* history: a submit failed
    crossed              \* history: a call about the LPJ and a submit ran at once

server  == <<stored, issued>>
history == <<unsure, again, crossed>>
vars    == <<server, mode, phase, detail, todo, sent, calls, history>>

Call  == [slot : Slot, act : {"publish", "delete"}, kind : Kind, file : 0..MaxFiles,
          to : BOOLEAN, state : {"sent", "done"}]

TypeOK ==
    /\ stored \subseteq Item /\ issued \in 0..MaxFiles
    /\ mode \in {"add", "edit"} /\ phase \in {"loading", "ready", "failed", "left", "saved"}
    /\ detail \subseteq Item
    /\ {todo, sent} \subseteq Seq({"label"} \cup Photo \cup {"lpj", "dpa"})
    /\ calls \subseteq Call /\ \A c, d \in calls : c.slot = d.slot => c = d
    /\ unsure \subseteq 0..MaxFiles
    /\ again \in BOOLEAN /\ crossed \in BOOLEAN

Of(items, kind) == {d \in items : d.kind = kind}
Old(kind, file) == [kind |-> kind, file |-> file, public |-> FALSE, from |-> None]

Init ==
    /\ \/ mode = "add" /\ stored = {} /\ issued = 0
       \/ mode = "edit" /\ stored \in {{Label, Old("lpj", 1)},
                                       {Label, Old("photo", 1)}}
          /\ issued = Cardinality(stored) - 1
    /\ phase = "loading" /\ detail = {}
    /\ todo = <<>> /\ sent = <<>> /\ calls = {}
    /\ unsure = {} /\ again = FALSE /\ crossed = FALSE

Loaded ==
    /\ phase = "loading" /\ phase' = "ready"
    /\ detail' = IF mode = "edit" THEN stored ELSE {}
    /\ UNCHANGED <<server, mode, todo, sent, calls, history>>

\* Without its options the form has no subkegiatan and never submits.
LoadFailed ==
    /\ phase = "loading" /\ phase' = "failed"
    /\ UNCHANGED <<server, mode, detail, todo, sent, calls, history>>

-----------------------------------------------------------------------------
(* What the user does.  Only Batal and Simpan wait for a running submit.     *)

About(kind) == \E c \in calls : c.kind = kind

\* submit, up to its first call, with the files chosen by then.  They can be
\* changed at any time: a running submit goes on with those it began with.
Photos == UNION {[1..n -> Photo] : n \in 0..MaxPhotos}
Steps(photos, lpj, dpa) == <<"label">> \o photos \o (IF lpj THEN <<"lpj">> ELSE <<>>)
                                                 \o (IF dpa THEN <<"dpa">> ELSE <<>>)
Submit ==
    /\ phase = "ready" /\ todo = <<>>
    /\ \E photos \in Photos, lpj, dpa \in BOOLEAN : sent' = Steps(photos, lpj, dpa)
    /\ todo' = sent'
    /\ crossed' = (crossed \/ About("lpj"))
    /\ UNCHANGED <<server, mode, phase, detail, calls, unsure, again>>

Batal ==
    /\ phase \in {"ready", "failed"} /\ todo = <<>> /\ phase' = "left" /\ calls' = {}
    /\ detail' = {} /\ UNCHANGED <<server, mode, todo, sent, history>>

\* A switch or a delete button of what is shown, up to its call.
Press(act, d) ==
    /\ phase = "ready"
    /\ \E s \in Slot :
         /\ \A c \in calls : c.slot # s
         /\ calls' = calls \cup {[slot |-> s, act |-> act, kind |-> d.kind, file |-> d.file,
                                  to |-> ~d.public, state |-> "sent"]}
    /\ unsure' = unsure \cup {c.file : c \in {c \in calls : c.kind = d.kind /\ c.file = d.file}}
    /\ crossed' = (crossed \/ (d.kind = "lpj" /\ todo # <<>>))
    /\ UNCHANGED <<server, mode, phase, detail, todo, sent, again>>
UpdatePublication(d) == Press("publish", d)
DeleteDocument(d) == d.kind # "label" /\ Press("delete", d)

-----------------------------------------------------------------------------
(* The server.  When the page is left, what is in flight is not followed.    *)

New(kind, from) == [kind |-> kind, file |-> issued + 1, public |-> FALSE, from |-> from]
Store(items) == issued < MaxFiles /\ issued' = issued + 1 /\ stored' = items

\* One call of the submit: Save, AddDocumentation, ReplaceLPJ, AddDPAVersion.  A
\* year has one label for a subkegiatan: a second POST is a conflict.
Stored(step) ==
    \/ step = "label" /\ mode = "add" /\ Of(stored, "label") = {}
       /\ stored' = stored \cup {Label} /\ UNCHANGED issued
    \/ step = "label" /\ mode = "edit" /\ UNCHANGED server
    \/ step \in Photo /\ Store(stored \cup {New("photo", step)})
    \/ step = "lpj" /\ Store((stored \ Of(stored, "lpj")) \cup {New("lpj", "lpj")})
    \/ step = "dpa" /\ Store(stored \cup {New("dpa", "dpa")})

\* The LPJ is found by its label, any other document by its number.
Meant(c) == {d \in Of(stored, c.kind) : c.kind = "lpj" \/ d.file = c.file}

\* SetPublication, SetFilePublication, and the three deletions.
Effect(c) ==
    /\ Meant(c) # {} /\ UNCHANGED issued
    /\ stored' = (stored \ Meant(c))
                 \cup (IF c.act = "delete" THEN {} ELSE {[d EXCEPT !.public = c.to] : d \in Meant(c)})

Replaced(step) == IF step = "lpj" THEN {d.file : d \in Of(detail, "lpj")} ELSE {}

\* A call of the submit takes effect or not, and is answered; submit goes on to
\* its next call, leaves with the notice after the last, or gives up.
MutSubmitStep ==
    /\ todo # <<>> /\ todo' = Tail(todo)
    /\ \/ Stored(Head(todo)) /\ unsure' = unsure \cup Replaced(Head(todo))
       \/ UNCHANGED <<server, unsure>>
    /\ phase' = IF todo' = <<>> THEN "saved" ELSE phase
    /\ UNCHANGED <<mode, detail, sent, calls, again, crossed>>
SubmitDone ==
    /\ Stored(Head(todo)) /\ unsure' = unsure \cup Replaced(Head(todo))
    /\ todo' = Tail(todo)
    /\ IF todo' = <<>> THEN phase' = "saved" /\ calls' = {} /\ detail' = {}
                       ELSE UNCHANGED <<phase, calls, detail>>
    /\ UNCHANGED <<sent, again>>
SubmitFailed ==
    /\ \/ Stored(Head(todo)) /\ unsure' = unsure \cup Replaced(Head(todo))
       \/ UNCHANGED <<server, unsure>>
    /\ todo' = <<>> /\ sent' = <<>> /\ again' = TRUE
    /\ UNCHANGED <<phase, calls, detail>>
SubmitStep ==
    /\ todo # <<>> /\ (SubmitDone \/ SubmitFailed)
    /\ UNCHANGED <<mode, crossed>>

\* It takes effect and is answered; or it fails, or its answer is lost, which the
\* page tells with a message only.
ServeCall(c) ==
    /\ c.state = "sent"
    /\ \/ /\ Effect(c) /\ UNCHANGED unsure
          /\ calls' = (calls \ {c}) \cup {[c EXCEPT !.state = "done"]}
       \/ /\ \/ Effect(c) /\ unsure' = unsure \cup {c.file}
             \/ UNCHANGED <<server, unsure>>
          /\ calls' = calls \ {c}
    /\ UNCHANGED <<mode, phase, detail, todo, sent, again, crossed>>

-----------------------------------------------------------------------------
(* The answers of the switches and delete buttons.                           *)

\* What a done call changes of what is shown: the LPJ shown by then, or the item.
Shown(c) == {d \in Of(detail, c.kind) : c.kind = "lpj" \/ d.file = c.file}
CallAnswered(c) ==
    /\ c.state = "done" /\ calls' = calls \ {c}
    /\ detail' = (detail \ Shown(c))
                 \cup (IF c.act = "delete" THEN {} ELSE {[d EXCEPT !.public = c.to] : d \in Shown(c)})
    /\ UNCHANGED <<server, mode, phase, todo, sent, history>>

CallStep(c) == ServeCall(c) \/ CallAnswered(c)

Next ==
    \/ Loaded \/ LoadFailed \/ Submit \/ Batal
    \/ \E d \in detail : UpdatePublication(d) \/ DeleteDocument(d)
    \/ SubmitStep
    \/ \E c \in calls : CallStep(c)

\* Every call of a submit is answered or fails.
Fairness == WF_vars(SubmitStep)
Spec == Init /\ [][Next]_vars /\ Fairness

-----------------------------------------------------------------------------
Uploads(from) == {d \in stored : d.from = from}
Times(step)   == Cardinality({i \in DOMAIN sent : sent[i] = step})

\* The page leaves with its notice only when the label and every file of the
\* submit are stored, each once unless an earlier attempt failed: a new attempt
\* sends everything again.  (Calls about the LPJ that run beside a submit may
\* meet the new one instead of the one shown.)
NoticeMeansSaved == phase = "saved" =>
    /\ Of(stored, "label") # {}
    /\ \A p \in Photo : IF again THEN Cardinality(Uploads(p)) >= Times(p)
                        ELSE Cardinality(Uploads(p)) = Times(p)
    /\ Times("lpj") = 1 /\ ~crossed => \E d \in Of(stored, "lpj") : d.from = "lpj" /\ ~d.public
    /\ Times("dpa") = 1 => Uploads("dpa") # {} /\ (again \/ Cardinality(Uploads("dpa")) = 1)

\* With nothing in flight, the documents shown from before, and their flags, are
\* the server's, in whatever order switches, deletions and uploads were served
\* and answered (unless an answer was lost, two calls about one item overlapped,
\* or a failed submit replaced the LPJ: the page does not load again).
FlagsShown ==
    phase = "ready" /\ mode = "edit" /\ calls = {} /\ todo = <<>> =>
        {d \in detail : d.file \notin unsure} = {d \in Uploads(None) : d.file \notin unsure}

\* "LPJ baru atau pengganti selalu kembali menjadi privat": what becomes public is
\* the file whose switch was pressed.  (The switch of an LPJ that is served after
\* the LPJ was replaced publishes the new one.)
ReplacementPrivate == [][
    \A d \in stored' : d.public /\ d \notin stored =>
        \E c \in calls : c.act = "publish" /\ c.to /\ c.kind = d.kind /\ c.file = d.file]_vars

\* Batal and Simpan are disabled during a submit; they do not stay so.
Waiting == todo # <<>>
===============================================================================
