--------------------------- MODULE EmployeeDocuments ---------------------------
(***************************************************************************)
(* The page of one employee and the files of his archive.  Uploading a     *)
(* file, changing the metadata of one and deleting one each have a flag of *)
(* their own, so one call of each kind may be in flight at once, and each  *)
(* answer is folded into the list as the list is by then.                  *)
(***************************************************************************)
EXTENDS Naturals, FiniteSets

CONSTANTS
    MaxDocs,     \* bound: documents the server ever numbers
    MaxVersion,  \* bound: changes of the metadata of one document
    None

DocumentsAssumption == MaxDocs \in Nat /\ MaxVersion \in Nat /\ None \notin Nat

Kind == {"upload", "metadata", "delete"}
Doc  == [id : 1..MaxDocs, version : 0..MaxVersion]
File == {"good", "bad"}  \* as validateClientUpload finds it

VARIABLES
    stored, issued,        \* the server's documents; the numbers it has given
    phase,                 \* "loading", "found", or "missing": pegawai is null
    documents,             \* pegawai.documents
    uploadOpen, file,      \* the upload form, and its selectedFile
    metadataTarget, deleteTarget,
    error,
    calls,                 \* the calls in flight, one of a kind: uploading,
                           \* updatingMetadata and deleting say which
    unsure                 \* history: a call took effect and its answer was lost

server == <<stored, issued>>
forms  == <<uploadOpen, file, metadataTarget, deleteTarget>>
vars   == <<server, phase, documents, forms, error, calls, unsure>>

\* at: the document of the form when it was sent; form: metadataTarget by then.
Call == [kind : Kind, at : 0..MaxDocs, form : 0..MaxDocs \cup {None},
         state : {"sent", "done", "failed"}, answer : Doc \cup {None}]

TypeOK ==
    /\ stored \subseteq Doc /\ issued \in 0..MaxDocs
    /\ phase \in {"loading", "found", "missing"} /\ documents \subseteq Doc
    /\ uploadOpen \in BOOLEAN /\ file \in File \cup {None}
    /\ metadataTarget \in 1..MaxDocs \cup {None} /\ deleteTarget \in 1..MaxDocs \cup {None}
    /\ error \in BOOLEAN /\ unsure \in BOOLEAN
    /\ calls \subseteq Call /\ \A c, d \in calls : c.kind = d.kind => c = d

Init ==
    /\ issued \in 0..MaxDocs /\ stored = {[id |-> i, version |-> 0] : i \in 1..issued}
    /\ phase = "loading" /\ documents = {} /\ uploadOpen = FALSE /\ file = None
    /\ metadataTarget = None /\ deleteTarget = None
    /\ error = FALSE /\ calls = {} /\ unsure = FALSE

Busy(kind) == \E c \in calls : c.kind = kind

\* The open delete dialog is modal: nothing behind it can be reached.
Ready == phase = "found" /\ deleteTarget = None

Loaded ==
    /\ phase = "loading" /\ phase' = "found"
    /\ documents' = stored /\ error' = FALSE
    /\ UNCHANGED <<server, forms, calls, unsure>>
LoadFailed ==
    /\ phase = "loading" /\ phase' = "missing" /\ error' = TRUE
    /\ UNCHANGED <<server, documents, forms, calls, unsure>>

-----------------------------------------------------------------------------
ToggleUpload ==
    /\ Ready /\ uploadOpen' = ~uploadOpen
    /\ UNCHANGED <<server, phase, documents, file, metadataTarget, deleteTarget, error, calls, unsure>>

ChooseFile(f) ==
    /\ Ready /\ uploadOpen /\ ~Busy("upload") /\ file # f
    /\ file' = f
    /\ UNCHANGED <<server, phase, documents, uploadOpen, metadataTarget, deleteTarget, error, calls, unsure>>

\* resetUploadForm.
ResetUpload == uploadOpen' = FALSE /\ file' = None

CancelUpload ==
    /\ Ready /\ uploadOpen /\ ~Busy("upload") /\ ResetUpload
    /\ UNCHANGED <<server, phase, documents, metadataTarget, deleteTarget, error, calls, unsure>>

StartMetadata(d) ==
    /\ Ready /\ d \in documents
    /\ metadataTarget' = d.id /\ error' = FALSE
    /\ UNCHANGED <<server, phase, documents, uploadOpen, file, deleteTarget, calls, unsure>>
CancelMetadata ==
    /\ Ready /\ metadataTarget # None /\ ~Busy("metadata")
    /\ metadataTarget' = None
    /\ UNCHANGED <<server, phase, documents, uploadOpen, file, deleteTarget, error, calls, unsure>>

AskDelete(d) ==
    /\ Ready /\ d \in documents
    /\ deleteTarget' = d.id
    /\ UNCHANGED <<server, phase, documents, uploadOpen, file, metadataTarget, error, calls, unsure>>
CloseDialog ==
    /\ deleteTarget # None /\ ~Busy("delete")
    /\ deleteTarget' = None
    /\ UNCHANGED <<server, phase, documents, uploadOpen, file, metadataTarget, error, calls, unsure>>

\* A handler, up to its call.
Send(kind, at) ==
    /\ ~Busy(kind)
    /\ calls' = calls \cup {[kind |-> kind, at |-> at, form |-> metadataTarget,
                             state |-> "sent", answer |-> None]}
    /\ error' = FALSE
    /\ UNCHANGED <<server, phase, documents, forms, unsure>>

SubmitUpload   == Ready /\ uploadOpen /\ file = "good" /\ Send("upload", 0)
SubmitMetadata == Ready /\ metadataTarget # None /\ Send("metadata", metadataTarget)
ConfirmDelete  == deleteTarget # None /\ Send("delete", deleteTarget)

-----------------------------------------------------------------------------
\* The server: CreateDocument, UpdateDocument and DeleteDocument, which find
\* the document or not.
Effect(c) ==
    \/ /\ c.kind = "upload" /\ issued < MaxDocs
       /\ issued' = issued + 1
       /\ stored' = stored \cup {[id |-> issued + 1, version |-> 0]}
    \/ \E d \in stored :
         /\ c.kind = "metadata" /\ d.id = c.at /\ d.version < MaxVersion
         /\ stored' = (stored \ {d}) \cup {[d EXCEPT !.version = @ + 1]}
         /\ issued' = issued
    \/ \E d \in stored :
         /\ c.kind = "delete" /\ d.id = c.at
         /\ stored' = stored \ {d} /\ issued' = issued

Served(c, state, answer) ==
    /\ c.state = "sent"
    /\ calls' = (calls \ {c}) \cup {[c EXCEPT !.state = state, !.answer = answer]}
    /\ UNCHANGED <<phase, documents, forms, error>>

\* The document it answers with, for a delete the one that is gone.
Serve(c) ==
    /\ Effect(c)
    /\ \E d \in (stored \cup stored') \ (stored \cap stored') :
         (c.kind = "delete" \/ d \in stored') /\ Served(c, "done", d)
    /\ unsure' = unsure
LoseAnswer(c) == Effect(c) /\ Served(c, "failed", None) /\ unsure' = TRUE
Refuse(c)     == Served(c, "failed", None) /\ UNCHANGED <<server, unsure>>

\* The answers.  Each closes its own form, whichever document that is open for
\* by then.
Uploaded(c) ==
    /\ c.state = "done" /\ c.kind = "upload"
    /\ documents' = documents \cup {c.answer}
    /\ ResetUpload
    /\ calls' = calls \ {c}
    /\ UNCHANGED <<server, phase, metadataTarget, deleteTarget, error, unsure>>

MutMetadataUpdated(c) ==
    /\ c.state = "done" /\ c.kind = "metadata"
    /\ documents' = {d \in documents : d.id # c.answer.id} \cup {c.answer}
    /\ metadataTarget' = None
    /\ calls' = calls \ {c}
    /\ UNCHANGED <<server, phase, uploadOpen, file, deleteTarget, error, unsure>>
MetadataUpdated(c) ==
    /\ c.state = "done" /\ c.kind = "metadata"
    /\ documents' = {IF d.id = c.answer.id THEN c.answer ELSE d : d \in documents}
    /\ metadataTarget' = None
    /\ calls' = calls \ {c}
    /\ UNCHANGED <<server, phase, uploadOpen, file, deleteTarget, error, unsure>>

MutDeleted(c) ==
    /\ c.state = "done" /\ c.kind = "delete"
    /\ documents' = {d \in documents : d.id # c.at}
    /\ deleteTarget' = None /\ metadataTarget' = metadataTarget
    /\ calls' = calls \ {c}
    /\ UNCHANGED <<server, phase, uploadOpen, file, error, unsure>>
Deleted(c) ==
    /\ c.state = "done" /\ c.kind = "delete"
    /\ documents' = {d \in documents : d.id # c.at}
    /\ deleteTarget' = None
    /\ metadataTarget' = IF c.form = c.at THEN None ELSE metadataTarget
    /\ calls' = calls \ {c}
    /\ UNCHANGED <<server, phase, uploadOpen, file, error, unsure>>

Failed(c) ==
    /\ c.state = "failed" /\ error' = TRUE
    /\ calls' = calls \ {c}
    /\ UNCHANGED <<server, phase, documents, forms, unsure>>

CallStep(c) == Serve(c) \/ LoseAnswer(c) \/ Refuse(c) \/ Uploaded(c)
               \/ MetadataUpdated(c) \/ Deleted(c) \/ Failed(c)

Next ==
    \/ Loaded \/ LoadFailed
    \/ ToggleUpload \/ CancelUpload \/ SubmitUpload
    \/ \E f \in File \cup {None} : ChooseFile(f)
    \/ \E d \in documents : StartMetadata(d) \/ AskDelete(d)
    \/ CancelMetadata \/ SubmitMetadata \/ CloseDialog \/ ConfirmDelete
    \/ \E c \in calls : CallStep(c)

\* Every call is served and answered, or fails.
Fairness == \A kind \in Kind : WF_vars(\E c \in calls : c.kind = kind /\ CallStep(c))

Spec == Init /\ [][Next]_vars /\ Fairness

-----------------------------------------------------------------------------
\* With nothing in flight the list is the server's, metadata included, in
\* whatever order an upload, a change and a delete were served and answered
\* (unless an answer was lost: the row of a document that was changed or deleted
\* stays as it was, and its new attempt fails).
DocumentsMatch == phase = "found" /\ calls = {} /\ ~unsure => documents = stored

\* The metadata form is never open for a document that is no longer listed.
FormHasDocument == metadataTarget # None => \E d \in documents : d.id = metadataTarget

\* The dialog's buttons are disabled; they do not stay so.
Waiting == Busy("delete")
===============================================================================
