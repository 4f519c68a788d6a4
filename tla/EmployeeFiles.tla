----------------------------- MODULE EmployeeFiles -----------------------------
(***************************************************************************)
(* The photo and the documents of an employee: the blob, the stored_files  *)
(* row, and what refers to it (arsip_pegawai.photo_file_id, or a row of    *)
(* arsip).  The handlers run statement by statement, at READ COMMITTED;    *)
(* what a transaction does after its last read is one step, its commit.    *)
(*                                                                         *)
(* A request runs once, and names the file or the document it creates.     *)
(***************************************************************************)
CONSTANTS
    Pegawai,    \* ids of arsip_pegawai, a BIGSERIAL: never used twice
    Request,
    Fault,      \* the failures the environment may cause
    None

Uploads == {"UploadPhoto", "UploadDocument"}
AllOps  == Uploads \cup {"DeleteDocument", "Delete"}

EmployeeFilesAssumption ==
    /\ Fault \subseteq {"dberror", "reread", "ioerror", "cancel", "crash"}
    /\ None \notin Request \cup Pegawai

VARIABLES
    employee,   \* committed arsip_pegawai: "unborn", "live" or "gone"
    photo,      \* their photo_file_id
    document,   \* committed rows of arsip, by the request that inserted them
    file,       \* committed stored_files rows: "none", "active" or "deleted"
    blob,       \* the blobs present in storage
    pc, op, emp,
    doomed,     \* files a transaction has soft-deleted, or is about to
    keys,       \* blobs its handler unlinks once it has committed
    cancelled,  \* requests whose context is cancelled (the client left)
    disturbed   \* history: a client left, an unlink failed or the server stopped

db    == <<employee, photo, document, file>>
local == <<op, emp, doomed, keys>>
vars  == <<db, blob, pc, local, cancelled, disturbed>>

InTx  == {"read", "lookup", "collect", "photos", "commit"}
Ended == {"done", "failed"}
PC    == InTx \cup Ended \cup {"idle", "save", "reread", "purge", "cleanup"}

TypeOK ==
    /\ employee \in [Pegawai -> {"unborn", "live", "gone"}]
    /\ photo \in [Pegawai -> Request \cup {None}]
    /\ document \in [Request -> Pegawai \cup {None}]
    /\ file \in [Request -> {"none", "active", "deleted"}]
    /\ blob \subseteq Request /\ cancelled \subseteq Request /\ disturbed \in BOOLEAN
    /\ pc \in [Request -> PC]
    /\ op \in [Request -> AllOps \cup {None}]
    /\ emp \in [Request -> Pegawai \cup {None}]
    /\ doomed \in [Request -> SUBSET Request] /\ keys \in [Request -> SUBSET Request]

Init ==
    /\ employee = [p \in Pegawai |-> "unborn"] /\ photo = [p \in Pegawai |-> None]
    /\ document = [r \in Request |-> None] /\ file = [r \in Request |-> "none"]
    /\ blob = {} /\ cancelled = {} /\ disturbed = FALSE
    /\ pc = [r \in Request |-> "idle"]
    /\ op = [r \in Request |-> None] /\ emp = [r \in Request |-> None]
    /\ doomed = [r \in Request |-> {}] /\ keys = [r \in Request |-> {}]

\* ArsipPegawaiController.Create: only the row matters here.
CreateEmployee(p) ==
    /\ employee[p] = "unborn"
    /\ employee' = [employee EXCEPT ![p] = "live"]
    /\ UNCHANGED <<photo, document, file, blob, pc, local, cancelled, disturbed>>

Documents(p) == {d \in Request : document[d] = p}
Photo(p)     == {photo[p]} \ {None}
Active(files) == {f \in files : file[f] = "active"}

Goto(r, step) == pc' = [pc EXCEPT ![r] = step]

-----------------------------------------------------------------------------
(* The handlers up to their transactions.                                    *)

\* Every handler starts with a read of the employee, or of the document it
\* deletes.  Delete keeps the storage keys of this detail.
Start(r, o, p) ==
    /\ pc[r] = "idle" /\ employee[p] = "live"
    /\ op' = [op EXCEPT ![r] = o] /\ emp' = [emp EXCEPT ![r] = p]
    /\ \/ o \in Uploads /\ Goto(r, "save") /\ UNCHANGED <<doomed, keys>>
       \/ o = "DeleteDocument" /\ Goto(r, "commit")
          /\ \E d \in Documents(p) : /\ doomed' = [doomed EXCEPT ![r] = {d}]
                                     /\ keys' = [keys EXCEPT ![r] = {d}]
       \/ o = "Delete" /\ Goto(r, "collect") /\ UNCHANGED doomed
          /\ keys' = [keys EXCEPT ![r] = Documents(p) \cup Active(Photo(p))]
    /\ UNCHANGED <<db, blob, cancelled, disturbed>>

AfterSave(r) == IF op[r] = "UploadPhoto" THEN "read" ELSE "commit"
SaveBlob(r) ==
    /\ pc[r] = "save" /\ blob' = blob \cup {r} /\ Goto(r, AfterSave(r))
    /\ UNCHANGED <<db, local, cancelled, disturbed>>
SaveRefused(r) ==
    /\ pc[r] = "save" /\ Goto(r, "failed")
    /\ UNCHANGED <<db, blob, local, cancelled, disturbed>>

-----------------------------------------------------------------------------
(* The transactions.  A statement of a cancelled context fails.              *)

Runs(r, step) == pc[r] = step /\ r \notin cancelled

\* The stored_files rows a deletion has updated are locked until it commits.
Unlocked(r, files) ==
    \A q \in Request \ {r} : pc[q] \in {"photos", "commit"} /\ op[q] = "Delete" =>
        doomed[q] \cap files = {}

\* ReplacePhoto reads the current photo without a lock ...
ReadPhoto(r) ==
    /\ Runs(r, "read")
    /\ \/ employee[emp[r]] # "live" /\ Goto(r, "cleanup") /\ UNCHANGED doomed
       \/ employee[emp[r]] = "live"
          /\ doomed' = [doomed EXCEPT ![r] = Photo(emp[r])]
          /\ Goto(r, IF Photo(emp[r]) = {} THEN "commit" ELSE "lookup")
    /\ UNCHANGED <<db, blob, op, emp, keys, cancelled, disturbed>>

\* ... and its storage key, if the file is not deleted by then.
MutLookupPrevious(r) ==
    /\ Runs(r, "lookup") /\ Goto(r, "commit")
    /\ keys' = [keys EXCEPT ![r] = {r}]
    /\ UNCHANGED <<db, blob, op, emp, doomed, cancelled, disturbed>>
LookupPrevious(r) ==
    /\ Runs(r, "lookup") /\ Goto(r, "commit")
    /\ keys' = [keys EXCEPT ![r] = Active(doomed[r])]
    /\ UNCHANGED <<db, blob, op, emp, doomed, cancelled, disturbed>>

\* Delete's two UPDATEs: the files of the employee's documents, and all photos
\* ever recorded for him.
CollectDocuments(r) ==
    LET found == Active(Documents(emp[r]))
    IN  /\ Runs(r, "collect") /\ Unlocked(r, found) /\ Goto(r, "photos")
        /\ doomed' = [doomed EXCEPT ![r] = found]
        /\ UNCHANGED <<db, blob, op, emp, keys, cancelled, disturbed>>
CollectPhotos(r) ==
    LET found == Active({f \in Request : op[f] = "UploadPhoto" /\ emp[f] = emp[r]})
    IN  /\ Runs(r, "photos") /\ Unlocked(r, found) /\ Goto(r, "commit")
        /\ doomed' = [doomed EXCEPT ![r] = @ \cup found]
        /\ UNCHANGED <<db, blob, op, emp, keys, cancelled, disturbed>>

SoftDeleted(r) == [f \in Request |-> IF f \in Active(doomed[r]) THEN "deleted" ELSE file[f]]

\* The file is recorded and the former one is deleted, but the UPDATE of an
\* employee who is gone changes nothing.
CommitPhoto(r) ==
    /\ Runs(r, "commit") /\ op[r] = "UploadPhoto" /\ Unlocked(r, doomed[r])
    /\ file' = [SoftDeleted(r) EXCEPT ![r] = "active"]
    /\ photo' = IF employee[emp[r]] = "live" THEN [photo EXCEPT ![emp[r]] = r] ELSE photo
    /\ Goto(r, "reread")
    /\ UNCHANGED <<employee, document, blob, local, cancelled, disturbed>>

\* The foreign key of arsip refuses an employee who is gone.
CommitDocument(r) ==
    /\ Runs(r, "commit") /\ op[r] = "UploadDocument"
    /\ IF employee[emp[r]] = "live"
       THEN /\ document' = [document EXCEPT ![r] = emp[r]]
            /\ file' = [file EXCEPT ![r] = "active"]
            /\ Goto(r, "reread")
       ELSE Goto(r, "cleanup") /\ UNCHANGED <<document, file>>
    /\ UNCHANGED <<employee, photo, blob, local, cancelled, disturbed>>

\* No row deleted rolls the soft-delete back.
CommitDeleteDocument(r) ==
    /\ Runs(r, "commit") /\ op[r] = "DeleteDocument" /\ Unlocked(r, doomed[r])
    /\ IF \A d \in doomed[r] : document[d] # None
       THEN /\ document' = [d \in Request |-> IF d \in doomed[r] THEN None ELSE document[d]]
            /\ file' = SoftDeleted(r) /\ Goto(r, "purge")
       ELSE Goto(r, "failed") /\ UNCHANGED <<document, file>>
    /\ UNCHANGED <<employee, photo, blob, local, cancelled, disturbed>>

\* The documents go with the employee (ON DELETE CASCADE).
CommitDelete(r) ==
    /\ Runs(r, "commit") /\ op[r] = "Delete"
    /\ file' = SoftDeleted(r)
    /\ IF employee[emp[r]] = "live"
       THEN /\ employee' = [employee EXCEPT ![emp[r]] = "gone"]
            /\ photo' = [photo EXCEPT ![emp[r]] = None]
            /\ document' = [d \in Request |-> IF document[d] = emp[r] THEN None ELSE document[d]]
            /\ Goto(r, "purge")
       ELSE Goto(r, "failed") /\ UNCHANGED <<employee, photo, document>>
    /\ UNCHANGED <<blob, local, cancelled, disturbed>>

\* Nothing is written; an upload removes the blob it wrote.
MutAfterError(r) == "failed"
AfterError(r) == IF op[r] \in Uploads THEN "cleanup" ELSE "failed"
TxError(r) ==
    /\ pc[r] \in InTx /\ ("dberror" \in Fault \/ r \in cancelled)
    /\ Goto(r, AfterError(r))
    /\ doomed' = [doomed EXCEPT ![r] = {}] /\ keys' = [keys EXCEPT ![r] = {}]
    /\ UNCHANGED <<db, blob, op, emp, cancelled, disturbed>>

-----------------------------------------------------------------------------
(* After the transaction.                                                    *)

\* An upload reads again what it wrote.  If it is not there any more, or the
\* read fails, the handler removes its blob as after a rollback.
Found(r) == IF op[r] = "UploadPhoto" THEN employee[emp[r]] = "live" ELSE document[r] # None
Reread(r) ==
    /\ pc[r] = "reread"
    /\ \/ Found(r) /\ r \notin cancelled /\ Goto(r, "purge")
       \/ (~Found(r) \/ r \in cancelled \/ "reread" \in Fault) /\ Goto(r, "cleanup")
    /\ UNCHANGED <<db, blob, local, cancelled, disturbed>>

\* deleteManagedStoredFile: uses the request's context, only logs a failure.
Unlink(r, f) ==
    \/ r \notin cancelled /\ blob' = blob \ {f} /\ UNCHANGED disturbed
    \/ (r \in cancelled \/ "ioerror" \in Fault) /\ UNCHANGED blob /\ disturbed' = TRUE

Purge(r) ==
    /\ pc[r] = "purge"
    /\ \/ keys[r] = {} /\ Goto(r, "done") /\ UNCHANGED <<blob, keys, disturbed>>
       \/ \E f \in keys[r] : Unlink(r, f) /\ keys' = [keys EXCEPT ![r] = @ \ {f}]
                             /\ UNCHANGED pc
    /\ UNCHANGED <<db, op, emp, doomed, cancelled>>
Cleanup(r) ==
    /\ pc[r] = "cleanup" /\ Unlink(r, r) /\ Goto(r, "failed")
    /\ UNCHANGED <<db, local, cancelled>>

-----------------------------------------------------------------------------
Running == {r \in Request : pc[r] \notin Ended \cup {"idle"}}

Leave(r) ==
    /\ "cancel" \in Fault /\ r \in Running \ cancelled
    /\ cancelled' = cancelled \cup {r} /\ disturbed' = TRUE
    /\ UNCHANGED <<db, blob, pc, local>>

Crash ==
    /\ "crash" \in Fault /\ Running # {}
    /\ pc' = [r \in Request |-> IF r \in Running THEN "failed" ELSE pc[r]]
    /\ disturbed' = TRUE
    /\ UNCHANGED <<db, blob, local, cancelled>>

Step(r) ==
    \/ SaveBlob(r) \/ SaveRefused(r) \/ ReadPhoto(r) \/ LookupPrevious(r)
    \/ CollectDocuments(r) \/ CollectPhotos(r)
    \/ CommitPhoto(r) \/ CommitDocument(r) \/ CommitDeleteDocument(r) \/ CommitDelete(r)
    \/ TxError(r) \/ Reread(r) \/ Purge(r) \/ Cleanup(r)

\* The client sends no more.
AllEnded == Running = {} /\ UNCHANGED vars

Next ==
    \/ \E p \in Pegawai : CreateEmployee(p)
    \/ \E r \in Request, o \in AllOps, p \in Pegawai : Start(r, o, p)
    \/ \E r \in Request : Step(r) \/ Leave(r)
    \/ Crash \/ AllEnded
Spec == Init /\ [][Next]_vars

-----------------------------------------------------------------------------
\* Readers see a register in which an employee has one photo and any documents:
\* each is published, exchanged or withdrawn in one step, all go with the
\* employee, and what is listed can be read, although a photo is replaced by what
\* was read without a lock and blobs are unlinked after the commits.
Entry(p, kind, f) ==
    [label |-> p, kind |-> kind, file |-> f,
     readable |-> file[f] = "active" /\ f \in blob]
Listed ==
    {Entry(p, "photo", photo[p]) : p \in {p \in Pegawai : photo[p] # None}}
    \cup {Entry(document[d], "document", d) : d \in {d \in Request : document[d] # None}}
Register == INSTANCE DocumentRegister
                WITH Label <- Pegawai, Kind <- {"photo", "document"}, File <- Request,
                     Single <- {"photo"}, label <- employee, listed <- Listed
RegisterSpec == Register!Spec

\* As long as the employee is there, the metadata of each of his documents is
\* listed; and once all requests have ended, his blobs are those of his active
\* files, unless a client left, an unlink failed or the server stopped.  (Two
\* uploads of a photo that read the same one both stay active.)
FilesAccounted ==
    \A f \in Request : op[f] \in Uploads /\ employee[emp[f]] = "live" =>
        /\ op[f] = "UploadDocument" /\ file[f] = "active" => document[f] = emp[f]
        /\ Running = {} /\ ~disturbed => (f \in blob <=> file[f] = "active")
===============================================================================
