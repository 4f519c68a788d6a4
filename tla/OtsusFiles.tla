------------------------------ MODULE OtsusFiles ------------------------------
(***************************************************************************)
(* The life of the files attached to an Otsus label: the blob in the local *)
(* storage, the stored_files row that describes it, and the child row      *)
(* (documentation photo, LPJ report or DPA version) that refers to it.     *)
(*                                                                         *)
(* A request runs the statements of its handler one at a time, between     *)
(* those of other requests.  PostgreSQL runs them at READ COMMITTED: a     *)
(* statement reads what is committed, a transaction's writes appear when   *)
(* it commits, and a row lock is kept until the transaction ends.          *)
(*                                                                         *)
(* A request runs once.  It also names what it creates: the blob (its key  *)
(* holds a fresh UUID), the stored_files row and the child row.            *)
(***************************************************************************)
EXTENDS Naturals, FiniteSets

CONSTANTS
    Label,      \* ids of labelisasi_otsus, a BIGSERIAL: never used twice
    Request,    \* HTTP requests
    Op,         \* the operations they may ask for
    Fault,      \* the failures the environment may cause
    None

Uploads  == {"UploadDocumentation", "UploadLPJ", "UploadDPA"}
Removals == {"DeleteDocumentation", "DeleteLPJ", "DeleteDPA"}
AllOps   == Uploads \cup Removals \cup {"Delete"}
Faults   == {"dberror", "ioerror", "cancel", "crash", "lostack"}

ASSUME OpAssumption    == Op \subseteq AllOps
ASSUME FaultAssumption == Fault \subseteq Faults
ASSUME NoneAssumption  == None \notin Request

VARIABLES
    label,      \* committed labelisasi_otsus: "unborn", "live" or "gone"
    row,        \* committed child rows, by the request that inserted them
    file,       \* committed stored_files rows: "none", "active" or "deleted"
    related,    \* their related_entity_id
    blob,       \* the blobs present in storage
    pc,         \* where each request is
    op, lab,    \* what it asks for, and of which label
    target,     \* the child row its transaction read
    doomed,     \* files it soft-deletes, then, once committed, unlinks
    ver,        \* the DPA version it computed
    held,       \* row locks of its transaction
    cancelled   \* requests whose context is cancelled (the client left)

db    == <<label, row, file, related>>
local == <<op, lab, target, doomed, ver>>
vars  == <<db, blob, pc, local, held, cancelled>>

Kind == {"documentation", "lpj", "dpa"}
KindOf(o) ==
    IF o \in {"UploadDocumentation", "DeleteDocumentation"} THEN "documentation"
    ELSE IF o \in {"UploadLPJ", "DeleteLPJ"} THEN "lpj"
    ELSE "dpa"

Row   == [kind: Kind, label: Label, file: Request, versi: Nat]
ASSUME RowAssumption == None \notin Row

InTx  == {"begin", "find", "collect", "retire", "apply", "cascade", "commit"}
Ended == {"done", "failed"}
PC    == InTx \cup Ended \cup {"idle", "save", "purge", "cleanup"}

\* The child rows of label l, all of them or those of one kind.
Children(l)    == {i \in Request : row[i] # None /\ row[i].label = l}
ChildrenOf(l, k) == {i \in Children(l) : row[i].kind = k}

-------------------------------------------------------------------------------
(* Row locks.                                                              *)

LabelRow(l) == <<"label", l>>
FileRow(f)  == <<"file", f>>
ChildRow(i) == <<"child", i>>
Resource == {LabelRow(l) : l \in Label} \cup {FileRow(f) : f \in Request}
                \cup {ChildRow(i) : i \in Request}

\* The request's last statement inserts a child row of its label: the foreign
\* key takes FOR KEY SHARE on the label's row.
Inserts(r) == \/ op[r] \in {"UploadDocumentation", "UploadDPA"}
              \/ op[r] = "UploadLPJ" /\ target[r] = None
Shares(r)  == pc[r] = "commit" /\ Inserts(r)

Free(r, x)      == \A q \in Request \ {r} : x \notin held[q]
LabelFree(r, l) == /\ Free(r, LabelRow(l))
                   /\ \A q \in Request \ {r} : ~(Shares(q) /\ lab[q] = l)

\* ensureOtsusLabel(lock = true): these read the label FOR UPDATE.
MutLocksLabel(o) == o = "UploadDPA"
LocksLabel(o) == o \in {"UploadLPJ", "UploadDPA"}

\* q holds what r's next statement needs.
Blocks(q, r) ==
    /\ q # r
    /\ \/ /\ pc[r] = "retire"
          /\ \E f \in doomed[r] : FileRow(f) \in held[q] \ held[r]
       \/ /\ pc[r] = "apply" /\ op[r] = "Delete"
          /\ \/ LabelRow(lab[r]) \in held[q]
             \/ Shares(q) /\ lab[q] = lab[r]

\* Each waits for the other: PostgreSQL aborts one of them.
Deadlocked(r) == \E q \in Request : Blocks(q, r) /\ Blocks(r, q)

-------------------------------------------------------------------------------
Init ==
    /\ label   = [l \in Label |-> "unborn"]
    /\ row     = [i \in Request |-> None]
    /\ file    = [f \in Request |-> "none"]
    /\ related = [f \in Request |-> None]
    /\ blob    = {}
    /\ pc      = [r \in Request |-> "idle"]
    /\ op      = [r \in Request |-> None]
    /\ lab     = [r \in Request |-> None]
    /\ target  = [r \in Request |-> None]
    /\ doomed  = [r \in Request |-> {}]
    /\ ver     = [r \in Request |-> 0]
    /\ held    = [r \in Request |-> {}]
    /\ cancelled = {}

\* OtsusController.Create: a new label.  Its row is all that matters here.
CreateLabel(l) ==
    /\ label[l] = "unborn"
    /\ label' = [label EXCEPT ![l] = "live"]
    /\ UNCHANGED <<row, file, related, blob, pc, local, held, cancelled>>

\* A handler starts.  An upload writes its blob first, the rest go to the
\* database at once.
Start(r) ==
    /\ pc[r] = "idle"
    /\ \E o \in Op, l \in Label :
          /\ label[l] # "unborn"
          /\ op'  = [op EXCEPT ![r] = o]
          /\ lab' = [lab EXCEPT ![r] = l]
          /\ pc'  = [pc EXCEPT ![r] = IF o \in Uploads THEN "save" ELSE "begin"]
    /\ UNCHANGED <<db, blob, target, doomed, ver, held, cancelled>>

\* files.Save publishes the blob.
SaveBlob(r) ==
    /\ pc[r] = "save"
    /\ blob' = blob \cup {r}
    /\ pc' = [pc EXCEPT ![r] = "begin"]
    /\ UNCHANGED <<db, local, held, cancelled>>

\* files.Save refuses the upload or fails, and leaves nothing behind.
SaveRefused(r) ==
    /\ pc[r] = "save"
    /\ pc' = [pc EXCEPT ![r] = "failed"]
    /\ UNCHANGED <<db, blob, local, held, cancelled>>

-------------------------------------------------------------------------------
(* The transactions.  A statement of a cancelled context fails (Rollback). *)

Runs(r, step) == pc[r] = step /\ r \notin cancelled

\* Leaving a transaction without a commit: the controller of an upload then
\* removes the blob it wrote, the other controllers answer with the error.
MutAfterError(r) == "failed"
MutRetries(r) == "begin"
AfterError(r) == IF op[r] \in Uploads THEN "cleanup" ELSE "failed"

\* ensureOtsusLabel, or the COUNT that OtsusRepository.Delete starts with.
CheckLabel(r) ==
    /\ Runs(r, "begin")
    /\ LocksLabel(op[r]) => LabelFree(r, lab[r])
    /\ IF label[lab[r]] = "live"
       THEN /\ pc' = [pc EXCEPT ![r] =
                        IF op[r] = "UploadDocumentation" THEN "apply" ELSE "find"]
            /\ held' = [held EXCEPT ![r] =
                        IF LocksLabel(op[r]) THEN {LabelRow(lab[r])} ELSE {}]
       ELSE /\ pc' = [pc EXCEPT ![r] = AfterError(r)]
            /\ UNCHANGED held
    /\ UNCHANGED <<db, blob, local, cancelled>>

\* AddDPAVersion: COALESCE(MAX(versi), 0) + 1.
FindVersion(r) ==
    LET versions == {row[i].versi : i \in ChildrenOf(lab[r], "dpa")} \cup {0}
    IN  /\ Runs(r, "find") /\ op[r] = "UploadDPA"
        /\ \E max \in versions :
              /\ \A v \in versions : v <= max
              /\ ver' = [ver EXCEPT ![r] = max + 1]
        /\ pc' = [pc EXCEPT ![r] = "apply"]
        /\ UNCHANGED <<db, blob, op, lab, target, doomed, held, cancelled>>

\* The child row a transaction works on, and the file to soft-delete with it.
Target(r, i) ==
    /\ target' = [target EXCEPT ![r] = i]
    /\ doomed' = [doomed EXCEPT ![r] = {row[i].file}]
    /\ pc' = [pc EXCEPT ![r] = "retire"]

\* ReplaceLPJ: the current LPJ and its file, if the label has one.
FindCurrentLPJ(r) ==
    /\ Runs(r, "find") /\ op[r] = "UploadLPJ"
    /\ \/ \E i \in ChildrenOf(lab[r], "lpj") : Target(r, i)
       \/ /\ ChildrenOf(lab[r], "lpj") = {}
          /\ pc' = [pc EXCEPT ![r] = "apply"]
          /\ UNCHANGED <<target, doomed>>
    /\ UNCHANGED <<db, blob, op, lab, ver, held, cancelled>>

\* DeleteDocumentation, DeleteDPAVersion and DeleteLPJ: the row and its file,
\* read without a lock.
FindChild(r) ==
    /\ Runs(r, "find") /\ op[r] \in Removals
    /\ \/ \E i \in ChildrenOf(lab[r], KindOf(op[r])) : Target(r, i)
       \/ /\ ChildrenOf(lab[r], KindOf(op[r])) = {}
          /\ pc' = [pc EXCEPT ![r] = "failed"]
          /\ UNCHANGED <<target, doomed>>
    /\ UNCHANGED <<db, blob, op, lab, ver, held, cancelled>>

\* The active files whose related_entity_id is a child of label l of kind k.
FilesOf(l, k) == {f \in Request : /\ file[f] = "active"
                                  /\ related[f] \in ChildrenOf(l, k)
                                  /\ KindOf(op[f]) = k}

\* OtsusRepository.Delete reads the storage keys in two statements.
CollectDocumentation(r) ==
    /\ Runs(r, "find") /\ op[r] = "Delete"
    /\ doomed' = [doomed EXCEPT ![r] = FilesOf(lab[r], "documentation")]
    /\ pc' = [pc EXCEPT ![r] = "collect"]
    /\ UNCHANGED <<db, blob, op, lab, target, ver, held, cancelled>>

CollectDocuments(r) ==
    LET keys == doomed[r] \cup FilesOf(lab[r], "lpj") \cup FilesOf(lab[r], "dpa")
    IN  /\ Runs(r, "collect")
        /\ doomed' = [doomed EXCEPT ![r] = keys]
        /\ pc' = [pc EXCEPT ![r] = IF keys = {} THEN "apply" ELSE "retire"]
        /\ UNCHANGED <<db, blob, op, lab, target, ver, held, cancelled>>

\* softDeleteStoredFileRecord: UPDATE ... WHERE id = ? AND deleted_at IS NULL.
\* It locks the row it finds; a row deleted meanwhile is not found.
RetireFile(r) ==
    /\ Runs(r, "retire") /\ op[r] # "Delete"
    /\ \E f \in doomed[r] :
          /\ Free(r, FileRow(f))
          /\ held' = [held EXCEPT ![r] =
                         IF file[f] = "active" THEN @ \cup {FileRow(f)} ELSE @]
    /\ pc' = [pc EXCEPT ![r] = "apply"]
    /\ UNCHANGED <<db, blob, local, cancelled>>

\* Delete's UPDATE ... WHERE storage_key IN keys, one row after the other.
RetireCollected(r) ==
    /\ Runs(r, "retire") /\ op[r] = "Delete"
    /\ \E f \in doomed[r] :
          /\ FileRow(f) \notin held[r] /\ Free(r, FileRow(f))
          /\ held' = [held EXCEPT ![r] = @ \cup {FileRow(f)}]
    /\ pc' = [pc EXCEPT ![r] =
                 IF {FileRow(f) : f \in doomed[r]} \subseteq held'[r]
                 THEN "apply" ELSE "retire"]
    /\ UNCHANGED <<db, blob, local, cancelled>>

\* INSERT of the stored_files row and of the child row.  The foreign key waits
\* for a lock on the label and refuses a label that is gone.  The UNIQUE
\* constraints of lpj_otsus and versi_dpa_otsus refuse nothing here:
\* ChildrenUnique says that the label's lock alone keeps them from being met.
InsertChild(r) ==
    /\ Runs(r, "apply") /\ Inserts(r)
    /\ Free(r, LabelRow(lab[r]))
    /\ pc' = [pc EXCEPT ![r] = IF label[lab[r]] = "live" THEN "commit" ELSE "cleanup"]
    /\ held' = IF label[lab[r]] = "live" THEN held ELSE [held EXCEPT ![r] = {}]
    /\ UNCHANGED <<db, blob, local, cancelled>>

\* ReplaceLPJ's UPDATE of the current row, and the DELETE of a removal: by
\* primary key.  No row found is not an error.
LockTarget(r) ==
    /\ Runs(r, "apply") /\ target[r] # None
    /\ Free(r, ChildRow(target[r]))
    /\ held' = [held EXCEPT ![r] =
                   IF row[target[r]] # None THEN @ \cup {ChildRow(target[r])} ELSE @]
    /\ pc' = [pc EXCEPT ![r] = "commit"]
    /\ UNCHANGED <<db, blob, local, cancelled>>

\* Delete's DELETE of the label, which finds nothing if another request
\* deleted it first ...
RemoveLabel(r) ==
    /\ Runs(r, "apply") /\ op[r] = "Delete"
    /\ LabelFree(r, lab[r])
    /\ IF label[lab[r]] = "live"
       THEN /\ held' = [held EXCEPT ![r] = @ \cup {LabelRow(lab[r])}]
            /\ pc' = [pc EXCEPT ![r] = "cascade"]
       ELSE /\ pc' = [pc EXCEPT ![r] = "commit"]
            /\ UNCHANGED held
    /\ UNCHANGED <<db, blob, local, cancelled>>

\* ... and its ON DELETE CASCADE to the child rows.
Cascade(r) ==
    /\ Runs(r, "cascade")
    /\ \A i \in Children(lab[r]) : Free(r, ChildRow(i))
    /\ held' = [held EXCEPT ![r] = @ \cup {ChildRow(i) : i \in Children(lab[r])}]
    /\ pc' = [pc EXCEPT ![r] = "commit"]
    /\ UNCHANGED <<db, blob, local, cancelled>>

-------------------------------------------------------------------------------
(* How a transaction ends.                                                 *)

Forget(r) ==
    /\ held'   = [held EXCEPT ![r] = {}]
    /\ target' = [target EXCEPT ![r] = None]
    /\ ver'    = [ver EXCEPT ![r] = 0]
    /\ UNCHANGED <<op, lab>>

\* db.Transaction returns an error: nothing is written.
Rollback(r) ==
    /\ Forget(r)
    /\ doomed' = [doomed EXCEPT ![r] = {}]
    /\ pc' = [pc EXCEPT ![r] = AfterError(r)]
    /\ UNCHANGED <<db, blob, cancelled>>

TxError(r) ==
    /\ pc[r] \in InTx
    /\ "dberror" \in Fault \/ r \in cancelled
    /\ Rollback(r)

DeadlockAbort(r) == pc[r] \in InTx /\ Deadlocked(r) /\ Rollback(r)

\* COMMIT took effect.  The handler goes on to unlink the replaced blobs, or
\* sees an error: the connection broke before the answer came, or the context
\* was cancelled while it waited.
Committed(r) ==
    /\ Forget(r)
    /\ \/ /\ pc' = [pc EXCEPT ![r] = IF doomed[r] = {} THEN "done" ELSE "purge"]
          /\ UNCHANGED <<doomed, cancelled>>
       \/ /\ pc' = [pc EXCEPT ![r] = AfterError(r)]
          /\ doomed' = [doomed EXCEPT ![r] = {}]
          /\ \/ "lostack" \in Fault /\ UNCHANGED cancelled
             \/ "cancel" \in Fault /\ cancelled' = cancelled \cup {r}
    /\ UNCHANGED blob

\* The stored_files rows once the doomed ones are soft-deleted.
MutSoftDeleted(r) == file
SoftDeleted(r) ==
    [f \in Request |-> IF f \in doomed[r] THEN "deleted" ELSE file[f]]

\* The child row is inserted after the stored_files row, whose related_entity_id
\* is the label's id until the last statement sets it to the child's.
MutRelatedEntity(r) == lab[r]
RelatedEntity(r) == IF target[r] = None THEN r ELSE target[r]

NewRow(r) == [kind |-> KindOf(op[r]), label |-> lab[r], file |-> r, versi |-> ver[r]]

CommitInsert(r) ==
    /\ Runs(r, "commit") /\ Inserts(r)
    /\ row'     = [row EXCEPT ![r] = NewRow(r)]
    /\ file'    = [file EXCEPT ![r] = "active"]
    /\ related' = [related EXCEPT ![r] = RelatedEntity(r)]
    /\ UNCHANGED label
    /\ Committed(r)

Repointed(i, f) ==
    [kind |-> row[i].kind, label |-> row[i].label, file |-> f, versi |-> row[i].versi]

\* ReplaceLPJ over an existing LPJ.  If a DeleteLPJ removed the row first, the
\* UPDATE changes nothing and the new file is recorded all the same.
CommitRepoint(r) ==
    /\ Runs(r, "commit") /\ op[r] = "UploadLPJ" /\ target[r] # None
    /\ row'     = IF row[target[r]] = None THEN row
                  ELSE [row EXCEPT ![target[r]] = Repointed(target[r], r)]
    /\ file'    = [SoftDeleted(r) EXCEPT ![r] = "active"]
    /\ related' = [related EXCEPT ![r] = RelatedEntity(r)]
    /\ UNCHANGED label
    /\ Committed(r)

MutWithoutTarget(r) == row
WithoutTarget(r) == [row EXCEPT ![target[r]] = None]

CommitRemoval(r) ==
    /\ Runs(r, "commit") /\ op[r] \in Removals
    /\ row'  = WithoutTarget(r)
    /\ file' = SoftDeleted(r)
    /\ UNCHANGED <<label, related>>
    /\ Committed(r)

CommitDelete(r) ==
    /\ Runs(r, "commit") /\ op[r] = "Delete"
    /\ label' = [label EXCEPT ![lab[r]] = "gone"]
    /\ row'   = [i \in Request |-> IF i \in Children(lab[r]) THEN None ELSE row[i]]
    /\ file'  = SoftDeleted(r)
    /\ UNCHANGED related
    /\ Committed(r)

-------------------------------------------------------------------------------
(* After the transaction.                                                  *)

\* deleteManagedStoredFile: uses the request's context, only logs a failure.
Unlink(r, f) ==
    \/ r \notin cancelled /\ blob' = blob \ {f}
    \/ (r \in cancelled \/ "ioerror" \in Fault) /\ UNCHANGED blob

\* The blobs a committed transaction soft-deleted, one after the other.
Purge(r) ==
    /\ pc[r] = "purge"
    /\ \E f \in doomed[r] :
          /\ Unlink(r, f)
          /\ doomed' = [doomed EXCEPT ![r] = @ \ {f}]
    /\ pc' = [pc EXCEPT ![r] = IF doomed'[r] = {} THEN "done" ELSE "purge"]
    /\ UNCHANGED <<db, op, lab, target, ver, held, cancelled>>

\* The blob of an upload whose transaction failed.
Cleanup(r) ==
    /\ pc[r] = "cleanup"
    /\ Unlink(r, r)
    /\ pc' = [pc EXCEPT ![r] = "failed"]
    /\ UNCHANGED <<db, local, held, cancelled>>

\* The client goes away.
Cancel(r) ==
    /\ "cancel" \in Fault
    /\ pc[r] \notin Ended \cup {"idle"} /\ r \notin cancelled
    /\ cancelled' = cancelled \cup {r}
    /\ UNCHANGED <<db, blob, pc, local, held>>

\* The server stops: PostgreSQL rolls back, the blobs stay as they are.
Crash ==
    LET running == {r \in Request : pc[r] \notin Ended \cup {"idle"}}
    IN  /\ "crash" \in Fault /\ running # {}
        /\ pc'     = [r \in Request |-> IF r \in running THEN "failed" ELSE pc[r]]
        /\ held'   = [r \in Request |-> {}]
        /\ doomed' = [r \in Request |-> {}]
        /\ target' = [r \in Request |-> None]
        /\ ver'    = [r \in Request |-> 0]
        /\ cancelled' = {}
        /\ UNCHANGED <<db, blob, op, lab>>

\* Every statement of a handler, the deadlock detector included.
Step(r) ==
    \/ SaveBlob(r) \/ SaveRefused(r) \/ CheckLabel(r)
    \/ FindVersion(r) \/ FindCurrentLPJ(r) \/ FindChild(r)
    \/ CollectDocumentation(r) \/ CollectDocuments(r)
    \/ RetireFile(r) \/ RetireCollected(r)
    \/ InsertChild(r) \/ LockTarget(r) \/ RemoveLabel(r) \/ Cascade(r)
    \/ CommitInsert(r) \/ CommitRepoint(r) \/ CommitRemoval(r) \/ CommitDelete(r)
    \/ Purge(r) \/ Cleanup(r)
    \/ TxError(r) \/ DeadlockAbort(r)

\* Nothing is left to do.
AllEnded == (\A r \in Request : pc[r] \in Ended) /\ UNCHANGED vars

Next ==
    \/ \E l \in Label : CreateLabel(l)
    \/ \E r \in Request : Start(r) \/ Step(r) \/ Cancel(r)
    \/ Crash
    \/ AllEnded

Spec == Init /\ [][Next]_vars

\* A started handler runs on: its goroutine is scheduled, and PostgreSQL grants
\* a free lock and breaks a deadlock.
FairSpec == Spec /\ \A r \in Request : WF_vars(Step(r))

-------------------------------------------------------------------------------
(* Properties.                                                             *)

\* The variables hold values of their types.
TypeOK ==
    /\ label \in [Label -> {"unborn", "live", "gone"}]
    /\ row \in [Request -> Row \cup {None}]
    /\ file \in [Request -> {"none", "active", "deleted"}]
    /\ related \in [Request -> Request \cup {None}]
    /\ blob \subseteq Request
    /\ pc \in [Request -> PC]
    /\ op \in [Request -> Op \cup {None}]
    /\ lab \in [Request -> Label \cup {None}]
    /\ \A r \in Request : pc[r] # "idle" => op[r] \in Op /\ lab[r] \in Label
    /\ target \in [Request -> Request \cup {None}]
    /\ doomed \in [Request -> SUBSET Request]
    /\ ver \in [Request -> Nat]
    /\ held \in [Request -> SUBSET Resource]
    /\ cancelled \subseteq Request

\* Metadata never outlives its binary: while a stored_files row is not deleted,
\* its blob is in storage.  The blob is written before the row and unlinked
\* after the row's soft-delete is committed, whatever fails in between.
ActiveHasBlob == \A f \in Request : file[f] = "active" => f \in blob

\* What a detail page lists can be opened: a committed child row belongs to a
\* label that exists and refers to a file that is not deleted, although no
\* removal locks the label it works under.
ListedIsActive ==
    \A i \in Request : row[i] # None =>
        label[row[i].label] = "live" /\ file[row[i].file] = "active"

\* The label's FOR UPDATE lock makes version numbers and the single LPJ safe: two
\* uploads never commit the same DPA version, or two LPJs, of one label, so that
\* no upload is refused by a UNIQUE constraint for another one's sake.
ChildrenUnique ==
    \A i, j \in Request :
        /\ i # j /\ row[i] # None /\ row[j] # None
        /\ row[i].label = row[j].label /\ row[i].kind = row[j].kind
        => row[i].kind # "lpj" /\ (row[i].kind = "dpa" => row[i].versi # row[j].versi)

\* No metadata is stranded: a stored_files row that is not deleted belongs to a
\* committed child row.
ActiveIsListed ==
    \A f \in Request : file[f] = "active" => \E i \in Request : row[i] # None /\ row[i].file = f

\* No binary is stranded: a blob is described by an active row, or a running
\* request is still going to record it or to unlink it.
BlobsAccounted ==
    \A f \in blob :
        \/ file[f] = "active"
        \/ pc[f] \in InTx \cup {"cleanup"}
        \/ \E r \in Request : pc[r] = "purge" /\ f \in doomed[r]

\* docs/02_FILE_UPLOAD_STORAGE_RULES.md:111: the deletion of a parent covers the
\* metadata of all its files.
ParentDeletionCoversFiles ==
    \A f \in Request : file[f] = "active" => label[lab[f]] # "gone"

\* docs/02_FILE_UPLOAD_STORAGE_RULES.md:165: a failed database transaction
\* leaves no orphaned file.
FailedUploadLeavesNoBlob ==
    \A r \in Request : pc[r] = "failed" /\ file[r] = "none" => r \notin blob

\* Readers see the register of DocumentRegister: a document is listed as long as
\* its row is there, and readable as long as its file is active and its blob is
\* in storage.
Listed == {[label |-> row[i].label, kind |-> row[i].kind, file |-> row[i].file,
            readable |-> file[row[i].file] = "active" /\ row[i].file \in blob] :
               i \in {j \in Request : row[j] # None}}

Register == INSTANCE DocumentRegister
                WITH label <- label, listed <- Listed, File <- Request,
                     Single <- {"lpj"}
RegisterSpec == Register!Spec

\* Every request that starts is answered: row locks are released, and the wait
\* of a label's deletion and an LPJ's replacement for each other is broken.
RequestsFinish == \A r \in Request : pc[r] = "save" \/ pc[r] = "begin" ~> pc[r] \in Ended

===============================================================================
