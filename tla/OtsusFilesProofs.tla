--------------------------- MODULE OtsusFilesProofs ---------------------------
EXTENDS OtsusFiles, TLAPS

\* The row locks a statement takes are locks.
LEMMA Locks ==
    /\ \A l \in Label : LabelRow(l) \in Resource
    /\ \A f \in Request : FileRow(f) \in Resource /\ ChildRow(f) \in Resource
  BY Zenon DEF Resource

\* Locks of different tables, and of different labels, are different.
LEMMA LocksDiffer ==
    /\ \A l, m \in Label : LabelRow(l) = LabelRow(m) => l = m
    /\ \A l, x : LabelRow(l) # FileRow(x) /\ LabelRow(l) # ChildRow(x)
  BY DEF LabelRow, FileRow, ChildRow

\* Every operation works on one of the three kinds of child row.
LEMMA Kinds == \A o : KindOf(o) \in Kind
  BY DEF KindOf, Kind

\* Types are preserved, for any set of labels, requests, operations and faults.
THEOREM TypeCorrect == Spec => []TypeOK
<1> USE OpAssumption, NoneAssumption DEF Uploads, Removals, AllOps
<1>1. Init => TypeOK
  BY DEF Init, TypeOK, PC
<1>2. TypeOK /\ [Next]_vars => TypeOK'
  <2> SUFFICES ASSUME TypeOK, [Next]_vars PROVE TypeOK'
    OBVIOUS
  <2> USE DEF TypeOK, PC, InTx, Ended, db, local
  <2>1. ASSUME NEW l \in Label, CreateLabel(l) PROVE TypeOK'
    BY <2>1 DEF CreateLabel
  <2>2. ASSUME NEW r \in Request, Start(r) PROVE TypeOK'
    BY <2>2 DEF Start
  <2>3. ASSUME NEW r \in Request, SaveBlob(r) \/ SaveRefused(r) PROVE TypeOK'
    BY <2>3 DEF SaveBlob, SaveRefused
  <2>4. ASSUME NEW r \in Request, CheckLabel(r) PROVE TypeOK'
    BY <2>4, Locks DEF CheckLabel, Runs, AfterError
  <2>5. ASSUME NEW r \in Request, FindVersion(r) PROVE TypeOK'
    BY <2>5 DEF FindVersion, Runs, ChildrenOf, Children, Row
  <2>6. ASSUME NEW r \in Request, FindCurrentLPJ(r) \/ FindChild(r) PROVE TypeOK'
    BY <2>6 DEF FindCurrentLPJ, FindChild, Target, Runs, ChildrenOf, Children, Row
  <2>7. ASSUME NEW r \in Request, CollectDocumentation(r) \/ CollectDocuments(r) PROVE TypeOK'
    BY <2>7 DEF CollectDocumentation, CollectDocuments, FilesOf, Runs
  <2>8. ASSUME NEW r \in Request, RetireFile(r) \/ RetireCollected(r) PROVE TypeOK'
    BY <2>8, Locks DEF RetireFile, RetireCollected, Runs
  <2>9. ASSUME NEW r \in Request, InsertChild(r) \/ LockTarget(r) PROVE TypeOK'
    BY <2>9, Locks DEF InsertChild, LockTarget, Runs
  <2>10. ASSUME NEW r \in Request, RemoveLabel(r) \/ Cascade(r) PROVE TypeOK'
    BY <2>10, Locks DEF RemoveLabel, Cascade, Runs, Children
  <2>11. ASSUME NEW r \in Request, CommitInsert(r) PROVE TypeOK'
    BY SMTT(30), <2>11, Kinds DEF CommitInsert, Committed, Forget, AfterError, Runs, NewRow, Row,
       RelatedEntity
  <2>12. ASSUME NEW r \in Request, CommitRepoint(r) PROVE TypeOK'
    BY <2>12 DEF CommitRepoint, Committed, Forget, AfterError, Runs, Row, Repointed, SoftDeleted,
       RelatedEntity
  <2>13. ASSUME NEW r \in Request, CommitRemoval(r) \/ CommitDelete(r) PROVE TypeOK'
    BY <2>13 DEF CommitRemoval, CommitDelete, Committed, Forget, AfterError, Runs, SoftDeleted,
       WithoutTarget, Children
  <2>14. ASSUME NEW r \in Request, Purge(r) \/ Cleanup(r) PROVE TypeOK'
    BY <2>14 DEF Purge, Cleanup, Unlink
  <2>15. ASSUME NEW r \in Request, TxError(r) \/ DeadlockAbort(r) PROVE TypeOK'
    BY <2>15 DEF TxError, DeadlockAbort, Rollback, Forget, AfterError
  <2>16. ASSUME NEW r \in Request, Cancel(r) PROVE TypeOK'
    BY <2>16 DEF Cancel
  <2>17. CASE Crash
    BY <2>17 DEF Crash
  <2>18. CASE UNCHANGED vars
    BY <2>18 DEF vars
  <2>19. QED
    BY <2>1, <2>2, <2>3, <2>4, <2>5, <2>6, <2>7, <2>8, <2>9, <2>10, <2>11, <2>12, <2>13,
       <2>14, <2>15, <2>16, <2>17, <2>18 DEF Next, Step, AllEnded
<1>3. QED
  BY <1>1, <1>2, PTL DEF Spec

-------------------------------------------------------------------------------
(***************************************************************************)
(* Where the handlers are, and what they have read by then.                *)
(***************************************************************************)

OnlyDeleteCollects ==
    \A r \in Request : pc[r] \in {"collect", "cascade"} => op[r] = "Delete"
InsertsRetireNothing ==
    \A r \in Request :
        /\ pc[r] \in {"idle", "save", "begin", "find"} => target[r] = None /\ doomed[r] = {}
        /\ pc[r] \in InTx /\ Inserts(r) => doomed[r] = {}
        /\ pc[r] \in Ended \cup {"cleanup"} => doomed[r] = {}

HandlerInv == TypeOK /\ OnlyDeleteCollects /\ InsertsRetireNothing

\* Every handler keeps to its own statements.
LEMMA HandlersKeepOrder == Spec => []HandlerInv
<1> USE NoneAssumption DEF TypeOK, InTx, Ended, db, local, Uploads, Removals,
        OnlyDeleteCollects, InsertsRetireNothing, Inserts
<1>1. Init => OnlyDeleteCollects /\ InsertsRetireNothing
  BY DEF Init
<1>2. HandlerInv /\ TypeOK' /\ [Next]_vars => HandlerInv'
  <2> SUFFICES ASSUME HandlerInv, TypeOK', [Next]_vars
               PROVE  OnlyDeleteCollects' /\ InsertsRetireNothing'
    BY DEF HandlerInv
  <2> USE DEF HandlerInv
  <2>1. ASSUME NEW l \in Label, CreateLabel(l) PROVE OnlyDeleteCollects' /\ InsertsRetireNothing'
    BY <2>1 DEF CreateLabel
  <2>2. ASSUME NEW r \in Request, Start(r) \/ SaveBlob(r) \/ SaveRefused(r) \/ CheckLabel(r)
        PROVE  OnlyDeleteCollects' /\ InsertsRetireNothing'
    BY <2>2 DEF Start, SaveBlob, SaveRefused, CheckLabel, Runs, AfterError
  <2>3. ASSUME NEW r \in Request, FindVersion(r) \/ FindCurrentLPJ(r) \/ FindChild(r)
        PROVE  OnlyDeleteCollects' /\ InsertsRetireNothing'
    BY <2>3 DEF FindVersion, FindCurrentLPJ, FindChild, Target, Runs, Children, ChildrenOf
  <2>4. ASSUME NEW r \in Request, CollectDocumentation(r) \/ CollectDocuments(r)
        PROVE  OnlyDeleteCollects' /\ InsertsRetireNothing'
    BY <2>4 DEF CollectDocumentation, CollectDocuments, Runs
  <2>5. ASSUME NEW r \in Request, \/ RetireFile(r) \/ RetireCollected(r) \/ InsertChild(r)
                                  \/ LockTarget(r) \/ RemoveLabel(r) \/ Cascade(r)
        PROVE  OnlyDeleteCollects' /\ InsertsRetireNothing'
    BY <2>5 DEF RetireFile, RetireCollected, InsertChild, LockTarget, RemoveLabel, Cascade, Runs
  <2>6. ASSUME NEW r \in Request, \/ CommitInsert(r) \/ CommitRepoint(r)
                                  \/ CommitRemoval(r) \/ CommitDelete(r)
        PROVE  OnlyDeleteCollects' /\ InsertsRetireNothing'
    BY SMTT(30), <2>6 DEF CommitInsert, CommitRepoint, CommitRemoval, CommitDelete, Committed, Forget,
       AfterError, Runs
  <2>7. ASSUME NEW r \in Request, Purge(r) \/ Cleanup(r) \/ Cancel(r)
        PROVE  OnlyDeleteCollects' /\ InsertsRetireNothing'
    BY <2>7 DEF Purge, Cleanup, Cancel
  <2>8. ASSUME NEW r \in Request, TxError(r) \/ DeadlockAbort(r)
        PROVE  OnlyDeleteCollects' /\ InsertsRetireNothing'
    BY <2>8 DEF TxError, DeadlockAbort, Rollback, Forget, AfterError
  <2>9. CASE Crash
    BY <2>9 DEF Crash
  <2>10. CASE UNCHANGED vars
    BY <2>10 DEF vars
  <2> QED
    BY <2>1, <2>2, <2>3, <2>4, <2>5, <2>6, <2>7, <2>8, <2>9, <2>10 DEF Next, Step, AllEnded
<1>3. QED
  BY <1>1, <1>2, TypeCorrect, PTL DEF Spec, HandlerInv

-------------------------------------------------------------------------------
(***************************************************************************)
(* Metadata never outlives its binary.  The invariant that carries it says *)
(* what each request still owes to storage: before its commit nothing of   *)
(* it is recorded and its blob is there; when it unlinks, what it unlinks  *)
(* is already soft-deleted.                                                *)
(***************************************************************************)

\* No COMMIT takes effect unnoticed by a handler that can still clean up.
NoLostAck == "lostack" \notin Fault

Unrecorded ==
    \A r \in Request :
        /\ pc[r] \in InTx \cup {"idle", "save"} => file[r] = "none"
        /\ pc[r] = "cleanup" => file[r] = "none" \/ r \in cancelled
BlobReady ==
    \A r \in Request : pc[r] \in InTx /\ op[r] \in Uploads => r \in blob
DoomedRecorded ==
    \A r \in Request : \A f \in doomed[r] :
        file[f] # "none" /\ (pc[r] = "purge" => file[f] = "deleted")
RowsRecorded ==
    \A i \in Request : row[i] # None => file[row[i].file] # "none"

FileInv ==
    /\ Unrecorded /\ BlobReady /\ DoomedRecorded /\ RowsRecorded /\ ActiveHasBlob

LEMMA FileInvInit == Init => FileInv
  BY DEF Init, FileInv, Unrecorded, BlobReady, DoomedRecorded, RowsRecorded, ActiveHasBlob, InTx

LEMMA FileInvStep == ASSUME NoLostAck, HandlerInv, FileInv, TypeOK', [Next]_vars PROVE FileInv'
<1> USE NoneAssumption DEF HandlerInv, FileInv, TypeOK, InTx, Ended, db, local, Uploads, Removals,
        Unrecorded, OnlyDeleteCollects, BlobReady, DoomedRecorded, InsertsRetireNothing,
        RowsRecorded, ActiveHasBlob, Inserts
<1>1. ASSUME NEW l \in Label, CreateLabel(l) PROVE FileInv'
  BY <1>1 DEF CreateLabel
<1>2. ASSUME NEW r \in Request, Start(r) PROVE FileInv'
  BY <1>2 DEF Start
<1>3. ASSUME NEW r \in Request, SaveBlob(r) \/ SaveRefused(r) PROVE FileInv'
  BY <1>3 DEF SaveBlob, SaveRefused
<1>4. ASSUME NEW r \in Request, CheckLabel(r) PROVE FileInv'
  BY <1>4 DEF CheckLabel, Runs, AfterError
<1>5. ASSUME NEW r \in Request, FindVersion(r) PROVE FileInv'
  BY <1>5 DEF FindVersion, Runs
<1>6. ASSUME NEW r \in Request, FindCurrentLPJ(r) PROVE FileInv'
  BY <1>6 DEF FindCurrentLPJ, Target, Runs, ChildrenOf, Children, Row
<1>7. ASSUME NEW r \in Request, FindChild(r) PROVE FileInv'
  BY <1>7 DEF FindChild, Target, Runs, ChildrenOf, Children, Row
<1>8. ASSUME NEW r \in Request, CollectDocumentation(r) PROVE FileInv'
  BY <1>8 DEF CollectDocumentation, FilesOf, Runs
<1>9. ASSUME NEW r \in Request, CollectDocuments(r) PROVE FileInv'
  <2> USE <1>9 DEF CollectDocuments, FilesOf, Runs
  <2>1. Unrecorded'
    OBVIOUS
  <2>2. BlobReady'
    OBVIOUS
  <2>3. DoomedRecorded'
    OBVIOUS
  <2>4. RowsRecorded'
    OBVIOUS
  <2>5. ActiveHasBlob'
    OBVIOUS
  <2>6. QED
    BY <2>1, <2>2, <2>3, <2>4, <2>5
<1>10. ASSUME NEW r \in Request, RetireFile(r) \/ RetireCollected(r) PROVE FileInv'
  BY <1>10 DEF RetireFile, RetireCollected, Runs
<1>11. ASSUME NEW r \in Request, InsertChild(r) \/ LockTarget(r) PROVE FileInv'
  <2>1. CASE InsertChild(r)
    BY <2>1 DEF InsertChild, Runs
  <2>2. CASE LockTarget(r)
    BY <2>2 DEF LockTarget, Runs
  <2>3. QED
    BY <1>11, <2>1, <2>2
<1>12. ASSUME NEW r \in Request, RemoveLabel(r) \/ Cascade(r) PROVE FileInv'
  BY <1>12 DEF RemoveLabel, Cascade, Runs
<1>13. ASSUME NEW r \in Request, CommitInsert(r) PROVE FileInv'
  <2> USE <1>13 DEF CommitInsert, Committed, Forget, AfterError, Runs, NewRow, Row, NoLostAck
  <2>1. Unrecorded'
    OBVIOUS
  <2>2. BlobReady'
    OBVIOUS
  <2>3. DoomedRecorded'
    OBVIOUS
  <2>4. RowsRecorded'
    OBVIOUS
  <2>5. ActiveHasBlob'
    OBVIOUS
  <2>6. QED
    BY <2>1, <2>2, <2>3, <2>4, <2>5
<1>14. ASSUME NEW r \in Request, CommitRepoint(r) PROVE FileInv'
  <2> USE <1>14 DEF CommitRepoint, Committed, Forget, AfterError, Runs, Repointed,
          SoftDeleted, NoLostAck, Row
  <2>1. Unrecorded'
    OBVIOUS
  <2>2. BlobReady'
    OBVIOUS
  <2>3. DoomedRecorded'
    BY SMTT(30)
  <2>4. RowsRecorded'
    OBVIOUS
  <2>5. ActiveHasBlob'
    OBVIOUS
  <2>6. QED
    BY <2>1, <2>2, <2>3, <2>4, <2>5
<1>15. ASSUME NEW r \in Request, CommitRemoval(r) PROVE FileInv'
  <2> USE <1>15 DEF CommitRemoval, Committed, Forget, AfterError, Runs, SoftDeleted,
          WithoutTarget, NoLostAck, Row
  <2>1. Unrecorded'
    OBVIOUS
  <2>2. BlobReady'
    OBVIOUS
  <2>3. DoomedRecorded'
    OBVIOUS
  <2>4. RowsRecorded'
    OBVIOUS
  <2>5. ActiveHasBlob'
    OBVIOUS
  <2>6. QED
    BY <2>1, <2>2, <2>3, <2>4, <2>5
<1>16. ASSUME NEW r \in Request, CommitDelete(r) PROVE FileInv'
  <2> USE <1>16 DEF CommitDelete, Committed, Forget, AfterError, Runs, SoftDeleted,
          NoLostAck, Row, Children
  <2>1. Unrecorded'
    OBVIOUS
  <2>2. BlobReady'
    OBVIOUS
  <2>3. DoomedRecorded'
    OBVIOUS
  <2>4. RowsRecorded'
    OBVIOUS
  <2>5. ActiveHasBlob'
    OBVIOUS
  <2>6. QED
    BY <2>1, <2>2, <2>3, <2>4, <2>5
<1>17. ASSUME NEW r \in Request, Purge(r) PROVE FileInv'
  BY <1>17 DEF Purge, Unlink
<1>18. ASSUME NEW r \in Request, Cleanup(r) PROVE FileInv'
  BY <1>18 DEF Cleanup, Unlink
<1>19. ASSUME NEW r \in Request, TxError(r) \/ DeadlockAbort(r) PROVE FileInv'
  BY <1>19 DEF TxError, DeadlockAbort, Rollback, Forget, AfterError
<1>20. ASSUME NEW r \in Request, Cancel(r) PROVE FileInv'
  BY <1>20 DEF Cancel
<1>21. CASE Crash
  BY <1>21 DEF Crash
<1>22. CASE UNCHANGED vars
  BY <1>22 DEF vars
<1>23. QED
  BY <1>1, <1>2, <1>3, <1>4, <1>5, <1>6, <1>7, <1>8, <1>9, <1>10, <1>11, <1>12, <1>13, <1>14,
     <1>15, <1>16, <1>17, <1>18, <1>19, <1>20, <1>21, <1>22 DEF Next, Step, AllEnded

\* Every active stored_files row has its binary, provided no COMMIT is lost on
\* its way back: whatever the interleaving, failures, cancellations and crashes.
THEOREM MetadataHasBinary == ASSUME NoLostAck PROVE Spec => []ActiveHasBlob
<1>1. HandlerInv /\ FileInv /\ TypeOK' /\ [Next]_vars => FileInv'
  BY NoLostAck, FileInvStep
<1>2. FileInv => ActiveHasBlob
  BY DEF FileInv
<1>3. QED
  BY FileInvInit, TypeCorrect, HandlersKeepOrder, <1>1, <1>2, PTL DEF Spec

-------------------------------------------------------------------------------
(***************************************************************************)
(* What readers see.  A deletion works on rows it has read without a lock; *)
(* what keeps it right is that a file belongs to one child row for ever    *)
(* (related) and a child row to one label, so that what a transaction      *)
(* dooms goes together with the only row that may still list it.  And the  *)
(* label's row, locked or shared, keeps a label in use from going and two  *)
(* uploads from counting the same rows.                                    *)
(***************************************************************************)

Recorded(f) == file[f] # "none"

\* A file that is not recorded yet belongs to a request still on its way.
NotYetRecorded == \A r \in Request : pc[r] \in InTx \cup {"idle", "save"} => file[r] = "none"

\* A recorded file belongs to one child row, which was there once.
FilesRelated ==
    /\ \A f \in Request : Recorded(f) => related[f] \in Request /\ Recorded(related[f])
    /\ \A i \in Request : row[i] # None =>
          Recorded(i) /\ Recorded(row[i].file) /\ related[row[i].file] = i

TargetRead ==
    \A r \in Request : target[r] # None =>
        /\ Recorded(target[r]) /\ op[r] \in Removals \cup {"UploadLPJ"}
        /\ op[r] = "UploadLPJ" /\ row[target[r]] # None => row[target[r]].kind = "lpj"

DoomedRead ==
    \A r \in Request : pc[r] \in InTx => \A f \in doomed[r] :
        /\ Recorded(f)
        /\ op[r] # "Delete" => related[f] = target[r]
        /\ op[r] = "Delete" /\ row[related[f]] # None => row[related[f]].label = lab[r]

\* A row lock has one holder, and a label's row is not locked while it is shared.
Exclusive ==
    \A q, r \in Request : q # r =>
        /\ \A x \in held[q] : x \notin held[r]
        /\ Shares(r) => LabelRow(lab[r]) \notin held[q]

\* The labels requests work on have been created; one that is inserted into is live.
LabelsLive ==
    \A r \in Request :
        /\ pc[r] # "idle" => label[lab[r]] # "unborn"
        /\ Shares(r) => label[lab[r]] = "live"

LabelHeld ==
    \A r \in Request :
        /\ pc[r] \in {"find", "retire", "apply", "commit"} /\ LocksLabel(op[r]) =>
              LabelRow(lab[r]) \in held[r]
        /\ pc[r] \in {"cascade", "commit"} /\ op[r] = "Delete" =>
              label[lab[r]] = "gone" \/ LabelRow(lab[r]) \in held[r]

\* What an upload has counted under the label's lock is still so.
Counted ==
    \A r \in Request : pc[r] \in {"retire", "apply", "commit"} =>
        /\ op[r] = "UploadLPJ" /\ target[r] = None => ChildrenOf(lab[r], "lpj") = {}
        /\ op[r] = "UploadDPA" => \A i \in ChildrenOf(lab[r], "dpa") : row[i].versi < ver[r]

RecordsInv == NotYetRecorded /\ FilesRelated /\ TargetRead /\ DoomedRead
LocksInv   == Exclusive /\ LabelsLive /\ LabelHeld
ListInv    == RecordsInv /\ LocksInv /\ Counted /\ ListedIsActive /\ ChildrenUnique

LEMMA ListInvInit == Init => ListInv
  BY DEF Init, ListInv, RecordsInv, LocksInv, NotYetRecorded, FilesRelated, Recorded, TargetRead,
     DoomedRead, Exclusive, LabelsLive, LabelHeld, Counted, ListedIsActive, ChildrenUnique, InTx,
     Shares, Removals

\* What is recorded, and what a transaction has read, stays related.
LEMMA RecordsStep == ASSUME HandlerInv, RecordsInv, TypeOK', [Next]_vars PROVE RecordsInv'
<1> USE NoneAssumption DEF HandlerInv, RecordsInv, TypeOK, InTx, Ended, db, local, Uploads, Removals,
        NotYetRecorded, FilesRelated, Recorded, TargetRead, DoomedRead, Inserts,
        OnlyDeleteCollects, InsertsRetireNothing
<1>1. ASSUME NEW l \in Label, CreateLabel(l) PROVE RecordsInv'
  BY <1>1 DEF CreateLabel
<1>2. ASSUME NEW r \in Request, Start(r) \/ SaveBlob(r) \/ SaveRefused(r) PROVE RecordsInv'
  BY <1>2 DEF Start, SaveBlob, SaveRefused
<1>3. ASSUME NEW r \in Request, CheckLabel(r) \/ FindVersion(r) PROVE RecordsInv'
  <2>1. CASE CheckLabel(r)
    BY <2>1 DEF CheckLabel, Runs, AfterError
  <2>2. CASE FindVersion(r)
    BY <2>2 DEF FindVersion, Runs
  <2> QED
    BY <1>3, <2>1, <2>2
<1>4. ASSUME NEW r \in Request, FindCurrentLPJ(r) PROVE RecordsInv'
  BY <1>4 DEF FindCurrentLPJ, Target, Runs, Row, Children, ChildrenOf
<1>5. ASSUME NEW r \in Request, FindChild(r) PROVE RecordsInv'
  <2> USE <1>5 DEF FindChild, Target, Runs, Row, Children, ChildrenOf
  <2>1. NotYetRecorded'
    OBVIOUS
  <2>2. FilesRelated'
    OBVIOUS
  <2>3. TargetRead'
    OBVIOUS
  <2>4. DoomedRead'
    OBVIOUS
  <2> QED
    BY <2>1, <2>2, <2>3, <2>4
<1>6. ASSUME NEW r \in Request, CollectDocumentation(r) PROVE RecordsInv'
  BY <1>6 DEF CollectDocumentation, FilesOf, Runs, Children, ChildrenOf
<1>7. ASSUME NEW r \in Request, CollectDocuments(r) PROVE RecordsInv'
  BY <1>7 DEF CollectDocuments, FilesOf, Runs, Children, ChildrenOf
<1>8. ASSUME NEW r \in Request, RetireFile(r) \/ RetireCollected(r) \/ LockTarget(r) PROVE RecordsInv'
  BY <1>8 DEF RetireFile, RetireCollected, LockTarget, Runs
<1>9. ASSUME NEW r \in Request, InsertChild(r) \/ RemoveLabel(r) \/ Cascade(r) PROVE RecordsInv'
  BY <1>9 DEF InsertChild, RemoveLabel, Cascade, Runs
<1>10. ASSUME NEW r \in Request, CommitInsert(r) PROVE RecordsInv'
  <2> USE <1>10 DEF CommitInsert, Committed, Forget, AfterError, Runs, NewRow, RelatedEntity
  <2>1. NotYetRecorded'
    OBVIOUS
  <2>2. FilesRelated'
    BY SMTT(30)
  <2>3. TargetRead'
    OBVIOUS
  <2>4. DoomedRead'
    OBVIOUS
  <2> QED
    BY <2>1, <2>2, <2>3, <2>4
<1>11. ASSUME NEW r \in Request, CommitRepoint(r) PROVE RecordsInv'
  <2> USE <1>11 DEF CommitRepoint, Committed, Forget, AfterError, Runs, Repointed, SoftDeleted,
          RelatedEntity, Row
  <2>1. NotYetRecorded'
    OBVIOUS
  <2>2. FilesRelated'
    OBVIOUS
  <2>3. TargetRead'
    OBVIOUS
  <2>4. DoomedRead'
    BY SMTT(30)
  <2> QED
    BY <2>1, <2>2, <2>3, <2>4
<1>12. ASSUME NEW r \in Request, CommitRemoval(r) PROVE RecordsInv'
  <2> USE <1>12 DEF CommitRemoval, Committed, Forget, AfterError, Runs, SoftDeleted, WithoutTarget, Row
  <2>1. NotYetRecorded' /\ FilesRelated'
    OBVIOUS
  <2>2. TargetRead' /\ DoomedRead'
    OBVIOUS
  <2> QED
    BY <2>1, <2>2
<1>13. ASSUME NEW r \in Request, CommitDelete(r) PROVE RecordsInv'
  <2> USE <1>13 DEF CommitDelete, Committed, Forget, AfterError, Runs, SoftDeleted, Children, Row
  <2>1. NotYetRecorded' /\ FilesRelated'
    OBVIOUS
  <2>2. TargetRead' /\ DoomedRead'
    OBVIOUS
  <2> QED
    BY <2>1, <2>2
<1>14. ASSUME NEW r \in Request, TxError(r) \/ DeadlockAbort(r) PROVE RecordsInv'
  <2> USE <1>14 DEF TxError, DeadlockAbort, Rollback, Forget, AfterError
  <2>1. NotYetRecorded' /\ FilesRelated'
    OBVIOUS
  <2>2. TargetRead'
    OBVIOUS
  <2>3. DoomedRead'
    OBVIOUS
  <2> QED
    BY <2>1, <2>2, <2>3
<1>15. ASSUME NEW r \in Request, Purge(r) \/ Cleanup(r) \/ Cancel(r) PROVE RecordsInv'
  <2> USE <1>15 DEF Purge, Cleanup, Cancel
  <2>1. NotYetRecorded'
    OBVIOUS
  <2>2. FilesRelated'
    OBVIOUS
  <2>3. TargetRead'
    OBVIOUS
  <2>4. DoomedRead'
    OBVIOUS
  <2> QED
    BY <2>1, <2>2, <2>3, <2>4
<1>16. CASE Crash
  BY <1>16 DEF Crash
<1>17. CASE UNCHANGED vars
  BY <1>17 DEF vars
<1> QED
  BY <1>1, <1>2, <1>3, <1>4, <1>5, <1>6, <1>7, <1>8, <1>9, <1>10, <1>11, <1>12, <1>13, <1>14,
     <1>15, <1>16, <1>17 DEF Next, Step, AllEnded

\* Taking the free lock of a file's row leaves every lock with one holder.
LEMMA TakeFileRow ==
    ASSUME TypeOK, Exclusive, NEW r \in Request, NEW f \in Request, Free(r, FileRow(f)),
           held' = [held EXCEPT ![r] = @ \cup {FileRow(f)}], UNCHANGED lab,
           \A q \in Request : Shares(q)' => Shares(q)
    PROVE  Exclusive'
<1> SUFFICES ASSUME NEW p \in Request, NEW q \in Request, p # q
             PROVE  /\ \A x \in held'[p] : x \notin held'[q]
                    /\ Shares(q)' => LabelRow(lab'[q]) \notin held'[p]
  BY DEF Exclusive, LabelRow
<1>1. \A s \in Request : held'[s] = IF s = r THEN held[s] \cup {FileRow(f)} ELSE held[s]
  BY DEF TypeOK
<1>2. \A x \in held'[p] : x \notin held'[q]
  BY <1>1 DEF Exclusive, Free
<1>3. Shares(q)' => LabelRow(lab'[q]) \notin held'[p]
  BY <1>1, LocksDiffer DEF Exclusive
<1> QED
  BY <1>2, <1>3

\* The locks are kept until the transaction ends, and protect what they are for.
LEMMA LocksStep == ASSUME HandlerInv, TargetRead, LocksInv, TypeOK', [Next]_vars PROVE LocksInv'
<1> USE NoneAssumption DEF HandlerInv, LocksInv, TypeOK, InTx, Ended, db, local, Uploads, Removals,
        Exclusive, LabelsLive, LabelHeld, Shares, Inserts, LocksLabel,
        OnlyDeleteCollects, InsertsRetireNothing
<1>1. ASSUME NEW l \in Label, CreateLabel(l) PROVE LocksInv'
  BY <1>1 DEF CreateLabel
<1>2. ASSUME NEW r \in Request, Start(r) \/ SaveBlob(r) \/ SaveRefused(r) PROVE LocksInv'
  BY SMTT(30), <1>2 DEF Start, SaveBlob, SaveRefused
<1>3. ASSUME NEW r \in Request, CheckLabel(r) PROVE LocksInv'
  <2> USE <1>3, LocksDiffer DEF CheckLabel, Runs, AfterError, LabelFree, Free
  <2>1. Exclusive'
    OBVIOUS
  <2>2. LabelsLive'
    OBVIOUS
  <2>3. LabelHeld'
    OBVIOUS
  <2> QED
    BY <2>1, <2>2, <2>3
<1>4. ASSUME NEW r \in Request, FindVersion(r) \/ FindCurrentLPJ(r) \/ FindChild(r) PROVE LocksInv'
  BY <1>4 DEF FindVersion, FindCurrentLPJ, FindChild, Target, Runs
<1>5. ASSUME NEW r \in Request, CollectDocumentation(r) \/ CollectDocuments(r) PROVE LocksInv'
  BY <1>5 DEF CollectDocumentation, CollectDocuments, Runs
<1>6. ASSUME NEW r \in Request, RetireFile(r) \/ RetireCollected(r) PROVE LocksInv'
  <2> USE <1>6 DEF RetireFile, RetireCollected, Runs
  <2>1. PICK f \in Request :
            /\ Free(r, FileRow(f))
            /\ held' = [held EXCEPT ![r] = @ \cup {FileRow(f)}] \/ UNCHANGED held
    <3>1. CASE RetireFile(r)
      <4>1. PICK f \in doomed[r] :
                /\ Free(r, FileRow(f))
                /\ held' = [held EXCEPT ![r] =
                               IF file[f] = "active" THEN @ \cup {FileRow(f)} ELSE @]
        BY ONLY <3>1 DEF RetireFile
      <4>2. f \in Request
        OBVIOUS
      <4>3. CASE file[f] = "active"
        BY ONLY <4>1, <4>2, <4>3
      <4>4. CASE file[f] # "active"
        <5>1. UNCHANGED held
          BY ONLY <4>1, <4>4, TypeOK DEF TypeOK
        <5> QED
          BY ONLY <5>1, <4>1, <4>2
      <4> QED
        BY <4>3, <4>4
    <3>2. CASE RetireCollected(r)
      BY <3>2
    <3> QED
      BY <3>1, <3>2
  <2>2. UNCHANGED <<op, lab, target, label>> /\ \A q \in Request : Shares(q)' => Shares(q)
    OBVIOUS
  <2>3. Exclusive'
    <3>1. CASE held' = [held EXCEPT ![r] = @ \cup {FileRow(f)}]
      BY ONLY <3>1, <2>1, <2>2, TakeFileRow, TypeOK, Exclusive
    <3>2. CASE UNCHANGED held
      BY <3>2, <2>2
    <3> QED
      BY <2>1, <3>1, <3>2
  <2>4. LabelsLive'
    BY <2>2
  <2>5. LabelHeld'
    BY <2>1, <2>2
  <2> QED
    BY <2>3, <2>4, <2>5
<1>7. ASSUME NEW r \in Request, InsertChild(r) PROVE LocksInv'
  <2> USE <1>7, LocksDiffer DEF InsertChild, Runs, Free
  <2>1. Exclusive'
    OBVIOUS
  <2>2. LabelsLive'
    OBVIOUS
  <2>3. LabelHeld'
    OBVIOUS
  <2> QED
    BY <2>1, <2>2, <2>3
<1>8. ASSUME NEW r \in Request, LockTarget(r) PROVE LocksInv'
  <2> USE <1>8, LocksDiffer DEF LockTarget, Runs, Free, TargetRead
  <2>1. Exclusive'
    OBVIOUS
  <2>2. LabelsLive'
    OBVIOUS
  <2>3. LabelHeld'
    BY SMTT(30)
  <2> QED
    BY <2>1, <2>2, <2>3
<1>9. ASSUME NEW r \in Request, RemoveLabel(r) PROVE LocksInv'
  <2> USE <1>9, LocksDiffer DEF RemoveLabel, Runs, Free, LabelFree
  <2>1. Exclusive'
    OBVIOUS
  <2>2. LabelsLive'
    OBVIOUS
  <2>3. LabelHeld'
    OBVIOUS
  <2> QED
    BY <2>1, <2>2, <2>3
<1>10. ASSUME NEW r \in Request, Cascade(r) PROVE LocksInv'
  <2> USE <1>10, LocksDiffer DEF Cascade, Runs, Free
  <2>1. Exclusive'
    OBVIOUS
  <2>2. LabelsLive'
    OBVIOUS
  <2>3. LabelHeld'
    OBVIOUS
  <2> QED
    BY <2>1, <2>2, <2>3
<1>11. ASSUME NEW r \in Request, CommitInsert(r) \/ CommitRepoint(r) \/ CommitRemoval(r) PROVE LocksInv'
  <2> USE <1>11 DEF CommitInsert, CommitRepoint, CommitRemoval, Committed, Forget, AfterError, Runs
  <2>1. Exclusive'
    OBVIOUS
  <2>2. LabelsLive'
    OBVIOUS
  <2>3. LabelHeld'
    OBVIOUS
  <2> QED
    BY <2>1, <2>2, <2>3
<1>12. ASSUME NEW r \in Request, CommitDelete(r) PROVE LocksInv'
  <2> USE <1>12, LocksDiffer DEF CommitDelete, Committed, Forget, AfterError, Runs
  <2>1. Exclusive'
    OBVIOUS
  <2>2. LabelsLive'
    OBVIOUS
  <2>3. LabelHeld'
    OBVIOUS
  <2> QED
    BY <2>1, <2>2, <2>3
<1>13. ASSUME NEW r \in Request, TxError(r) \/ DeadlockAbort(r) PROVE LocksInv'
  <2> USE <1>13 DEF TxError, DeadlockAbort, Rollback, Forget, AfterError
  <2>1. Exclusive'
    OBVIOUS
  <2>2. LabelsLive' /\ LabelHeld'
    OBVIOUS
  <2> QED
    BY <2>1, <2>2
<1>14. ASSUME NEW r \in Request, Purge(r) \/ Cleanup(r) \/ Cancel(r) PROVE LocksInv'
  <2> USE <1>14 DEF Purge, Cleanup, Cancel
  <2>1. Exclusive'
    OBVIOUS
  <2>2. LabelsLive' /\ LabelHeld'
    OBVIOUS
  <2> QED
    BY <2>1, <2>2
<1>15. CASE Crash
  BY <1>15 DEF Crash
<1>16. CASE UNCHANGED vars
  BY <1>16 DEF vars
<1> QED
  BY <1>1, <1>2, <1>3, <1>4, <1>5, <1>6, <1>7, <1>8, <1>9, <1>10, <1>11, <1>12, <1>13,
     <1>14, <1>15, <1>16 DEF Next, Step, AllEnded

\* Only a COMMIT, and the creation of a label, is seen by other requests.
LEMMA OthersWriteNothing ==
    ASSUME [Next]_vars
    PROVE  \/ \E l \in Label : CreateLabel(l)
           \/ \E r \in Request : \/ CommitInsert(r) \/ CommitRepoint(r)
                                 \/ CommitRemoval(r) \/ CommitDelete(r)
           \/ UNCHANGED db
<1>1. ASSUME NEW r \in Request, Step(r)
      PROVE  \/ CommitInsert(r) \/ CommitRepoint(r) \/ CommitRemoval(r) \/ CommitDelete(r)
             \/ UNCHANGED db
  BY <1>1 DEF Step, SaveBlob, SaveRefused, CheckLabel, FindVersion, FindCurrentLPJ, FindChild,
     CollectDocumentation, CollectDocuments, RetireFile, RetireCollected, InsertChild, LockTarget,
     RemoveLabel, Cascade, Purge, Cleanup, TxError, DeadlockAbort, Rollback, db
<1>2. ASSUME NEW r \in Request, Start(r) \/ Cancel(r) PROVE UNCHANGED db
  BY <1>2 DEF Start, Cancel, db
<1>3. CASE Crash
  BY <1>3 DEF Crash, db
<1>4. CASE UNCHANGED vars
  BY <1>4 DEF vars, db
<1> QED
  BY <1>1, <1>2, <1>3, <1>4 DEF Next, AllEnded

\* The label's lock keeps what an upload has counted from changing before its commit.
LEMMA CountedStep ==
    ASSUME HandlerInv, LocksInv, Counted, TypeOK', [Next]_vars PROVE Counted'
<1> USE NoneAssumption DEF HandlerInv, LocksInv, TypeOK, InTx, Ended, db, local, Uploads, Removals,
        Counted, ChildrenOf, Children, OnlyDeleteCollects, InsertsRetireNothing, Inserts
<1>1. ASSUME NEW l \in Label, CreateLabel(l) PROVE Counted'
  BY <1>1 DEF CreateLabel
<1>2. ASSUME NEW r \in Request, Start(r) \/ SaveBlob(r) \/ SaveRefused(r) PROVE Counted'
  BY <1>2 DEF Start, SaveBlob, SaveRefused
<1>3. ASSUME NEW r \in Request, CheckLabel(r) PROVE Counted'
  BY <1>3 DEF CheckLabel, Runs, AfterError
<1>4. ASSUME NEW r \in Request, FindVersion(r) PROVE Counted'
  <2>1. PICK max \in {row[i].versi : i \in ChildrenOf(lab[r], "dpa")} \cup {0} :
            /\ \A v \in {row[i].versi : i \in ChildrenOf(lab[r], "dpa")} \cup {0} : v <= max
            /\ ver' = [ver EXCEPT ![r] = max + 1]
    BY ONLY <1>4 DEF FindVersion
  <2>2. \A i \in ChildrenOf(lab[r], "dpa") : row[i].versi \in Nat
    BY DEF Row
  <2>3. max \in Nat /\ \A i \in ChildrenOf(lab[r], "dpa") : row[i].versi < max + 1
    <3> HIDE DEF HandlerInv, TypeOK, ChildrenOf
    <3>1. max \in Nat
      BY <2>2
    <3>2. \A i \in ChildrenOf(lab[r], "dpa") : row[i].versi <= max
      BY <2>1
    <3> QED
      BY <2>2, <3>1, <3>2
  <2>4. UNCHANGED <<row, op, lab, target>> /\ op[r] = "UploadDPA"
        /\ pc' = [pc EXCEPT ![r] = "apply"]
    BY <1>4 DEF FindVersion
  <2> QED
    BY <2>1, <2>3, <2>4
<1>5. ASSUME NEW r \in Request, FindCurrentLPJ(r) PROVE Counted'
  BY <1>5 DEF FindCurrentLPJ, Target, Runs
<1>6. ASSUME NEW r \in Request, FindChild(r) PROVE Counted'
  BY <1>6 DEF FindChild, Target, Runs
<1>7. ASSUME NEW r \in Request, CollectDocumentation(r) \/ CollectDocuments(r) PROVE Counted'
  BY <1>7 DEF CollectDocumentation, CollectDocuments, Runs
<1>8. ASSUME NEW r \in Request, \/ RetireFile(r) \/ RetireCollected(r) \/ InsertChild(r)
                                \/ LockTarget(r) \/ RemoveLabel(r) \/ Cascade(r)
      PROVE  Counted'
  BY <1>8 DEF RetireFile, RetireCollected, InsertChild, LockTarget, RemoveLabel, Cascade, Runs
<1>9. ASSUME NEW r \in Request, CommitInsert(r) PROVE Counted'
  <2> SUFFICES ASSUME NEW q \in Request, pc'[q] \in {"retire", "apply", "commit"}
               PROVE  /\ op[q] = "UploadLPJ" /\ target'[q] = None => ChildrenOf(lab[q], "lpj")' = {}
                      /\ op[q] = "UploadDPA" =>
                            \A i \in ChildrenOf(lab[q], "dpa")' : row'[i].versi < ver'[q]
    BY <1>9 DEF CommitInsert, Committed, Forget
  <2>1. q # r /\ pc[q] = pc'[q] /\ target'[q] = target[q] /\ ver'[q] = ver[q]
    BY <1>9 DEF CommitInsert, Committed, Forget, AfterError
  <2>2. row' = [row EXCEPT ![r] = NewRow(r)]
    BY <1>9 DEF CommitInsert
  <2>3. LocksLabel(op[q]) /\ LocksLabel(op[r]) => lab[q] # lab[r]
    BY <1>9, <2>1 DEF CommitInsert, Runs, Exclusive, LabelHeld
  <2>4. LocksLabel(op[q]) /\ lab[q] = lab[r] => NewRow(r).kind = "documentation"
    BY <1>9, <2>3 DEF CommitInsert, NewRow, KindOf, LocksLabel
  <2>5. NewRow(r).label = lab[r]
    BY DEF NewRow
  <2>6. UNCHANGED <<op, lab>>
    BY <1>9 DEF CommitInsert, Committed, Forget
  <2>7. \A k \in {"lpj", "dpa"} :
            LocksLabel(op[q]) => \A i \in ChildrenOf(lab[q], k)' :
                                     i \in ChildrenOf(lab[q], k) /\ row'[i] = row[i]
    <3>1. ASSUME NEW k \in {"lpj", "dpa"}, LocksLabel(op[q]), NEW i \in ChildrenOf(lab[q], k)'
          PROVE  i # r /\ row'[i] = row[i]
      BY <3>1, <2>1, <2>2, <2>4, <2>5, <2>6
    <3> QED
      BY <3>1, <2>6
  <2> QED
    BY <2>1, <2>6, <2>7 DEF LocksLabel
<1>10. ASSUME NEW r \in Request, CommitRepoint(r) PROVE Counted'
  BY <1>10 DEF CommitRepoint, Committed, Forget, AfterError, Runs, Repointed, Row
<1>11. ASSUME NEW r \in Request, CommitRemoval(r) \/ CommitDelete(r) PROVE Counted'
  BY <1>11 DEF CommitRemoval, CommitDelete, Committed, Forget, AfterError, Runs, WithoutTarget
<1>12. ASSUME NEW r \in Request, TxError(r) \/ DeadlockAbort(r) PROVE Counted'
  BY <1>12 DEF TxError, DeadlockAbort, Rollback, Forget, AfterError
<1>13. ASSUME NEW r \in Request, Purge(r) \/ Cleanup(r) \/ Cancel(r) PROVE Counted'
  BY <1>13 DEF Purge, Cleanup, Cancel
<1>14. CASE Crash
  BY <1>14 DEF Crash
<1>15. CASE UNCHANGED vars
  BY <1>15 DEF vars
<1> QED
  BY <1>1, <1>2, <1>3, <1>4, <1>5, <1>6, <1>7, <1>8, <1>9, <1>10, <1>11, <1>12, <1>13,
     <1>14, <1>15 DEF Next, Step, AllEnded

\* A file belongs to the one row related to it: no other row lists it.
LEMMA OneRowPerFile ==
    ASSUME FilesRelated, NEW i \in Request, NEW j \in Request, row[i] # None, row[j] # None,
           row[i].file = row[j].file
    PROVE  i = j
  BY DEF FilesRelated

\* What a commit retires is listed by no row that stays.
LEMMA SeenStep ==
    ASSUME HandlerInv, RecordsInv, LocksInv, Counted, ListedIsActive, ChildrenUnique, TypeOK',
           [Next]_vars
    PROVE  ListedIsActive' /\ ChildrenUnique'
<1> USE NoneAssumption DEF HandlerInv, RecordsInv, LocksInv, TypeOK, ListedIsActive, ChildrenUnique
<1>1. ASSUME NEW l \in Label, CreateLabel(l) PROVE ListedIsActive' /\ ChildrenUnique'
  BY <1>1 DEF CreateLabel
<1>2. ASSUME NEW r \in Request, CommitInsert(r) PROVE ListedIsActive' /\ ChildrenUnique'
  <2> USE <1>2 DEF CommitInsert, Runs, NewRow
  <2>1. label[lab[r]] = "live" /\ file[r] = "none"
    BY DEF LabelsLive, Shares, NotYetRecorded, InTx
  <2>2. \A i \in Request : row[i] # None => row[i].file # r
    BY <2>1 DEF FilesRelated, Recorded
  <2>3. ListedIsActive'
    BY <2>1, <2>2
  <2>4. \A i \in Request \ {r} : row'[i] # None /\ row[i].label = lab[r] /\ row[i].kind = KindOf(op[r]) =>
           KindOf(op[r]) # "lpj" /\ (KindOf(op[r]) = "dpa" => row[i].versi < ver[r])
    BY DEF Counted, ChildrenOf, Children, KindOf, Inserts, Uploads
  <2>5. ver[r] \in Nat /\ \A i \in Request : row[i] # None => row[i].versi \in Nat
    BY DEF Row
  <2>6. ChildrenUnique'
    BY <2>4, <2>5
  <2> QED
    BY <2>3, <2>6
<1>3. ASSUME NEW r \in Request, CommitRepoint(r) PROVE ListedIsActive' /\ ChildrenUnique'
  <2> USE <1>3 DEF CommitRepoint, Runs, Repointed, SoftDeleted, Row
  <2>1. \A i \in Request : row[i] # None /\ row[i].file \in doomed[r] => i = target[r]
    BY DEF DoomedRead, FilesRelated, InTx
  <2>2. target[r] \in Request
    OBVIOUS
  <2>3. ListedIsActive'
    BY <2>1, <2>2
  <2>4. ChildrenUnique'
    BY <2>2
  <2> QED
    BY <2>3, <2>4
<1>4. ASSUME NEW r \in Request, CommitRemoval(r) PROVE ListedIsActive' /\ ChildrenUnique'
  <2> USE <1>4 DEF CommitRemoval, Runs, SoftDeleted, WithoutTarget
  <2>1. \A i \in Request : row[i] # None /\ row[i].file \in doomed[r] => i = target[r]
    BY DEF DoomedRead, FilesRelated, InTx, Removals
  <2>2. ListedIsActive'
    BY <2>1 DEF Row
  <2>3. ChildrenUnique'
    OBVIOUS
  <2> QED
    BY <2>2, <2>3
<1>5. ASSUME NEW r \in Request, CommitDelete(r) PROVE ListedIsActive' /\ ChildrenUnique'
  <2> USE <1>5 DEF CommitDelete, Runs, SoftDeleted, Children
  <2>1. \A i \in Request : row[i] # None /\ row[i].file \in doomed[r] => row[i].label = lab[r]
    BY DEF DoomedRead, FilesRelated, InTx
  <2>2. ListedIsActive'
    BY <2>1 DEF Row
  <2>3. ChildrenUnique'
    OBVIOUS
  <2> QED
    BY <2>2, <2>3
<1>6. CASE UNCHANGED db
  BY <1>6 DEF db
<1> QED
  BY <1>1, <1>2, <1>3, <1>4, <1>5, <1>6, OthersWriteNothing

LEMMA ListInvStep == ASSUME HandlerInv, ListInv, TypeOK', [Next]_vars PROVE ListInv'
  BY RecordsStep, LocksStep, CountedStep, SeenStep DEF ListInv, RecordsInv

LEMMA ListInvHolds == Spec => []ListInv
<1>1. HandlerInv /\ ListInv /\ TypeOK' /\ [Next]_vars => ListInv'
  BY ListInvStep
<1> QED
  BY ListInvInit, TypeCorrect, HandlersKeepOrder, <1>1, PTL DEF Spec

\* What a detail page lists can be opened, under every fault: no removal or
\* replacement leaves a row of another one's file behind.
THEOREM ListingsReadable == Spec => []ListedIsActive
<1>1. ListInv => ListedIsActive
  BY DEF ListInv
<1> QED
  BY ListInvHolds, <1>1, PTL

\* Two uploads never commit the same DPA version, or two LPJs, of one label.
THEOREM UploadsStayUnique == Spec => []ChildrenUnique
<1>1. ListInv => ChildrenUnique
  BY DEF ListInv
<1> QED
  BY ListInvHolds, <1>1, PTL

-------------------------------------------------------------------------------
(***************************************************************************)
(* The store implements the register of DocumentRegister: every COMMIT is  *)
(* one whole step of it, or none, and nothing else is seen by a reader.    *)
(***************************************************************************)

EntryOf(e) == Register!Entry(e.label, e.kind, e.file)
Entries(rows) == {EntryOf(rows[i]) : i \in {j \in Request : rows[j] # None}}

\* An entry shows what its row holds.
LEMMA EntryFields ==
    ASSUME NEW e
    PROVE  EntryOf(e).label = e.label /\ EntryOf(e).kind = e.kind /\ EntryOf(e).file = e.file
  BY DEF EntryOf, Register!Entry

\* Inserting a row adds its entry, and deleting one takes its entry away.
LEMMA EntriesWith ==
    ASSUME NEW rows \in [Request -> Row \cup {None}], NEW i \in Request, rows[i] = None,
           NEW e, e # None
    PROVE  Entries([rows EXCEPT ![i] = e]) = Entries(rows) \cup {EntryOf(e)}
  BY DEF Entries

LEMMA EntriesWithout ==
    ASSUME NEW rows \in [Request -> Row \cup {None}], NEW i \in Request, rows[i] # None,
           \A j \in Request : rows[j] # None /\ rows[j].file = rows[i].file => j = i
    PROVE  Entries([rows EXCEPT ![i] = None]) = Entries(rows) \ {EntryOf(rows[i])}
<1>1. ASSUME NEW j \in Request, rows[j] # None, EntryOf(rows[j]) = EntryOf(rows[i]) PROVE j = i
  BY <1>1, EntryFields
<1>2. \A j \in Request : [rows EXCEPT ![i] = None][j] = IF j = i THEN None ELSE rows[j]
  OBVIOUS
<1> QED
  BY <1>1, <1>2 DEF Entries

\* A reader sees the entries of the committed rows.
SeesRows == Listed = Entries(row)

LEMMA RowsSeen == TypeOK /\ ListedIsActive /\ ActiveHasBlob => SeesRows
<1> SUFFICES ASSUME TypeOK, ListedIsActive, ActiveHasBlob PROVE Listed = Entries(row)
  BY DEF SeesRows
<1>1. \A i \in Request : row[i] # None =>
          (file[row[i].file] = "active" /\ row[i].file \in blob) = TRUE
  BY DEF TypeOK, ListedIsActive, ActiveHasBlob, Row
<1>2. \A i \in Request : row[i] # None =>
          [label |-> row[i].label, kind |-> row[i].kind, file |-> row[i].file,
           readable |-> file[row[i].file] = "active" /\ row[i].file \in blob] = EntryOf(row[i])
  BY <1>1 DEF EntryOf, Register!Entry
<1> QED
  BY <1>2 DEF Listed, Entries

\* A file that no row lists is fresh.
LEMMA FreshFile ==
    ASSUME SeesRows, NEW f, \A i \in Request : row[i] # None => row[i].file # f
    PROVE  Register!Fresh(f)
  BY EntryFields DEF SeesRows, Entries, Register!Fresh

\* Every commit is a step of the register.
LEMMA CommitFollowsRegister ==
    ASSUME HandlerInv, ListInv, SeesRows, TypeOK', ListInv', SeesRows', [Next]_vars
    PROVE  [Register!Next]_<<label, Listed>>
<1> USE NoneAssumption
<1>0. FilesRelated /\ NotYetRecorded /\ TypeOK
  BY DEF ListInv, RecordsInv, HandlerInv
<1>1. ASSUME NEW l \in Label, CreateLabel(l) PROVE Register!Next
  <2>1. UNCHANGED Listed
    BY <1>1 DEF CreateLabel, SeesRows
  <2> QED
    BY <1>1, <2>1 DEF CreateLabel, Register!Next, Register!Create
<1>2. ASSUME NEW r \in Request, CommitInsert(r) PROVE Register!Next
  <2> DEFINE k == KindOf(op[r])
  <2>1. /\ pc[r] = "commit" /\ Inserts(r) /\ lab[r] \in Label /\ k \in Kind
        /\ row' = [row EXCEPT ![r] = NewRow(r)] /\ UNCHANGED label
    BY <1>0, <1>2, Kinds DEF CommitInsert, Runs, TypeOK
  <2>2. label[lab[r]] = "live"
    BY <2>1 DEF ListInv, LocksInv, LabelsLive, Shares
  <2>3. row[r] = None /\ \A i \in Request : row[i] # None => row[i].file # r
    BY <1>0, <2>1 DEF NotYetRecorded, FilesRelated, Recorded, InTx
  <2>4. Listed' = Listed \cup {Register!Entry(lab[r], k, r)}
    <3>1. NewRow(r) \in Row
      BY <1>0, <2>1 DEF NewRow, Row, TypeOK
    <3>2. EntryOf(NewRow(r)) = Register!Entry(lab[r], k, r)
      BY DEF NewRow, EntryOf
    <3>3. row \in [Request -> Row \cup {None}]
      BY <1>0 DEF TypeOK
    <3>4. Entries(row') = Entries(row) \cup {EntryOf(NewRow(r))}
      BY ONLY <2>1, <2>3, <3>1, <3>3, RowAssumption, EntriesWith
    <3> QED
      BY <3>2, <3>4 DEF SeesRows
  <2>5. k \in {"lpj"} => \A d \in Listed : ~(d.label = lab[r] /\ d.kind = k)
    <3>1. k = "lpj" => op[r] = "UploadLPJ" /\ target[r] = None
      BY <2>1 DEF Inserts, KindOf
    <3>2. k = "lpj" => ChildrenOf(lab[r], "lpj") = {}
      BY <2>1, <3>1 DEF ListInv, Counted
    <3> QED
      BY <3>2, EntryFields DEF SeesRows, Entries, ChildrenOf, Children
  <2>6. Register!Publish(lab[r], k, r)
    BY <2>1, <2>2, <2>3, <2>4, <2>5, FreshFile DEF Register!Publish
  <2> QED
    BY <2>1, <2>6 DEF Register!Next
<1>3. ASSUME NEW r \in Request, CommitRepoint(r) PROVE [Register!Next]_<<label, Listed>>
  <2> DEFINE t == target[r]
             d == EntryOf(row[t])
  <2>1. /\ pc[r] = "commit" /\ op[r] = "UploadLPJ" /\ t \in Request /\ UNCHANGED label
        /\ row' = IF row[t] = None THEN row ELSE [row EXCEPT ![t] = Repointed(t, r)]
    BY <1>0, <1>3 DEF CommitRepoint, Runs, TypeOK
  <2>2. CASE row[t] = None
    BY <2>1, <2>2 DEF SeesRows
  <2>3. CASE row[t] # None
    <3>1. row[t].kind = "lpj"
      BY <2>1, <2>3 DEF ListInv, RecordsInv, TargetRead
    <3>2. \A i \in Request : row[i] # None => row[i].file # r
      BY <1>0, <2>1 DEF NotYetRecorded, FilesRelated, Recorded, InTx
    <3>3. Repointed(t, r) # None /\ EntryOf(Repointed(t, r)) = Register!Entry(d.label, d.kind, r)
      <4>1. Repointed(t, r) \in Row
        BY <1>0, <2>1, <2>3 DEF Repointed, TypeOK, Row
      <4>2. EntryOf(Repointed(t, r)) = Register!Entry(d.label, d.kind, r)
        BY EntryFields DEF Repointed, EntryOf
      <4> QED
        BY <4>1, <4>2, RowAssumption
    <3>4. Listed' = (Listed \ {d}) \cup {Register!Entry(d.label, d.kind, r)}
      <4> DEFINE without == [row EXCEPT ![t] = None]
      <4>1. Entries(without) = Listed \ {d}
        BY <1>0, <2>1, <2>3, OneRowPerFile, EntriesWithout DEF SeesRows, TypeOK
      <4>2. without \in [Request -> Row \cup {None}] /\ without[t] = None
            /\ row' = [without EXCEPT ![t] = Repointed(t, r)]
        BY <1>0, <2>1, <2>3 DEF TypeOK
      <4>3. Entries(row') = Entries(without) \cup {EntryOf(Repointed(t, r))}
        BY <2>1, <3>3, <4>2, EntriesWith
      <4> QED
        BY <3>3, <4>1, <4>3 DEF SeesRows
    <3>5. d \in Listed /\ d.kind = "lpj"
      BY <2>1, <2>3, <3>1, EntryFields DEF SeesRows, Entries
    <3>6. Register!Exchange(d, r)
      BY <2>1, <3>2, <3>4, <3>5, FreshFile DEF Register!Exchange
    <3> QED
      BY <3>5, <3>6 DEF Register!Next
  <2> QED
    BY <2>2, <2>3
<1>4. ASSUME NEW r \in Request, CommitRemoval(r) PROVE [Register!Next]_<<label, Listed>>
  <2> DEFINE t == target[r]
             d == EntryOf(row[t])
  <2>1. row' = [row EXCEPT ![t] = None] /\ UNCHANGED label
    BY <1>4 DEF CommitRemoval, WithoutTarget
  <2>2. CASE t \in Request /\ row[t] # None
    <3>1. Listed' = Listed \ {d}
      BY <1>0, <2>1, <2>2, OneRowPerFile, EntriesWithout DEF SeesRows, TypeOK
    <3>2. d \in Listed
      BY <2>2 DEF SeesRows, Entries
    <3> QED
      BY <2>1, <3>1, <3>2 DEF Register!Next, Register!Withdraw
  <2>3. CASE ~(t \in Request /\ row[t] # None)
    <3>1. UNCHANGED row
      BY <1>0, <2>1, <2>3 DEF TypeOK
    <3> QED
      BY <2>1, <3>1 DEF SeesRows
  <2> QED
    BY <2>2, <2>3
<1>5. ASSUME NEW r \in Request, CommitDelete(r) PROVE [Register!Next]_<<label, Listed>>
  <2> DEFINE l == lab[r]
  <2>1. /\ l \in Label /\ label[l] # "unborn" /\ label' = [label EXCEPT ![l] = "gone"]
        /\ row' = [i \in Request |-> IF i \in Children(l) THEN None ELSE row[i]]
    BY <1>0, <1>5 DEF CommitDelete, Runs, TypeOK, ListInv, LocksInv, LabelsLive
  <2>2. Listed' = {d \in Listed : d.label # l}
    <3>1. \A i \in Request : row'[i] # None <=> row[i] # None /\ row[i].label # l
      BY <2>1 DEF Children
    <3>2. \A i \in Request : row'[i] # None => row'[i] = row[i]
      BY <2>1
    <3> QED
      BY <3>1, <3>2, EntryFields DEF SeesRows, Entries
  <2>3. CASE label[l] = "live"
    BY <2>1, <2>2, <2>3 DEF Register!Next, Register!Drop
  <2>4. CASE label[l] # "live"
    <3>1. label' = label
      BY <1>0, <2>1, <2>4 DEF TypeOK
    <3>2. \A d \in Listed : d.label # l
      BY <2>4, EntryFields DEF SeesRows, Entries, ListInv, ListedIsActive
    <3> QED
      BY <2>2, <3>1, <3>2
  <2> QED
    BY <2>3, <2>4
<1>6. CASE UNCHANGED db
  BY <1>6 DEF db, SeesRows
<1> QED
  BY <1>1, <1>2, <1>3, <1>4, <1>5, <1>6, OthersWriteNothing

\* Readers see a register that changes by whole steps, whatever is interleaved,
\* fails, is cancelled or stops, provided no COMMIT is lost on its way back.
THEOREM RegisterImplemented == ASSUME NoLostAck PROVE Spec => RegisterSpec
<1>1. Init => Register!Init
  BY DEF Init, Register!Init, Listed
<1>2. Spec => []SeesRows
  BY MetadataHasBinary, ListingsReadable, TypeCorrect, RowsSeen, NoLostAck, PTL
<1>3. HandlerInv /\ ListInv /\ SeesRows /\ TypeOK' /\ ListInv' /\ SeesRows' /\ [Next]_vars
        => [Register!Next]_<<label, Listed>>
  BY CommitFollowsRegister
<1> QED
  BY <1>1, <1>2, <1>3, TypeCorrect, HandlersKeepOrder, ListInvHolds,
     PTL DEF Spec, RegisterSpec, Register!Spec

-------------------------------------------------------------------------------
(***************************************************************************)
(* What is stranded.  A replacement retires the file its row had when it   *)
(* read it; that is the file the row still has at the commit because the   *)
(* label is locked, and that the row is still there because nobody deletes *)
(* an LPJ or a label.  Without that the property does not hold: a deletion *)
(* takes no lock a replacement or an upload would wait for.                *)
(***************************************************************************)

NoParentRemoval == Op \cap {"DeleteLPJ", "Delete"} = {}

\* The row a file belongs to lists it as long as it is active.
AllListed ==
    \A f \in Request : file[f] = "active" => row[related[f]] # None /\ row[related[f]].file = f

\* The row a transaction works on still has the file it is about to retire.
TargetHeld ==
    \A r \in Request : pc[r] \in InTx /\ target[r] # None =>
        /\ op[r] = "UploadLPJ" => row[target[r]] # None
        /\ row[target[r]] # None =>
              /\ row[target[r]].file \in doomed[r] /\ row[target[r]].label = lab[r]
              /\ row[target[r]].kind = KindOf(op[r])

StrandedInv == AllListed /\ TargetHeld

\* Who replaces an LPJ or adds a version has its label to itself.
LEMMA LabelAlone ==
    ASSUME TypeOK, LocksInv, NEW q \in Request, NEW r \in Request, q # r,
           LocksLabel(op[q]), LocksLabel(op[r]),
           pc[q] \in {"find", "retire", "apply", "commit"},
           pc[r] \in {"find", "retire", "apply", "commit"}
    PROVE  lab[q] # lab[r]
  BY DEF LocksInv, LabelHeld, Exclusive

\* Statements that write no row and read no target leave nothing stranded.
LEMMA StrandedKept ==
    ASSUME StrandedInv, TypeOK, UNCHANGED db,
           \A r \in Request : pc'[r] \in InTx /\ target'[r] # None =>
               /\ pc[r] \in InTx /\ target'[r] = target[r] /\ op'[r] = op[r] /\ lab'[r] = lab[r]
               /\ doomed'[r] = doomed[r]
    PROVE  StrandedInv'
<1>1. AllListed'
  BY DEF StrandedInv, AllListed, db
<1>2. TargetHeld'
  BY DEF StrandedInv, TargetHeld, db
<1> QED
  BY <1>1, <1>2 DEF StrandedInv

LEMMA StrandedStep ==
    ASSUME NoParentRemoval, HandlerInv, RecordsInv, LocksInv, StrandedInv, TypeOK', [Next]_vars
    PROVE  StrandedInv'
<1>0. /\ TypeOK /\ NotYetRecorded /\ FilesRelated
      /\ \A r \in Request : pc[r] # "idle" => op[r] \notin {"DeleteLPJ", "Delete"}
  BY DEF HandlerInv, RecordsInv, NoParentRemoval, TypeOK
<1> USE NoneAssumption
<1>1. ASSUME NEW l \in Label, CreateLabel(l) PROVE StrandedInv'
  BY <1>1 DEF CreateLabel, StrandedInv, AllListed, TargetHeld, local
<1>2. ASSUME NEW r \in Request, Start(r) \/ SaveBlob(r) \/ SaveRefused(r) \/ CheckLabel(r)
      PROVE  StrandedInv'
  <2>1. target[r] = None /\ UNCHANGED db /\ UNCHANGED <<target, doomed>>
    BY <1>2, <1>0 DEF Start, SaveBlob, SaveRefused, CheckLabel, Runs, local, HandlerInv,
       InsertsRetireNothing
  <2>2. \A q \in Request \ {r} : pc'[q] = pc[q] /\ op'[q] = op[q] /\ lab'[q] = lab[q]
    BY <1>2, <1>0 DEF Start, SaveBlob, SaveRefused, CheckLabel, TypeOK, local
  <2> QED
    BY <1>0, <2>1, <2>2, StrandedKept
<1>3. ASSUME NEW r \in Request, FindVersion(r) \/ CollectDocumentation(r) \/ CollectDocuments(r)
      PROVE  StrandedInv'
  <2>1. FindVersion(r)
    BY <1>3, <1>0 DEF CollectDocumentation, CollectDocuments, Runs, HandlerInv, OnlyDeleteCollects
  <2> QED
    BY <1>0, <2>1, StrandedKept DEF FindVersion, Runs, InTx, TypeOK, db
<1>4. ASSUME NEW r \in Request, FindCurrentLPJ(r) \/ FindChild(r) PROVE StrandedInv'
  <2>1. /\ UNCHANGED db /\ UNCHANGED <<op, lab>>
        /\ \A q \in Request \ {r} : pc'[q] = pc[q] /\ target'[q] = target[q] /\ doomed'[q] = doomed[q]
    BY <1>4, <1>0 DEF FindCurrentLPJ, FindChild, Target, TypeOK
  <2>2. pc'[r] \in InTx /\ target'[r] # None =>
          /\ target'[r] \in ChildrenOf(lab[r], KindOf(op[r]))
          /\ doomed'[r] = {row[target'[r]].file}
    BY <1>4, <1>0 DEF FindCurrentLPJ, FindChild, Target, TypeOK, Runs, KindOf, HandlerInv,
       InsertsRetireNothing
  <2>3. AllListed'
    BY <2>1 DEF StrandedInv, AllListed, db
  <2>4. TargetHeld'
    BY <2>1, <2>2 DEF StrandedInv, TargetHeld, db, ChildrenOf, Children
  <2> QED
    BY <2>3, <2>4 DEF StrandedInv
<1>5. ASSUME NEW r \in Request,
             \/ RetireFile(r) \/ RetireCollected(r) \/ InsertChild(r) \/ LockTarget(r)
             \/ RemoveLabel(r) \/ Cascade(r)
      PROVE  StrandedInv'
  <2>1. UNCHANGED db /\ UNCHANGED <<op, lab, target, doomed>> /\ pc[r] \in InTx
    BY <1>5 DEF RetireFile, RetireCollected, InsertChild, LockTarget, RemoveLabel, Cascade,
       Runs, InTx, local
  <2>2. \A q \in Request \ {r} : pc'[q] = pc[q]
    BY <1>5, <1>0 DEF RetireFile, RetireCollected, InsertChild, LockTarget, RemoveLabel, Cascade,
       TypeOK
  <2> QED
    BY <1>0, <2>1, <2>2, StrandedKept
<1>6. ASSUME NEW r \in Request, TxError(r) \/ DeadlockAbort(r) \/ Purge(r) \/ Cleanup(r) \/ Cancel(r)
      PROVE  StrandedInv'
  <2>1. UNCHANGED db /\ UNCHANGED <<op, lab>>
    BY <1>6 DEF TxError, DeadlockAbort, Rollback, Forget, Purge, Cleanup, Cancel, local
  <2>2. \A q \in Request \ {r} : pc'[q] = pc[q] /\ target'[q] = target[q] /\ doomed'[q] = doomed[q]
    BY <1>6, <1>0 DEF TxError, DeadlockAbort, Rollback, Forget, Purge, Cleanup, Cancel, local, TypeOK
  <2>3. pc'[r] \in InTx => UNCHANGED <<pc, target, doomed>>
    BY <1>6, <1>0 DEF TxError, DeadlockAbort, Rollback, Forget, Purge, Cleanup, Cancel, local,
       AfterError, TypeOK, InTx
  <2> QED
    BY <1>0, <2>1, <2>2, <2>3, StrandedKept
<1>7. CASE Crash
  <2>1. UNCHANGED db /\ \A q \in Request : target'[q] = None
    BY <1>7 DEF Crash
  <2> QED
    BY <1>0, <2>1, StrandedKept
<1>8. CASE UNCHANGED vars
  BY <1>8 DEF vars, db, local, StrandedInv, AllListed, TargetHeld
\* The commits.
<1>9. ASSUME NEW r \in Request, CommitInsert(r) PROVE StrandedInv'
  <2>1. /\ pc[r] = "commit" /\ row' = [row EXCEPT ![r] = NewRow(r)]
        /\ file' = [file EXCEPT ![r] = "active"] /\ related' = [related EXCEPT ![r] = r]
        /\ target[r] = None
    BY <1>9, <1>0 DEF CommitInsert, Runs, RelatedEntity, Inserts, HandlerInv, RecordsInv,
       TargetRead, Removals
  <2>2. ~Recorded(r)
    BY <1>0, <2>1 DEF NotYetRecorded, Recorded, InTx
  <2>3. AllListed'
    <3>1. NewRow(r) # None /\ NewRow(r).file = r
      <4>1. NewRow(r) \in Row
        BY <1>0, <2>1, Kinds DEF NewRow, Row, TypeOK
      <4> QED
        BY <4>1, RowAssumption DEF NewRow
    <3>2. row'[r] = NewRow(r) /\ related'[r] = r
      BY <1>0, <2>1 DEF TypeOK
    <3>3. ASSUME NEW f \in Request \ {r}, file'[f] = "active"
          PROVE  row'[related'[f]] # None /\ row'[related'[f]].file = f
      <4>1. file[f] = "active" /\ related'[f] = related[f]
        BY <2>1, <3>3, <1>0 DEF TypeOK
      <4>2. related[f] \in Request \ {r}
        BY <1>0, <2>2, <4>1 DEF FilesRelated, Recorded
      <4> QED
        BY <1>0, <2>1, <4>1, <4>2 DEF StrandedInv, AllListed, TypeOK
    <3> QED
      BY <3>1, <3>2, <3>3 DEF AllListed
  <2>4. TargetHeld'
    <3>1. \A q \in Request : target[q] # None => target[q] \in Request /\ row'[target[q]] = row[target[q]]
      BY <1>0, <2>1, <2>2 DEF RecordsInv, TargetRead, TypeOK
    <3>2. \A q \in Request : pc'[q] \in InTx /\ target'[q] # None =>
            /\ pc[q] \in InTx /\ target'[q] = target[q] /\ op'[q] = op[q] /\ lab'[q] = lab[q]
            /\ doomed'[q] = doomed[q]
      BY <1>9, <1>0 DEF CommitInsert, Committed, Forget, AfterError, TypeOK, InTx
    <3> QED
      BY <3>1, <3>2 DEF StrandedInv, TargetHeld
  <2> QED
    BY <2>3, <2>4 DEF StrandedInv
<1>10. ASSUME NEW r \in Request, CommitRepoint(r) PROVE StrandedInv'
  <2> DEFINE t == target[r]
  <2>1. /\ pc[r] = "commit" /\ op[r] = "UploadLPJ" /\ t \in Request
        /\ row' = (IF row[t] = None THEN row ELSE [row EXCEPT ![t] = Repointed(t, r)])
        /\ file' = [SoftDeleted(r) EXCEPT ![r] = "active"]
        /\ related' = [related EXCEPT ![r] = t]
    BY <1>10, <1>0 DEF CommitRepoint, Runs, RelatedEntity, TypeOK
  <2>2. row[t] # None /\ row[t].file \in doomed[r] /\ row[t].label = lab[r] /\ row[t].kind = "lpj"
    BY <2>1 DEF StrandedInv, TargetHeld, InTx, KindOf
  <2>3. row' = [row EXCEPT ![t] = Repointed(t, r)]
    BY <2>1, <2>2
  <2>4. Repointed(t, r) # None /\ Repointed(t, r).file = r /\ Repointed(t, r).label = row[t].label
        /\ Repointed(t, r).kind = row[t].kind
    <3>1. Repointed(t, r) \in Row
      BY <1>0, <2>1, <2>2 DEF Repointed, Row, TypeOK
    <3> QED
      BY <3>1, RowAssumption DEF Repointed
  <2>5. row'[t] = Repointed(t, r) /\ related'[r] = t
    BY <1>0, <2>1, <2>3 DEF TypeOK
  <2>6. AllListed'
    <3>1. ASSUME NEW f \in Request \ {r}, file'[f] = "active"
          PROVE  row'[related'[f]] # None /\ row'[related'[f]].file = f
      <4>1. file[f] = "active" /\ f \notin doomed[r] /\ related'[f] = related[f]
        BY <1>0, <2>1, <3>1 DEF SoftDeleted, TypeOK
      <4>2. row[related[f]] # None /\ row[related[f]].file = f /\ related[f] \in Request
        BY <1>0, <4>1 DEF StrandedInv, AllListed, FilesRelated, Recorded
      <4>3. related[f] # t
        BY <2>2, <4>1, <4>2
      <4> QED
        BY <1>0, <2>3, <4>1, <4>2, <4>3 DEF TypeOK
    <3> QED
      BY <2>4, <2>5, <3>1 DEF AllListed
  <2>7. TargetHeld'
    <3>1. ASSUME NEW q \in Request, pc'[q] \in InTx, target'[q] # None
          PROVE  /\ q # r /\ pc[q] \in InTx /\ target'[q] = target[q] /\ op'[q] = op[q]
                 /\ lab'[q] = lab[q] /\ doomed'[q] = doomed[q]
      BY <3>1, <1>10, <1>0 DEF CommitRepoint, Committed, Forget, AfterError, TypeOK, InTx, Ended
    <3>2. ASSUME NEW q \in Request, pc[q] \in InTx, q # r, target[q] # None PROVE target[q] # t
      <4>1. \/ pc[q] # "idle" /\ pc[q] \in {"retire", "apply", "commit"}
            \/ target[q] = None
            \/ op[q] = "Delete"
        BY <1>0, <3>2 DEF InTx, HandlerInv, InsertsRetireNothing, OnlyDeleteCollects
      <4>2. pc[q] \in {"retire", "apply", "commit"} /\ op[q] \notin {"DeleteLPJ", "Delete"}
        BY <1>0, <3>2, <4>1 DEF InTx
      <4>3. target[q] = t => op[q] \in Removals \cup {"UploadLPJ"} /\ KindOf(op[q]) = "lpj"
                             /\ lab[q] = lab[r]
        BY <2>2, <3>2 DEF StrandedInv, TargetHeld, RecordsInv, TargetRead
      <4>4. target[q] = t => op[q] = "UploadLPJ"
        BY <4>2, <4>3 DEF Removals, KindOf
      <4> QED
        BY <1>0, <2>1, <3>2, <4>2, <4>3, <4>4, LabelAlone DEF LocksLabel
    <3>3. \A x \in Request : x # t => row'[x] = row[x]
      BY <1>0, <2>3 DEF TypeOK
    <3>4. \A q \in Request : target[q] # None => target[q] \in Request
      BY <1>0 DEF TypeOK
    <3> QED
      BY <3>1, <3>2, <3>3, <3>4 DEF StrandedInv, TargetHeld
  <2> QED
    BY <2>6, <2>7 DEF StrandedInv
<1>11. ASSUME NEW r \in Request, CommitRemoval(r) PROVE StrandedInv'
  <2> DEFINE t == target[r]
  <2>1. /\ pc[r] = "commit" /\ op[r] \in Removals /\ op[r] # "DeleteLPJ"
        /\ row' = [row EXCEPT ![t] = None]
        /\ file' = SoftDeleted(r) /\ related' = related
    BY <1>11, <1>0 DEF CommitRemoval, Runs, WithoutTarget
  <2>2. \A x \in Request : row'[x] = IF x = t THEN None ELSE row[x]
    BY <1>0, <2>1 DEF TypeOK
  <2>3. row[t] # None /\ t \in Request =>
          row[t].file \in doomed[r] /\ row[t].kind = KindOf(op[r]) /\ row[t].kind # "lpj"
    BY <2>1 DEF StrandedInv, TargetHeld, InTx, KindOf, Removals
  <2>4. AllListed'
    <3>1. ASSUME NEW f \in Request, file'[f] = "active"
          PROVE  row'[related'[f]] # None /\ row'[related'[f]].file = f
      <4>1. file[f] = "active" /\ f \notin doomed[r] /\ related'[f] = related[f]
        BY <2>1, <3>1 DEF SoftDeleted
      <4>2. row[related[f]] # None /\ row[related[f]].file = f /\ related[f] \in Request
        BY <1>0, <4>1 DEF StrandedInv, AllListed, FilesRelated, Recorded
      <4>3. related[f] # t
        BY <2>3, <4>1, <4>2
      <4> QED
        BY <2>2, <4>1, <4>2, <4>3
    <3> QED
      BY <3>1 DEF AllListed
  <2>5. TargetHeld'
    <3>1. ASSUME NEW q \in Request, pc'[q] \in InTx, target'[q] # None
          PROVE  /\ pc[q] \in InTx /\ target'[q] = target[q] /\ target[q] \in Request
                 /\ op'[q] = op[q] /\ lab'[q] = lab[q] /\ doomed'[q] = doomed[q]
      BY <3>1, <1>11, <1>0 DEF CommitRemoval, Committed, Forget, AfterError, TypeOK, InTx, Ended
    <3>2. ASSUME NEW q \in Request, pc[q] \in InTx, target[q] \in Request, target[q] # None,
                 op[q] = "UploadLPJ"
          PROVE  row'[target[q]] # None
      <4>1. row[target[q]] # None /\ row[target[q]].kind = "lpj"
        BY <3>2 DEF StrandedInv, TargetHeld, KindOf
      <4> QED
        BY <2>2, <2>3, <3>2, <4>1
    <3> QED
      BY <2>2, <3>1, <3>2 DEF StrandedInv, TargetHeld
  <2> QED
    BY <2>4, <2>5 DEF StrandedInv
<1>12. ASSUME NEW r \in Request, CommitDelete(r) PROVE StrandedInv'
  BY <1>12, <1>0 DEF CommitDelete, Runs
<1> QED
  BY <1>1, <1>2, <1>3, <1>4, <1>5, <1>6, <1>7, <1>8, <1>9, <1>10, <1>11, <1>12
     DEF Next, Step, AllEnded

\* No metadata is stranded, under every fault, as long as nobody deletes a label
\* or an LPJ: whatever uploads, replacements and other removals are interleaved.
THEOREM MetadataIsListed == ASSUME NoParentRemoval PROVE Spec => []ActiveIsListed
<1>1. Init => StrandedInv
  BY DEF Init, StrandedInv, AllListed, TargetHeld, InTx
<1>2. HandlerInv /\ ListInv /\ StrandedInv /\ TypeOK' /\ [Next]_vars => StrandedInv'
  BY StrandedStep, NoParentRemoval DEF ListInv
<1>3. ListInv /\ StrandedInv => ActiveIsListed
  BY DEF ListInv, RecordsInv, FilesRelated, Recorded, StrandedInv, AllListed, ActiveIsListed
<1> QED
  BY <1>1, <1>2, <1>3, TypeCorrect, HandlersKeepOrder, ListInvHolds, PTL DEF Spec

-------------------------------------------------------------------------------
(***************************************************************************)
(* No binary is stranded while only statements of the database fail: with  *)
(* a stop, a cancellation, a lost COMMIT or an unlink that fails, a blob   *)
(* nobody describes may stay.                                              *)
(***************************************************************************)

OnlyStatementsFail == Fault \subseteq {"dberror"}

\* Blobs are those of uploads past their save, and no context is cancelled.
BlobsOfUploads ==
    /\ cancelled = {}
    /\ \A f \in blob : pc[f] \notin {"idle", "save"} /\ op[f] \in Uploads
    /\ \A r \in Request : pc[r] = "save" => op[r] \in Uploads

BlobInv == BlobsOfUploads /\ BlobsAccounted

\* How a handler ends its commit: the files it retired are the ones it unlinks.
LEMMA CommitEnds ==
    ASSUME OnlyStatementsFail, TypeOK, BlobInv, NEW r \in Request, pc[r] = "commit",
           Committed(r), \A f \in Request \ {r} : file[f] = "active" =>
                             file'[f] = "active" \/ f \in doomed[r],
           op[r] \in Uploads => file'[r] = "active"
    PROVE  BlobInv'
<1>1. /\ pc' = [pc EXCEPT ![r] = IF doomed[r] = {} THEN "done" ELSE "purge"]
      /\ UNCHANGED <<doomed, cancelled, blob, op>>
  BY DEF Committed, Forget, OnlyStatementsFail
<1>2. BlobsOfUploads'
  BY <1>1 DEF BlobInv, BlobsOfUploads, TypeOK
<1>3. ASSUME NEW f \in blob
      PROVE  \/ file'[f] = "active"
             \/ pc'[f] \in InTx \cup {"cleanup"}
             \/ \E q \in Request : pc'[q] = "purge" /\ f \in doomed'[q]
  <2>1. CASE f = r
    BY <1>3, <2>1 DEF BlobInv, BlobsOfUploads
  <2>2. CASE f # r /\ file[f] = "active"
    BY <1>1, <2>2 DEF TypeOK
  <2>3. CASE f # r /\ pc[f] \in InTx \cup {"cleanup"}
    BY <1>1, <2>3 DEF TypeOK
  <2>4. CASE \E q \in Request : pc[q] = "purge" /\ f \in doomed[q]
    BY <1>1, <2>4 DEF TypeOK
  <2> QED
    BY <1>3, <2>1, <2>2, <2>3, <2>4 DEF BlobInv, BlobsAccounted
<1> QED
  BY <1>1, <1>2, <1>3 DEF BlobInv, BlobsAccounted

\* Statements that write neither rows nor blobs, and stay in their transaction or
\* leave it for the clean-up.
LEMMA BlobsKept ==
    ASSUME TypeOK, BlobInv, NEW r \in Request, UNCHANGED <<file, blob, cancelled>>,
           \A q \in Request \ {r} : pc'[q] = pc[q] /\ doomed'[q] = doomed[q],
           \A q \in Request : pc[q] # "idle" => op'[q] = op[q],
           pc[r] \in InTx \cup {"idle", "save"}, pc'[r] \notin {"idle", "save"} \/ r \notin blob,
           pc'[r] = "save" => op'[r] \in Uploads,
           op[r] \in Uploads /\ pc[r] \in InTx => pc'[r] \in InTx \cup {"cleanup"}
    PROVE  BlobInv'
<1>1. \A f \in blob : pc[f] # "idle" /\ op'[f] = op[f] /\ f \in Request
  BY DEF BlobInv, BlobsOfUploads, TypeOK
<1>2. BlobsOfUploads'
  BY <1>1 DEF BlobInv, BlobsOfUploads
<1>3. BlobsAccounted'
  BY <1>1 DEF BlobInv, BlobsOfUploads, BlobsAccounted, InTx
<1> QED
  BY <1>2, <1>3 DEF BlobInv

LEMMA BlobStep ==
    ASSUME OnlyStatementsFail, HandlerInv, NotYetRecorded, BlobInv, TypeOK', [Next]_vars
    PROVE  BlobInv'
<1>0. TypeOK /\ \A f \in blob : f \in Request /\ pc[f] \notin {"idle", "save"} /\ op[f] \in Uploads
  BY DEF HandlerInv, BlobInv, BlobsOfUploads, TypeOK
<1>1. ASSUME NEW l \in Label, CreateLabel(l) PROVE BlobInv'
  BY <1>1 DEF CreateLabel, BlobInv, BlobsOfUploads, BlobsAccounted, local
<1>2. ASSUME NEW r \in Request, Start(r) PROVE BlobInv'
  <2>1. /\ pc[r] = "idle" /\ UNCHANGED <<file, blob, cancelled, doomed>>
        /\ \A q \in Request \ {r} : pc'[q] = pc[q] /\ op'[q] = op[q]
    BY <1>2, <1>0 DEF Start, TypeOK, db
  <2>2. r \notin blob /\ pc[r] \notin InTx
    BY <1>0, <2>1 DEF InTx
  <2>3. pc'[r] = "save" => op'[r] \in Uploads
    BY <1>0, <1>2 DEF Start, TypeOK
  <2>4. \A q \in Request : pc[q] # "idle" => op'[q] = op[q]
    BY <2>1
  <2> QED
    BY <1>0, <2>1, <2>2, <2>3, <2>4, BlobsKept
<1>3. ASSUME NEW r \in Request, SaveBlob(r) PROVE BlobInv'
  <2>1. /\ pc[r] = "save" /\ blob' = blob \cup {r} /\ pc' = [pc EXCEPT ![r] = "begin"]
        /\ UNCHANGED <<file, op, doomed, cancelled>>
    BY <1>3 DEF SaveBlob, db, local
  <2>2. op[r] \in Uploads
    BY <2>1 DEF BlobInv, BlobsOfUploads
  <2>3. BlobsOfUploads'
    BY <1>0, <2>1, <2>2 DEF BlobInv, BlobsOfUploads, TypeOK
  <2>4. BlobsAccounted'
    BY <1>0, <2>1 DEF BlobInv, BlobsAccounted, TypeOK, InTx
  <2> QED
    BY <2>3, <2>4 DEF BlobInv
<1>4. ASSUME NEW r \in Request, SaveRefused(r) PROVE BlobInv'
  <2>1. /\ pc[r] = "save" /\ pc' = [pc EXCEPT ![r] = "failed"]
        /\ UNCHANGED <<file, blob, op, doomed, cancelled>>
    BY <1>4 DEF SaveRefused, db, local
  <2> QED
    BY <1>0, <2>1, BlobsKept DEF InTx, TypeOK
\* The statements of a transaction.
<1>5. ASSUME NEW r \in Request,
             \/ CheckLabel(r) \/ FindVersion(r) \/ FindCurrentLPJ(r) \/ FindChild(r)
             \/ CollectDocumentation(r) \/ CollectDocuments(r) \/ RetireFile(r)
             \/ RetireCollected(r) \/ InsertChild(r) \/ LockTarget(r) \/ RemoveLabel(r)
             \/ Cascade(r) \/ TxError(r) \/ DeadlockAbort(r)
      PROVE  BlobInv'
  <2>1. pc[r] \in InTx /\ UNCHANGED <<file, blob, cancelled, op>>
    BY <1>5 DEF CheckLabel, FindVersion, FindCurrentLPJ, FindChild, CollectDocumentation,
       CollectDocuments, RetireFile, RetireCollected, InsertChild, LockTarget, RemoveLabel, Cascade,
       TxError, DeadlockAbort, Rollback, Forget, Runs, InTx, db, local
  <2>2. \A q \in Request \ {r} : pc'[q] = pc[q] /\ doomed'[q] = doomed[q]
    BY <1>5, <1>0 DEF CheckLabel, FindVersion, FindCurrentLPJ, FindChild, Target,
       CollectDocumentation, CollectDocuments, RetireFile, RetireCollected, InsertChild, LockTarget,
       RemoveLabel, Cascade, TxError, DeadlockAbort, Rollback, Forget, TypeOK, local
  <2>3. op[r] \in Uploads => pc'[r] \in InTx \cup {"cleanup"}
    BY <1>5, <1>0 DEF CheckLabel, FindVersion, FindCurrentLPJ, FindChild, Target,
       CollectDocumentation, CollectDocuments, RetireFile, RetireCollected, InsertChild, LockTarget,
       RemoveLabel, Cascade, TxError, DeadlockAbort, Rollback, AfterError, TypeOK, InTx, Uploads, Removals
  <2>4. pc'[r] \notin {"idle", "save"}
    BY <1>5, <1>0 DEF CheckLabel, FindVersion, FindCurrentLPJ, FindChild, Target,
       CollectDocumentation, CollectDocuments, RetireFile, RetireCollected, InsertChild, LockTarget,
       RemoveLabel, Cascade, TxError, DeadlockAbort, Rollback, AfterError, TypeOK
  <2> QED
    BY <1>0, <2>1, <2>2, <2>3, <2>4, BlobsKept
<1>6. ASSUME NEW r \in Request, CommitInsert(r) PROVE BlobInv'
  <2>1. pc[r] = "commit" /\ file' = [file EXCEPT ![r] = "active"] /\ Committed(r)
    BY <1>6 DEF CommitInsert, Runs
  <2> QED
    BY <1>0, <2>1, CommitEnds, OnlyStatementsFail DEF TypeOK
<1>7. ASSUME NEW r \in Request, CommitRepoint(r) PROVE BlobInv'
  <2>1. pc[r] = "commit" /\ file' = [SoftDeleted(r) EXCEPT ![r] = "active"] /\ Committed(r)
    BY <1>7 DEF CommitRepoint, Runs
  <2> QED
    BY <1>0, <2>1, CommitEnds, OnlyStatementsFail DEF TypeOK, SoftDeleted
<1>8. ASSUME NEW r \in Request, CommitRemoval(r) \/ CommitDelete(r) PROVE BlobInv'
  <2>1. pc[r] = "commit" /\ file' = SoftDeleted(r) /\ Committed(r) /\ op[r] \notin Uploads
    BY <1>8 DEF CommitRemoval, CommitDelete, Runs, Removals, Uploads
  <2> QED
    BY <1>0, <2>1, CommitEnds, OnlyStatementsFail DEF TypeOK, SoftDeleted
\* An unlink removes the blob: nothing keeps it from doing so.
<1>9. ASSUME NEW r \in Request, Purge(r) PROVE BlobInv'
  <2>1. PICK f \in doomed[r] : Unlink(r, f) /\ doomed' = [doomed EXCEPT ![r] = @ \ {f}]
    BY <1>9 DEF Purge
  <2>2. /\ pc[r] = "purge" /\ pc' = [pc EXCEPT ![r] = IF doomed'[r] = {} THEN "done" ELSE "purge"]
        /\ UNCHANGED <<file, op, cancelled>>
    BY <1>9 DEF Purge, db
  <2>3. blob' = blob \ {f}
    BY <2>1 DEF Unlink, BlobInv, BlobsOfUploads, OnlyStatementsFail
  <2>4. BlobsOfUploads'
    BY <1>0, <2>2, <2>3 DEF BlobInv, BlobsOfUploads, TypeOK
  <2>5. ASSUME NEW g \in blob'
        PROVE  \/ file'[g] = "active"
               \/ pc'[g] \in InTx \cup {"cleanup"}
               \/ \E q \in Request : pc'[q] = "purge" /\ g \in doomed'[q]
    <3>1. g \in blob /\ g # f
      BY <2>3
    <3>2. CASE pc[g] \in InTx \cup {"cleanup"}
      BY <1>0, <2>2, <3>1, <3>2 DEF InTx, TypeOK
    <3>3. ASSUME NEW q \in Request, pc[q] = "purge", g \in doomed[q]
          PROVE  pc'[q] = "purge" /\ g \in doomed'[q]
      BY <1>0, <2>1, <2>2, <3>1, <3>3 DEF TypeOK
    <3> QED
      BY <2>2, <3>1, <3>2, <3>3 DEF BlobInv, BlobsAccounted
  <2> QED
    BY <2>4, <2>5 DEF BlobInv, BlobsAccounted
<1>10. ASSUME NEW r \in Request, Cleanup(r) PROVE BlobInv'
  <2>1. /\ pc[r] = "cleanup" /\ pc' = [pc EXCEPT ![r] = "failed"] /\ Unlink(r, r)
        /\ UNCHANGED <<file, op, doomed, cancelled>>
    BY <1>10 DEF Cleanup, db, local
  <2>2. blob' = blob \ {r}
    BY <2>1 DEF Unlink, BlobInv, BlobsOfUploads, OnlyStatementsFail
  <2>3. BlobsOfUploads'
    BY <1>0, <2>1, <2>2 DEF BlobInv, BlobsOfUploads, TypeOK
  <2>4. BlobsAccounted'
    BY <1>0, <2>1, <2>2 DEF BlobInv, BlobsAccounted, TypeOK
  <2> QED
    BY <2>3, <2>4 DEF BlobInv
<1>11. ASSUME NEW r \in Request PROVE ~Cancel(r)
  BY DEF Cancel, OnlyStatementsFail
<1>12. ~Crash
  BY DEF Crash, OnlyStatementsFail
<1>13. CASE UNCHANGED vars
  BY <1>13 DEF vars, db, local, BlobInv, BlobsOfUploads, BlobsAccounted
<1> QED
  BY <1>1, <1>2, <1>3, <1>4, <1>5, <1>6, <1>7, <1>8, <1>9, <1>10, <1>11, <1>12, <1>13
     DEF Next, Step, AllEnded

\* A blob is described by an active row, or some request is still going to record
\* it or to unlink it, whatever transactions fail and however they interleave.
THEOREM NoBinaryStranded == ASSUME OnlyStatementsFail PROVE Spec => []BlobsAccounted
<1>1. Init => BlobInv
  BY DEF Init, BlobInv, BlobsOfUploads, BlobsAccounted
<1>2. HandlerInv /\ ListInv /\ BlobInv /\ TypeOK' /\ [Next]_vars => BlobInv'
  BY BlobStep, OnlyStatementsFail DEF ListInv, RecordsInv
<1>3. BlobInv => BlobsAccounted
  BY DEF BlobInv
<1> QED
  BY <1>1, <1>2, <1>3, TypeCorrect, HandlersKeepOrder, ListInvHolds, PTL DEF Spec
===============================================================================
