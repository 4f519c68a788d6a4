-------------------------- MODULE EmployeeFilesProofs --------------------------
(***************************************************************************)
(* The photo and the documents of an employee, for any sets of employees   *)
(* and requests.  The handlers take no lock before their last statement:   *)
(* what carries the proof is that a file belongs to one employee for ever, *)
(* that a file once deleted never comes back, and that an employee who is  *)
(* gone never lists anything again.                                        *)
(***************************************************************************)
EXTENDS MCOrganization, OrganizationProofs

\* The read after a commit does not fail while what it reads is there.
NoFailedReread == "reread" \notin Fault

\* A request that has started asks something of an employee.
Started == \A r \in FileRequest : at[r] # "idle" => asked[r] \in Files!AllOps /\ emp[r] \in Pegawai

Live(f)     == employee[emp[f]] = "live"
Recorded(f) == file[f] # "none"

\* Where the handlers are, and what they have read by then.
HandlerInv == \A r \in FileRequest :
    /\ at[r] # "idle" => asked[r] \in Files!AllOps /\ emp[r] \in Pegawai /\ employee[emp[r]] # "unborn"
    /\ at[r] \in {"save", "reread", "cleanup"} => asked[r] \in Files!Uploads
    /\ at[r] \in {"read", "lookup"} => asked[r] = "UploadPhoto"
    /\ at[r] \in {"collect", "photos"} => asked[r] = "Delete"
    /\ at[r] \in {"idle", "save", "read", "collect"} => doomed[r] = {}
    /\ at[r] \in {"idle", "save", "read", "lookup"} => keys[r] = {}
    /\ asked[r] = "UploadDocument" => doomed[r] = {} /\ keys[r] = {}
    /\ at[r] = "commit" /\ asked[r] \in {"UploadPhoto", "DeleteDocument"} =>
          keys[r] \subseteq doomed[r] /\ Files!Active(doomed[r]) \subseteq keys[r]

\* A file is recorded by the upload that names it, whose blob was there by then.
UploadsRecord == \A r \in FileRequest :
    /\ Recorded(r) => asked[r] \in Files!Uploads /\ at[r] \notin Files!InTx \cup {"idle", "save"}
    /\ at[r] \in Files!InTx /\ asked[r] \in Files!Uploads => r \in blob
    /\ at[r] \in {"idle", "save"} => r \notin blob

\* What is listed was uploaded for the employee it is listed of, who is there.
ListedBelongs ==
    /\ \A p \in Pegawai : photo[p] # None =>
          /\ asked[photo[p]] = "UploadPhoto" /\ emp[photo[p]] = p /\ employee[p] = "live"
          /\ file[photo[p]] = "active"
    /\ \A d \in FileRequest : document[d] # None =>
          /\ asked[d] = "UploadDocument" /\ emp[d] = document[d] /\ Live(d)
          /\ file[d] = "active"

\* A request touches files of its own employee only.
TouchesOwn == \A r \in FileRequest : \A f \in doomed[r] \cup keys[r] :
    /\ Recorded(f) /\ emp[f] = emp[r]
    /\ asked[r] = "UploadPhoto" => asked[f] = "UploadPhoto"
    /\ asked[r] = "DeleteDocument" => asked[f] = "UploadDocument"

\* What is unlinked is not needed any more.
UnlinksRetired == \A r \in FileRequest :
    /\ at[r] \in {"reread", "purge"} => \A f \in keys[r] : file[f] = "deleted" \/ ~Live(f)
    /\ at[r] = "cleanup" => file[r] # "active" \/ ~Live(r) \/ r \in cancelled

ActiveHasBlob == \A f \in FileRequest : file[f] = "active" /\ Live(f) => f \in blob

\* A document's metadata is listed.
DocumentsListed == \A f \in FileRequest :
    asked[f] = "UploadDocument" /\ Live(f) /\ file[f] = "active" => document[f] = emp[f]

FileInv == HandlerInv /\ UploadsRecord /\ ListedBelongs /\ TouchesOwn /\ UnlinksRetired
               /\ ActiveHasBlob /\ DocumentsListed

\* A blob is that of an active file, or someone is still to record or unlink it.
BlobsUsed == ~disturbed =>
    /\ cancelled = {}
    /\ \A f \in blob : asked[f] \in Files!Uploads /\ Live(f) =>
          \/ file[f] = "active"
          \/ at[f] \in Files!InTx \cup {"cleanup"}
          \/ \E r \in FileRequest : at[r] \in {"reread", "purge"} /\ f \in keys[r]


\* Types are preserved, for any sets of employees, requests and faults.
THEOREM EmployeeTypeCorrect == ASSUME Files!EmployeeFilesAssumption PROVE Files!Spec => []Files!TypeOK
<1> USE DEF Files!Uploads, Files!AllOps
<1>1. Files!Init => Files!TypeOK /\ Started
  <2>1. Files!Init => disturbed \in BOOLEAN
    BY DEF Files!Init
  <2>2. Files!Init => at \in [FileRequest -> Files!PC]
    BY DEF Files!Init, Files!PC
  <2>3. Files!Init => employee \in [Pegawai -> {"unborn", "live", "gone"}]
    BY DEF Files!Init
  <2>4. Files!Init => file \in [FileRequest -> {"none", "active", "deleted"}]
    BY DEF Files!Init
  <2> QED
    BY <2>1, <2>2, <2>3, <2>4 DEF Files!Init, Files!TypeOK, Started
<1>2. Files!TypeOK /\ Started /\ [Files!Next]_Files!vars => (Files!TypeOK /\ Started)'
  <2> SUFFICES ASSUME Files!TypeOK, Started, [Files!Next]_Files!vars PROVE (Files!TypeOK /\ Started)'
    OBVIOUS
  <2> USE DEF Files!TypeOK, Started, Files!PC, Files!InTx, Files!Ended, Files!db, Files!local, Files!Goto, Files!Active
  <2>1. ASSUME NEW p \in Pegawai, Files!CreateEmployee(p) PROVE (Files!TypeOK /\ Started)'
    BY <2>1 DEF Files!CreateEmployee
  <2>2. ASSUME NEW r \in FileRequest, NEW o \in Files!AllOps, NEW p \in Pegawai, Files!Start(r, o, p) PROVE (Files!TypeOK /\ Started)'
    BY <2>2 DEF Files!Start, Files!Documents, Files!Photo
  <2>3. ASSUME NEW r \in FileRequest, Files!SaveBlob(r) \/ Files!SaveRefused(r) PROVE (Files!TypeOK /\ Started)'
    BY <2>3 DEF Files!SaveBlob, Files!SaveRefused, Files!AfterSave
  <2>4. ASSUME NEW r \in FileRequest, Files!ReadPhoto(r) PROVE (Files!TypeOK /\ Started)'
    <3>1. doomed' \in [FileRequest -> SUBSET FileRequest]
      <4>1. Files!Photo(emp[r]) \subseteq FileRequest
        BY <2>4 DEF Files!ReadPhoto, Files!Runs, Files!Photo
      <4> QED
        BY <2>4, <4>1 DEF Files!ReadPhoto
    <3>2. at' \in [FileRequest -> Files!PC]
      BY <2>4 DEF Files!ReadPhoto
    <3> QED
      BY <2>4, <3>1, <3>2 DEF Files!ReadPhoto, Files!Runs
  <2>5. ASSUME NEW r \in FileRequest, Files!LookupPrevious(r) PROVE (Files!TypeOK /\ Started)'
    BY <2>5 DEF Files!LookupPrevious, Files!Runs
  <2>6. ASSUME NEW r \in FileRequest, Files!CollectDocuments(r) \/ Files!CollectPhotos(r) PROVE (Files!TypeOK /\ Started)'
    BY <2>6 DEF Files!CollectDocuments, Files!CollectPhotos, Files!Documents, Files!Runs
  <2>7. ASSUME NEW r \in FileRequest, Files!CommitPhoto(r) PROVE (Files!TypeOK /\ Started)'
    BY <2>7 DEF Files!CommitPhoto, Files!SoftDeleted, Files!Runs
  <2>8. ASSUME NEW r \in FileRequest, Files!CommitDocument(r) PROVE (Files!TypeOK /\ Started)'
    BY <2>8 DEF Files!CommitDocument, Files!Runs
  <2>9. ASSUME NEW r \in FileRequest, Files!CommitDeleteDocument(r) PROVE (Files!TypeOK /\ Started)'
    BY <2>9 DEF Files!CommitDeleteDocument, Files!SoftDeleted, Files!Runs
  <2>10. ASSUME NEW r \in FileRequest, Files!CommitDelete(r) PROVE (Files!TypeOK /\ Started)'
    BY <2>10 DEF Files!CommitDelete, Files!SoftDeleted, Files!Runs
  <2>11. ASSUME NEW r \in FileRequest, Files!TxError(r) PROVE (Files!TypeOK /\ Started)'
    BY <2>11 DEF Files!TxError, Files!AfterError
  <2>12. ASSUME NEW r \in FileRequest, Files!Reread(r) PROVE (Files!TypeOK /\ Started)'
    BY <2>12 DEF Files!Reread, Files!Found
  <2>13. ASSUME NEW r \in FileRequest, Files!Purge(r) PROVE (Files!TypeOK /\ Started)'
    <3>1. keys' \in [FileRequest -> SUBSET FileRequest]
      BY <2>13 DEF Files!Purge
    <3>2. at' \in [FileRequest -> Files!PC] /\ disturbed' \in BOOLEAN /\ blob' \subseteq FileRequest
      BY <2>13 DEF Files!Purge, Files!Unlink
    <3> QED
      BY <2>13, <3>1, <3>2 DEF Files!Purge
  <2>14. ASSUME NEW r \in FileRequest, Files!Cleanup(r) PROVE (Files!TypeOK /\ Started)'
    BY <2>14 DEF Files!Cleanup, Files!Unlink
  <2>15. ASSUME NEW r \in FileRequest, Files!Leave(r) PROVE (Files!TypeOK /\ Started)'
    BY <2>15 DEF Files!Leave, Files!Running
  <2>16. CASE Files!Crash
    BY <2>16 DEF Files!Crash, Files!Running
  <2>17. CASE UNCHANGED Files!vars
    BY <2>17 DEF Files!vars
  <2> QED
    BY <2>1, <2>2, <2>3, <2>4, <2>5, <2>6, <2>7, <2>8, <2>9, <2>10, <2>11, <2>12, <2>13,
       <2>14, <2>15, <2>16, <2>17 DEF Files!Next, Files!Step, Files!AllEnded
<1> QED
  BY <1>1, <1>2, PTL DEF Files!Spec

LEMMA FileInvInit == Files!Init => FileInv
  BY DEF Files!Init, FileInv, HandlerInv, UploadsRecord, ListedBelongs, TouchesOwn, UnlinksRetired,
     ActiveHasBlob, DocumentsListed, Recorded, Files!InTx

\* What a file is, whom it belongs to and whether it can be read, after any step.
LEMMA FileInvStep ==
    ASSUME Files!EmployeeFilesAssumption, NoFailedReread, FileInv, Files!TypeOK, Files!TypeOK', [Files!Next]_Files!vars
    PROVE  FileInv'
<1> USE DEF Files!EmployeeFilesAssumption, Files!TypeOK, FileInv, HandlerInv, UploadsRecord, ListedBelongs,
        TouchesOwn, UnlinksRetired, ActiveHasBlob, DocumentsListed, Recorded, Live, Files!InTx, Files!Ended,
        Files!db, Files!local, Files!Goto, Files!Active, Files!Uploads, Files!AllOps
<1>1. ASSUME NEW p \in Pegawai, Files!CreateEmployee(p) PROVE FileInv'
  <2> USE <1>1 DEF Files!CreateEmployee
  <2>1. HandlerInv'
    OBVIOUS
  <2>2. UploadsRecord'
    OBVIOUS
  <2>3. ListedBelongs'
    OBVIOUS
  <2>4. TouchesOwn'
    OBVIOUS
  <2>5. UnlinksRetired'
    OBVIOUS
  <2>6. ActiveHasBlob'
    OBVIOUS
  <2>7. DocumentsListed'
    OBVIOUS
  <2> QED
    BY <2>1, <2>2, <2>3, <2>4, <2>5, <2>6, <2>7
<1>2. ASSUME NEW r \in FileRequest, NEW o \in Files!AllOps, NEW p \in Pegawai, Files!Start(r, o, p) PROVE FileInv'
  <2> USE <1>2 DEF Files!Start, Files!Documents, Files!Photo
  <2>1. HandlerInv'
    OBVIOUS
  <2>2. UploadsRecord'
    OBVIOUS
  <2>3. ListedBelongs'
    OBVIOUS
  <2>4. TouchesOwn'
    OBVIOUS
  <2>5. UnlinksRetired'
    OBVIOUS
  <2>6. ActiveHasBlob'
    OBVIOUS
  <2>7. DocumentsListed'
    OBVIOUS
  <2> QED
    BY <2>1, <2>2, <2>3, <2>4, <2>5, <2>6, <2>7
<1>3. ASSUME NEW r \in FileRequest, Files!SaveBlob(r) \/ Files!SaveRefused(r) PROVE FileInv'
  <2> USE <1>3 DEF Files!SaveBlob, Files!SaveRefused, Files!AfterSave
  <2>1. HandlerInv'
    OBVIOUS
  <2>2. UploadsRecord'
    OBVIOUS
  <2>3. ListedBelongs'
    OBVIOUS
  <2>4. TouchesOwn'
    OBVIOUS
  <2>5. UnlinksRetired'
    OBVIOUS
  <2>6. ActiveHasBlob'
    OBVIOUS
  <2>7. DocumentsListed'
    OBVIOUS
  <2> QED
    BY <2>1, <2>2, <2>3, <2>4, <2>5, <2>6, <2>7
<1>4. ASSUME NEW r \in FileRequest, Files!ReadPhoto(r) PROVE FileInv'
  <2> USE <1>4 DEF Files!ReadPhoto, Files!Photo, Files!Runs
  <2>1. HandlerInv'
    OBVIOUS
  <2>2. UploadsRecord'
    OBVIOUS
  <2>3. ListedBelongs'
    OBVIOUS
  <2>4. TouchesOwn'
    OBVIOUS
  <2>5. UnlinksRetired'
    OBVIOUS
  <2>6. ActiveHasBlob'
    OBVIOUS
  <2>7. DocumentsListed'
    OBVIOUS
  <2> QED
    BY <2>1, <2>2, <2>3, <2>4, <2>5, <2>6, <2>7
<1>5. ASSUME NEW r \in FileRequest, Files!LookupPrevious(r) PROVE FileInv'
  <2> USE <1>5 DEF Files!LookupPrevious, Files!Runs
  <2>1. HandlerInv'
    OBVIOUS
  <2>2. UploadsRecord'
    OBVIOUS
  <2>3. ListedBelongs'
    OBVIOUS
  <2>4. TouchesOwn'
    OBVIOUS
  <2>5. UnlinksRetired'
    OBVIOUS
  <2>6. ActiveHasBlob'
    OBVIOUS
  <2>7. DocumentsListed'
    OBVIOUS
  <2> QED
    BY <2>1, <2>2, <2>3, <2>4, <2>5, <2>6, <2>7
<1>6. ASSUME NEW r \in FileRequest, Files!CollectDocuments(r) \/ Files!CollectPhotos(r) PROVE FileInv'
  <2> USE <1>6 DEF Files!CollectDocuments, Files!CollectPhotos, Files!Documents, Files!Runs
  <2>1. HandlerInv'
    OBVIOUS
  <2>2. UploadsRecord'
    OBVIOUS
  <2>3. ListedBelongs'
    OBVIOUS
  <2>4. TouchesOwn'
    OBVIOUS
  <2>5. UnlinksRetired'
    OBVIOUS
  <2>6. ActiveHasBlob'
    OBVIOUS
  <2>7. DocumentsListed'
    OBVIOUS
  <2> QED
    BY <2>1, <2>2, <2>3, <2>4, <2>5, <2>6, <2>7
<1>7. ASSUME NEW r \in FileRequest, Files!CommitPhoto(r) PROVE FileInv'
  <2> USE <1>7 DEF Files!CommitPhoto, Files!SoftDeleted, Files!Runs
  <2>1. HandlerInv'
    OBVIOUS
  <2>2. UploadsRecord'
    OBVIOUS
  <2>3. ListedBelongs'
    OBVIOUS
  <2>4. TouchesOwn'
    OBVIOUS
  <2>5. UnlinksRetired'
    OBVIOUS
  <2>6. ActiveHasBlob'
    OBVIOUS
  <2>7. DocumentsListed'
    OBVIOUS
  <2> QED
    BY <2>1, <2>2, <2>3, <2>4, <2>5, <2>6, <2>7
<1>8. ASSUME NEW r \in FileRequest, Files!CommitDocument(r) PROVE FileInv'
  <2> USE <1>8 DEF Files!CommitDocument, Files!Runs
  <2>1. HandlerInv'
    OBVIOUS
  <2>2. UploadsRecord'
    OBVIOUS
  <2>3. ListedBelongs'
    OBVIOUS
  <2>4. TouchesOwn'
    OBVIOUS
  <2>5. UnlinksRetired'
    OBVIOUS
  <2>6. ActiveHasBlob'
    OBVIOUS
  <2>7. DocumentsListed'
    OBVIOUS
  <2> QED
    BY <2>1, <2>2, <2>3, <2>4, <2>5, <2>6, <2>7
<1>9. ASSUME NEW r \in FileRequest, Files!CommitDeleteDocument(r) PROVE FileInv'
  <2> USE <1>9 DEF Files!CommitDeleteDocument, Files!SoftDeleted, Files!Runs
  <2>1. HandlerInv'
    OBVIOUS
  <2>2. UploadsRecord'
    OBVIOUS
  <2>3. ListedBelongs'
    OBVIOUS
  <2>4. TouchesOwn'
    OBVIOUS
  <2>5. UnlinksRetired'
    OBVIOUS
  <2>6. ActiveHasBlob'
    OBVIOUS
  <2>7. DocumentsListed'
    OBVIOUS
  <2> QED
    BY <2>1, <2>2, <2>3, <2>4, <2>5, <2>6, <2>7
<1>10. ASSUME NEW r \in FileRequest, Files!CommitDelete(r) PROVE FileInv'
  <2> USE <1>10 DEF Files!CommitDelete, Files!SoftDeleted, Files!Runs
  <2>1. HandlerInv'
    OBVIOUS
  <2>2. UploadsRecord'
    OBVIOUS
  <2>3. ListedBelongs'
    OBVIOUS
  <2>4. TouchesOwn'
    OBVIOUS
  <2>5. UnlinksRetired'
    OBVIOUS
  <2>6. ActiveHasBlob'
    OBVIOUS
  <2>7. DocumentsListed'
    OBVIOUS
  <2> QED
    BY <2>1, <2>2, <2>3, <2>4, <2>5, <2>6, <2>7
<1>11. ASSUME NEW r \in FileRequest, Files!TxError(r) PROVE FileInv'
  <2> USE <1>11 DEF Files!TxError, Files!AfterError
  <2>1. HandlerInv'
    OBVIOUS
  <2>2. UploadsRecord'
    OBVIOUS
  <2>3. ListedBelongs'
    OBVIOUS
  <2>4. TouchesOwn'
    OBVIOUS
  <2>5. UnlinksRetired'
    OBVIOUS
  <2>6. ActiveHasBlob'
    OBVIOUS
  <2>7. DocumentsListed'
    OBVIOUS
  <2> QED
    BY <2>1, <2>2, <2>3, <2>4, <2>5, <2>6, <2>7
<1>12. ASSUME NEW r \in FileRequest, Files!Reread(r) PROVE FileInv'
  <2> USE <1>12 DEF Files!Reread, Files!Found
  <2>1. HandlerInv'
    OBVIOUS
  <2>2. UploadsRecord'
    OBVIOUS
  <2>3. ListedBelongs'
    OBVIOUS
  <2>4. TouchesOwn'
    OBVIOUS
  <2>5. UnlinksRetired'
    <3>1. UNCHANGED <<asked, emp, file, employee, keys, cancelled>>
      OBVIOUS
    <3>2. CASE Files!Found(r) /\ Files!Goto(r, "purge")
      BY <3>1, <3>2
    <3>3. CASE (~Files!Found(r) \/ r \in cancelled) /\ Files!Goto(r, "cleanup")
      <4>1. file[r] # "active" \/ ~Live(r) \/ r \in cancelled
        BY <3>3
      <4> QED
        BY <3>1, <3>3, <4>1
    <3> QED
      BY <3>2, <3>3, NoFailedReread DEF NoFailedReread
  <2>6. ActiveHasBlob'
    OBVIOUS
  <2>7. DocumentsListed'
    OBVIOUS
  <2> QED
    BY <2>1, <2>2, <2>3, <2>4, <2>5, <2>6, <2>7
<1>13. ASSUME NEW r \in FileRequest, Files!Purge(r) PROVE FileInv'
  <2> USE <1>13 DEF Files!Purge, Files!Unlink
  <2>1. HandlerInv'
    OBVIOUS
  <2>2. UploadsRecord'
    OBVIOUS
  <2>3. ListedBelongs'
    OBVIOUS
  <2>4. TouchesOwn'
    OBVIOUS
  <2>5. UnlinksRetired'
    OBVIOUS
  <2>6. ActiveHasBlob'
    OBVIOUS
  <2>7. DocumentsListed'
    OBVIOUS
  <2> QED
    BY <2>1, <2>2, <2>3, <2>4, <2>5, <2>6, <2>7
<1>14. ASSUME NEW r \in FileRequest, Files!Cleanup(r) PROVE FileInv'
  <2> USE <1>14 DEF Files!Cleanup, Files!Unlink
  <2>1. HandlerInv'
    OBVIOUS
  <2>2. UploadsRecord'
    OBVIOUS
  <2>3. ListedBelongs'
    OBVIOUS
  <2>4. TouchesOwn'
    OBVIOUS
  <2>5. UnlinksRetired'
    OBVIOUS
  <2>6. ActiveHasBlob'
    OBVIOUS
  <2>7. DocumentsListed'
    OBVIOUS
  <2> QED
    BY <2>1, <2>2, <2>3, <2>4, <2>5, <2>6, <2>7
<1>15. ASSUME NEW r \in FileRequest, Files!Leave(r) PROVE FileInv'
  <2> USE <1>15 DEF Files!Leave, Files!Running
  <2>1. HandlerInv'
    OBVIOUS
  <2>2. UploadsRecord'
    OBVIOUS
  <2>3. ListedBelongs'
    OBVIOUS
  <2>4. TouchesOwn'
    OBVIOUS
  <2>5. UnlinksRetired'
    OBVIOUS
  <2>6. ActiveHasBlob'
    OBVIOUS
  <2>7. DocumentsListed'
    OBVIOUS
  <2> QED
    BY <2>1, <2>2, <2>3, <2>4, <2>5, <2>6, <2>7
<1>16. CASE Files!Crash
  BY <1>16 DEF Files!Crash, Files!Running
<1>17. CASE UNCHANGED Files!vars
  BY <1>17 DEF Files!vars
<1> QED
  BY <1>1, <1>2, <1>3, <1>4, <1>5, <1>6, <1>7, <1>8, <1>9, <1>10, <1>11, <1>12, <1>13,
     <1>14, <1>15, <1>16, <1>17 DEF Files!Next, Files!Step, Files!AllEnded

LEMMA FileInvHolds ==
    ASSUME Files!EmployeeFilesAssumption, NoFailedReread PROVE Files!Spec => [](Files!TypeOK /\ FileInv)
<1>1. Files!TypeOK /\ Files!TypeOK' /\ FileInv /\ [Files!Next]_Files!vars => FileInv'
  BY Files!EmployeeFilesAssumption, NoFailedReread, FileInvStep
<1> QED
  BY Files!EmployeeFilesAssumption, FileInvInit, EmployeeTypeCorrect, <1>1, PTL DEF Files!Spec

\* Nobody forgets a blob, as long as nothing disturbs the handlers.
LEMMA BlobsUsedStep ==
    ASSUME Files!EmployeeFilesAssumption, NoFailedReread, Files!TypeOK, FileInv, BlobsUsed, Files!TypeOK', [Files!Next]_Files!vars
    PROVE  BlobsUsed'
<1> USE DEF Files!EmployeeFilesAssumption, Files!TypeOK, FileInv, HandlerInv, UploadsRecord, ListedBelongs,
        TouchesOwn, UnlinksRetired, ActiveHasBlob, DocumentsListed, Recorded, Live, Files!InTx, Files!Ended,
        Files!db, Files!local, Files!Goto, Files!Active, Files!Uploads, Files!AllOps, BlobsUsed
<1>1. ASSUME NEW p \in Pegawai, Files!CreateEmployee(p) PROVE BlobsUsed'
  BY <1>1 DEF Files!CreateEmployee
<1>2. ASSUME NEW r \in FileRequest, NEW o \in Files!AllOps, NEW p \in Pegawai, Files!Start(r, o, p) PROVE BlobsUsed'
  <2>1. r \notin blob /\ at[r] = "idle" /\ UNCHANGED <<Files!db, blob, cancelled, disturbed>>
    BY <1>2 DEF Files!Start
  <2>2. \A q \in FileRequest \ {r} :
            /\ at'[q] = at[q] /\ keys'[q] = keys[q]
            /\ asked'[q] = asked[q] /\ emp'[q] = emp[q]
    BY <1>2 DEF Files!Start
  <2>3. blob \subseteq FileRequest
    OBVIOUS
  <2> QED
    BY ONLY <2>1, <2>2, <2>3, BlobsUsed DEF BlobsUsed, Live, Files!db, Files!InTx
<1>3. ASSUME NEW r \in FileRequest, Files!SaveBlob(r) \/ Files!SaveRefused(r) PROVE BlobsUsed'
  BY <1>3 DEF Files!SaveBlob, Files!SaveRefused, Files!AfterSave
<1>4. ASSUME NEW r \in FileRequest, Files!ReadPhoto(r) PROVE BlobsUsed'
  BY <1>4 DEF Files!ReadPhoto, Files!Photo, Files!Runs
<1>5. ASSUME NEW r \in FileRequest, Files!LookupPrevious(r) PROVE BlobsUsed'
  BY <1>5 DEF Files!LookupPrevious, Files!Runs
<1>6. ASSUME NEW r \in FileRequest, Files!CollectDocuments(r) \/ Files!CollectPhotos(r) PROVE BlobsUsed'
  BY <1>6 DEF Files!CollectDocuments, Files!CollectPhotos, Files!Documents, Files!Runs
<1>7. ASSUME NEW r \in FileRequest, Files!CommitPhoto(r) PROVE BlobsUsed'
  BY <1>7 DEF Files!CommitPhoto, Files!SoftDeleted, Files!Runs
<1>8. ASSUME NEW r \in FileRequest, Files!CommitDocument(r) PROVE BlobsUsed'
  BY <1>8 DEF Files!CommitDocument, Files!Runs
<1>9. ASSUME NEW r \in FileRequest, Files!CommitDeleteDocument(r) PROVE BlobsUsed'
  <2>1. UNCHANGED <<asked, emp, employee, blob, keys, cancelled, disturbed>>
    BY <1>9 DEF Files!CommitDeleteDocument
  <2>2. ASSUME NEW f \in blob, file[f] = "active", file'[f] # "active"
        PROVE  at'[r] = "purge" /\ f \in keys[r]
    <3>1. (\A d \in doomed[r] : document[d] # None) /\ file' = Files!SoftDeleted(r) /\ Files!Goto(r, "purge")
      BY <1>9, <2>2 DEF Files!CommitDeleteDocument
    <3>2. f \in Files!Active(doomed[r])
      BY <2>2, <3>1 DEF Files!SoftDeleted
    <3> QED
      BY <1>9, <3>1, <3>2 DEF Files!CommitDeleteDocument, Files!Runs
  <2>3. at[r] = "commit" /\ asked[r] \notin Files!Uploads /\ \A q \in FileRequest \ {r} : at'[q] = at[q]
    BY <1>9 DEF Files!CommitDeleteDocument, Files!Runs
  <2> QED
    BY <2>1, <2>2, <2>3
<1>10. ASSUME NEW r \in FileRequest, Files!CommitDelete(r) PROVE BlobsUsed'
  BY <1>10 DEF Files!CommitDelete, Files!SoftDeleted, Files!Runs
<1>11. ASSUME NEW r \in FileRequest, Files!TxError(r) PROVE BlobsUsed'
  BY <1>11 DEF Files!TxError, Files!AfterError
<1>12. ASSUME NEW r \in FileRequest, Files!Reread(r) PROVE BlobsUsed'
  <2>1. UNCHANGED <<asked, emp, file, employee, blob, keys, cancelled, disturbed>>
    BY <1>12 DEF Files!Reread
  <2>2. at[r] = "reread" /\ \A q \in FileRequest \ {r} : at'[q] = at[q]
    BY <1>12 DEF Files!Reread
  <2>3. CASE at'[r] = "purge"
    BY <2>1, <2>2, <2>3
  <2>4. CASE at'[r] # "purge" /\ ~disturbed
    <3>1. ~Files!Found(r)
      BY <1>12, <2>4, NoFailedReread DEF Files!Reread, NoFailedReread
    <3>2. \A f \in keys[r] : ~Live(f)
      BY <1>12, <3>1, <2>2 DEF Files!Found
    <3> QED
      BY <2>1, <2>2, <3>2
  <2> QED
    BY <2>1, <2>3, <2>4
<1>13. ASSUME NEW r \in FileRequest, Files!Purge(r) PROVE BlobsUsed'
  BY SMTT(30), <1>13 DEF Files!Purge, Files!Unlink
<1>14. ASSUME NEW r \in FileRequest, Files!Cleanup(r) PROVE BlobsUsed'
  BY <1>14 DEF Files!Cleanup, Files!Unlink
<1>15. ASSUME NEW r \in FileRequest, Files!Leave(r) PROVE BlobsUsed'
  BY <1>15 DEF Files!Leave, Files!Running
<1>16. CASE Files!Crash
  BY <1>16 DEF Files!Crash, Files!Running
<1>17. CASE UNCHANGED Files!vars
  BY <1>17 DEF Files!vars
<1> QED
  BY <1>1, <1>2, <1>3, <1>4, <1>5, <1>6, <1>7, <1>8, <1>9, <1>10, <1>11, <1>12, <1>13,
     <1>14, <1>15, <1>16, <1>17 DEF Files!Next, Files!Step, Files!AllEnded

\* No metadata of a document is lost to the employee it is of, and no blob is left
\* behind by the handlers themselves, however their transactions interleave.
THEOREM EmployeeFilesAccounted ==
    ASSUME Files!EmployeeFilesAssumption, NoFailedReread PROVE Files!Spec => []Files!FilesAccounted
<1>1. Files!Init => BlobsUsed
  BY DEF Files!Init, BlobsUsed
<1>2. Files!TypeOK /\ FileInv /\ BlobsUsed /\ Files!TypeOK' /\ [Files!Next]_Files!vars => BlobsUsed'
  BY Files!EmployeeFilesAssumption, NoFailedReread, BlobsUsedStep
<1>3. Files!TypeOK /\ FileInv /\ BlobsUsed => Files!FilesAccounted
  <2> SUFFICES ASSUME Files!TypeOK, FileInv, BlobsUsed, NEW f \in FileRequest, asked[f] \in Files!Uploads, Live(f)
               PROVE  /\ asked[f] = "UploadDocument" /\ file[f] = "active" => document[f] = emp[f]
                      /\ Files!Running = {} /\ ~disturbed => (f \in blob <=> file[f] = "active")
    BY DEF Files!FilesAccounted, Live
  <2>1. asked[f] = "UploadDocument" /\ file[f] = "active" => document[f] = emp[f]
    BY DEF FileInv, DocumentsListed
  <2>2. file[f] = "active" => f \in blob
    BY DEF FileInv, ActiveHasBlob
  <2>3. ASSUME Files!Running = {}, ~disturbed, f \in blob PROVE file[f] = "active"
    <3>1. \A r \in FileRequest : at[r] \in Files!Ended \cup {"idle"}
      BY <2>3 DEF Files!Running
    <3> QED
      BY <2>3, <3>1 DEF BlobsUsed, Files!InTx, Files!Ended
  <2> QED
    BY <2>1, <2>2, <2>3
<1> QED
  BY Files!EmployeeFilesAssumption, NoFailedReread, EmployeeTypeCorrect, FileInvHolds,
     <1>1, <1>2, <1>3, PTL DEF Files!Spec

-------------------------------------------------------------------------------
(***************************************************************************)
(* The photo and the documents are a register of DocumentRegister: every   *)
(* commit is one whole step of it, or none, and no other step is seen.     *)
(***************************************************************************)

PhotoEntries == {Files!Register!Entry(p, "photo", photo[p]) : p \in {q \in Pegawai : photo[q] # None}}
DocumentEntries ==
    {Files!Register!Entry(document[d], "document", d) : d \in {e \in FileRequest : document[e] # None}}

\* A reader sees one readable entry for each photo and each document.
SeesEntries == Files!Listed = PhotoEntries \cup DocumentEntries

LEMMA EntriesSeen == Files!EmployeeFilesAssumption /\ Files!TypeOK /\ FileInv => SeesEntries
<1> SUFFICES ASSUME Files!EmployeeFilesAssumption, Files!TypeOK, FileInv PROVE SeesEntries
  OBVIOUS
<1>1. ASSUME NEW p \in Pegawai, photo[p] # None
      PROVE  Files!Entry(p, "photo", photo[p]) = Files!Register!Entry(p, "photo", photo[p])
  <2>1. (file[photo[p]] = "active" /\ photo[p] \in blob) = TRUE
    BY <1>1 DEF Files!TypeOK, FileInv, ListedBelongs, ActiveHasBlob, Live
  <2> QED
    BY <2>1 DEF Files!Entry, Files!Register!Entry
<1>2. ASSUME NEW d \in FileRequest, document[d] # None
      PROVE  Files!Entry(document[d], "document", d) = Files!Register!Entry(document[d], "document", d)
  <2>1. (file[d] = "active" /\ d \in blob) = TRUE
    BY <1>2 DEF Files!TypeOK, FileInv, ListedBelongs, ActiveHasBlob
  <2> QED
    BY <2>1 DEF Files!Entry, Files!Register!Entry
<1> QED
  BY <1>1, <1>2 DEF SeesEntries, Files!Listed, PhotoEntries, DocumentEntries

\* An entry shows what it was made of.
LEMMA EntryFields ==
    ASSUME NEW p, NEW k, NEW f
    PROVE  /\ Files!Register!Entry(p, k, f).label = p
           /\ Files!Register!Entry(p, k, f).kind = k
           /\ Files!Register!Entry(p, k, f).file = f
  BY DEF Files!Register!Entry

\* A file without a stored_files row is fresh.
LEMMA FreshFile ==
    ASSUME Files!TypeOK, FileInv, SeesEntries, NEW f \in FileRequest, ~Recorded(f)
    PROVE  Files!Register!Fresh(f)
<1>1. \A p \in Pegawai : photo[p] # None => photo[p] # f
  BY DEF FileInv, ListedBelongs, Recorded
<1>2. \A d \in FileRequest : document[d] # None => d # f
  BY DEF FileInv, ListedBelongs, Recorded
<1> QED
  BY <1>1, <1>2, EntryFields DEF SeesEntries, PhotoEntries, DocumentEntries, Files!Register!Fresh

\* A deletion of a document works on one.
OneTarget == \A r \in FileRequest :
    at[r] = "commit" /\ asked[r] = "DeleteDocument" => \E d \in FileRequest : doomed[r] = {d}

LEMMA OneTargetHolds == ASSUME Files!EmployeeFilesAssumption, NoFailedReread PROVE Files!Spec => []OneTarget
<1>1. Files!Init => OneTarget
  BY DEF Files!Init, OneTarget
<1>2. Files!TypeOK /\ FileInv /\ OneTarget /\ [Files!Next]_Files!vars => OneTarget'
  <2> SUFFICES ASSUME Files!TypeOK, FileInv, OneTarget, [Files!Next]_Files!vars PROVE OneTarget'
    OBVIOUS
  <2> USE DEF Files!TypeOK, FileInv, HandlerInv, OneTarget, Files!InTx, Files!Ended, Files!db, Files!local, Files!Goto, Files!Uploads
  <2>1. ASSUME NEW p \in Pegawai, Files!CreateEmployee(p) PROVE OneTarget'
    BY <2>1 DEF Files!CreateEmployee
  <2>2. ASSUME NEW r \in FileRequest, NEW o \in Files!AllOps, NEW p \in Pegawai, Files!Start(r, o, p) PROVE OneTarget'
    BY <2>2 DEF Files!Start, Files!Documents, Files!Photo
  <2>3. ASSUME NEW r \in FileRequest, Files!SaveBlob(r) \/ Files!SaveRefused(r) PROVE OneTarget'
    BY <2>3 DEF Files!SaveBlob, Files!SaveRefused, Files!AfterSave
  <2>4. ASSUME NEW r \in FileRequest, Files!ReadPhoto(r) PROVE OneTarget'
    BY <2>4 DEF Files!ReadPhoto, Files!Photo, Files!Runs
  <2>5. ASSUME NEW r \in FileRequest, Files!LookupPrevious(r) PROVE OneTarget'
    BY <2>5 DEF Files!LookupPrevious, Files!Runs
  <2>6. ASSUME NEW r \in FileRequest, Files!CollectDocuments(r) \/ Files!CollectPhotos(r) PROVE OneTarget'
    BY <2>6 DEF Files!CollectDocuments, Files!CollectPhotos, Files!Documents, Files!Runs
  <2>7. ASSUME NEW r \in FileRequest, Files!CommitPhoto(r) PROVE OneTarget'
    BY <2>7 DEF Files!CommitPhoto, Files!SoftDeleted, Files!Runs
  <2>8. ASSUME NEW r \in FileRequest, Files!CommitDocument(r) PROVE OneTarget'
    BY <2>8 DEF Files!CommitDocument, Files!Runs
  <2>9. ASSUME NEW r \in FileRequest, Files!CommitDeleteDocument(r) PROVE OneTarget'
    BY <2>9 DEF Files!CommitDeleteDocument, Files!SoftDeleted, Files!Runs
  <2>10. ASSUME NEW r \in FileRequest, Files!CommitDelete(r) PROVE OneTarget'
    BY <2>10 DEF Files!CommitDelete, Files!SoftDeleted, Files!Runs
  <2>11. ASSUME NEW r \in FileRequest, Files!TxError(r) PROVE OneTarget'
    BY <2>11 DEF Files!TxError, Files!AfterError
  <2>12. ASSUME NEW r \in FileRequest, Files!Reread(r) PROVE OneTarget'
    BY <2>12 DEF Files!Reread, Files!Found
  <2>13. ASSUME NEW r \in FileRequest, Files!Purge(r) PROVE OneTarget'
    BY <2>13 DEF Files!Purge, Files!Unlink
  <2>14. ASSUME NEW r \in FileRequest, Files!Cleanup(r) PROVE OneTarget'
    BY <2>14 DEF Files!Cleanup, Files!Unlink
  <2>15. ASSUME NEW r \in FileRequest, Files!Leave(r) PROVE OneTarget'
    BY <2>15 DEF Files!Leave, Files!Running
  <2>16. CASE Files!Crash
    BY <2>16 DEF Files!Crash, Files!Running
  <2>17. CASE UNCHANGED Files!vars
    BY <2>17 DEF Files!vars
  <2> QED
    BY <2>1, <2>2, <2>3, <2>4, <2>5, <2>6, <2>7, <2>8, <2>9, <2>10, <2>11, <2>12, <2>13,
       <2>14, <2>15, <2>16, <2>17 DEF Files!Next, Files!Step, Files!AllEnded
<1> QED
  BY Files!EmployeeFilesAssumption, NoFailedReread, FileInvHolds, <1>1, <1>2, PTL DEF Files!Spec

\* Only a COMMIT, and the creation of an employee, is seen by readers.
LEMMA OthersWriteNothing ==
    ASSUME [Files!Next]_Files!vars
    PROVE  \/ \E p \in Pegawai : Files!CreateEmployee(p)
           \/ \E r \in FileRequest : \/ Files!CommitPhoto(r) \/ Files!CommitDocument(r)
                                 \/ Files!CommitDeleteDocument(r) \/ Files!CommitDelete(r)
           \/ UNCHANGED Files!db
<1>1. ASSUME NEW r \in FileRequest, Files!Step(r)
      PROVE  \/ Files!CommitPhoto(r) \/ Files!CommitDocument(r) \/ Files!CommitDeleteDocument(r) \/ Files!CommitDelete(r)
             \/ UNCHANGED Files!db
  BY <1>1 DEF Files!Step, Files!SaveBlob, Files!SaveRefused, Files!ReadPhoto, Files!LookupPrevious, Files!CollectDocuments,
     Files!CollectPhotos, Files!TxError, Files!Reread, Files!Purge, Files!Cleanup, Files!db
<1>2. ASSUME NEW r \in FileRequest, NEW o \in Files!AllOps, NEW p \in Pegawai, Files!Start(r, o, p)
      PROVE  UNCHANGED Files!db
  BY <1>2 DEF Files!Start
<1>3. ASSUME NEW r \in FileRequest, Files!Leave(r) PROVE UNCHANGED Files!db
  BY <1>3 DEF Files!Leave
<1>4. CASE Files!Crash
  BY <1>4 DEF Files!Crash
<1>5. CASE UNCHANGED Files!vars
  BY <1>5 DEF Files!vars
<1> QED
  BY <1>1, <1>2, <1>3, <1>4, <1>5 DEF Files!Next, Files!AllEnded

\* Every commit is a step of the register.
LEMMA CommitFollowsRegister ==
    ASSUME Files!EmployeeFilesAssumption, Files!TypeOK, FileInv, OneTarget, SeesEntries, SeesEntries',
           [Files!Next]_Files!vars
    PROVE  [Files!Register!Next]_<<employee, Files!Listed>>
<1> USE DEF Files!EmployeeFilesAssumption
<1>0. HandlerInv /\ UploadsRecord /\ ListedBelongs
  BY DEF FileInv
<1>1. ASSUME NEW p \in Pegawai, Files!CreateEmployee(p) PROVE Files!Register!Next
  BY <1>1 DEF Files!CreateEmployee, SeesEntries, PhotoEntries, DocumentEntries,
     Files!Register!Next, Files!Register!Create
<1>2. ASSUME NEW r \in FileRequest, Files!CommitPhoto(r) PROVE [Files!Register!Next]_<<employee, Files!Listed>>
  <2> DEFINE p == emp[r]
             new == Files!Register!Entry(p, "photo", r)
             old == Files!Register!Entry(p, "photo", photo[p])
  <2>1. /\ p \in Pegawai /\ ~Recorded(r) /\ UNCHANGED <<employee, document>>
        /\ photo' = IF employee[p] = "live" THEN [photo EXCEPT ![p] = r] ELSE photo
    BY <1>0, <1>2 DEF Files!CommitPhoto, Files!Runs, HandlerInv, UploadsRecord, Files!InTx
  <2>2. Files!Register!Fresh(r)
    BY <2>1, FreshFile
  <2>3. CASE employee[p] # "live"
    BY <2>1, <2>3 DEF SeesEntries, PhotoEntries, DocumentEntries
  <2>4. CASE employee[p] = "live"
    <3>1. \A q \in Pegawai : photo'[q] = IF q = p THEN r ELSE photo[q]
      BY <2>1, <2>4 DEF Files!TypeOK
    <3>2. DocumentEntries' = DocumentEntries
      BY <2>1 DEF DocumentEntries
    <3>3. CASE photo[p] = None
      <4>1. PhotoEntries' = PhotoEntries \cup {new}
        BY <2>1, <3>1, <3>3 DEF PhotoEntries
      <4>2. Files!Listed' = Files!Listed \cup {new}
        BY <3>2, <4>1 DEF SeesEntries
      <4>3. \A d \in Files!Listed : ~(d.label = p /\ d.kind = "photo")
        BY <3>3, EntryFields DEF SeesEntries, PhotoEntries, DocumentEntries
      <4>4. Files!Register!Publish(p, "photo", r)
        BY <2>1, <2>2, <2>4, <4>2, <4>3 DEF Files!Register!Publish
      <4> QED
        BY <2>1, <4>4 DEF Files!Register!Next
    <3>4. CASE photo[p] # None
      <4>1. PhotoEntries' = (PhotoEntries \ {old}) \cup {new}
        <5>1. \A q \in Pegawai : Files!Register!Entry(q, "photo", photo[q]) = old => q = p
          BY EntryFields
        <5> QED
          BY <2>1, <3>1, <3>4, <5>1 DEF PhotoEntries
      <4>2. old \notin DocumentEntries
        BY EntryFields DEF DocumentEntries
      <4>3. Files!Listed' = (Files!Listed \ {old}) \cup {new}
        BY <3>2, <4>1, <4>2 DEF SeesEntries
      <4>4. old \in Files!Listed /\ old.kind = "photo" /\ old.label = p
        BY <2>1, <3>4, EntryFields DEF SeesEntries, PhotoEntries
      <4>5. Files!Register!Exchange(old, r)
        BY <2>1, <2>2, <4>3, <4>4 DEF Files!Register!Exchange
      <4> QED
        BY <4>4, <4>5 DEF Files!Register!Next
    <3> QED
      BY <3>3, <3>4
  <2> QED
    BY <2>3, <2>4
<1>3. ASSUME NEW r \in FileRequest, Files!CommitDocument(r) PROVE [Files!Register!Next]_<<employee, Files!Listed>>
  <2> DEFINE p == emp[r]
             new == Files!Register!Entry(p, "document", r)
  <2>1. p \in Pegawai /\ ~Recorded(r) /\ UNCHANGED <<employee, photo>>
    BY <1>0, <1>3 DEF Files!CommitDocument, Files!Runs, HandlerInv, UploadsRecord, Files!InTx
  <2>2. CASE employee[p] # "live"
    BY <1>3, <2>1, <2>2 DEF Files!CommitDocument, SeesEntries, PhotoEntries, DocumentEntries
  <2>3. CASE employee[p] = "live"
    <3>1. \A d \in FileRequest : document'[d] = IF d = r THEN p ELSE document[d]
      BY <1>3, <2>3 DEF Files!CommitDocument, Files!TypeOK
    <3>2. document[r] = None
      BY <1>0, <2>1 DEF ListedBelongs, Recorded
    <3>3. DocumentEntries' = DocumentEntries \cup {new}
      BY <2>1, <3>1, <3>2 DEF DocumentEntries
    <3>4. Files!Listed' = Files!Listed \cup {new}
      BY <2>1, <3>3 DEF SeesEntries, PhotoEntries
    <3>5. Files!Register!Publish(p, "document", r)
      BY <2>1, <2>3, <3>4, FreshFile DEF Files!Register!Publish
    <3> QED
      BY <2>1, <3>5 DEF Files!Register!Next
  <2> QED
    BY <2>2, <2>3
<1>4. ASSUME NEW r \in FileRequest, Files!CommitDeleteDocument(r)
      PROVE  [Files!Register!Next]_<<employee, Files!Listed>>
  <2>1. PICK t \in FileRequest : doomed[r] = {t}
    BY <1>4 DEF Files!CommitDeleteDocument, Files!Runs, OneTarget
  <2> DEFINE old == Files!Register!Entry(document[t], "document", t)
  <2>2. UNCHANGED <<employee, photo>>
    BY <1>4 DEF Files!CommitDeleteDocument
  <2>3. CASE document[t] = None
    BY <1>4, <2>1, <2>2, <2>3 DEF Files!CommitDeleteDocument, SeesEntries, PhotoEntries, DocumentEntries
  <2>4. CASE document[t] # None
    <3>1. \A d \in FileRequest : document'[d] = IF d = t THEN None ELSE document[d]
      BY <1>4, <2>1, <2>4 DEF Files!CommitDeleteDocument
    <3>2. DocumentEntries' = DocumentEntries \ {old}
      <4>1. \A d \in FileRequest : Files!Register!Entry(document[d], "document", d) = old => d = t
        BY EntryFields
      <4> QED
        BY <3>1, <4>1 DEF DocumentEntries
    <3>3. old \notin PhotoEntries
      BY EntryFields DEF PhotoEntries
    <3>4. Files!Listed' = Files!Listed \ {old} /\ old \in Files!Listed
      BY <2>2, <2>4, <3>2, <3>3 DEF SeesEntries, PhotoEntries, DocumentEntries
    <3> QED
      BY <2>2, <3>4 DEF Files!Register!Next, Files!Register!Withdraw
  <2> QED
    BY <2>3, <2>4
<1>5. ASSUME NEW r \in FileRequest, Files!CommitDelete(r) PROVE [Files!Register!Next]_<<employee, Files!Listed>>
  <2> DEFINE p == emp[r]
  <2>1. p \in Pegawai
    BY <1>0, <1>5 DEF Files!CommitDelete, Files!Runs, HandlerInv
  <2>2. CASE employee[p] # "live"
    BY <1>5, <2>2 DEF Files!CommitDelete, SeesEntries, PhotoEntries, DocumentEntries
  <2>3. CASE employee[p] = "live"
    <3>1. /\ employee' = [employee EXCEPT ![p] = "gone"]
          /\ \A q \in Pegawai : photo'[q] = IF q = p THEN None ELSE photo[q]
          /\ \A d \in FileRequest : document'[d] = IF document[d] = p THEN None ELSE document[d]
      BY <1>5, <2>3 DEF Files!CommitDelete, Files!TypeOK
    <3>2. PhotoEntries' = {e \in PhotoEntries : e.label # p}
      BY <3>1, EntryFields DEF PhotoEntries
    <3>3. DocumentEntries' = {e \in DocumentEntries : e.label # p}
      BY <3>1, EntryFields DEF DocumentEntries
    <3>4. Files!Listed' = {e \in Files!Listed : e.label # p}
      BY <3>2, <3>3 DEF SeesEntries
    <3>5. Files!Register!Drop(p)
      BY <2>3, <3>1, <3>4 DEF Files!Register!Drop
    <3> QED
      BY <2>1, <3>5 DEF Files!Register!Next
  <2> QED
    BY <2>2, <2>3
<1>6. CASE UNCHANGED Files!db
  BY <1>6 DEF Files!db, SeesEntries, PhotoEntries, DocumentEntries
<1> QED
  BY <1>1, <1>2, <1>3, <1>4, <1>5, <1>6, OthersWriteNothing

\* Readers see whole steps only: a photo is exchanged at once, all goes with the
\* employee, and what is listed can be read.
THEOREM EmployeeRegisterImplemented ==
    ASSUME Files!EmployeeFilesAssumption, NoFailedReread PROVE Files!Spec => Files!RegisterSpec
<1>1. Files!EmployeeFilesAssumption /\ Files!Init => Files!Register!Init
  BY DEF Files!EmployeeFilesAssumption, Files!Init, Files!Register!Init, Files!Listed
<1>2. Files!Spec => []SeesEntries
  BY Files!EmployeeFilesAssumption, NoFailedReread, FileInvHolds, EntriesSeen, PTL
<1>3. /\ Files!EmployeeFilesAssumption /\ Files!TypeOK /\ FileInv /\ OneTarget
      /\ SeesEntries /\ SeesEntries' /\ [Files!Next]_Files!vars
      => [Files!Register!Next]_<<employee, Files!Listed>>
  BY CommitFollowsRegister
<1> QED
  BY Files!EmployeeFilesAssumption, NoFailedReread, FileInvHolds, OneTargetHolds, <1>1, <1>2, <1>3,
     PTL DEF Files!Spec, Files!RegisterSpec, Files!Register!Spec

-------------------------------------------------------------------------------
(***************************************************************************)
(* The two parts of the employees' back end together: a step of the other  *)
(* part is none of the files'.                                             *)
(***************************************************************************)

LEMMA PartIsOrganization == MCSpec => Spec
<1>1. MCInit => Init
  BY DEF MCInit
<1>2. [MCNext]_mcvars => [Next]_vars
  BY DEF MCNext, mcvars
<1> QED
  BY <1>1, <1>2, PTL DEF MCSpec, Spec

\* No interleaving of the transactions on masters and employees breaks the
\* structure or waits for ever in a circle, and every one of them is a step of
\* the rules or none, whatever the handlers of the files do beside them.
THEOREM PartOrganization == MCSpec => [](TypeOK /\ Hierarchy /\ NoDeadlock) /\ RulesSpec
<1>1. Spec => [](TypeOK /\ Hierarchy /\ NoDeadlock) /\ RulesSpec
  BY TypeCorrect, HierarchyHolds, LocksNeverDeadlock, Implements, PTL
<1> QED
  BY <1>1, PartIsOrganization

LEMMA PartIsFiles == MCSpec => Files!Spec
<1>1. MCInit => Files!Init
  BY DEF MCInit
<1>2. [MCNext]_mcvars => [Files!Next]_Files!vars
  BY DEF MCNext, mcvars, files, Files!vars, Files!db, Files!local
<1> QED
  BY <1>1, <1>2, PTL DEF MCSpec, Files!Spec

\* The files of an employee are of their types, listed, and in storage.
THEOREM PartFilesAccounted == ASSUME NoFailedReread PROVE MCSpec => []FilesAccounted
<1>1. Files!TypeOK /\ Files!FilesAccounted => FilesAccounted
  BY DEF FilesAccounted
<1> QED
  BY MCAssumption, NoFailedReread, <1>1, PartIsFiles, EmployeeTypeCorrect,
     EmployeeFilesAccounted, PTL

\* Readers see the photo and the documents of an employee change by whole steps.
THEOREM PartRegisterImplemented == ASSUME NoFailedReread PROVE MCSpec => PhotosAndDocuments
BY MCAssumption, NoFailedReread, PartIsFiles, EmployeeRegisterImplemented, PTL
   DEF PhotosAndDocuments

===============================================================================
