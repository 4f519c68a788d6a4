----------------------------- MODULE Organization ------------------------------
(***************************************************************************)
(* Saving and deleting organization masters and employees, one statement   *)
(* at a time between those of other requests (READ COMMITTED).  A          *)
(* transaction locks the row it changes FOR UPDATE and the masters it      *)
(* selects FOR SHARE, in the order bidang, seksi, jabatan, checks each as  *)
(* it locks it, writes, and keeps every lock until it ends.                *)
(*                                                                         *)
(* The foreign keys and the locks they take are left out: the properties   *)
(* say that the transactions' own locks and checks suffice.                *)
(***************************************************************************)
EXTENDS OrganizationRules

CONSTANT Request    \* the requests that may run at the same time

VARIABLES
    pc,       \* where each request is
    op, id,   \* what it does, and to which master or employee
    row,      \* the payload of a save
    excl,     \* the rows it has locked FOR UPDATE
    shared    \* the rows it has locked FOR SHARE

local == <<op, id, row>>
vars  == <<organization, pc, local, excl, shared>>

PC == {"idle", "own", "refs", "bidang", "seksi", "jabatan", "commit"}
Op == {"create", "update", "delete"}
AnyRow == BidangRow \cup SeksiRow \cup JabatanRow \cup PegawaiRow

IsPegawai(r) == id[r] \in Pegawai
Saves(r)     == op[r] \in {"create", "update"}

\* The row as the transaction read it: an empty one for a create.
Current(r) == IF op[r] = "create" THEN None
              ELSE IF IsPegawai(r) THEN pegawai[id[r]] ELSE master[id[r]]

\* What q has locked keeps another request from locking x FOR UPDATE, or FOR SHARE.
MutBlocksUpdate(q, x) == x \in excl[q]
BlocksUpdate(q, x) == x \in excl[q] \cup shared[q]
MutNeverBlocks(q, x) == FALSE
MutSharesAsUpdate(q, x) == BlocksUpdate(q, x)
BlocksShare(q, x) == x \in excl[q]

Init ==
    /\ RulesInit
    /\ pc     = [r \in Request |-> "idle"]
    /\ op     = [r \in Request |-> "none"]
    /\ id     = [r \in Request |-> None]
    /\ row    = [r \in Request |-> None]
    /\ excl   = [r \in Request |-> {}]
    /\ shared = [r \in Request |-> {}]

\* Commit or rollback: the locks go, and the client may send its next request.
End(r) ==
    /\ pc'     = [pc EXCEPT ![r] = "idle"]
    /\ op'     = [op EXCEPT ![r] = "none"]
    /\ id'     = [id EXCEPT ![r] = None]
    /\ row'    = [row EXCEPT ![r] = None]
    /\ excl'   = [excl EXCEPT ![r] = {}]
    /\ shared' = [shared EXCEPT ![r] = {}]

\* The order in which a save locks the masters it selects.
FirstParent(w) == IF w.bidang # None THEN "bidang" ELSE "commit"
AfterSeksi(r)  == IF IsPegawai(r) THEN "jabatan" ELSE "commit"
AfterBidang(r) == IF row[r].seksi # None THEN "seksi" ELSE AfterSeksi(r)

\* The ids an INSERT may be given: nobody's, and meant for no other request.
NewId(i) ==
    /\ IF i \in Pegawai THEN pegawai[i] = None ELSE master[i] = None
    /\ \A r \in Request : ~(op[r] = "create" /\ id[r] = i)

\* A request comes in, with a payload that ValidateOrganizationPayload or
\* resolvePegawaiOrganization does not refuse at once.
Start(r) ==
    /\ pc[r] = "idle"
    /\ \E o \in Op, i \in Master \cup Pegawai :
          /\ o = "create" => NewId(i)
          /\ op' = [op EXCEPT ![r] = o]
          /\ id' = [id EXCEPT ![r] = i]
          /\ \E w \in IF o = "delete" THEN {None}
                      ELSE IF i \in Pegawai THEN PegawaiRow ELSE MasterRow(i) :
                /\ row' = [row EXCEPT ![r] = w]
                /\ pc'  = [pc EXCEPT ![r] = IF o = "create" THEN FirstParent(w) ELSE "own"]
    /\ UNCHANGED <<organization, excl, shared>>

\* organizationByID(lock = true), and the same for the employee: an update or a
\* delete locks its own row first, and ends if it is not there.
LockOwn(r) ==
    /\ pc[r] = "own"
    /\ \A q \in Request \ {r} : ~BlocksUpdate(q, id[r])
    /\ \/ /\ Current(r) = None
          /\ End(r)
       \/ /\ Current(r) # None
          /\ excl' = [excl EXCEPT ![r] = @ \cup {id[r]}]
          /\ pc' = [pc EXCEPT ![r] =
                       IF ~IsPegawai(r) THEN "refs"
                       ELSE IF op[r] = "delete" THEN "commit" ELSE FirstParent(row[r])]
          /\ UNCHANGED <<local, shared>>
    /\ UNCHANGED organization

\* organizationReferences: a master in use is not deleted and does not move.
CheckReferences(r) ==
    /\ pc[r] = "refs"
    /\ IF (op[r] = "delete" \/ Moves(id[r], row[r])) /\ Referenced(id[r])
       THEN End(r)
       ELSE /\ pc' = [pc EXCEPT ![r] =
                         IF op[r] = "delete" THEN "commit" ELSE FirstParent(row[r])]
            /\ UNCHANGED <<local, excl, shared>>
    /\ UNCHANGED organization

\* organizationParent locks master i FOR SHARE; the request goes on if it fits.
LockParent(r, i, fits, next) ==
    /\ \A q \in Request \ {r} : ~BlocksShare(q, i)
    /\ IF fits
       THEN /\ shared' = [shared EXCEPT ![r] = @ \cup {i}]
            /\ pc' = [pc EXCEPT ![r] = next]
            /\ UNCHANGED <<local, excl>>
       ELSE End(r)
    /\ UNCHANGED organization

LockBidang(r) ==
    /\ pc[r] = "bidang"
    /\ LockParent(r, row[r].bidang, BidangFits(Current(r), row[r]), AfterBidang(r))

LockSeksi(r) ==
    /\ pc[r] = "seksi"
    /\ LockParent(r, row[r].seksi, SeksiFits(Current(r), row[r]), AfterSeksi(r))

LockJabatan(r) ==
    /\ pc[r] = "jabatan"
    /\ LockParent(r, row[r].jabatan, JabatanFits(Current(r), row[r]), "commit")

\* The INSERT, UPDATE or DELETE, and COMMIT.
CommitMaster(r) ==
    /\ pc[r] = "commit" /\ ~IsPegawai(r)
    /\ master' = [master EXCEPT ![id[r]] = row[r]]
    /\ UNCHANGED pegawai
    /\ End(r)

CommitPegawai(r) ==
    /\ pc[r] = "commit" /\ IsPegawai(r)
    /\ pegawai' = [pegawai EXCEPT ![id[r]] = row[r]]
    /\ UNCHANGED master
    /\ End(r)

\* A statement or COMMIT fails, the client leaves or the server stops: PostgreSQL
\* rolls back.
Abort(r) ==
    /\ pc[r] # "idle"
    /\ End(r)
    /\ UNCHANGED organization

Step(r) ==
    \/ LockOwn(r) \/ CheckReferences(r)
    \/ LockBidang(r) \/ LockSeksi(r) \/ LockJabatan(r)
    \/ CommitMaster(r) \/ CommitPegawai(r)

Next == \E r \in Request : Start(r) \/ Step(r) \/ Abort(r)

Spec == Init /\ [][Next]_vars

-------------------------------------------------------------------------------
(* Properties.                                                             *)

\* The variables hold values of their types.
TypeOK ==
    /\ RulesTypeOK
    /\ pc \in [Request -> PC]
    /\ op \in [Request -> Op \cup {"none"}]
    /\ id \in [Request -> Master \cup Pegawai \cup {None}]
    /\ row \in [Request -> AnyRow \cup {None}]
    /\ excl \in [Request -> SUBSET (Master \cup Pegawai)]
    /\ shared \in [Request -> SUBSET Master]

\* r's next statement waits for a row that q has locked.
Waits(r, q) ==
    /\ q # r
    /\ \/ pc[r] = "own" /\ BlocksUpdate(q, id[r])
       \/ pc[r] = "bidang" /\ BlocksShare(q, row[r].bidang)
       \/ pc[r] = "seksi" /\ BlocksShare(q, row[r].seksi)
       \/ pc[r] = "jabatan" /\ BlocksShare(q, row[r].jabatan)

\* The locks are taken in an order that cannot deadlock: among any requests
\* there is one that waits for none of them.
NoDeadlock ==
    \A waiting \in SUBSET Request : waiting # {} =>
        \E r \in waiting : \A q \in waiting : ~Waits(r, q)

\* docs/04_STRUKTUR_ORGANISASI_PEGAWAI.md:13: a new option requires an active
\* master and an active parent.
NewOptionHasActiveParents ==
    [][\A p \in Pegawai : LET chosen == pegawai'[p]
                          IN  /\ chosen # None /\ chosen.seksi # None
                              /\ ~KeepsSeksi(pegawai[p], chosen)
                              => master[chosen.bidang].active]_organization
===============================================================================
