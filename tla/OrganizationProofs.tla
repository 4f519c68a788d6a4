-------------------------- MODULE OrganizationProofs ---------------------------
EXTENDS Organization, TLAPS

-------------------------------------------------------------------------------
(***************************************************************************)
(* The rules, one request at a time, keep the structure consistent.        *)
(***************************************************************************)

LEMMA RulesStep == ASSUME RulesTypeOK, Hierarchy, [RulesNext]_organization
                   PROVE  RulesTypeOK' /\ Hierarchy'
<1> USE IdsAssumption, RowsAssumption DEF Master, BidangRow, SeksiRow, JabatanRow, PegawaiRow, RulesTypeOK,
        Hierarchy
<1>1. ASSUME NEW i \in Master, DeleteMaster(i) PROVE RulesTypeOK' /\ Hierarchy'
  BY <1>1 DEF DeleteMaster, Referenced
<1>2. ASSUME NEW i \in Master, NEW w \in MasterRow(i), SaveMaster(i, w)
      PROVE  RulesTypeOK' /\ Hierarchy'
  <2>1. RulesTypeOK'
    BY <1>2 DEF SaveMaster, MasterRow
  <2> USE DEF SaveMaster
  <2>2. /\ w.bidang # None => w.bidang # i /\ master[w.bidang] # None
        /\ w.seksi # None => /\ w.seksi # i /\ master[w.seksi] # None
                              /\ master[w.seksi].bidang = w.bidang
    BY <1>2 DEF MasterRow, BidangFits, SeksiFits, Selectable
  <2>3. master[i] # None /\ Referenced(i) =>
            w.bidang = master[i].bidang /\ w.seksi = master[i].seksi
    BY <1>2 DEF Moves, KeepsBidang, KeepsSeksi
  <2>4. /\ w \in MasterRow(i) /\ w # None /\ master'[i] = w /\ pegawai' = pegawai
        /\ \A j \in Master \ {i} : master'[j] = master[j]
    BY <1>2 DEF MasterRow
  <2>5. ASSUME NEW j \in Master, master'[j] # None
        PROVE  /\ master'[j].bidang # None => master'[master'[j].bidang] # None
               /\ master'[j].seksi # None =>
                     /\ master'[master'[j].seksi] # None
                     /\ master'[master'[j].seksi].bidang = master'[j].bidang
    <3>1. CASE j = i
      BY <2>2, <2>4, <3>1 DEF MasterRow
    <3>2. CASE j # i
      BY <2>3, <2>4, <2>5, <3>2 DEF Referenced
    <3>3. QED
      BY <3>1, <3>2
  <2>6. ASSUME NEW p \in Pegawai, pegawai'[p] # None
        PROVE  /\ master'[pegawai'[p].bidang] # None
               /\ pegawai'[p].seksi # None =>
                     /\ master'[pegawai'[p].seksi] # None
                     /\ master'[pegawai'[p].seksi].bidang = pegawai'[p].bidang
               /\ master'[pegawai'[p].jabatan] # None
               /\ master'[pegawai'[p].jabatan].bidang = pegawai'[p].bidang
               /\ master'[pegawai'[p].jabatan].seksi \in {None, pegawai'[p].seksi}
    BY <2>3, <2>4, <2>6 DEF Referenced
  <2>7. QED
    BY <2>1, <2>5, <2>6
<1>3. ASSUME NEW p \in Pegawai, DeletePegawai(p) PROVE RulesTypeOK' /\ Hierarchy'
  BY <1>3 DEF DeletePegawai
<1>4. ASSUME NEW p \in Pegawai, NEW w \in PegawaiRow, SavePegawai(p, w)
      PROVE  RulesTypeOK' /\ Hierarchy'
  BY <1>4 DEF SavePegawai, BidangFits, SeksiFits, JabatanFits, Selectable
<1>5. CASE UNCHANGED organization
  BY <1>5 DEF organization
<1>6. QED
  BY <1>1, <1>2, <1>3, <1>4, <1>5 DEF RulesNext

\* Whatever the changes, a consistent structure stays consistent.
THEOREM RulesKeepHierarchy == RulesSpec => []Hierarchy
<1>1. RulesInit => RulesTypeOK /\ Hierarchy
  BY DEF RulesInit, RulesTypeOK, Hierarchy, Master
<1>2. RulesTypeOK /\ Hierarchy /\ [RulesNext]_organization => RulesTypeOK' /\ Hierarchy'
  BY RulesStep
<1>3. QED
  BY <1>1, <1>2, PTL DEF RulesSpec

-------------------------------------------------------------------------------
(***************************************************************************)
(* The inductive invariant: what a request knows at each statement, and    *)
(* that its locks keep it true until it commits.                           *)
(***************************************************************************)

\* Between requests nothing is locked.
Idle == \A r \in Request : pc[r] = "idle" =>
            excl[r] = {} /\ shared[r] = {} /\ op[r] = "none"

\* The payload is of the table it is meant for.
Payload ==
    \A r \in Request : pc[r] # "idle" =>
        /\ op[r] \in Op /\ id[r] \in Master \cup Pegawai
        /\ op[r] = "delete" => row[r] = None
        /\ Saves(r) /\ IsPegawai(r) => row[r] \in PegawaiRow
        /\ Saves(r) /\ ~IsPegawai(r) => row[r] \in MasterRow(id[r])

\* Which requests reach which statement.
Stage ==
    \A r \in Request :
        /\ pc[r] \in {"own", "refs"} => op[r] # "create"
        /\ pc[r] = "own" => excl[r] = {} /\ shared[r] = {}
        /\ pc[r] = "refs" => ~IsPegawai(r)
        /\ pc[r] \in {"bidang", "seksi", "jabatan"} => Saves(r)
        /\ pc[r] \in {"bidang", "seksi"} => row[r].bidang # None
        /\ pc[r] = "seksi" => row[r].seksi # None
        /\ pc[r] = "jabatan" => IsPegawai(r)

\* A row locked FOR UPDATE is locked by nobody else.
Exclusive ==
    \A q, r \in Request : q # r => excl[q] \cap (excl[r] \cup shared[r]) = {}

\* Only its own row does a request lock FOR UPDATE.
OnlyOwn == \A r \in Request : excl[r] \subseteq {id[r]}

\* An update or a delete has locked its row, which is there; a create has an id
\* that nobody else has.
Locked == {"refs", "bidang", "seksi", "jabatan", "commit"}
OwnLocked ==
    \A r \in Request : pc[r] \in Locked /\ op[r] # "create" =>
        id[r] \in excl[r] /\ Current(r) # None
OwnNew ==
    \A r \in Request : op[r] = "create" =>
        /\ IF IsPegawai(r) THEN pegawai[id[r]] = None ELSE master[id[r]] = None
        /\ \A q \in Request \ {r} : ~(op[q] = "create" /\ id[q] = id[r])

\* What the checks of r found still holds.
StillUnreferenced(r) ==
    /\ pc[r] \in Locked \ {"refs"} /\ ~IsPegawai(r)
    /\ op[r] = "delete" \/ (op[r] = "update" /\ Moves(id[r], row[r]))
    => ~Referenced(id[r])
StillFitsBidang(r) ==
    pc[r] \in {"seksi", "jabatan", "commit"} /\ Saves(r) /\ row[r].bidang # None =>
        row[r].bidang \in shared[r] /\ BidangFits(Current(r), row[r])
StillFitsSeksi(r) ==
    pc[r] \in {"jabatan", "commit"} /\ Saves(r) /\ row[r].seksi # None =>
        row[r].seksi \in shared[r] /\ SeksiFits(Current(r), row[r])
StillFitsJabatan(r) ==
    pc[r] = "commit" /\ Saves(r) /\ IsPegawai(r) =>
        row[r].jabatan \in shared[r] /\ JabatanFits(Current(r), row[r])
Checked(r) == /\ StillUnreferenced(r) /\ StillFitsBidang(r)
              /\ StillFitsSeksi(r) /\ StillFitsJabatan(r)

RequestInv == TypeOK /\ Idle /\ Payload /\ Stage
OwnInv     == Exclusive /\ OnlyOwn /\ OwnLocked /\ OwnNew
CheckInv   == \A r \in Request : Checked(r)
LockInv    == RequestInv /\ OwnInv /\ CheckInv

LEMMA Inits == Init => LockInv
<1> SUFFICES ASSUME Init PROVE LockInv
  OBVIOUS
<1> USE DEF Init, RulesInit
<1>1. RequestInv
  BY DEF RequestInv, TypeOK, RulesTypeOK, Master, PC, Idle, Payload, Stage
<1>2. OwnInv
  BY DEF OwnInv, Exclusive, OnlyOwn, OwnLocked, OwnNew, Locked
<1>3. CheckInv
  BY DEF CheckInv, Checked, StillUnreferenced, StillFitsBidang, StillFitsSeksi, StillFitsJabatan, Locked
<1>4. QED
  BY <1>1, <1>2, <1>3 DEF LockInv

\* What a payload of each table refers to.
LEMMA RowFacts ==
    /\ Bidang \subseteq Master /\ Seksi \subseteq Master /\ Jabatan \subseteq Master
    /\ \A i \in Master : \A w \in MasterRow(i) :
          /\ w \in AnyRow /\ w # None
          /\ w.bidang \in Bidang \cup {None} /\ w.seksi \in Seksi \cup {None}
          /\ w.seksi # None => w.bidang # None
          /\ i \in Bidang => w \in BidangRow
          /\ i \in Seksi => w \in SeksiRow
          /\ i \in Jabatan => w \in JabatanRow
    /\ \A w \in PegawaiRow :
          /\ w \in AnyRow /\ w # None
          /\ w.bidang \in Bidang /\ w.seksi \in Seksi \cup {None} /\ w.jabatan \in Jabatan
  BY IdsAssumption, RowsAssumption
     DEF Master, MasterRow, BidangRow, SeksiRow, JabatanRow, PegawaiRow, AnyRow

\* The payload and the statement it is at fit together.
LEMMA RequestStep == ASSUME RequestInv, [Next]_vars PROVE RequestInv'
<1> USE IdsAssumption, RowFacts
    DEF RequestInv, TypeOK, Idle, Payload, Stage, PC, Op, IsPegawai, Saves, local,
        organization, FirstParent
<1>0. ASSUME UNCHANGED organization PROVE RulesTypeOK'
  BY <1>0 DEF RulesTypeOK
<1>1. ASSUME NEW r \in Request, Start(r) PROVE RequestInv'
  BY <1>0, <1>1 DEF Start
<1>2. ASSUME NEW r \in Request, LockOwn(r) PROVE RequestInv'
  BY <1>0, <1>2 DEF LockOwn, End
<1>3. ASSUME NEW r \in Request, CheckReferences(r) PROVE RequestInv'
  BY <1>0, <1>3 DEF CheckReferences, End
<1>4. ASSUME NEW r \in Request, LockBidang(r) PROVE RequestInv'
  BY <1>0, <1>4 DEF LockBidang, LockParent, End, AfterBidang, AfterSeksi
<1>5. ASSUME NEW r \in Request, LockSeksi(r) PROVE RequestInv'
  BY <1>0, <1>5 DEF LockSeksi, LockParent, End, AfterSeksi
<1>6. ASSUME NEW r \in Request, LockJabatan(r) PROVE RequestInv'
  BY <1>0, <1>6 DEF LockJabatan, LockParent, End
<1>7. ASSUME NEW r \in Request, CommitMaster(r) PROVE RequestInv'
  <2>0. /\ id[r] \in Master
        /\ row[r] = None \/ row[r] \in MasterRow(id[r])
    BY <1>7 DEF CommitMaster
  <2>1. RulesTypeOK'
    BY <1>7, <2>0 DEF CommitMaster, RulesTypeOK, Master
  <2>2. QED
    BY <1>7, <2>1 DEF CommitMaster, End
<1>8. ASSUME NEW r \in Request, CommitPegawai(r) PROVE RequestInv'
  <2>1. RulesTypeOK'
    BY <1>8 DEF CommitPegawai, RulesTypeOK
  <2>2. QED
    BY <1>8, <2>1 DEF CommitPegawai, End
<1>9. ASSUME NEW r \in Request, Abort(r) PROVE RequestInv'
  BY <1>0, <1>9 DEF Abort, End
<1>10. CASE UNCHANGED vars
  BY <1>0, <1>10 DEF vars
<1>11. QED
  BY <1>1, <1>2, <1>3, <1>4, <1>5, <1>6, <1>7, <1>8, <1>9, <1>10 DEF Next, Step

\* Nobody else works on the row a request has locked or is going to insert.
LEMMA OwnStep == ASSUME RequestInv, OwnInv, [Next]_vars PROVE OwnInv'
<1> USE IdsAssumption, RowFacts
    DEF RequestInv, OwnInv, TypeOK, Idle, Payload, Stage, PC, Op, IsPegawai, Saves, local,
        organization, FirstParent, Exclusive, OnlyOwn, OwnLocked, OwnNew, Current, Locked
<1>1. ASSUME NEW r \in Request, Start(r) PROVE OwnInv'
  BY <1>1 DEF Start, NewId
<1>2. ASSUME NEW r \in Request, LockOwn(r) PROVE OwnInv'
  <2>1. Exclusive' /\ OwnNew'
    BY SMTT(30), <1>2 DEF LockOwn, End, BlocksUpdate
  <2>2. OnlyOwn' /\ OwnLocked'
    BY <1>2 DEF LockOwn, End
  <2>3. QED
    BY <2>1, <2>2
<1>3. ASSUME NEW r \in Request, CheckReferences(r) PROVE OwnInv'
  BY SMTT(30), <1>3 DEF CheckReferences, End
<1>4. ASSUME NEW r \in Request, LockBidang(r) PROVE OwnInv'
  BY SMTT(30), <1>4 DEF LockBidang, LockParent, End, AfterBidang, AfterSeksi, BlocksShare
<1>5. ASSUME NEW r \in Request, LockSeksi(r) PROVE OwnInv'
  BY SMTT(30), <1>5 DEF LockSeksi, LockParent, End, AfterSeksi, BlocksShare
<1>6. ASSUME NEW r \in Request, LockJabatan(r) PROVE OwnInv'
  BY <1>6 DEF LockJabatan, LockParent, End, BlocksShare
<1>7. ASSUME NEW r \in Request, CommitMaster(r) PROVE OwnInv'
  BY <1>7 DEF CommitMaster, End, RulesTypeOK
<1>8. ASSUME NEW r \in Request, CommitPegawai(r) PROVE OwnInv'
  BY <1>8 DEF CommitPegawai, End, RulesTypeOK
<1>9. ASSUME NEW r \in Request, Abort(r) PROVE OwnInv'
  BY <1>9 DEF Abort, End
<1>10. CASE UNCHANGED vars
  BY <1>10 DEF vars
<1>11. QED
  BY <1>1, <1>2, <1>3, <1>4, <1>5, <1>6, <1>7, <1>8, <1>9, <1>10 DEF Next, Step

\* A commit changes nothing that another request has locked.
LEMMA OthersKeep ==
    ASSUME RequestInv, OwnInv, NEW q \in Request, NEW r \in Request \ {q},
           CommitMaster(q) \/ CommitPegawai(q)
    PROVE  /\ pc[r] \in Locked => Current(r)' = Current(r)
           /\ \A x \in shared[r] : master[x] # None => master'[x] = master[x]
  BY IdsAssumption, RowFacts
     DEF RequestInv, OwnInv, TypeOK, RulesTypeOK, Payload, Op, IsPegawai, Exclusive,
         OwnLocked, OwnNew, Current, Locked, CommitMaster, CommitPegawai, End

\* The variables of request q are left alone.
Untouched(q) == /\ pc'[q] = pc[q] /\ op'[q] = op[q] /\ id'[q] = id[q] /\ row'[q] = row[q]
                /\ excl'[q] = excl[q] /\ shared'[q] = shared[q]

\* A request that reads and locks leaves the checks of the others as they are.
LEMMA OthersChecked ==
    ASSUME NEW q \in Request, Checked(q), Untouched(q), UNCHANGED organization
    PROVE  Checked(q)'
<1> USE DEF Untouched, organization, Saves, IsPegawai, Checked
<1>1. StillUnreferenced(q)'
  BY DEF StillUnreferenced, Moves, Referenced, KeepsBidang, KeepsSeksi
<1>2. StillFitsBidang(q)'
  BY DEF StillFitsBidang, BidangFits, Selectable, KeepsBidang, Current
<1>3. StillFitsSeksi(q)'
  BY DEF StillFitsSeksi, SeksiFits, Selectable, KeepsSeksi, Current
<1>4. StillFitsJabatan(q)'
  BY DEF StillFitsJabatan, JabatanFits, Selectable, KeepsJabatan, Current
<1>5. QED
  BY <1>1, <1>2, <1>3, <1>4

\* The request that reads and locks has just checked what it goes on with.
LEMMA OwnChecked ==
    ASSUME RequestInv, NEW r \in Request, Checked(r), UNCHANGED organization,
           \/ Start(r) \/ LockOwn(r) \/ CheckReferences(r) \/ Abort(r)
           \/ LockBidang(r) \/ LockSeksi(r) \/ LockJabatan(r)
    PROVE  Checked(r)'
<1> USE IdsAssumption, RowFacts DEF RequestInv, TypeOK, Checked, Saves, IsPegawai
<1>1. ASSUME End(r) PROVE Checked(r)'
  BY <1>1 DEF End, StillUnreferenced, StillFitsBidang, StillFitsSeksi, StillFitsJabatan, Locked
<1>2. ASSUME Start(r) PROVE Checked(r)'
  BY <1>2 DEF Start, Payload, FirstParent, StillUnreferenced, StillFitsBidang, StillFitsSeksi,
       StillFitsJabatan, Locked, PC, Op
<1>3. ASSUME LockOwn(r) PROVE Checked(r)'
  BY <1>1, <1>3 DEF LockOwn, local, Stage, Payload, FirstParent, StillUnreferenced, StillFitsBidang,
       StillFitsSeksi, StillFitsJabatan, Locked, PC, Op
<1>4. ASSUME CheckReferences(r), ~End(r) PROVE Checked(r)'
  <2>1. StillUnreferenced(r)'
    BY <1>4 DEF CheckReferences, local, organization, StillUnreferenced, Moves, Referenced,
         KeepsBidang, KeepsSeksi
  <2>2. StillFitsBidang(r)' /\ StillFitsSeksi(r)' /\ StillFitsJabatan(r)'
    BY <1>4 DEF CheckReferences, local, Stage, Payload, FirstParent, StillFitsBidang,
         StillFitsSeksi, StillFitsJabatan, PC, Op
  <2>3. QED
    BY <2>1, <2>2
<1>5. ASSUME LockBidang(r), ~End(r) PROVE Checked(r)'
  <2> USE <1>5 DEF LockBidang, LockParent, local, organization, Stage, Payload, AfterBidang,
        AfterSeksi, PC, Op
  <2>1. StillUnreferenced(r)'
    BY DEF StillUnreferenced, Moves, Referenced, KeepsBidang, KeepsSeksi, Locked
  <2>2. StillFitsBidang(r)'
    BY DEF StillFitsBidang, BidangFits, Selectable, KeepsBidang, Current
  <2>3. StillFitsSeksi(r)' /\ StillFitsJabatan(r)'
    BY DEF StillFitsSeksi, StillFitsJabatan
  <2>4. QED
    BY <2>1, <2>2, <2>3
<1>6. ASSUME LockSeksi(r), ~End(r) PROVE Checked(r)'
  <2> USE <1>6 DEF LockSeksi, LockParent, local, organization, Stage, Payload, AfterSeksi, PC, Op
  <2>1. StillUnreferenced(r)'
    BY DEF StillUnreferenced, Moves, Referenced, KeepsBidang, KeepsSeksi, Locked
  <2>2. StillFitsBidang(r)'
    BY DEF StillFitsBidang, BidangFits, Selectable, KeepsBidang, Current
  <2>3. StillFitsSeksi(r)'
    BY DEF StillFitsSeksi, SeksiFits, Selectable, KeepsSeksi, Current
  <2>4. StillFitsJabatan(r)'
    BY DEF StillFitsJabatan
  <2>5. QED
    BY <2>1, <2>2, <2>3, <2>4
<1>7. ASSUME LockJabatan(r), ~End(r) PROVE Checked(r)'
  <2> USE <1>7 DEF LockJabatan, LockParent, local, organization, Stage, Payload, PC, Op
  <2>1. StillUnreferenced(r)'
    BY DEF StillUnreferenced, Locked
  <2>2. StillFitsBidang(r)'
    BY DEF StillFitsBidang, BidangFits, Selectable, KeepsBidang, Current
  <2>3. StillFitsSeksi(r)'
    BY DEF StillFitsSeksi, SeksiFits, Selectable, KeepsSeksi, Current
  <2>4. StillFitsJabatan(r)'
    BY DEF StillFitsJabatan, JabatanFits, Selectable, KeepsJabatan, Current
  <2>5. QED
    BY <2>1, <2>2, <2>3, <2>4
<1>8. QED
  BY <1>1, <1>2, <1>3, <1>4, <1>5, <1>6, <1>7 DEF Abort

\* A commit leaves the checks of the other requests as they are: it neither
\* changes a row they locked nor refers to a row they locked FOR UPDATE.
LEMMA CommitChecked ==
    ASSUME RequestInv, OwnInv, CheckInv, NEW q \in Request, NEW r \in Request \ {q},
           CommitMaster(q) \/ CommitPegawai(q)
    PROVE  Checked(r)'
<1> USE IdsAssumption, RowFacts
<1>1. /\ pc[r] \in Locked => Current(r)' = Current(r)
      /\ \A x \in shared[r] : master[x] # None => master'[x] = master[x]
  BY OthersKeep
<1>2. /\ pc'[r] = pc[r] /\ op'[r] = op[r] /\ id'[r] = id[r] /\ row'[r] = row[r]
      /\ excl'[r] = excl[r] /\ shared'[r] = shared[r]
  BY DEF CommitMaster, CommitPegawai, End, RequestInv, TypeOK
<1>3. Checked(r) /\ Checked(q)
  BY DEF CheckInv
<1>4. StillUnreferenced(r)'
  <2> SUFFICES ASSUME pc[r] \in Locked \ {"refs"}, ~IsPegawai(r),
                      op[r] = "delete" \/ (op[r] = "update" /\ Moves(id[r], row[r])')
               PROVE  ~Referenced(id[r])'
    BY <1>2 DEF StillUnreferenced, IsPegawai
  <2>1. id[r] \in excl[r] /\ id[r] \in Master
    BY DEF OwnInv, OwnLocked, RequestInv, Payload, Locked, IsPegawai
  <2>2. ~Referenced(id[r])
    BY <1>1, <1>2, <1>3
       DEF Checked, StillUnreferenced, Moves, KeepsBidang, KeepsSeksi, Current, IsPegawai, Locked
  <2>3. id[r] \notin shared[q]
    BY <2>1 DEF OwnInv, Exclusive
  <2>4. CASE CommitMaster(q)
    <3>1. row[q] # None => /\ row[q].bidang # id[r] /\ row[q].seksi # id[r]
      BY <2>1, <2>3, <2>4, <1>3
         DEF CommitMaster, Checked, StillFitsBidang, StillFitsSeksi, Saves, RequestInv, Payload,
             Op
    <3>2. QED
      BY <1>2, <2>1, <2>2, <2>4, <3>1 DEF CommitMaster, Referenced, RequestInv, TypeOK, RulesTypeOK
  <2>5. CASE CommitPegawai(q)
    <3>1. row[q] # None =>
              row[q].bidang # id[r] /\ row[q].seksi # id[r] /\ row[q].jabatan # id[r]
      BY <2>1, <2>3, <2>5, <1>3
         DEF CommitPegawai, Checked, StillFitsBidang, StillFitsSeksi, StillFitsJabatan, Saves,
             RequestInv, Payload, Op
    <3>2. QED
      BY <1>2, <2>1, <2>2, <2>5, <3>1 DEF CommitPegawai, Referenced, RequestInv, TypeOK, RulesTypeOK
  <2>6. QED
    BY <2>4, <2>5
<1>5. StillFitsBidang(r)'
  BY <1>1, <1>2, <1>3 DEF Checked, StillFitsBidang, BidangFits, Selectable, KeepsBidang, Saves,
       Locked
<1>6. StillFitsSeksi(r)'
  BY <1>1, <1>2, <1>3 DEF Checked, StillFitsSeksi, SeksiFits, Selectable, KeepsSeksi, Saves,
       Locked
<1>7. StillFitsJabatan(r)'
  BY <1>1, <1>2, <1>3 DEF Checked, StillFitsJabatan, JabatanFits, Selectable, KeepsJabatan, Saves,
       IsPegawai, Locked
<1>8. QED
  BY <1>4, <1>5, <1>6, <1>7 DEF Checked

\* What a request checked holds until it ends.
LEMMA CheckStep == ASSUME RequestInv, OwnInv, CheckInv, [Next]_vars PROVE CheckInv'
<1>1. ASSUME NEW r \in Request, UNCHANGED organization,
             \/ Start(r) \/ LockOwn(r) \/ CheckReferences(r) \/ Abort(r)
             \/ LockBidang(r) \/ LockSeksi(r) \/ LockJabatan(r)
      PROVE  CheckInv'
  <2>1. Checked(r)'
    BY <1>1, OwnChecked DEF CheckInv
  <2>2. ASSUME NEW q \in Request \ {r} PROVE Checked(q)'
    <3>1. Untouched(q)
      BY <1>1 DEF RequestInv, TypeOK, Untouched, Start, LockOwn, CheckReferences, Abort, LockBidang,
           LockSeksi, LockJabatan, LockParent, End, local
    <3>2. QED
      BY <1>1, <3>1, OthersChecked DEF CheckInv
  <2>3. QED
    BY <2>1, <2>2 DEF CheckInv
<1>2. ASSUME NEW q \in Request, CommitMaster(q) \/ CommitPegawai(q) PROVE CheckInv'
  <2>1. Checked(q)'
    BY <1>2 DEF CommitMaster, CommitPegawai, End, RequestInv, TypeOK, Checked, StillUnreferenced,
         StillFitsBidang, StillFitsSeksi, StillFitsJabatan, Locked
  <2>2. ASSUME NEW r \in Request \ {q} PROVE Checked(r)'
    BY <1>2, CommitChecked
  <2>3. QED
    BY <2>1, <2>2 DEF CheckInv
<1>3. CASE UNCHANGED vars
  BY <1>3, OthersChecked DEF CheckInv, Untouched, vars, local
<1>4. QED
  BY <1>1, <1>2, <1>3 DEF Next, Step, Start, LockOwn, CheckReferences, Abort, LockBidang, LockSeksi,
       LockJabatan, LockParent, organization

-------------------------------------------------------------------------------
(***************************************************************************)
(* What follows from the invariant.                                        *)
(***************************************************************************)

\* The invariant holds in every state.
THEOREM LocksProtect == Spec => []LockInv
<1>1. LockInv /\ [Next]_vars => LockInv'
  BY RequestStep, OwnStep, CheckStep DEF LockInv
<1>2. QED
  BY <1>1, Inits, PTL DEF Spec

\* Every request keeps the variables in their types.
THEOREM TypeCorrect == Spec => []TypeOK
<1>1. LockInv => TypeOK
  BY DEF LockInv, RequestInv
<1>2. QED
  BY <1>1, LocksProtect, PTL

\* A commit is one change of the rules; every other step changes nothing they see.
LEMMA CommitFollowsRules == ASSUME LockInv, [Next]_vars PROVE [RulesNext]_organization
<1> USE IdsAssumption, RowFacts DEF LockInv, RequestInv, CheckInv
<1>1. ASSUME NEW r \in Request, CommitMaster(r) PROVE RulesNext
  <2>1. id[r] \in Master /\ op[r] \in Op /\ Checked(r) /\ Current(r) = master[id[r]]
        /\ (op[r] # "create" <=> master[id[r]] # None)
    BY <1>1 DEF CommitMaster, Payload, IsPegawai, OwnInv, OwnLocked, OwnNew, Locked, Current
  <2>2. CASE op[r] = "delete"
    <3>1. DeleteMaster(id[r])
      BY <1>1, <2>1, <2>2
         DEF CommitMaster, DeleteMaster, Checked, StillUnreferenced, Payload, Locked
    <3>2. QED
      BY <2>1, <3>1 DEF RulesNext
  <2>3. CASE op[r] # "delete"
    <3>1. row[r] \in MasterRow(id[r])
      BY <1>1, <2>1, <2>3 DEF CommitMaster, Payload, Saves, Op
    <3>2. master[id[r]] # None /\ Moves(id[r], row[r]) => ~Referenced(id[r])
      BY <1>1, <2>1, <2>3 DEF CommitMaster, Checked, StillUnreferenced, Locked, Op
    <3>3. SaveMaster(id[r], row[r])
      BY <1>1, <2>1, <2>3, <3>2
         DEF CommitMaster, SaveMaster, Checked, StillFitsBidang, StillFitsSeksi, Saves, Op
    <3>4. QED
      BY <2>1, <3>1, <3>3 DEF RulesNext
  <2>4. QED
    BY <2>2, <2>3
<1>2. ASSUME NEW r \in Request, CommitPegawai(r) PROVE RulesNext
  <2>1. id[r] \in Pegawai /\ op[r] \in Op /\ Checked(r)
    BY <1>2 DEF CommitPegawai, Payload, IsPegawai
  <2>2. CASE op[r] = "delete"
    <3>1. DeletePegawai(id[r])
      BY <1>2, <2>2 DEF CommitPegawai, DeletePegawai, Payload
    <3>2. QED
      BY <2>1, <3>1 DEF RulesNext
  <2>3. CASE op[r] # "delete"
    <3>1. row[r] \in PegawaiRow
      BY <1>2, <2>1, <2>3 DEF CommitPegawai, Payload, Saves, Op
    <3>2. Current(r) = pegawai[id[r]]
      BY <1>2, <2>1 DEF CommitPegawai, IsPegawai, OwnInv, OwnNew, Current
    <3>3. SavePegawai(id[r], row[r])
      BY <1>2, <2>1, <2>3, <3>1, <3>2
         DEF CommitPegawai, SavePegawai, Checked, StillFitsBidang, StillFitsSeksi, StillFitsJabatan,
             Saves, Op
    <3>4. QED
      BY <2>1, <3>1, <3>3 DEF RulesNext
  <2>4. QED
    BY <2>2, <2>3
<1>3. QED
  BY <1>1, <1>2 DEF Next, Step, Start, LockOwn, CheckReferences, Abort, LockBidang, LockSeksi,
       LockJabatan, LockParent, organization, vars

\* The locks make the interleaved requests look like the rules applied one
\* request at a time.
THEOREM Implements == Spec => RulesSpec
<1>1. Init => RulesInit
  BY DEF Init
<1>2. LockInv /\ [Next]_vars => [RulesNext]_organization
  BY CommitFollowsRules
<1>3. QED
  BY <1>1, <1>2, LocksProtect, PTL DEF Spec, RulesSpec

\* Hence no interleaving breaks the structure.
THEOREM HierarchyHolds == Spec => []Hierarchy
  BY Implements, RulesKeepHierarchy, PTL

\* What each request waits for is held by one that has come further: an own row
\* before everything, then a jabatan, a seksi and a bidang.
LEMMA WaitsForLater ==
    ASSUME LockInv, NEW r \in Request, NEW q \in Request, Waits(r, q)
    PROVE  /\ pc[q] # "own"
           /\ pc[r] = "jabatan" => pc[q] # "jabatan"
           /\ pc[r] = "seksi" => pc[q] \notin {"jabatan", "seksi"}
           /\ pc[r] = "bidang" => pc[q] \notin {"jabatan", "seksi", "bidang"}
<1> USE IdsAssumption, RowFacts DEF LockInv, RequestInv, OwnInv, Payload, Stage, OnlyOwn, IsPegawai, Saves
<1>1. pc[q] # "own"
  BY DEF Waits, BlocksUpdate, BlocksShare
<1>2. ASSUME pc[r] = "jabatan" PROVE pc[q] # "jabatan"
  <2>1. row[r].jabatan \in Jabatan /\ row[r].jabatan \in excl[q]
    BY <1>2 DEF Waits, BlocksShare
  <2>2. QED
    BY <2>1
<1>3. ASSUME pc[r] = "seksi" PROVE pc[q] \notin {"jabatan", "seksi"}
  <2>1. row[r].seksi \in Seksi /\ row[r].seksi \in excl[q]
    BY <1>3 DEF Waits, BlocksShare
  <2>2. id[q] \in Seksi
    BY <2>1
  <2>3. QED
    BY <2>2 DEF SeksiRow
<1>4. ASSUME pc[r] = "bidang" PROVE pc[q] \notin {"jabatan", "seksi", "bidang"}
  <2>1. row[r].bidang \in Bidang /\ row[r].bidang \in excl[q]
    BY <1>4 DEF Waits, BlocksShare
  <2>2. id[q] \in Bidang
    BY <2>1
  <2>3. QED
    BY <2>2 DEF BidangRow
<1>5. QED
  BY <1>1, <1>2, <1>3, <1>4

\* Among any requests, one that has come furthest waits for none of them.
THEOREM LocksNeverDeadlock == Spec => []NoDeadlock
<1>1. ASSUME LockInv, NEW waiting \in SUBSET Request, waiting # {}
      PROVE  \E r \in waiting : \A q \in waiting : ~Waits(r, q)
  <2> DEFINE At(stage) == \E r \in waiting : pc[r] = stage
  <2>1. \A r, q \in waiting : Waits(r, q) =>
            /\ pc[r] \in {"own", "bidang", "seksi", "jabatan"}
            /\ pc[q] # "own"
            /\ pc[r] = "jabatan" => pc[q] # "jabatan"
            /\ pc[r] = "seksi" => pc[q] \notin {"jabatan", "seksi"}
            /\ pc[r] = "bidang" => pc[q] \notin {"jabatan", "seksi", "bidang"}
    BY <1>1, WaitsForLater DEF Waits
  <2>2. CASE \E r \in waiting : pc[r] \notin {"own", "bidang", "seksi", "jabatan"}
    BY <2>1, <2>2
  <2>3. CASE \A r \in waiting : pc[r] \in {"own", "bidang", "seksi", "jabatan"}
    <3>1. CASE At("bidang")
      BY <2>1, <2>3, <3>1
    <3>2. CASE ~At("bidang") /\ At("seksi")
      BY <2>1, <2>3, <3>2
    <3>3. CASE ~At("bidang") /\ ~At("seksi") /\ At("jabatan")
      BY <2>1, <2>3, <3>3
    <3>4. CASE \A r \in waiting : pc[r] = "own"
      BY <2>1, <3>4, <1>1
    <3>5. QED
      BY <2>3, <3>1, <3>2, <3>3, <3>4
  <2>4. QED
    BY <2>2, <2>3
<1>2. LockInv => NoDeadlock
  BY <1>1 DEF NoDeadlock
<1>3. QED
  BY <1>2, LocksProtect, PTL
===============================================================================
