--------------------------- MODULE OrganizationRules ---------------------------
(***************************************************************************)
(* The rules of the organization structure, as if each request were alone: *)
(* masters (bidang, seksi, jabatan) and employees change one at a time,    *)
(* and each change is checked against the very state it changes.           *)
(***************************************************************************)
CONSTANTS
    Bidang, Seksi, Jabatan,   \* ids of organisasi_bidang, _seksi and _jabatan
    Pegawai,                  \* ids of arsip_pegawai
    None

Master == Bidang \cup Seksi \cup Jabatan

ASSUME IdsAssumption ==
    /\ Bidang \cap Seksi = {} /\ Bidang \cap Jabatan = {} /\ Seksi \cap Jabatan = {}
    /\ Master \cap Pegawai = {}
    /\ None \notin Master \cup Pegawai

VARIABLES
    master,    \* the committed masters: their status and their parents
    pegawai    \* the committed employees: the masters they select

organization == <<master, pegawai>>

\* ValidateOrganizationPayload: which parents a master of each table has.
BidangRow  == [active : BOOLEAN, bidang : {None}, seksi : {None}]
SeksiRow   == [active : BOOLEAN, bidang : Bidang, seksi : {None}]
JabatanRow == [active : BOOLEAN, bidang : Bidang, seksi : Seksi \cup {None}]

MutMasterRow(i) == IF i \in Bidang THEN BidangRow ELSE JabatanRow
MasterRow(i) ==
    IF i \in Bidang THEN BidangRow ELSE IF i \in Seksi THEN SeksiRow ELSE JabatanRow

\* resolvePegawaiOrganization: bidang and jabatan are required, seksi is not.
PegawaiRow == [bidang : Bidang, seksi : Seksi \cup {None}, jabatan : Jabatan]

ASSUME RowsAssumption == None \notin BidangRow \cup SeksiRow \cup JabatanRow \cup PegawaiRow

\* organizationReferences: a master or an employee points to i.
Referenced(i) ==
    \/ \E m \in Master : master[m] # None /\ i \in {master[m].bidang, master[m].seksi}
    \/ \E p \in Pegawai : pegawai[p] # None
          /\ i \in {pegawai[p].bidang, pegawai[p].seksi, pegawai[p].jabatan}

\* A selection needs a master that is there and active.  An inactive one may
\* only be kept: kept says that the row saved had selected it before.
Selectable(i, kept) == master[i] # None /\ (master[i].active \/ kept)

KeepsBidang(current, row)  == current # None /\ current.bidang = row.bidang
KeepsSeksi(current, row)   == current # None /\ current.seksi = row.seksi
KeepsJabatan(current, row) == current # None /\ current.jabatan = row.jabatan

BidangFits(current, row) == Selectable(row.bidang, KeepsBidang(current, row))
SeksiFits(current, row) ==
    /\ Selectable(row.seksi, KeepsSeksi(current, row))
    /\ master[row.seksi].bidang = row.bidang
JabatanFits(current, row) ==
    /\ Selectable(row.jabatan, KeepsJabatan(current, row))
    /\ master[row.jabatan].bidang = row.bidang
    /\ master[row.jabatan].seksi \in {None, row.seksi}

\* A master that is referenced keeps its parents.
Moves(i, row) == ~(KeepsBidang(master[i], row) /\ KeepsSeksi(master[i], row))

SaveMaster(i, row) ==
    /\ master[i] # None /\ Moves(i, row) => ~Referenced(i)
    /\ row.bidang # None => BidangFits(master[i], row)
    /\ row.seksi # None => SeksiFits(master[i], row)
    /\ master' = [master EXCEPT ![i] = row]
    /\ UNCHANGED pegawai

DeleteMaster(i) ==
    /\ master[i] # None /\ ~Referenced(i)
    /\ master' = [master EXCEPT ![i] = None]
    /\ UNCHANGED pegawai

SavePegawai(p, row) ==
    /\ BidangFits(pegawai[p], row)
    /\ row.seksi # None => SeksiFits(pegawai[p], row)
    /\ JabatanFits(pegawai[p], row)
    /\ pegawai' = [pegawai EXCEPT ![p] = row]
    /\ UNCHANGED master

DeletePegawai(p) ==
    /\ pegawai' = [pegawai EXCEPT ![p] = None]
    /\ UNCHANGED master

RulesInit ==
    /\ master  = [i \in Master |-> None]
    /\ pegawai = [p \in Pegawai |-> None]

RulesNext ==
    \/ \E i \in Master : DeleteMaster(i) \/ \E row \in MasterRow(i) : SaveMaster(i, row)
    \/ \E p \in Pegawai : DeletePegawai(p) \/ \E row \in PegawaiRow : SavePegawai(p, row)

RulesSpec == RulesInit /\ [][RulesNext]_organization

-------------------------------------------------------------------------------
\* Each master has the parents of its table, each employee the required selections.
RulesTypeOK ==
    /\ master \in [Master -> BidangRow \cup SeksiRow \cup JabatanRow \cup {None}]
    /\ \A i \in Bidang : master[i] \in BidangRow \cup {None}
    /\ \A i \in Seksi : master[i] \in SeksiRow \cup {None}
    /\ \A i \in Jabatan : master[i] \in JabatanRow \cup {None}
    /\ pegawai \in [Pegawai -> PegawaiRow \cup {None}]

\* The structure is a tree the employees fit in: every parent and every
\* selection is there; a jabatan's seksi, an employee's seksi and an employee's
\* jabatan belong to the bidang chosen beside them; and the jabatan of a seksi is
\* held in that seksi (no foreign key says so).
Hierarchy ==
    /\ \A i \in Master : master[i] # None =>
          /\ master[i].bidang # None => master[master[i].bidang] # None
          /\ master[i].seksi # None =>
                /\ master[master[i].seksi] # None
                /\ master[master[i].seksi].bidang = master[i].bidang
    /\ \A p \in Pegawai : pegawai[p] # None =>
          /\ master[pegawai[p].bidang] # None
          /\ pegawai[p].seksi # None =>
                /\ master[pegawai[p].seksi] # None
                /\ master[pegawai[p].seksi].bidang = pegawai[p].bidang
          /\ master[pegawai[p].jabatan] # None
          /\ master[pegawai[p].jabatan].bidang = pegawai[p].bidang
          /\ master[pegawai[p].jabatan].seksi \in {None, pegawai[p].seksi}
===============================================================================
