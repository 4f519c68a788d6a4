SPECIFICATION MCSpec

CONSTANTS
  Bidang = {b1, b2}
  Seksi = {s1}
  Jabatan = {j1}
  Pegawai = {p1}
  Request = {r1, r2}
  FileRequest = {u1, u2, u3}
  Fault = {"dberror", "ioerror", "cancel", "crash"}
  None = None

SYMMETRY Symmetry

INVARIANT TypeOK
INVARIANT Hierarchy
INVARIANT NoDeadlock
PROPERTY RulesSpec
INVARIANT FilesAccounted
PROPERTY PhotosAndDocuments
