SPECIFICATION Spec

CONSTANTS
  Label = {l1, l2}
  Request = {r1, r2, r3, r4}
  Op = {"UploadDocumentation", "UploadLPJ", "UploadDPA", "DeleteDocumentation", "DeleteDPA"}
  Fault = {"dberror"}
  None = None

SYMMETRY Symmetry

INVARIANT ActiveIsListed
INVARIANT BlobsAccounted
