SPECIFICATION Spec

CONSTANTS
  Label = {l1}
  Request = {r1, r2, r3}
  Op = {"UploadDocumentation", "UploadLPJ", "UploadDPA", "DeleteDocumentation", "DeleteLPJ", "DeleteDPA", "Delete"}
  Fault = {"dberror", "ioerror", "cancel", "crash"}
  None = None

SYMMETRY Symmetry

INVARIANT TypeOK
INVARIANT ActiveHasBlob
INVARIANT ListedIsActive
INVARIANT ChildrenUnique
PROPERTY RegisterSpec
