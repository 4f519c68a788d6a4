SPECIFICATION FairSpec

CONSTANTS
  Label = {l1}
  Request = {r1, r2, r3}
  Op = {"UploadDocumentation", "UploadLPJ", "UploadDPA", "DeleteDocumentation", "DeleteLPJ", "DeleteDPA", "Delete"}
  Fault = {"ioerror", "lostack"}
  None = None

PROPERTY RequestsFinish
