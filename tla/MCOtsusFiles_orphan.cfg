SPECIFICATION Spec

CONSTANTS
  Label = {l1}
  Request = {r1}
  Op = {"UploadDocumentation"}
  Fault = {"cancel"}
  None = None

INVARIANT FailedUploadLeavesNoBlob
