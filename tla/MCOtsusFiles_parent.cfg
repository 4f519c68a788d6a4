SPECIFICATION Spec

CONSTANTS
  Label = {l1}
  Request = {r1, r2}
  Op = {"UploadDocumentation", "Delete"}
  Fault = {}
  None = None

SYMMETRY Symmetry

INVARIANT ParentDeletionCoversFiles
