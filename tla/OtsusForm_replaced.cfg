SPECIFICATION Spec
CONSTANTS
    Photo = {"a"}
    MaxPhotos = 1
    MaxFiles = 3
    Slot = {1}
    None = None
PROPERTY ReplacementPrivate
CHECK_DEADLOCK FALSE
