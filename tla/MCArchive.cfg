SPECIFICATION Spec
CONSTANTS
    Names <- Selectable
    Lower <- LowerCase
    MaxFiles = 4
    MaxSize = 2
    MaxEntries = 3
    CountWrap = 6
    Changes = TRUE
INVARIANTS
    ArchiveWhole
    NamesDiffer
CHECK_DEADLOCK FALSE
