SPECIFICATION Spec
CONSTANTS
    Names = {1, 2}
    Inodes = {i1, i2}
    NoFile = NoFile
    Extractions = {TRUE}
    InitialFiles <- AllSubsets
    ChangePhases = {"idle", "list", "loop", "sweep", "save"}
    MaxOps = 1
    MaxScans = 2
CHECK_DEADLOCK FALSE
PROPERTY EditsDuringScanKept
