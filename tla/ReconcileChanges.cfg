SPECIFICATION Spec
CONSTANTS
    Names = {1, 2, 3}
    Inodes = {i1, i2, i3}
    NoFile = NoFile
    Extractions = {TRUE}
    InitialFiles <- AllSubsets
    ChangePhases = {"idle"}
    MaxOps = 4
    MaxScans = 2
SYMMETRY MCSymmetry
CHECK_DEADLOCK FALSE
INVARIANTS
    PresentFilesKept
    NoMoreRecordsThanFiles
    
    CountersBalance
