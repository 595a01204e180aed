SPECIFICATION Spec
CONSTANTS
    Names = {1, 2, 3}
    Inodes = {i1, i2, i3}
    NoFile = NoFile
    Extractions = {TRUE, FALSE}
    InitialFiles <- AllSubsets
    ChangePhases = {"idle", "list", "loop", "sweep", "save"}
    MaxOps = 2
    MaxScans = 2
SYMMETRY MCSymmetry
CHECK_DEADLOCK FALSE
INVARIANTS
    IdentitiesDistinct
    MetadataFollowsIdentity
    ExactUnlessShiftedOrStolen
