SPECIFICATION Spec
CONSTANTS
    Names = {1, 2, 3, 4}
    Inodes = {i1, i2, i3}
    NoFile = NoFile
    Extractions = {TRUE}
    InitialFiles <- SecondAndFourth
    ChangePhases = {"idle"}
    MaxOps = 4
    MaxScans = 2
SYMMETRY MCSymmetry
CHECK_DEADLOCK FALSE
INVARIANT UserMetadataSurvives
