SPECIFICATION Spec
CONSTANTS
    short = short
    long = long
    Savers = {s1, s2}
    Readers = {r1}
    Documents <- ShortAndLong
    Length <- Lengths
    Hole = Hole
    Nothing = Nothing
    Inodes = {i1, i2, i3, i4}
    NoInode = NoInode
    MaxSaves = 3
SYMMETRY MCSymmetry
INVARIANTS
    WholeUnlessOverlapped
PROPERTIES
    LoneSaveExact
    ImplementsAtomicFile
