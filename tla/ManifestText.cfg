SPECIFICATION Spec
CONSTANTS
    Chars <- Characters
    Disks <- Directories
    UserLines <- Lines
    Ulids <- Identifiers
    Hashes <- Fingerprints
    MaxEdits = 2
INVARIANTS TypeOK SavedReadBack ReadsTheLastSection
 
