SPECIFICATION Spec
CONSTANTS
    Words <- Vocabulary
    Weight <- Logarithms
    Unit = 1000
    MaxDocs = 3
    None = None
    Missing = Missing
    Libraries <- Shelves
    Queries <- Asked
    Limits = {0, 2, 9}
    MaxRaw = 36
CHECK_DEADLOCK FALSE
INVARIANTS CoverageFirst EveryMatchRanked AnswerIsBest IndexReadBack 
PROPERTIES ImplementsRanking 
