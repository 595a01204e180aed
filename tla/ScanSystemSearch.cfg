SPECIFICATION Spec
CONSTANTS
    Dirs = {1, 2}
    Under <- Pair
    Names = {a}
    Leftover = Leftover
    Scanners = {p}
    Searchers = {q}
    Nothing = Nothing
    MaxChanges = 2
INVARIANTS
    AnswerExact
