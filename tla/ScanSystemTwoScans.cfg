SPECIFICATION Spec
CONSTANTS
    Dirs = {1, 2}
    Under <- Pair
    Names = {a}
    Leftover = Leftover
    Scanners = {p1, p2}
    Searchers = {}
    Nothing = Nothing
    MaxChanges = 1
PROPERTY ScanExact
PROPERTY CommandsEnd
