SPECIFICATION Spec
CONSTANTS
    N = 3
    Threads = 3
    Manifests = {m1, m2}
    Errors = {e1, e2}
    Empty = Empty
CHECK_DEADLOCK FALSE
INVARIANTS
    SlotsRaceFree
    NoWorkerOutlivesTheCall
    EverySlotAnswered
PROPERTIES
    CallEnds
    ImplementsSequentialLoad
