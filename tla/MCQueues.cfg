SPECIFICATION MCSpec
CONSTANTS
    Threads = {t1, t2, t3}
    Cap = 2
    Scenarios <- MCScenarios
    MaxPushes = 3
    Two = {p1, p2}
    SegPushes = 4
    BlockCap = 2
    MaxEntries = 3
    MaxIters = 2
    w1 = w1
    w2 = w2
    w3 = w3
SYMMETRY Symmetry
INVARIANTS
    SlotExclusive
    FreedOnce
    IterationComplete
    OneOwner
PROPERTIES
    QueuesImplemented
    ObserversTrue
    DropsTheRest
