SPECIFICATION Spec
CONSTANTS
    Threads = {t1, t2, t3}
    NumShards = 2
    Calls = {"read", "try_read", "write", "try_write"}
    MaxCalls = 2
SYMMETRY Symmetry
INVARIANTS
    Exclusion
    OwnGuards
    PoisonAgrees
    IndicesDiffer
