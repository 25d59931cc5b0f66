SPECIFICATION MCSpec
CONSTANTS
    w1 = w1
    w2 = w2
    w3 = w3
    t1 = t1
    t2 = t2
    Threads = {u1, u2, u3}
    Cells = {p, q}
    Base = 2
    Calls <- CellCalls
    Locks = {k}
    LockOf <- OneLock
    MaxCalls = 1
INVARIANT OneEntryPerKey
