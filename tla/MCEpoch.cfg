SPECIFICATION Spec
CONSTANTS
    Participants = {p1, p2}
    Objects = {o1}
    MaxObjects = 1
    PinningsBetweenCollect = 2
    CollectSteps = 1
    MaxGuards = 2
    MaxEpoch = 3
SYMMETRY Symmetry
CONSTRAINT NestEarly
INVARIANTS
    Inv
    AssertionsHold
    DeferredRunsAfterUnpin
    OneAdvancePerPin
    DeferredInOnePlace
    NothingLeaked
PROPERTY EpochNeverRegresses
