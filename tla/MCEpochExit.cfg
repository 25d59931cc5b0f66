SPECIFICATION Spec
CONSTANTS
    Participants = {p1, p2, p3}
    Objects = {}
    MaxObjects = 2
    PinningsBetweenCollect = 1
    CollectSteps = 1
    MaxGuards = 1
    MaxEpoch = 4
SYMMETRY Symmetry
CONSTRAINTS ExitsOnly TwoCalls
INVARIANT NoUseOfFreedLocal
