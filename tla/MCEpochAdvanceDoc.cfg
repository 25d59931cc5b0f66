SPECIFICATION Spec
CONSTANTS
    Participants = {p1, p2}
    Objects = {}
    MaxObjects = 1
    PinningsBetweenCollect = 1
    CollectSteps = 1
    MaxGuards = 1
    MaxEpoch = 3
SYMMETRY Symmetry
PROPERTY AdvanceOnlyIfAllCurrent
