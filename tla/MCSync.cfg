SPECIFICATION MCSpec
CONSTANTS
    Unparkers = {t1, t2, t3}
    Modes = {"forever", "deadline"}
    MaxUnparks = 2
    NoThread = NoThread
    MaxClones = 4
    MaxChildren = 3
INVARIANTS
    ParkStateConsistent
    WaitsForAll
PROPERTIES
    ImplementsToken
    BlockedReturn
