SPECIFICATION Spec
CONSTANTS
    Threads = {t1, t2}
    Cap = 1
    Scenarios <- ForceScenarios
    MaxPushes = 3
SYMMETRY Symmetry
PROPERTY ObserversAgree
