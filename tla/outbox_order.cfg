SPECIFICATION Spec
CONSTANTS
    MaxMessages = 2
    Drainer = {d1, d2}
    MaxLimits = 1
    MaxRetries = 1
SYMMETRY Symmetry
CONSTRAINT OneDetour
INVARIANTS TypeOK InOrder AtMostOnce
PROPERTY KeepsPromise
