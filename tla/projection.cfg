SPECIFICATION Spec
CONSTANTS
    Projects = {p1}
    Relays = {w1, w2}
    Rebuilders = {b1}
    Readers = {x1}
    Free = free
    Preloaded = {p1}
    MaxEvents = 2
    MaxGenerations = 2
    MaxAttempts = 1
    ClaimBatch = 1
    MaxFaults = 1
    MaxCrashes = 1
    MaxRetries = 1
    p1 = p1
    w1 = w1
    w2 = w2
    b1 = b1
    x1 = x1
SYMMETRY RelaySymmetry
CONSTRAINT OneTrouble
INVARIANTS
    NoEventIsLost
    ServedIsCurrent
PROPERTIES
    ServingAdvances
CHECK_DEADLOCK FALSE
