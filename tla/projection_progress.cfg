SPECIFICATION FairSpec
CONSTANTS
    Projects = {p1, p2}
    Relays = {w1}
    Rebuilders = {}
    Readers = {}
    Free = free
    Preloaded = {}
    MaxEvents = 2
    MaxGenerations = 1
    MaxAttempts = 2
    ClaimBatch = 4
    MaxFaults = 2
    MaxCrashes = 0
    MaxRetries = 0
    p1 = p1
    p2 = p2
    w1 = w1
PROPERTIES
    EveryEventIsApplied
CHECK_DEADLOCK FALSE
