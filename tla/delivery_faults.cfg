SPECIFICATION FairSpec
CONSTANTS
    Deliveries = {d1}
    Family = {d1}
    Relays = {}
    Recoverers = {q1}
    Dispatchers = {p1}
    NoDelivery = none
    Codeless = {p1}
    MaxAttempts = 2
    ClaimBatch = 2
    SlowSenders = TRUE
    MayDeactivate = TRUE
    FaultyReads = TRUE
    MaxRecipients = 2
    MaxCrashes = 1
    MaxRetries = 1
    MaxToggles = 1
    d1 = d1
    q1 = q1
    p1 = p1
INVARIANTS
    RowsSettleHonestly
    OvertakenOnce
PROPERTIES
    EverySettles
CHECK_DEADLOCK FALSE
