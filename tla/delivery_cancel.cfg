SPECIFICATION Spec
CONSTANTS
    Deliveries = {d1, d2}
    Family = {d1, d2}
    Relays = {r1}
    Recoverers = {q1}
    Dispatchers = {p1}
    NoDelivery = none
    Codeless = {}
    MaxAttempts = 2
    ClaimBatch = 2
    SlowSenders = FALSE
    MayDeactivate = FALSE
    FaultyReads = FALSE
    MaxRecipients = 1
    MaxCrashes = 1
    MaxRetries = 0
    MaxToggles = 0
    d1 = d1
    d2 = d2
    r1 = r1
    q1 = q1
    p1 = p1
INVARIANTS
    OneActiveSender
    CancellationComplete
PROPERTIES
    SettledStays
