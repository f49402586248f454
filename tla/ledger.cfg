SPECIFICATION MCSpec
CONSTANTS
    Calls = {c1, c2, c3}
    c1 = c1
    c2 = c2
    c3 = c3
    o1 = o1
    o2 = o2
    k1 = k1
    k2 = k2
    make = make
    cas = cas
    uniq = uniq
    NoKey = NoKey
    Nobody = Nobody
    Owners = {o1, o2}
    Keys = {k1, k2}
    Requests = {make, cas, uniq}
    CasRequests = {cas}
    UniqueRequests = {uniq}
    Commands <- MCCommands
INVARIANTS
    LedgerIsSound
    OneShotOnce
    AnswersAreTrue
    RetryIsReplayed
PROPERTIES
    EveryCallEnds
    IdempotentSpec
