SPECIFICATION FleetSpec
CONSTANTS
    old = old
    new = new
    Procs = {old, new}
    Generation <- OldAndNew
    Generations = {1, 2}
    TTL = 4
    Margin = 2
    Hold = 3
    HoldMargin = 2
    Late = 1
    MaxTime = 6
    Drops = FALSE
INVARIANTS
    FleetIsFenced
    DrainIsFinal
PROPERTIES
    NoStaleListener
CHECK_DEADLOCK FALSE
