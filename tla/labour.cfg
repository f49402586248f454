\* One requirement bought and staffed: orders over two dates, then people on
\* the first.  A record of work is two thirds of a shift.
SPECIFICATION MCSpec
CONSTANTS
    Focuses = {"supply", "people"}
    Requirements = {r1}
    Activities = {a1}
    Dates = {1, 2}
    Fingerprints = {mason, painter}
    MaxQty = 2
    MaxTotal = 2
    MaxRequisitions = 1
    MaxOrders = 3
    Workers = {w1, w2}
    Native <- Trades
    ShiftMinutes = 3
    Portions = {2}
    MaxRevision = 2
    MaxHeld = 2
    MaxRows = 2
    MaxSubs = 1
\* A requirement cancelled with nothing to undo is a project at rest.
CHECK_DEADLOCK FALSE
INVARIANTS
    BoughtSoundly
    HeldSoundly
    WithinCapacity
PROPERTY
    ReadyStays
