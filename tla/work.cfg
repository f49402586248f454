SPECIFICATION MCSpec
CONSTANTS
    Focuses = {"review", "dispute"}
    Activities = {a1, a2}
    Decisions = {d1}
    People = {p1, p2}
    Nobody = nobody
    NoDecision = none
    MaxInspections = 3
    MaxLogs = 2
    MaxDisputes = 1
    MaxCalls = 1
    Foreman = p1
    FewInspections = 2
INVARIANTS
    ReviewsStand
    ProgressIsKept
PROPERTIES
    SubmitterHoldsWork
    LabourStillHeld
CHECK_DEADLOCK FALSE
