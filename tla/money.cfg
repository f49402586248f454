SPECIFICATION MCSpec
CONSTANTS
    Focuses = {"stock", "work", "advance", "cash"}
    Bills = {1, 2}
    Lines = {"stock", "work"}
    Labour = {"work"}
    Rows = {1, 2, 3}
    LineOf <- LastRowLabour
    Ordered <- MoreStock
    People = {clerk, manager}
    Clerk = clerk
    Manager = manager
    clerk = clerk
    manager = manager
    Nobody = nobody
    Ceiling <- NoCeiling
    Amounts = {1, 2}
    MaxCerts = 3
    MaxApprovals = 2
    MaxPayments = 2
    MaxHeld = 2
    MaxAdvanced = 1
    MaxLedger = 6
    FewCerts = 2
INVARIANTS
    MoneyIsCovered
    ClaimsWithinEvidence
    FrozenEvidenceStands
PROPERTIES
    WithholdingStands
CHECK_DEADLOCK FALSE
