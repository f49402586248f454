SPECIFICATION MCSpec
CONSTANTS
    Required = 2
    LineQtys = {2}
    OrderQtys = {1, 2}
    Overages = {0}
    MaxRequisitions = 1
    MaxOrders = 2
    Locations = {main, yard}
    Activities = {a1, a2}
    MoveQtys = {1, 2}
    Outside = outside
    MaxLots = 2
    MaxRows = 7
    Focuses = {"chain", "store"}
    ShortLedger = 3
    Adjustments = 1
    main = main
    yard = yard
    a1 = a1
    a2 = a2
SYMMETRY StockSymmetry
INVARIANTS
    ReceiptsAccounted
    HoldingsAreOwned
PROPERTIES
    IssueKeepsCoverage
CHECK_DEADLOCK FALSE
