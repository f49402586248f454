SPECIFICATION HoldSpec
CONSTANTS
    Tabs = {t1, t2}
    MaxLeases = 3
SYMMETRY TabSymmetry
INVARIANTS
    HoldIsSound
PROPERTIES
    SettledForGood
