SPECIFICATION Spec
CONSTANTS
    NPages = 4
    GroupPages = 1
    Value = {0, 1}
    Uses <- StateUses
    HOT_AFTER = 2
    COLD_AFTER = 2
    HOT_MOST = 1
    HEAT_MOST = 2
INVARIANTS
    BaselineKept
PROPERTIES
    LoadExact
CHECK_DEADLOCK FALSE
