SPECIFICATION Spec
CONSTANTS
    NPages = 4
    GroupPages = 1
    Value = {0, 1}
    Uses <- MoveUses
    HOT_AFTER = 3
    COLD_AFTER = 3
    HOT_MOST = 1
    HEAT_MOST = 3
INVARIANTS
    DeltaExact
CHECK_DEADLOCK FALSE
