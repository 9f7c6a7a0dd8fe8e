SPECIFICATION Spec
CONSTANTS
    NPages = 2
    GroupPages = 2
    Value = {0, u, v}
    Uses <- TrackUses
    HOT_AFTER = 2
    COLD_AFTER = 2
    HOT_MOST = 1
    HEAT_MOST = 2
SYMMETRY Sym
INVARIANTS
    WritesHeard
    DeltaExact
    PlanExact
PROPERTIES
    ApplyExact
CHECK_DEADLOCK FALSE
