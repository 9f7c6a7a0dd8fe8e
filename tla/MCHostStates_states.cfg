SPECIFICATION MCSpec
CONSTANTS
    Pages <- MCPages
    Calls <- MCCalls
    Budgets <- MCBudgets
    Habits = {"alive", "prompt", "consecutive"}
    Hosts = {a, b, c}
    Exports = {a}
    NoHost = none
    NPages = 10
    GroupPages = 3
    BigRequest = 4
    Arenas <- MCArenas
    StateFrees <- MCStateFrees
INVARIANTS
    WholeStateLoads
    DeltasLand
    LiveMachineWhole
    NothingDangles
    
    PlacesAsPageWalk
CHECK_DEADLOCK FALSE
