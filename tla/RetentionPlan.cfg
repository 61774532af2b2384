\* Every core, pool and budget over a five-path store.
CONSTANTS
    app = app   tool = tool   lib = lib   doc = doc   libc = libc
    Paths <- MCPaths
    Refs <- MCRefs
    Charge <- MCCharge
    Value <- MCValue
    Budgets <- MCBudgets
SPECIFICATION PlanSpec
INVARIANTS
    PlanTypeOK
    KeepIsPlan
    UsedIsCharge
    WithinBudget
    EvictedDidNotFit
CHECK_DEADLOCK FALSE
