SPECIFICATION Spec
CONSTANTS
    Null = Null
    Unnamed = Unnamed
    None = None
    a1 = a1
    a2 = a2
    w1 = w1
    w2 = w2
    h1 = h1
    ann = ann
    Actions = {a1, a2}
    Workers = {w1, w2}
    Editors = {h1}
    AgentOf <- MCAgentOf
    Inputs <- MCInputs
    Injected <- MCInjected
    Attempts <- MCAttempts
    Rules <- MCRules
    Nesting <- MCNesting
    RuleSets <- MCRuleSets
    Tables <- MCTables
    DryRun = FALSE
    DayLength = 1
    MaxTime = 1
    MaxPolicies = 2
    MaxEdits = 1
    MaxFaults = 1
    MaxDrops = 0
SYMMETRY Symmetry
INVARIANTS
    ApprovalIsEarned
    ConcurrencyHolds
    BudgetHolds
    RateHoldsByDay
CHECK_DEADLOCK FALSE
