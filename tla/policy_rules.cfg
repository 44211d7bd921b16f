SPECIFICATION PoliciesSpec
CONSTANTS
    Null = Null
    Unnamed = Unnamed
    h1 = h1
    h2 = h2
    Editors = {h1, h2}
    Rules <- MCRules
    Nesting <- MCNesting
    RuleSets <- MCRuleSets
    Inputs <- MCInputs
    Tables <- MCTables
    MaxPolicies = 2
    MaxEdits = 2
    MaxFaults = 1
    MaxDrops = 1
SYMMETRY MCSymmetry
INVARIANTS
    DeniedIfCondemned
    SimulationPredicts
    TyposOnlyTighten
    EditsLeaveTraces
PROPERTIES
    OnlyAnUpdateActivates
CHECK_DEADLOCK FALSE
