SPECIFICATION Spec
CONSTANTS
    c1 = c1
    ann = ann
    bob = bob
    k1 = k1
    b1 = b1
    b2 = b2
    Calls = {c1}
    Agents = {ann, bob}
    AgentOf <- MCAgentOf
    Keys = {k1}
    NoKey = NoKey
    KeyOf <- MCKeyOf
    Batches = {b1, b2}
    Items <- MCItems
    MaxFaults = 1
    MaxVerdicts = 1
    StylesOf <- MCStylesOf
    Targeted = {c1}
    OnDenied = "raise"
    OnEscalate = "return"
INVARIANTS
    KeysUnique
    RunsOnlyApproved
PROPERTIES
    RetriesFindTheirAction
CHECK_DEADLOCK FALSE
