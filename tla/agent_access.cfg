SPECIFICATION Spec
CONSTANTS
    MaxTime = 3
    Agents = {a1, a2}
    Keys = {k1, k2}
    NoAgent = NoAgent
    NoKey = NoKey
    Requests = {r1, r2}
    Changes = {c1, c2, c3}
    JwtLife = 1
    Leeway = 1
    MaxFaults = 1
SYMMETRY MCSymmetry
INVARIANTS
    RevocationIsImmediate
    CredentialsKeepTheirAgent
    ExpiredKeysAreRefused
    AccessEndsWithTheKey
CHECK_DEADLOCK FALSE
