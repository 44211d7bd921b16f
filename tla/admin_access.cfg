SPECIFICATION Spec
CONSTANTS
    Requests = {r1, r2, r3}
    Tokens = {t1, t2}
    NoToken = NoToken
    States = {s1, s2}
    NoState = NoState
    Sources = {ip}
    listed = listed
    unlisted = unlisted
    domain = domain
    Emails <- MCEmails
    Domains <- MCDomains
    DomainOf <- MCDomainOf
    AllowedEmails <- MCAllowed
    AllowedDomains <- MCDomains
    MaxAttempts = 1
    Window = 2
    Ttl = 1
    MaxTime = 3
    MaxFaults = 1
    MaxRestarts = 1
SYMMETRY MCSymmetry
INVARIANTS
    SessionsLastTheirTime
    LogoutIsFinal
    StatesWorkOnce
    GuessesAreBounded
CHECK_DEADLOCK FALSE
