SPECIFICATION Spec
CONSTANTS
    None = None
    Requests = {r1, r2}
    Emails = {e1, e2}
    Subjects = {s1, s2}
    States = {x1, x2}
    Sessions = {n1}
    Schemes = {"password", "oidc"}
    AllowSignup = TRUE
    MaxAttempts = 2
    Window = 2
    StateTTL = 1
    MaxTime = 2
SYMMETRY Interchangeable
INVARIANTS TypeOK NoTakeover StateFundsOne 
PROPERTIES SchemeLocked
