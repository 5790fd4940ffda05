SPECIFICATION Spec
CONSTANTS
    None = None
    Requests = {r1, r2}
    Users = {u1, u2}
    Clients = {c1, c2}
    Codes = {k1, k2}
    Connections = {n1, n2}
    CodeTTL = 1
    UnusedClientTTL = 1
    MaxTime = 1
SYMMETRY Interchangeable
INVARIANTS TypeOK OneActiveConnection OnlyConsented ApprovedWhereStarted
