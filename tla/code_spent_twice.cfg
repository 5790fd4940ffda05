SPECIFICATION Spec
CONSTANTS
    None = None
    Requests = {r1, r2}
    Users = {u1}
    Clients = {c1}
    Codes = {k1}
    Connections = {n1}
    CodeTTL = 2
    UnusedClientTTL = 2
    MaxTime = 0
SYMMETRY Interchangeable
INVARIANTS CodeSpentOnce
