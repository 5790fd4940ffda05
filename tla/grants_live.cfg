SPECIFICATION FairSpec
CONSTANTS
    None = None
    Requests = {r1, r2}
    Users = {u1}
    Clients = {c1}
    Codes = {k1, k2}
    Connections = {n1}
    CodeTTL = 1
    UnusedClientTTL = 1
    MaxTime = 1
PROPERTIES ExpiredCodesGo GrantsEnd
