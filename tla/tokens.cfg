SPECIFICATION Spec
CONSTANTS
    None = None
    Requests = {r1, r2}
    Connections = {n1}
    AccessTokens = {a1, a2, a3}
    RefreshTokens = {t1, t2, t3}
    PersonalTTL = 1
    AccessTTL = 1
    RefreshTTL = 2
    MaxTime = 2
SYMMETRY Interchangeable
INVARIANTS TypeOK HistoryKept
PROPERTIES RevokedNeverServed SpentRemembered
