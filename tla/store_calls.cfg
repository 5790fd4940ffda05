SPECIFICATION FairSpec
CONSTANTS
    r1 = r1  r2 = r2  r3 = r3
    c1 = c1  c2 = c2  c3 = c3
    a1 = a1  a2 = a2
    u1 = u1  u2 = u2
    None = None
    Requests = {r1, r2}
    Connections = {c1, c2, c3}
    Users = {u1, u2}
    UserOf <- TwoUsers
    Artifacts = {a1, a2}
    Sizes = {1}
    MaxArtifactsPerConnection = 1
    MaxBytesPerArtifact = 1
    MaxTotalBytesPerConnection = 3
    MaxVersionsPerArtifact = 1
    VersionBound = 2
    Workload = {"publish", "update", "reassign", "delete", "deleteVersion", "prune"}
INVARIANTS ArtifactCountBounded VersionRowsBounded NoOrphanRows
PROPERTIES UserKept CallsEnd
