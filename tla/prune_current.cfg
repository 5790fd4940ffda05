SPECIFICATION Spec
CONSTANTS
    r1 = r1  r2 = r2  r3 = r3
    c1 = c1  c2 = c2  c3 = c3
    a1 = a1  a2 = a2
    u1 = u1  u2 = u2
    None = None
    Requests = {r1, r2}
    Connections = {c1}
    Users = {u1, u2}
    UserOf <- OneConnection
    Artifacts = {a1}
    Sizes = {1}
    MaxArtifactsPerConnection = 1
    MaxBytesPerArtifact = 1
    MaxTotalBytesPerConnection = 3
    MaxVersionsPerArtifact = 2
    VersionBound = 3
    Workload = {"publish", "update", "prune"}
SYMMETRY Interchangeable
INVARIANTS CurrentVersionStored
