SPECIFICATION Spec
CONSTANTS
    r1 = r1  r2 = r2  r3 = r3
    c1 = c1  c2 = c2  c3 = c3
    a1 = a1  a2 = a2
    u1 = u1  u2 = u2
    None = None
    Requests = {r1}
    Connections = {c1, c2}
    Users = {u1, u2}
    UserOf <- TwoConnections
    Artifacts = {a1, a2}
    Sizes = {1, 2}
    MaxArtifactsPerConnection = 2
    MaxBytesPerArtifact = 2
    MaxTotalBytesPerConnection = 3
    MaxVersionsPerArtifact = 2
    VersionBound = 3
    Workload = {"publish", "update", "reassign"}
SYMMETRY Interchangeable
INVARIANTS BytesBounded
