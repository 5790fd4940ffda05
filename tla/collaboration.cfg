SPECIFICATION Spec
CONSTANTS
    c1 = c1  c2 = c2  c3 = c3
    u1 = u1  u2 = u2
    b1 = b1
    None = None
    Requests = {r1, r2}
    Users = {u1, u2}
    Connections = {c1, c2, c3}
    UserOf <- ThreeConnections
    Artifacts = {a1}
    Comments = {k1, k2, k3}
    Shares = {s1, s2}
    Bodies = {b1}
    Chars <- InChars
    Bytes <- InBytes
    MaxCommentsPerArtifact = 1
    MaxCommentBytesPerArtifact = 3
SYMMETRY Interchangeable
INVARIANTS TypeOK NothingDangles CommentsBounded OneSharePerRecipient NotSharedWithOwner AuthorsAllowed
