-------------------------- MODULE MCArtifactStore --------------------------
(* Small instances of ArtifactStore for TLC. *)
EXTENDS ArtifactStore, TLC

CONSTANTS r1, r2, r3, c1, c2, c3, a1, a2, u1, u2

\* One connection, two of one user, and a third of another user.
OneConnection  == c1 :> u1
TwoConnections == c1 :> u1 @@ c2 :> u1
TwoUsers       == c1 :> u1 @@ c2 :> u1 @@ c3 :> u2

\* Calls and artifacts are interchangeable; connections are not (UserOf).
Interchangeable == Permutations(Requests) \cup Permutations(Artifacts)

=============================================================================
