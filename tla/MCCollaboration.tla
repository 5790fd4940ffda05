-------------------------- MODULE MCCollaboration --------------------------
(* Small instances of Collaboration for TLC. *)
EXTENDS Collaboration, TLC

CONSTANTS c1, c2, c3, u1, u2, b1

\* Two connections of one user and one of another.
ThreeConnections == c1 :> u1 @@ c2 :> u1 @@ c3 :> u2

\* A body of one character that takes two bytes.
InChars == b1 :> 1
InBytes == b1 :> 2

Interchangeable == UNION {Permutations(S) : S \in {Requests, Comments, Shares}}

=============================================================================
