-------------------------- MODULE MCTokenRotation --------------------------
(* Small instances of TokenRotation for TLC. *)
EXTENDS TokenRotation, TLC

\* Coroutines and the ids of each table are interchangeable.
Interchangeable == UNION {Permutations(S) : S \in {Requests, Connections, AccessTokens, RefreshTokens}}

=============================================================================
