--------------------------- MODULE MCOAuthGrants ---------------------------
(* Small instances of OAuthGrants for TLC. *)
EXTENDS OAuthGrants, TLC

\* Coroutines, users, clients, codes and connections are all interchangeable.
Interchangeable == UNION {Permutations(S) : S \in {Requests, Users, Clients, Codes, Connections}}

=============================================================================
