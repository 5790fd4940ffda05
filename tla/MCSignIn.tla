------------------------------ MODULE MCSignIn ------------------------------
(* Small instances of SignIn for TLC. *)
EXTENDS SignIn, TLC

\* Coroutines, people and the ids of each table are interchangeable.
Interchangeable == UNION {Permutations(S) : S \in {Requests, Emails, Subjects, States, Sessions}}

=============================================================================
