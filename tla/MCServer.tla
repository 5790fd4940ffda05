------------------------------ MODULE MCServer ------------------------------
(* A small instance of Site for TLC. *)
EXTENDS Site

\* Two of _RULES: a counting one with the short window, the login rule with the long.
Attempts  == [b \in Buckets |-> IF b = "login_ip" THEN 1 ELSE 2]
Windows   == [b \in Buckets |-> IF b = "login_ip" THEN 2 ELSE 1]
Counting  == [b \in Buckets |-> b # "login_ip"]

=============================================================================
