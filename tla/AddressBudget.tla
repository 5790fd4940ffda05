--------------------------- MODULE AddressBudget ---------------------------
(***************************************************************************)
(* What rate_limit.py promises a client address: a call is let in exactly  *)
(* when fewer than MaxAttempts attempts of its bucket lie within Window.   *)
(* A counting rule charges the call as it comes in, the login rule only    *)
(* once it is answered.  AddressLimits keeps lists of times instead, which *)
(* it prunes when it is asked and sweeps now and then.                     *)
(***************************************************************************)
EXTENDS Integers, FiniteSets

CONSTANTS Calls, Addresses, Buckets, MaxAttempts, Window, CountOnSuccess, MaxTime, NoKey

VARIABLES
    up,      \* a server answers
    now,
    spent,   \* the attempts within the window, by bucket and address
    call     \* each call: waiting, inside, passed, refused or gone

budget == <<up, now, spent, call>>

Keys    == Buckets \X Addresses
Waiting == [at |-> "waiting", key |-> NoKey]

Budgeted == /\ ~up /\ now = 0
            /\ spent = [k \in Keys |-> {}]
            /\ call = [c \in Calls |-> Waiting]

Charge(c, k) == spent' = [spent EXCEPT ![k] = @ \cup {[of |-> c, at |-> now]}]

LetIn(c, k) ==
    /\ up /\ call[c] = Waiting /\ Cardinality(spent[k]) < MaxAttempts[k[1]]
    /\ \/ /\ CountOnSuccess[k[1]] /\ Charge(c, k)
          /\ call' = [call EXCEPT ![c] = [at |-> "passed", key |-> k]]
       \/ /\ ~CountOnSuccess[k[1]] /\ UNCHANGED spent
          /\ call' = [call EXCEPT ![c] = [at |-> "inside", key |-> k]]
    /\ UNCHANGED <<up, now>>

Refuse(c, k) ==
    /\ up /\ call[c] = Waiting /\ Cardinality(spent[k]) >= MaxAttempts[k[1]]
    /\ call' = [call EXCEPT ![c] = [at |-> "refused", key |-> k]]
    /\ UNCHANGED <<up, now, spent>>

Conclude(c) ==
    /\ up /\ call[c].at = "inside"
    /\ call' = [call EXCEPT ![c].at = "passed"]
    /\ Charge(c, call[c].key) \/ UNCHANGED spent
    /\ UNCHANGED <<up, now>>

TimePasses ==
    /\ now < MaxTime /\ now' = now + 1
    /\ spent' = [k \in Keys |-> {e \in spent[k] : e.at > now' - Window[k[1]]}]
    /\ UNCHANGED <<up, call>>

Starts == ~up /\ up' /\ UNCHANGED <<now, spent, call>>

\* The counters live in one process and end with it; nothing else forgets them.
Ends ==
    /\ up /\ ~up'
    /\ spent' = [k \in Keys |-> {}]
    /\ call' = [c \in Calls |-> IF call[c].at = "inside" THEN [call[c] EXCEPT !.at = "gone"] ELSE call[c]]
    /\ UNCHANGED now

BudgetNext == \/ \E c \in Calls, k \in Keys : LetIn(c, k) \/ Refuse(c, k)
              \/ \E c \in Calls : Conclude(c)
              \/ TimePasses \/ Starts \/ Ends

BudgetSpec == Budgeted /\ [][BudgetNext]_budget

=============================================================================
