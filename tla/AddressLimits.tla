--------------------------- MODULE AddressLimits ---------------------------
(***************************************************************************)
(* rate_limit.py: the attempts of each (bucket, client address) in the     *)
(* memory of one process.  A call goes through RateLimitMiddleware once;   *)
(* between the middleware's check and its count lies the whole request     *)
(* where a rule counts failures only (login_ip).                           *)
(***************************************************************************)
EXTENDS Integers, FiniteSets

CONSTANTS
    Calls,            \* requests to limited routes, one each
    Addresses, Buckets,
    MaxAttempts, Window, CountOnSuccess,     \* the columns of _RULES, by bucket
    MaxTime,          \* model bound on the clock
    NoKey

ASSUME RulesAssumption ==
    /\ MaxAttempts \in [Buckets -> Nat] /\ Window \in [Buckets -> Nat \ {0}]
    /\ CountOnSuccess \in [Buckets -> BOOLEAN]
ASSUME LongestRuleAssumption == \E b \in Buckets : \A other \in Buckets : Window[other] <= Window[b]
ASSUME ClockAssumption == MaxTime \in Nat

VARIABLES
    now,
    attempts,   \* _attempts: the times recorded, each with the call it stands for
    call

limits == <<now, attempts, call>>

Keys    == Buckets \X Addresses
Entry   == [of : Calls, at : Nat]
Waiting == [at |-> "waiting", key |-> NoKey]
Fates   == {"inside", "passed", "refused", "gone"}

\* _MAX_WINDOW; mutated: a sweep that knows only the shortest rule.
MinWindow == Window[CHOOSE b \in Buckets : \A other \in Buckets : Window[other] >= Window[b]]
MaxWindow == Window[CHOOSE b \in Buckets : \A other \in Buckets : Window[other] <= Window[b]]

\* What is_rate_limited leaves of a list, and its answer.
Recent(k)    == {e \in attempts[k] : e.at > now - Window[k[1]]}
IsRateLimited(k) == Cardinality(Recent(k)) >= MaxAttempts[k[1]]

Record(c, entries) == entries \cup {[of |-> c, at |-> now]}
Becomes(c, fate, k) == call' = [call EXCEPT ![c] = [at |-> fate, key |-> k]]

Refuse(c, k) ==
    /\ IsRateLimited(k)
    /\ attempts' = [attempts EXCEPT ![k] = Recent(k)]
    /\ Becomes(c, "refused", k)

Count(c, k) ==
    /\ ~IsRateLimited(k) /\ CountOnSuccess[k[1]]
    /\ attempts' = [attempts EXCEPT ![k] = Record(c, Recent(k))]
    /\ Becomes(c, "passed", k)

CountLater(c, k) ==
    /\ ~IsRateLimited(k) /\ ~CountOnSuccess[k[1]]
    /\ attempts' = [attempts EXCEPT ![k] = Recent(k)]
    /\ Becomes(c, "inside", k)

Dispatch(c, k) == /\ call[c] = Waiting
                  /\ Refuse(c, k) \/ Count(c, k) \/ CountLater(c, k)
                  /\ UNCHANGED now

\* call_next returned: a 303 is a login and costs nothing, and neither does a
\* handler that raised; every other answer is an attempt.
Answer(c) ==
    /\ call[c].at = "inside"
    /\ LET k == call[c].key IN
       attempts' = [attempts EXCEPT ![k] = Record(c, @)] \/ UNCHANGED attempts
    /\ call' = [call EXCEPT ![c].at = "passed"]
    /\ UNCHANGED now

\* sweep_stale_attempts
Stale(k) == \A e \in attempts[k] : e.at <= now - MaxWindow
SweepStaleAttempts == /\ attempts' = [k \in Keys |-> IF Stale(k) THEN {} ELSE attempts[k]]
                      /\ UNCHANGED <<now, call>>

Tick == now < MaxTime /\ now' = now + 1 /\ UNCHANGED <<attempts, call>>

\* The process ends: its counters and its requests are gone.
Forget == /\ attempts' = [k \in Keys |-> {}]
          /\ call' = [c \in Calls |-> IF call[c].at = "inside" THEN [call[c] EXCEPT !.at = "gone"] ELSE call[c]]
          /\ UNCHANGED now

NoAttempts == /\ now = 0
              /\ attempts = [k \in Keys |-> {}]
              /\ call = [c \in Calls |-> Waiting]

LimitsOK == /\ now \in 0..MaxTime
            /\ attempts \in [Keys -> SUBSET Entry]
            /\ call \in [Calls -> {Waiting} \cup [at : Fates, key : Keys]]

=============================================================================
