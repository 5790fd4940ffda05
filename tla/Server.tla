------------------------------- MODULE Server -------------------------------
(***************************************************************************)
(* The life of one server: it migrates its database (Startup), serves      *)
(* requests through the address limits (AddressLimits), and sweeps what    *)
(* nobody comes back for, until it is killed and starts again.             *)
(***************************************************************************)
EXTENDS Startup, AddressLimits

VARIABLE sweep   \* where _sweep_loop is: what it is about to sweep

server == <<startup, limits, sweep>>

Sweeps == {"off", "asleep", "oauth", "sessions", "memory"}

Init == Deployed /\ NoAttempts /\ sweep = "off"

-----------------------------------------------------------------------------
\* lifespan: everything before its yield, with no loop and no request yet.
Boot == /\ Begin \/ Migrate
        /\ UNCHANGED <<limits, sweep>>

\* The task is created before the application answers.
ServerStarts == Serve /\ sweep' = "asleep" /\ UNCHANGED limits

ServerEnds == Crash /\ Forget /\ sweep' = "off"

RowWritten == /\ \E r \in Rows : NewInserts(r)
              /\ UNCHANGED <<limits, sweep>>

Previous == OldContainer /\ UNCHANGED <<limits, sweep>>

Request == /\ Serving /\ UNCHANGED <<startup, sweep>>
           /\ \/ \E c \in Calls, k \in Keys : Dispatch(c, k)
              \/ \E c \in Calls : Answer(c)

\* Time counts while a server has counters to age.
ClockTicks == Serving /\ Tick /\ UNCHANGED <<startup, sweep>>

-----------------------------------------------------------------------------
(* _sweep_loop: the two sweeps of the database wait for it, the three of    *)
(* the memory follow in one step.                                          *)

Wakes == sweep = "asleep" /\ sweep' = "oauth" /\ UNCHANGED <<startup, limits>>

SweepsOAuth    == sweep = "oauth" /\ sweep' = "sessions" /\ UNCHANGED <<startup, limits>>
SweepsSessions == sweep = "sessions" /\ sweep' = "memory" /\ UNCHANGED <<startup, limits>>

\* sweep_stale_attempts; its two companions are in SignIn.
SweepsMemory == /\ sweep = "memory" /\ sweep' = "asleep"
                /\ SweepStaleAttempts /\ UNCHANGED startup

\* An exception is logged and the loop goes on (mutated first: it ends the task).
SweepFailsDead == /\ sweep \in {"oauth", "sessions"} /\ sweep' = "off"
                  /\ UNCHANGED <<startup, limits>>
SweepFails     == /\ sweep \in {"oauth", "sessions"} /\ sweep' = "asleep"
                  /\ UNCHANGED <<startup, limits>>

SweepLoop == Wakes \/ SweepsOAuth \/ SweepsSessions \/ SweepsMemory \/ SweepFails

Next == \/ Boot \/ ServerStarts \/ ServerEnds \/ RowWritten \/ Previous
        \/ Request \/ ClockTicks \/ SweepLoop

Spec == Init /\ [][Next]_server

\* A start proceeds and is tried again, the previous container is stopped, the loop
\* runs, and a sweep of the database does not fail every time it is tried.
Fairness == /\ WF_server(Boot) /\ WF_server(ServerStarts)
            /\ WF_server(OldStops /\ UNCHANGED <<limits, sweep>>)
            /\ WF_server(Wakes) /\ SF_server(SweepsOAuth) /\ SF_server(SweepsSessions)
            /\ WF_server(SweepsMemory)
FairSpec == Spec /\ Fairness

-----------------------------------------------------------------------------
TypeOK == HostOK /\ LimitsOK /\ sweep \in Sweeps

\* rate_limit.py:8-25, 82-97: pruning a list when it is asked for, sweeping it by the
\* longest window and starting again never let a call in that is over its budget
\* and never refuse one that is within it: the lists act like budgets.
Budget == INSTANCE AddressBudget WITH up <- Serving, spent <- [k \in Keys |-> Recent(k)]
ActsLikeBudget == Budget!BudgetSpec

\* app.py:85-109, rate_limit.py:82-91: the times of an address nobody calls from again
\* are dropped, in spite of sweeps that fail before the memory's turn.
StaleForgotten == \A k \in Keys :
    (Stale(k) /\ attempts[k] # {}) ~> (attempts[k] = {} \/ ~Stale(k))

=============================================================================
