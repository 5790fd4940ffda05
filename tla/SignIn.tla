------------------------------- MODULE SignIn -------------------------------
(***************************************************************************)
(* How people get a dashboard session: password login with its lockout,    *)
(* OIDC login with accounts provisioned on the way, the command line's     *)
(* accounts and identity links, and the scheme lock that decides between   *)
(* the two.  dashboard.py, session_auth.py, oidc_state.py, auth_scheme.py  *)
(* and cli.py.                                                             *)
(*                                                                         *)
(* A user's email is unique, never changes, and no user is ever deleted:   *)
(* the model names a user by it.  A subject stands for (issuer, subject).  *)
(* Any caller may present any state cookie that was minted.                *)
(***************************************************************************)
EXTENDS Integers, Sequences, FiniteSets

CONSTANTS
    Requests,                  \* coroutines serving callbacks and logins
    Emails, Subjects,          \* accounts, and people at the identity provider
    States, Sessions,          \* pools of OIDC states and session ids
    Schemes,                   \* includes "password" and "oidc"
    AllowSignup,               \* oidc_allow_signup
    MaxAttempts, Window,       \* the lockout
    StateTTL,
    MaxTime,                   \* model bound on the clock
    None

ASSUME SchemesAssumption == {"password", "oidc"} \subseteq Schemes /\ AllowSignup \in BOOLEAN
ASSUME TimesAssumption   == /\ MaxAttempts \in Nat \ {0} /\ Window \in Nat
                            /\ StateTTL \in Nat /\ MaxTime \in Nat
ASSUME NoneAssumption ==
    /\ None \notin Requests \cup Emails \cup Subjects \cup States \cup Sessions \cup Schemes \cup Nat
    /\ None \notin {"password", "sso"}
    /\ None \notin [user : Emails, via : Subjects \cup {None}]

VARIABLES
    now,
    account,    \* users: "password", "sso" (password_hash NULL), or None
    identity,   \* oidc_identities: subject -> user, or None
    session,    \* sessions: row, or None
    persisted,  \* app_settings auth_scheme, or None
    active,     \* _active_scheme; None while the server is down
    booting,    \* what ensure_auth_scheme is about to persist, or None
    flow,       \* state cookies this process signed: iat, or None
    used,       \* _used_states: when, or None
    failed,     \* _failed_logins
    unused,     \* ids not drawn yet
    req,        \* the coroutines
    linked,     \* history: the identity links there ever were
    funded,     \* history: token exchanges per state
    refused,    \* history: times of wrong passwords answered 401, since the last success
    served      \* history: some start of the server has succeeded

rows    == <<account, identity, session, unused>>
scheme  == <<persisted, active, booting>>
memory  == <<flow, used, failed>>
history == <<linked, funded, refused, served>>
vars    == <<now, rows, scheme, memory, req, history>>

SessionRow == [user : Emails, via : Subjects \cup {None}]   \* via: history, who vouched
Stages  == {"idle", "exchange", "identity", "email", "provision", "recover", "session", "raised"}
Request == [at : Stages, sub : Subjects \cup {None}, email : Emails \cup {None}]
Idle    == [at |-> "idle", sub |-> None, email |-> None]

At(r, stage)   == req[r].at = stage
Goto(r, stage) == req' = [req EXCEPT ![r].at = stage] /\ UNCHANGED <<now, rows, scheme, memory, history>>
Finish(r)      == req' = [req EXCEPT ![r] = Idle]
Fail(r)        == Finish(r) /\ UNCHANGED <<now, rows, scheme, memory, history>>

\* [t for t in times if t > cutoff], as a recursive function that proofs can unfold.
NewerThan(times, cutoff) ==
    LET kept[i \in 0..Len(times)] ==
          IF i = 0 THEN <<>>
          ELSE IF times[i] > cutoff THEN Append(kept[i - 1], times[i]) ELSE kept[i - 1]
    IN kept[Len(times)]
Recent(times) == NewerThan(times, now - Window)

\* create_session.  Model bound: without a fresh id it fails.
OpenSession(u, s) ==
    \E n \in Sessions \cap unused :
       /\ session' = [session EXCEPT ![n] = [user |-> u, via |-> s]]
       /\ unused' = unused \ {n}

-----------------------------------------------------------------------------
(* login_submit: no await between reading the user and the trackers.  The  *)
(* password is verified first, whether the email is locked out or not.     *)

VerifiedAnyone(e) == TRUE              \* mutated: the dummy hash's result returned
Verified(e)       == account[e] = "password"

LoginRight(r, e) ==
    /\ active = "password" /\ At(r, "idle") /\ Verified(e)
    /\ failed' = [failed EXCEPT ![e] = <<>>]
    /\ refused' = [refused EXCEPT ![e] = <<>>]
    /\ req' = [req EXCEPT ![r] = [at |-> "session", sub |-> None, email |-> e]]
    /\ UNCHANGED <<now, rows, scheme, flow, used, linked, funded, served>>

Limited(e) == Len(Recent(failed[e])) >= MaxAttempts

\* 401, and the failure is recorded.
LoginRefused(e) ==
    /\ ~Limited(e)
    /\ failed' = [failed EXCEPT ![e] = Append(Recent(@), now)]
    /\ refused' = [refused EXCEPT ![e] = Append(Recent(@), now)]

\* 429: the tracker is pruned by is_login_rate_limited and grows no further.
LoginLimitedCounts(e) ==               \* mutated: recorded before the lockout is consulted
    /\ Limited(e)
    /\ failed' = [failed EXCEPT ![e] = Append(Recent(@), now)]
    /\ UNCHANGED refused
LoginLimited(e) ==
    /\ Limited(e)
    /\ failed' = [failed EXCEPT ![e] = Recent(@)]
    /\ UNCHANGED refused

LoginWrong(e) ==
    /\ active = "password" /\ (LoginRefused(e) \/ LoginLimited(e))
    /\ UNCHANGED <<now, rows, scheme, flow, used, req, linked, funded, served>>

-----------------------------------------------------------------------------
(* oidc_login and oidc_callback.                                           *)

StartFlow ==
    /\ active = "oidc"
    /\ \E x \in States \cap unused :
         /\ flow' = [flow EXCEPT ![x] = now]
         /\ unused' = unused \ {x}
    /\ UNCHANGED <<now, account, identity, session, scheme, used, failed, req, history>>

\* read_cookie_value and is_state_used.  The clock has moved since the state was
\* minted: the browser has been to the identity provider.
SpendableAged(x) == flow[x] # None /\ used[x] = None /\ now > flow[x]   \* mutated: iat not checked
Spendable(x)     == /\ flow[x] # None /\ used[x] = None
                    /\ now > flow[x] /\ now - flow[x] <= StateTTL

Callback(r, x) ==
    /\ active = "oidc" /\ At(r, "idle") /\ Spendable(x)
    /\ used' = [used EXCEPT ![x] = now]
    /\ funded' = [funded EXCEPT ![x] = @ + 1]
    /\ req' = [req EXCEPT ![r].at = "exchange"]
    /\ UNCHANGED <<now, rows, scheme, flow, failed, linked, refused, served>>

\* The provider vouches for a subject and gives an email or a display name, which
\* may be anyone's.
ExchangeCode(r, s, e) ==
    /\ At(r, "exchange")
    /\ req' = [req EXCEPT ![r] = [at |-> "identity", sub |-> s, email |-> e]]
    /\ UNCHANGED <<now, rows, scheme, memory, history>>

SignInAs(r, u) == /\ req' = [req EXCEPT ![r].at = "session", ![r].email = u]
                  /\ UNCHANGED <<now, rows, scheme, memory, history>>

FindIdentity(r) ==
    /\ At(r, "identity")
    /\ LET s == req[r].sub IN
       IF identity[s] # None THEN SignInAs(r, identity[s]) ELSE Goto(r, "email")

\* Mutated form: a matching email signs in to the account that has it.
KnownEmailLinks(r) == SignInAs(r, req[r].email)
KnownEmail(r)      == Fail(r)

CheckEmail(r) ==
    /\ At(r, "email")
    /\ IF account[req[r].email] # None THEN KnownEmail(r)
       ELSE IF AllowSignup THEN Goto(r, "provision") ELSE Fail(r)

\* One transaction: the user, the identity and the session.  A user with that
\* email since then raises from the first flush, outside the try; an identity
\* since then rolls back and is used instead.
Provision(r) ==
    /\ At(r, "provision")
    /\ LET s == req[r].sub
           e == req[r].email
       IN IF account[e] # None THEN Goto(r, "raised")
          ELSE IF identity[s] # None THEN Goto(r, "recover")
          ELSE IF Sessions \cap unused = {} THEN Fail(r)
          ELSE /\ account' = [account EXCEPT ![e] = "sso"]
               /\ identity' = [identity EXCEPT ![s] = e]
               /\ linked' = linked \cup {<<s, e>>}
               /\ OpenSession(e, s)
               /\ Finish(r)
               /\ UNCHANGED <<now, scheme, memory, funded, refused, served>>

Recover(r) ==
    /\ At(r, "recover")
    /\ LET s == req[r].sub IN
       IF identity[s] # None THEN SignInAs(r, identity[s]) ELSE Fail(r)

CreateSession(r) ==
    /\ At(r, "session")
    /\ IF Sessions \cap unused = {} THEN Fail(r)
       ELSE /\ OpenSession(req[r].email, req[r].sub)
            /\ Finish(r)
            /\ UNCHANGED <<now, account, identity, scheme, memory, history>>

-----------------------------------------------------------------------------
(* Sessions end by logout, or expired: in resolve_session or in the sweep. *)

EndSession(n) ==
    /\ session[n] # None
    /\ session' = [session EXCEPT ![n] = None]
    /\ UNCHANGED <<now, account, identity, unused, scheme, memory, req, history>>

-----------------------------------------------------------------------------
(* The command line, a process of its own: the unique constraints make     *)
(* each command one step.                                                  *)

CreateUser(e) ==
    /\ account[e] = None
    /\ account' = [account EXCEPT ![e] = "password"]
    /\ UNCHANGED <<now, identity, session, unused, scheme, memory, req, history>>

LinkIdentity(s, e) ==
    /\ account[e] # None /\ identity[s] = None
    /\ identity' = [identity EXCEPT ![s] = e]
    /\ linked' = linked \cup {<<s, e>>}
    /\ UNCHANGED <<now, account, session, unused, scheme, memory, req, funded, refused, served>>

UnlinkIdentity(s) ==
    /\ identity[s] # None
    /\ identity' = [identity EXCEPT ![s] = None]
    /\ UNCHANGED <<now, account, session, unused, scheme, memory, req, history>>

SetScheme(x) ==
    /\ persisted' = x
    /\ UNCHANGED <<now, rows, active, booting, memory, req, history>>

-----------------------------------------------------------------------------
(* ensure_auth_scheme at startup; configured is the environment's.         *)

EveryBoot == TRUE                      \* mutated: the environment always wins
FirstBoot == persisted = None

\* Nothing persisted: about to adopt.  Otherwise a mismatch is a startup failure.
Boot(configured) ==
    /\ active = None /\ booting = None
    /\ IF FirstBoot
       THEN booting' = configured /\ UNCHANGED <<active, served>>
       ELSE configured = persisted /\ active' = persisted /\ served' = TRUE /\ UNCHANGED booting
    /\ UNCHANGED <<now, rows, persisted, memory, req, linked, funded, refused>>

\* First boot only: what set-auth-scheme has stored meanwhile is overwritten.
AdoptScheme ==
    /\ booting # None
    /\ persisted' = booting /\ active' = booting /\ booting' = None
    /\ served' = TRUE
    /\ UNCHANGED <<now, rows, memory, req, linked, funded, refused>>

\* The process ends with everything in its memory, the cookies' key included.
Restart ==
    /\ active' = None /\ booting' = None
    /\ flow' = [x \in States |-> None] /\ used' = [x \in States |-> None]
    /\ failed' = [e \in Emails |-> <<>>] /\ refused' = [e \in Emails |-> <<>>]
    /\ req' = [r \in Requests |-> Idle]
    /\ UNCHANGED <<now, rows, persisted, linked, funded, served>>

-----------------------------------------------------------------------------
\* The sweep loop: used states, and emails whose newest failure is out of the window.
SweepStates ==
    /\ \E x \in States : used[x] # None /\ used[x] <= now - StateTTL
    /\ used' = [x \in States |-> IF used[x] # None /\ used[x] <= now - StateTTL THEN None ELSE used[x]]
    /\ UNCHANGED <<now, rows, scheme, flow, failed, req, history>>

StaleByOldest(times) == times # <<>> /\ times[1] <= now - Window     \* mutated: min for max
Stale(times)         == times # <<>> /\ times[Len(times)] <= now - Window

SweepFailures ==
    /\ \E e \in Emails : Stale(failed[e])
    /\ failed' = [e \in Emails |-> IF Stale(failed[e]) THEN <<>> ELSE failed[e]]
    /\ UNCHANGED <<now, rows, scheme, flow, used, req, history>>

Tick == now < MaxTime /\ now' = now + 1 /\ UNCHANGED <<rows, scheme, memory, req, history>>

Abort(r) == ~At(r, "idle") /\ Fail(r)

-----------------------------------------------------------------------------
Init == /\ now = 0
        /\ account = [e \in Emails |-> None]
        /\ identity = [s \in Subjects |-> None]
        /\ session = [n \in Sessions |-> None]
        /\ persisted = None /\ active = None /\ booting = None
        /\ flow = [x \in States |-> None]
        /\ used = [x \in States |-> None]
        /\ failed = [e \in Emails |-> <<>>]
        /\ unused = States \cup Sessions
        /\ req = [r \in Requests |-> Idle]
        /\ linked = {}
        /\ funded = [x \in States |-> 0]
        /\ refused = [e \in Emails |-> <<>>]
        /\ served = FALSE

Login == \E e \in Emails : LoginWrong(e) \/ \E r \in Requests : LoginRight(r, e)

Step(r) == \/ \E x \in States : Callback(r, x)
           \/ \E s \in Subjects, e \in Emails : ExchangeCode(r, s, e)
           \/ FindIdentity(r) \/ CheckEmail(r) \/ Provision(r) \/ Recover(r)
           \/ CreateSession(r) \/ Abort(r)

CommandLine == \/ \E e \in Emails : CreateUser(e)
               \/ \E s \in Subjects : UnlinkIdentity(s) \/ \E e \in Emails : LinkIdentity(s, e)
               \/ \E x \in Schemes : SetScheme(x)

Process == \/ \E x \in Schemes : Boot(x)
           \/ AdoptScheme \/ Restart \/ SweepStates \/ SweepFailures

Next == \/ Login \/ StartFlow \/ \E r \in Requests : Step(r)
        \/ \E n \in Sessions : EndSession(n)
        \/ CommandLine \/ Process \/ Tick

Spec == Init /\ [][Next]_vars

-----------------------------------------------------------------------------
Accounts == {e \in Emails : account[e] # None}

\* Types; and identities and sessions belong to accounts that exist.
TypeOK ==
    /\ now \in 0..MaxTime
    /\ account \in [Emails -> {"password", "sso", None}]
    /\ identity \in [Subjects -> Accounts \cup {None}]
    /\ session \in [Sessions -> SessionRow \cup {None}]
    /\ \A n \in Sessions : session[n] # None => session[n].user \in Accounts
    /\ persisted \in Schemes \cup {None}
    /\ active \in Schemes \cup {None}
    /\ booting \in Schemes \cup {None}
    /\ flow \in [States -> Nat \cup {None}] /\ used \in [States -> Nat \cup {None}]
    /\ failed \in [Emails -> Seq(Nat)] /\ refused \in [Emails -> Seq(Nat)]
    /\ unused \subseteq States \cup Sessions
    /\ req \in [Requests -> Request]
    /\ linked \subseteq Subjects \X Emails
    /\ funded \in [States -> Nat]
    /\ served \in BOOLEAN

\* dashboard.py:282-287: nobody gets a session of an account through a subject that
\* was never linked to it, whatever email the provider sends and whoever else is
\* provisioned, created, linked or unlinked meanwhile.
NoTakeover ==
    \A n \in Sessions : session[n] # None /\ session[n].via # None
        => <<session[n].via, session[n].user>> \in linked

\* oidc_state.py:23-34: a state funds at most one token exchange, although the sweep
\* forgets that it was used and a restart forgets everything.
StateFundsOne == \A x \in States : funded[x] <= 1

\* session_auth.py:18-34: a wrong password is answered 429 exactly when
\* _LOGIN_MAX_ATTEMPTS were answered 401 within the window and since the last success.
\* So no window has more than that many 401s, the sweep frees nobody early, and the
\* 429s of somebody who keeps trying do not make the lockout longer.  It says nothing
\* of how many passwords are tried: they are verified before the lockout is consulted.
LockoutExact ==
    \A e \in Emails :
       /\ Len(Recent(refused[e])) <= MaxAttempts
       /\ Limited(e) <=> Len(Recent(refused[e])) = MaxAttempts

\* auth_scheme.py:58-62: after the first start only the command changes the scheme;
\* no start under another environment does.
SchemeLocked ==
    [][served /\ persisted' # persisted => UNCHANGED <<active, booting>>]_vars

\* dashboard.py:324-326: a first login that loses the race to its own subject uses
\* what the winner stored, it does not raise.
LosersRecover ==
    [][\A r \in Requests : ~At(r, "raised") /\ At(r, "raised")'
        => ~(identity[req[r].sub] = req[r].email /\ account[req[r].email] = "sso")]_vars

=============================================================================
