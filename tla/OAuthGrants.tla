---------------------------- MODULE OAuthGrants ----------------------------
(***************************************************************************)
(* From a client's registration to its connection: oauth_provider.py, the  *)
(* consent pages of dashboard.py and the browser binding of                *)
(* oauth_consent_state.py.                                                 *)
(*                                                                         *)
(* One row of oauth_authorization_codes is both the pending request that   *)
(* /authorize creates and the code the user's approval puts in it.  An     *)
(* approval draws a new secret, so a row's secrets are numbered 1, 2, ...  *)
(* and 0 stands for a NULL code_hash.  Each user has one browser.          *)
(***************************************************************************)
EXTENDS Integers, FiniteSets

CONSTANTS
    Requests,        \* coroutines serving /oauth/consent and /token
    Users, Clients,
    Codes,           \* the pool of authorization request ids
    Connections,     \* the pool of connection ids
    CodeTTL, UnusedClientTTL,
    MaxTime,         \* model bound on the clock
    None

ASSUME TTLAssumption   == CodeTTL \in Nat /\ UnusedClientTTL \in Nat
ASSUME BoundAssumption == MaxTime \in Nat
ASSUME NoneAssumption  ==
    /\ None \notin Requests \cup Users \cup Clients \cup Codes \cup Connections \cup Nat
    /\ None \notin [client : Clients, user : Users \cup {None}, secret : Nat, expires : Nat,
                    browser : Users]
    /\ None \notin [user : Users, client : Clients, revoked : BOOLEAN]

VARIABLES
    now,
    client,     \* oauth_clients: created_at, or None
    code,       \* oauth_authorization_codes: row, or None
    conn,       \* connections of OAuth clients: row, or None
    unused,     \* ids not drawn yet: clients, codes and connections
    cookie,     \* the request id each browser's consent cookie is signed for
    lock,       \* _connection_creation_locks
    req,        \* the coroutines
    consented,  \* history: the (user, client) pairs some approval named
    issued      \* history: token pairs issued per authorization request

rows  == <<client, code, conn, unused>>
ghost == <<consented, issued>>
vars  == <<now, rows, cookie, lock, req, ghost>>

CodeRow == [client : Clients, user : Users \cup {None}, secret : Nat, expires : Nat,
            browser : Users]            \* browser: history, who was redirected to the consent page
ConnRow == [user : Users, client : Clients, revoked : BOOLEAN]
Stages  == {"idle", "approve", "deny", "find", "burn", "lock", "look", "create", "insert", "issue"}
Request == [at : Stages, code : Codes \cup {None}, secret : Nat, user : Users \cup {None},
            client : Clients \cup {None}, conn : Connections \cup {None}]
Idle    == [at |-> "idle", code |-> None, secret |-> 0, user |-> None, client |-> None, conn |-> None]

At(r, stage)  == req[r].at = stage
Goto(r, stage) == req' = [req EXCEPT ![r].at = stage]
FinishLocked(r) == req' = [req EXCEPT ![r] = Idle] /\ UNCHANGED lock   \* mutated: no release
Finish(r) == /\ req' = [req EXCEPT ![r] = Idle]
             /\ lock' = [p \in Users \X Clients |-> IF lock[p] = r THEN None ELSE lock[p]]
Fail(r)   == Finish(r) /\ UNCHANGED <<now, rows, cookie, ghost>>
Pair(r)   == <<req[r].user, req[r].client>>

Registered   == {c \in Clients : client[c] # None}
Stored       == {k \in Codes : code[k] # None}
Existing     == {n \in Connections : conn[n] # None}
Active(u, c) == {n \in Existing : conn[n].user = u /\ conn[n].client = c /\ ~conn[n].revoked}

-----------------------------------------------------------------------------
Register(c) ==
    /\ c \in unused
    /\ client' = [client EXCEPT ![c] = now] /\ unused' = unused \ {c}
    /\ UNCHANGED <<now, code, conn, cookie, lock, req, ghost>>

\* The row is inserted and the redirect to the consent page stamps the browser's
\* cookie.  The foreign key refuses a client that is gone.
Authorize(c, b) ==
    /\ c \in Registered
    /\ \E k \in Codes \cap unused :
         /\ code' = [code EXCEPT ![k] = [client |-> c, user |-> None, secret |-> 0,
                                         expires |-> now + CodeTTL, browser |-> b]]
         /\ unused' = unused \ {k}
         /\ cookie' = [cookie EXCEPT ![b] = k]
    /\ UNCHANGED <<now, client, conn, lock, req, ghost>>

\* oauth_consent_submit: the cookie names the request, and the row awaits an answer.
BoundToNone(b, k) == TRUE              \* mutated: consent accepted from any browser
Bound(b, k)       == cookie[b] = k

Answerable(k) == k \in Stored /\ code[k].secret = 0 /\ code[k].expires > now

ReadConsent(r, b, k) ==
    /\ At(r, "idle") /\ Bound(b, k) /\ k \in Codes /\ Answerable(k)
    /\ \E answer \in {"approve", "deny"} :
         req' = [req EXCEPT ![r] = [Idle EXCEPT !.at = answer, !.code = k, !.user = b,
                                                !.client = code[k].client]]
    /\ UNCHANGED <<now, rows, cookie, lock, ghost>>

\* Two submissions may both have read the row unanswered: the later one wins.  An
\* UPDATE of a row that is gone raises; the response clears the cookie.
ApprovalUnnamed(k, u) == [code[k] EXCEPT !.secret = @ + 1]   \* mutated: user_id not set
Approval(k, u)        == [code[k] EXCEPT !.user = u, !.secret = @ + 1]

Approve(r) ==
    /\ At(r, "approve")
    /\ LET k == req[r].code IN
       IF k \in Stored
       THEN /\ code' = [code EXCEPT ![k] = Approval(k, req[r].user)]
            /\ cookie' = [cookie EXCEPT ![req[r].user] = None]
            /\ consented' = consented \cup {Pair(r)}
            /\ Finish(r)
            /\ UNCHANGED <<now, client, conn, unused, issued>>
       ELSE Fail(r)

Deny(r) ==
    /\ At(r, "deny")
    /\ code' = [code EXCEPT ![req[r].code] = None]
    /\ cookie' = [cookie EXCEPT ![req[r].user] = None]
    /\ Finish(r)
    /\ UNCHANGED <<now, client, conn, unused, ghost>>

-----------------------------------------------------------------------------
(* /token with grant_type=authorization_code.                              *)

\* load_authorization_code
IssuedToAnyone(k, c) == TRUE           \* mutated: no client_id in the query
IssuedTo(k, c)       == code[k].client = c

LoadCode(r, c, k, s) ==
    /\ At(r, "idle") /\ c \in Registered
    /\ k \in Stored /\ s > 0 /\ code[k].secret = s /\ IssuedTo(k, c) /\ code[k].expires > now
    /\ req' = [req EXCEPT ![r] = [at |-> "find", code |-> k, secret |-> s, user |-> code[k].user,
                                  client |-> c, conn |-> None]]
    /\ UNCHANGED <<now, rows, cookie, lock, ghost>>

\* exchange_authorization_code reads the row again, then deletes it; deleting a row
\* that another exchange has deleted meanwhile only warns.
FindCode(r) ==
    /\ At(r, "find")
    /\ LET k == req[r].code IN
       IF k \in Stored /\ code[k].secret = req[r].secret
       THEN Goto(r, "burn") /\ UNCHANGED <<now, rows, cookie, lock, ghost>>
       ELSE Fail(r)

BurnCode(r) ==
    /\ At(r, "burn")
    /\ code' = [code EXCEPT ![req[r].code] = None]
    /\ Goto(r, "lock")
    /\ UNCHANGED <<now, client, conn, unused, cookie, lock, ghost>>

\* _get_or_create_connection
LockPairUnshared(r) ==                 \* mutated: a new lock for every exchange
    /\ At(r, "lock")
    /\ lock' = [lock EXCEPT ![Pair(r)] = r]
    /\ Goto(r, "look")
    /\ UNCHANGED <<now, rows, cookie, ghost>>

LockPair(r) ==
    /\ At(r, "lock") /\ lock[Pair(r)] = None
    /\ lock' = [lock EXCEPT ![Pair(r)] = r]
    /\ Goto(r, "look")
    /\ UNCHANGED <<now, rows, cookie, ghost>>

Unlock(r) == lock' = [lock EXCEPT ![Pair(r)] = None]

\* scalar_one_or_none raises when there are several.
FindConnection(r) ==
    /\ At(r, "look")
    /\ LET active == Active(req[r].user, req[r].client) IN
       \/ active = {} /\ Goto(r, "create") /\ UNCHANGED <<now, rows, cookie, lock, ghost>>
       \/ \E n \in active :
            /\ active = {n}
            /\ req' = [req EXCEPT ![r].at = "issue", ![r].conn = n]
            /\ Unlock(r)
            /\ UNCHANGED <<now, rows, cookie, ghost>>
       \/ (\E m, n \in active : m # n) /\ Fail(r)

FindClient(r) ==
    /\ At(r, "create")
    /\ IF req[r].client \in Registered
       THEN Goto(r, "insert") /\ UNCHANGED <<now, rows, cookie, lock, ghost>>
       ELSE Fail(r)

\* Model bound: without a fresh id the call fails.
CreateConnection(r) ==
    /\ At(r, "insert")
    /\ IF req[r].client \in Registered /\ Connections \cap unused # {}
       THEN \E n \in Connections \cap unused :
              /\ conn' = [conn EXCEPT ![n] = [user |-> req[r].user, client |-> req[r].client,
                                              revoked |-> FALSE]]
              /\ unused' = unused \ {n}
              /\ req' = [req EXCEPT ![r].at = "issue", ![r].conn = n]
              /\ Unlock(r)
              /\ UNCHANGED <<now, client, code, cookie, ghost>>
       ELSE Fail(r)

\* _issue_tokens; the rows reference the connection.
IssueTokens(r) ==
    /\ At(r, "issue")
    /\ IF req[r].conn \in Existing
       THEN /\ issued' = [issued EXCEPT ![req[r].code] = @ + 1]
            /\ Finish(r)
            /\ UNCHANGED <<now, rows, cookie, consented>>
       ELSE Fail(r)

\* Any await of a coroutine may raise; the locks are released.
Abort(r) == ~At(r, "idle") /\ Fail(r)

-----------------------------------------------------------------------------
(* Revocation and deletion of a connection (see TokenRotation), the sweep  *)
(* of expired rows, time and restarts.                                     *)

Revoke(n) == /\ n \in Existing /\ ~conn[n].revoked
             /\ conn' = [conn EXCEPT ![n].revoked = TRUE]
             /\ UNCHANGED <<now, client, code, unused, cookie, lock, req, ghost>>

Delete(n) == /\ n \in Existing /\ conn[n].revoked
             /\ conn' = [conn EXCEPT ![n] = None]
             /\ UNCHANGED <<now, client, code, unused, cookie, lock, req, ghost>>

\* sweep_expired_oauth_rows: one transaction, which the foreign keys abort if it
\* would delete a client that a code or a connection references.
Expired  == {k \in Stored : code[k].expires <= now}
Referenced == {code[k].client : k \in Stored \ Expired} \cup {conn[n].client : n \in Existing}
StaleOld == {c \in Registered : client[c] + UnusedClientTTL <= now}   \* mutated: no NOT IN clauses
Stale    == {c \in Registered : client[c] + UnusedClientTTL <= now} \ Referenced

Sweep ==
    /\ Stale \cap Referenced = {}
    /\ Expired # {} \/ Stale # {}
    /\ code' = [k \in Codes |-> IF k \in Expired THEN None ELSE code[k]]
    /\ client' = [c \in Clients |-> IF c \in Stale THEN None ELSE client[c]]
    /\ UNCHANGED <<now, conn, unused, cookie, lock, req, ghost>>

Tick == now < MaxTime /\ now' = now + 1 /\ UNCHANGED <<rows, cookie, lock, req, ghost>>

\* A new process has no coroutines, no locks and a new cookie signing key.
Restart == /\ req' = [r \in Requests |-> Idle]
           /\ lock' = [p \in Users \X Clients |-> None]
           /\ cookie' = [b \in Users |-> None]
           /\ UNCHANGED <<now, rows, ghost>>

-----------------------------------------------------------------------------
Init == /\ now = 0
        /\ client = [c \in Clients |-> None]
        /\ code = [k \in Codes |-> None]
        /\ conn = [n \in Connections |-> None]
        /\ unused = Clients \cup Codes \cup Connections
        /\ cookie = [b \in Users |-> None]
        /\ lock = [p \in Users \X Clients |-> None]
        /\ req = [r \in Requests |-> Idle]
        /\ consented = {}
        /\ issued = [k \in Codes |-> 0]

Step(r) == \/ Approve(r) \/ Deny(r)
           \/ FindCode(r) \/ BurnCode(r) \/ FindConnection(r)
           \/ FindClient(r) \/ CreateConnection(r) \/ IssueTokens(r)

Next == \/ \E c \in Clients : Register(c) \/ \E b \in Users : Authorize(c, b)
        \/ \E r \in Requests :
             \/ \E b \in Users, k \in Codes : ReadConsent(r, b, k)
             \/ \E c \in Clients, k \in Codes, s \in 1..Cardinality(Requests) : LoadCode(r, c, k, s)
             \/ LockPair(r) \/ Step(r) \/ Abort(r)
        \/ \E n \in Connections : Revoke(n) \/ Delete(n)
        \/ Sweep \/ Tick \/ Restart

Spec == Init /\ [][Next]_vars

\* The event loop, the lock's queue and the sweep task, which app.py runs for as
\* long as the process lives.
Fairness == /\ \A r \in Requests : WF_vars(Step(r)) /\ SF_vars(LockPair(r))
            /\ WF_vars(Sweep)
FairSpec == Spec /\ Fairness

-----------------------------------------------------------------------------
TypeOK ==
    /\ now \in 0..MaxTime
    /\ client \in [Clients -> Nat \cup {None}]
    /\ code \in [Codes -> CodeRow \cup {None}]
    /\ conn \in [Connections -> ConnRow \cup {None}]
    /\ unused \subseteq Clients \cup Codes \cup Connections
    /\ cookie \in [Users -> Codes \cup {None}]
    /\ lock \in [Users \X Clients -> Requests \cup {None}]
    /\ req \in [Requests -> Request]
    /\ \A k \in Stored : code[k].secret = 0 <=> code[k].user = None   \* oauth_provider.py:144
    /\ consented \subseteq Users \X Clients
    /\ issued \in [Codes -> Nat]

\* oauth_provider.py:33-38: two exchanges for the same user and client never both
\* create a connection, so at most one of the pair's connections is not revoked.
OneActiveConnection == \A u \in Users, c \in Clients : \A m, n \in Active(u, c) : m = n

\* A connection exists only for a user who approved that very client, whatever codes
\* were presented, raced, expired or swept.
OnlyConsented == \A n \in Existing : <<conn[n].user, conn[n].client>> \in consented

\* oauth_consent_state.py:42-53: a request is approved only from the browser that
\* /authorize redirected, restarts and overwritten cookies included.
ApprovedWhereStarted == \A k \in Stored : code[k].secret > 0 => code[k].user = code[k].browser

\* oauth_provider.py:369-386: the sweep never trips over a client still referenced,
\* so an expired code does not stay.
ExpiredCodesGo == \A k \in Codes : k \in Expired ~> k \notin Stored

\* Every exchange and every consent ends: no coroutine keeps a pair locked.
GrantsEnd == \A r \in Requests : ~At(r, "idle") ~> At(r, "idle")

\* oauth_provider.py:158 "Single-use": an authorization request yields one token pair.
CodeSpentOnce == \A k \in Codes : issued[k] <= 1

=============================================================================
