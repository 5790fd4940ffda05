--------------------------- MODULE TokenRotation ---------------------------
(***************************************************************************)
(* Credentials of connections: access tokens, rotating refresh tokens and  *)
(* personal tokens; authentication of MCP calls; revocation and deletion.  *)
(* oauth_provider.py, auth.py, tokens.py, dashboard.py and cli.py.         *)
(*                                                                         *)
(* A client presents its own tokens only: the client_id comparisons of the *)
(* queries are not modelled (OAuthGrants models those of codes).  Labels   *)
(* of connections are not modelled either.                                 *)
(***************************************************************************)
EXTENDS Integers, FiniteSets

CONSTANTS
    Requests,                          \* coroutines, and processes of the command line
    Connections, AccessTokens, RefreshTokens,    \* pools of ids
    PersonalTTL, AccessTTL, RefreshTTL,
    MaxTime,                           \* model bound on the clock
    None

ASSUME TTLAssumption   == PersonalTTL \in Nat /\ AccessTTL \in Nat /\ RefreshTTL \in Nat
ASSUME BoundAssumption == MaxTime \in Nat
ASSUME NoneAssumption  ==
    /\ None \notin Requests \cup Connections \cup AccessTokens \cup RefreshTokens \cup Nat
    /\ None \notin [expires : Nat \cup {None}, revoked : BOOLEAN]
    /\ None \notin [conn : Connections, expires : Nat]
    /\ None \notin [conn : Connections, expires : Nat, revoked : BOOLEAN]

VARIABLES
    now,
    conn,       \* connections: row, or None; expires = None means an OAuth client's
    access,     \* oauth_access_tokens: row, or None
    refresh,    \* oauth_refresh_tokens: row, or None
    content,    \* the connections that artifacts, comments or shares refer to
    unused,     \* ids not drawn yet
    req,        \* the coroutines
    killed,     \* history: connections some revocation named
    spent       \* history: how often each refresh token was rotated away

tables == <<conn, access, refresh, content, unused>>
ghost  == <<killed, spent>>
vars   == <<now, tables, req, ghost>>

ConnRow    == [expires : Nat \cup {None}, revoked : BOOLEAN]
AccessRow  == [conn : Connections, expires : Nat]
RefreshRow == [conn : Connections, expires : Nat, revoked : BOOLEAN]
Stages     == {"idle", "find", "rotate", "issue", "revoke", "serve", "delete"}
Request    == [at : Stages, conn : Connections \cup {None}, token : RefreshTokens \cup {None}]
Idle       == [at |-> "idle", conn |-> None, token |-> None]

At(r, stage) == req[r].at = stage
Begin(r, stage, n, t) == req' = [req EXCEPT ![r] = [at |-> stage, conn |-> n, token |-> t]]
Goto(r, stage) == req' = [req EXCEPT ![r].at = stage]
Finish(r) == req' = [req EXCEPT ![r] = Idle]
Fail(r)   == Finish(r) /\ UNCHANGED <<now, tables, ghost>>

Existing       == {n \in Connections : conn[n] # None}
Accesses       == {a \in AccessTokens : access[a] # None}
Refreshes      == {t \in RefreshTokens : refresh[t] # None}
EnforcedNot(n) == TRUE                 \* mutated: PRAGMA foreign_keys is off
Enforced(n)    == n \in Existing

-----------------------------------------------------------------------------
(* Connections come from create_personal_token and from the consent flow.  *)

Connect(n, expires) ==
    /\ n \in unused
    /\ conn' = [conn EXCEPT ![n] = [expires |-> expires, revoked |-> FALSE]]
    /\ unused' = unused \ {n}
    /\ UNCHANGED <<now, access, refresh, content, req, ghost>>

CreatePersonalToken(n) == Connect(n, now + PersonalTTL)
CreateOAuthConnection(n) == Connect(n, None)

\* A code exchange that has found or created its connection issues a pair.
ExchangeCode(r, n) ==
    /\ At(r, "idle") /\ n \in Existing /\ conn[n].expires = None /\ ~conn[n].revoked
    /\ Begin(r, "issue", n, None)
    /\ UNCHANGED <<now, tables, ghost>>

\* _issue_tokens.  Model bound: without fresh ids the call fails.
IssueTokens(r) ==
    /\ At(r, "issue")
    /\ LET n == req[r].conn
           as == AccessTokens \cap unused
           ts == RefreshTokens \cap unused
       IN IF Enforced(n) /\ as # {} /\ ts # {}
          THEN \E a \in as, t \in ts :
                 /\ access' = [access EXCEPT ![a] = [conn |-> n, expires |-> now + AccessTTL]]
                 /\ refresh' = [refresh EXCEPT ![t] = [conn |-> n, expires |-> now + RefreshTTL,
                                                       revoked |-> FALSE]]
                 /\ unused' = unused \ {a, t}
                 /\ Finish(r)
                 /\ UNCHANGED <<now, conn, content, ghost>>
          ELSE Fail(r)

-----------------------------------------------------------------------------
(* Refresh.  load_refresh_token returns rotated tokens too; the SDK turns  *)
(* expired ones away.                                                      *)

LoadRefresh(r, t) ==
    /\ At(r, "idle") /\ t \in Refreshes /\ refresh[t].expires > now
    /\ Begin(r, "find", None, t)
    /\ UNCHANGED <<now, tables, ghost>>

\* exchange_refresh_token reads the row again: a rotated token is a replay, which
\* revokes the connection in a session of its own.
ReadRefresh(r) ==
    /\ At(r, "find")
    /\ LET t == req[r].token IN
       IF t \notin Refreshes THEN Fail(r)
       ELSE /\ Begin(r, IF refresh[t].revoked THEN "revoke" ELSE "rotate", refresh[t].conn, t)
            /\ UNCHANGED <<now, tables, ghost>>

\* The UPDATE names the row by its id only; one that is gone raises.
Rotate(r) ==
    /\ At(r, "rotate")
    /\ LET t == req[r].token IN
       IF t \in Refreshes
       THEN /\ refresh' = [refresh EXCEPT ![t].revoked = TRUE]
            /\ spent' = [spent EXCEPT ![t] = @ + 1]
            /\ Goto(r, "issue")
            /\ UNCHANGED <<now, conn, access, content, unused, killed>>
       ELSE Fail(r)

-----------------------------------------------------------------------------
(* MCPAuthMiddleware, then the tool call it lets through.                  *)

\* load_access_token
ServesUnexpired(a) == access[a].expires > now   \* mutated: trusts the row, not the connection
Serves(a)          == access[a].expires > now /\ ~conn[access[a].conn].revoked

AuthenticateAccess(r, a) ==
    /\ At(r, "idle") /\ a \in Accesses /\ access[a].conn \in Existing /\ Serves(a)
    /\ Begin(r, "serve", access[a].conn, None)
    /\ UNCHANGED <<now, tables, ghost>>

\* resolve_connection
AuthenticatePersonal(r, n) ==
    /\ At(r, "idle") /\ n \in Existing
    /\ conn[n].expires # None /\ conn[n].expires > now /\ ~conn[n].revoked
    /\ Begin(r, "serve", n, None)
    /\ UNCHANGED <<now, tables, ghost>>

\* The call stores an artifact, a comment or a share under its connection's id.
Publish(r) ==
    /\ At(r, "serve")
    /\ IF Enforced(req[r].conn)
       THEN /\ content' = content \cup {req[r].conn}
            /\ Finish(r)
            /\ UNCHANGED <<now, conn, access, refresh, unused, ghost>>
       ELSE Fail(r)

\* The last row that refers to the connection is deleted or reassigned.
RemoveContent(n) == /\ n \in content
                    /\ content' = content \ {n}
                    /\ UNCHANGED <<now, conn, access, refresh, unused, req, ghost>>

-----------------------------------------------------------------------------
(* Revocation, from the dashboard or the command line by connection, from  *)
(* /revoke by token.                                                       *)

StartRevoke(r, n) ==
    /\ At(r, "idle") /\ n \in Existing
    /\ Begin(r, "revoke", n, None)
    /\ UNCHANGED <<now, tables, ghost>>

RevokeToken(r) ==
    \/ \E a \in Accesses : access[a].conn \in Existing /\ Serves(a) /\ StartRevoke(r, access[a].conn)
    \/ \E t \in Refreshes : refresh[t].expires > now /\ StartRevoke(r, refresh[t].conn)

\* revoke_connection; UPDATEs and DELETEs by connection id, harmless if it is gone.
RevokeConnection(r) ==
    /\ At(r, "revoke")
    /\ LET n == req[r].conn IN
       /\ refresh' = [t \in RefreshTokens |->
                        IF t \in Refreshes /\ refresh[t].conn = n
                        THEN [refresh[t] EXCEPT !.revoked = TRUE] ELSE refresh[t]]
       /\ access' = [a \in AccessTokens |->
                        IF a \in Accesses /\ access[a].conn = n THEN None ELSE access[a]]
       /\ conn' = IF n \in Existing THEN [conn EXCEPT ![n].revoked = TRUE] ELSE conn
       /\ killed' = killed \cup {n}
    /\ Finish(r)
    /\ UNCHANGED <<now, content, unused, spent>>

-----------------------------------------------------------------------------
(* Deletion: dashboard_delete_connection and admin_delete_connection.      *)

StartDelete(r, n) ==
    /\ At(r, "idle") /\ n \in Existing /\ conn[n].revoked /\ n \notin content
    /\ Begin(r, "delete", n, None)
    /\ UNCHANGED <<now, tables, ghost>>

UnreferencedNot(n) == TRUE             \* mutated: relies on the counts read before
Unreferenced(n)    == n \notin content

\* Content stored since the counts were read makes the transaction fail.  A row
\* that is gone already only warns.
DeleteConnection(r) ==
    /\ At(r, "delete")
    /\ LET n == req[r].conn IN
       IF Unreferenced(n)
       THEN /\ refresh' = [t \in RefreshTokens |->
                             IF t \in Refreshes /\ refresh[t].conn = n THEN None ELSE refresh[t]]
            /\ access' = [a \in AccessTokens |->
                             IF a \in Accesses /\ access[a].conn = n THEN None ELSE access[a]]
            /\ conn' = [conn EXCEPT ![n] = None]
            /\ Finish(r)
            /\ UNCHANGED <<now, content, unused, ghost>>
       ELSE Fail(r)

\* An await of any coroutine may raise.
Abort(r) == ~At(r, "idle") /\ Fail(r)

-----------------------------------------------------------------------------
\* sweep_expired_oauth_rows: access tokens are left alone.
SweptRotated == {t \in Refreshes : refresh[t].expires <= now \/ refresh[t].revoked} \* mutated: and used ones
Swept        == {t \in Refreshes : refresh[t].expires <= now}

Sweep == /\ Swept # {}
         /\ refresh' = [t \in RefreshTokens |-> IF t \in Swept THEN None ELSE refresh[t]]
         /\ UNCHANGED <<now, conn, access, content, unused, req, ghost>>

Tick == now < MaxTime /\ now' = now + 1 /\ UNCHANGED <<tables, req, ghost>>

Restart == req' = [r \in Requests |-> Idle] /\ UNCHANGED <<now, tables, ghost>>

-----------------------------------------------------------------------------
Init == /\ now = 0
        /\ conn = [n \in Connections |-> None]
        /\ access = [a \in AccessTokens |-> None]
        /\ refresh = [t \in RefreshTokens |-> None]
        /\ content = {}
        /\ unused = Connections \cup AccessTokens \cup RefreshTokens
        /\ req = [r \in Requests |-> Idle]
        /\ killed = {}
        /\ spent = [t \in RefreshTokens |-> 0]

Start(r) == \/ \E n \in Connections : \/ ExchangeCode(r, n) \/ AuthenticatePersonal(r, n)
                                      \/ StartRevoke(r, n) \/ StartDelete(r, n)
            \/ \E t \in RefreshTokens : LoadRefresh(r, t)
            \/ \E a \in AccessTokens : AuthenticateAccess(r, a)
            \/ RevokeToken(r)

Step(r) == \/ IssueTokens(r) \/ ReadRefresh(r) \/ Rotate(r)
           \/ Publish(r) \/ RevokeConnection(r) \/ DeleteConnection(r)

Next == \/ \E n \in Connections : CreatePersonalToken(n) \/ CreateOAuthConnection(n) \/ RemoveContent(n)
        \/ \E r \in Requests : Start(r) \/ Step(r) \/ Abort(r)
        \/ Sweep \/ Tick \/ Restart

Spec == Init /\ [][Next]_vars

-----------------------------------------------------------------------------
\* Types; and the rows of the two token tables belong to existing connections.
TypeOK ==
    /\ now \in 0..MaxTime
    /\ conn \in [Connections -> ConnRow \cup {None}]
    /\ access \in [AccessTokens -> AccessRow \cup {None}]
    /\ refresh \in [RefreshTokens -> RefreshRow \cup {None}]
    /\ \A a \in Accesses : access[a].conn \in Existing
    /\ \A t \in Refreshes : refresh[t].conn \in Existing
    /\ content \subseteq Connections
    /\ unused \subseteq Connections \cup AccessTokens \cup RefreshTokens
    /\ req \in [Requests -> Request]
    /\ killed \subseteq Connections
    /\ spent \in [RefreshTokens -> Nat]

\* docs/dashboard-guide.md:104: once a revocation is done, no request is ever
\* authenticated as that connection, tokens issued by calls in flight included.
RevokedNeverServed ==
    [][\A r \in Requests : ~At(r, "serve") /\ At(r, "serve")' => req'[r].conn \notin killed]_vars

\* dashboard.py:805: a connection is never deleted out from under content it
\* published, not even content stored while the deletion was under way.
HistoryKept == content \subseteq Existing

\* models.py:193: a token that was rotated away stays recognisable as a replay for
\* as long as it would be accepted, unless its connection is deleted.
SpentRemembered ==
    [][\A t \in RefreshTokens : t \in Refreshes /\ spent[t] > 0 /\ refresh[t].expires > now
         => \/ t \in Refreshes' /\ refresh'[t].revoked
            \/ refresh[t].conn \notin Existing']_vars

=============================================================================
