------------------------ MODULE TokenRotation_proofs ------------------------
(***************************************************************************)
(* Theorems about TokenRotation, for any number of requests, connections   *)
(* and tokens and any lifetimes.                                           *)
(***************************************************************************)
EXTENDS TokenRotation, TLAPS

\* What the stage of a request says of its fields.
FieldsOK == \A r \in Requests :
    /\ req[r].at \in {"issue", "rotate", "serve", "revoke", "delete"} => req[r].conn \in Connections
    /\ req[r].at \in {"find", "rotate"} => req[r].token \in RefreshTokens

Typed == TypeOK /\ FieldsOK

\* The tables, with the references between them.
TablesOK == /\ conn \in [Connections -> ConnRow \cup {None}]
            /\ access \in [AccessTokens -> AccessRow \cup {None}]
            /\ refresh \in [RefreshTokens -> RefreshRow \cup {None}]
            /\ \A a \in Accesses : access[a].conn \in Existing
            /\ \A t \in Refreshes : refresh[t].conn \in Existing

CallsOK == req \in [Requests -> Request] /\ FieldsOK

USE DEF tables, ghost

-----------------------------------------------------------------------------
LEMMA InitTyped == Init => Typed
  BY BoundAssumption DEF Init, Typed, TypeOK, FieldsOK, Idle, Request, Stages, Accesses, Refreshes

LEMMA BeginTyped ==
  ASSUME CallsOK, NEW r \in Requests, NEW stage \in Stages,
         NEW n \in Connections \cup {None}, NEW t \in RefreshTokens \cup {None},
         stage \in {"issue", "rotate", "serve", "revoke", "delete"} => n \in Connections,
         stage \in {"find", "rotate"} => t \in RefreshTokens,
         Begin(r, stage, n, t)
  PROVE  CallsOK'
<1> DEFINE x == [at |-> stage, conn |-> n, token |-> t]
<1>1. x \in Request  BY DEF Request
<1>2. req' = [req EXCEPT ![r] = x]  BY DEF Begin
<1>3. req'[r] = x /\ \A q \in Requests : q # r => req'[q] = req[q]
  BY <1>2 DEF CallsOK
<1>4. req' \in [Requests -> Request]  BY <1>1, <1>2 DEF CallsOK
<1>5. FieldsOK'
  <2> SUFFICES ASSUME NEW q \in Requests
               PROVE  /\ req'[q].at \in {"issue", "rotate", "serve", "revoke", "delete"}
                           => req'[q].conn \in Connections
                      /\ req'[q].at \in {"find", "rotate"} => req'[q].token \in RefreshTokens
    BY DEF FieldsOK
  <2>1. CASE q = r  BY <1>3, <2>1
  <2>2. CASE q # r  BY <1>3, <2>2 DEF CallsOK, FieldsOK
  <2>3. QED  BY <2>1, <2>2
<1>6. QED  BY <1>4, <1>5 DEF CallsOK

LEMMA FinishTyped ==
  ASSUME CallsOK, NEW r \in Requests, Finish(r)
  PROVE  CallsOK'
  BY DEF CallsOK, FieldsOK, Finish, Idle, Request, Stages

\* A step that leaves the tables alone and keeps the calls well formed.
LEMMA CallStep ==
  ASSUME Typed, CallsOK', UNCHANGED <<now, tables, ghost>>
  PROVE  Typed'
  BY DEF Typed, TypeOK, CallsOK, Accesses, Refreshes, Existing

LEMMA FailTyped ==
  ASSUME Typed, NEW r \in Requests, Fail(r)
  PROVE  Typed'
<1>1. CallsOK'  BY FinishTyped DEF Fail, Typed, TypeOK, CallsOK
<1>2. QED  BY <1>1, CallStep DEF Fail

\* The rows a start reads name existing connections.
LEMMA RowsNameConnections ==
  ASSUME Typed
  PROVE  /\ Existing \subseteq Connections
         /\ \A a \in Accesses : access[a].conn \in Connections
         /\ \A t \in Refreshes : refresh[t].conn \in Connections /\ t \in RefreshTokens
  BY DEF Typed, TypeOK, Existing, Refreshes

LEMMA StartTyped ==
  ASSUME Typed, NEW r \in Requests, Start(r)
  PROVE  Typed'
<1> USE RowsNameConnections DEF Stages
<1>1. CallsOK  BY DEF Typed, TypeOK, CallsOK
<1>2. ASSUME NEW n \in Connections, ExchangeCode(r, n)  PROVE Typed'
  <2>1. CallsOK'  BY <1>1, <1>2, BeginTyped DEF ExchangeCode
  <2>2. QED  BY <1>2, <2>1, CallStep DEF ExchangeCode
<1>3. ASSUME NEW n \in Connections, AuthenticatePersonal(r, n)  PROVE Typed'
  <2>1. CallsOK'  BY <1>1, <1>3, BeginTyped DEF AuthenticatePersonal
  <2>2. QED  BY <1>3, <2>1, CallStep DEF AuthenticatePersonal
<1>4. ASSUME NEW n \in Connections, StartRevoke(r, n)  PROVE Typed'
  <2>1. CallsOK'  BY <1>1, <1>4, BeginTyped DEF StartRevoke
  <2>2. QED  BY <1>4, <2>1, CallStep DEF StartRevoke
<1>5. ASSUME NEW n \in Connections, StartDelete(r, n)  PROVE Typed'
  <2>1. CallsOK'  BY <1>1, <1>5, BeginTyped DEF StartDelete
  <2>2. QED  BY <1>5, <2>1, CallStep DEF StartDelete
<1>6. ASSUME NEW t \in RefreshTokens, LoadRefresh(r, t)  PROVE Typed'
  <2>1. CallsOK'  BY <1>1, <1>6, BeginTyped DEF LoadRefresh
  <2>2. QED  BY <1>6, <2>1, CallStep DEF LoadRefresh
<1>7. ASSUME NEW a \in AccessTokens, AuthenticateAccess(r, a)  PROVE Typed'
  <2>1. access[a].conn \in Connections  BY <1>7 DEF AuthenticateAccess
  <2>2. CallsOK'  BY <1>1, <1>7, <2>1, BeginTyped DEF AuthenticateAccess
  <2>3. QED  BY <1>7, <2>2, CallStep DEF AuthenticateAccess
<1>8. CASE RevokeToken(r)
  <2>1. PICK n \in Connections : StartRevoke(r, n)  BY <1>8 DEF RevokeToken
  <2>2. QED  BY <1>4, <2>1
<1>9. QED  BY <1>2, <1>3, <1>4, <1>5, <1>6, <1>7, <1>8 DEF Start

LEMMA ConnectTyped ==
  ASSUME Typed, NEW n \in Connections, NEW e \in Nat \cup {None}, Connect(n, e)
  PROVE  Typed'
<1> DEFINE x == [expires |-> e, revoked |-> FALSE]
<1>3. x \in ConnRow  BY DEF ConnRow
<1>4. x # None  BY <1>3, NoneAssumption DEF ConnRow
<1>5. conn' = [conn EXCEPT ![n] = x]  BY DEF Connect
<1> HIDE DEF x
<1>1. conn' \in [Connections -> ConnRow \cup {None}] /\ Existing \subseteq Existing'
  BY <1>3, <1>4, <1>5 DEF Typed, TypeOK, Existing
<1>2. QED  BY <1>1 DEF Connect, Typed, TypeOK, FieldsOK, Accesses, Refreshes

LEMMA IssueTyped ==
  ASSUME Typed, NEW r \in Requests, IssueTokens(r)
  PROVE  Typed'
<1>1. CASE Fail(r)  BY <1>1, FailTyped
<1>2. CASE ~Fail(r)
  <2> DEFINE n == req[r].conn
  <2>1. PICK a \in AccessTokens, t \in RefreshTokens :
          /\ n \in Existing
          /\ access' = [access EXCEPT ![a] = [conn |-> n, expires |-> now + AccessTTL]]
          /\ refresh' = [refresh EXCEPT ![t] = [conn |-> n, expires |-> now + RefreshTTL,
                                                revoked |-> FALSE]]
          /\ unused' = unused \ {a, t}
          /\ Finish(r)
          /\ UNCHANGED <<now, conn, content, ghost>>
    BY <1>2 DEF IssueTokens, Enforced
  <2>2. n \in Connections  BY <2>1, RowsNameConnections
  <2>3. now + AccessTTL \in Nat /\ now + RefreshTTL \in Nat
    BY TTLAssumption, BoundAssumption DEF Typed, TypeOK
  <2> HIDE DEF n
  <2>4. access' \in [AccessTokens -> AccessRow \cup {None}]
    BY <2>1, <2>2, <2>3 DEF Typed, TypeOK, AccessRow
  <2>5. refresh' \in [RefreshTokens -> RefreshRow \cup {None}]
    BY <2>1, <2>2, <2>3 DEF Typed, TypeOK, RefreshRow
  <2>6. \A b \in Accesses' : access'[b].conn \in Existing'
    BY <2>1 DEF Typed, TypeOK, Accesses, Existing
  <2>7. \A u \in Refreshes' : refresh'[u].conn \in Existing'
    BY <2>1 DEF Typed, TypeOK, Refreshes, Existing
  <2>8. CallsOK'  BY <2>1, FinishTyped DEF Typed, TypeOK, CallsOK
  <2>9. unused' \subseteq Connections \cup AccessTokens \cup RefreshTokens
    BY <2>1 DEF Typed, TypeOK
  <2>10. QED  BY <2>1, <2>4, <2>5, <2>6, <2>7, <2>8, <2>9 DEF Typed, TypeOK, CallsOK
<1>3. QED  BY <1>1, <1>2

LEMMA ReadTyped ==
  ASSUME Typed, NEW r \in Requests, ReadRefresh(r)
  PROVE  Typed'
<1>1. CASE Fail(r)  BY <1>1, FailTyped
<1>2. CASE ~Fail(r)
  <2> DEFINE t == req[r].token
             stage == IF refresh[t].revoked THEN "revoke" ELSE "rotate"
  <2>1. t \in Refreshes /\ Begin(r, stage, refresh[t].conn, t) /\ UNCHANGED <<now, tables, ghost>>
    BY <1>2 DEF ReadRefresh
  <2>2. refresh[t].conn \in Connections /\ t \in RefreshTokens  BY <2>1, RowsNameConnections
  <2>3. stage \in {"revoke", "rotate"}  OBVIOUS
  <2> HIDE DEF t, stage
  <2>4. CallsOK'  BY <2>1, <2>2, <2>3, BeginTyped DEF Typed, TypeOK, CallsOK, Stages
  <2>5. QED  BY <2>1, <2>4, CallStep
<1>3. QED  BY <1>1, <1>2

LEMMA RotateTyped ==
  ASSUME Typed, NEW r \in Requests, Rotate(r)
  PROVE  Typed'
<1>1. CASE Fail(r)  BY <1>1, FailTyped
<1>2. CASE ~Fail(r)
  <2> DEFINE t == req[r].token
  <2>1. /\ t \in Refreshes /\ refresh' = [refresh EXCEPT ![t].revoked = TRUE]
        /\ spent' = [spent EXCEPT ![t] = @ + 1] /\ Goto(r, "issue")
        /\ UNCHANGED <<now, conn, access, content, unused, killed>>
    BY <1>2 DEF Rotate
  <2>2. t \in RefreshTokens /\ req[r].conn \in Connections
    BY <2>1, RowsNameConnections DEF Rotate, At, Typed, FieldsOK
  <2>3. refresh[t] \in RefreshRow  BY <2>1 DEF Refreshes, Typed, TypeOK
  <2>4. [refresh[t] EXCEPT !.revoked = TRUE] \in RefreshRow
        /\ [refresh[t] EXCEPT !.revoked = TRUE].conn = refresh[t].conn
    BY <2>3 DEF RefreshRow
  <2> HIDE DEF t
  <2>5. refresh' \in [RefreshTokens -> RefreshRow \cup {None}]
    BY <2>1, <2>4 DEF Typed, TypeOK
  <2>6. \A u \in Refreshes' : refresh'[u].conn \in Existing'
    BY <2>1, <2>2, <2>4 DEF Typed, TypeOK, Refreshes, Existing
  <2>7. spent' \in [RefreshTokens -> Nat]  BY <2>1, <2>2 DEF Typed, TypeOK
  <2>8. req' \in [Requests -> Request] /\ FieldsOK'
    BY <2>1, <2>2 DEF Goto, Typed, TypeOK, FieldsOK, Request, Stages
  <2>9. QED  BY <2>1, <2>5, <2>6, <2>7, <2>8 DEF Typed, TypeOK, Accesses, Existing
<1>3. QED  BY <1>1, <1>2

LEMMA PublishTyped ==
  ASSUME Typed, NEW r \in Requests, Publish(r)
  PROVE  Typed'
<1>1. CASE Fail(r)  BY <1>1, FailTyped
<1>2. CASE ~Fail(r)
  <2>1. /\ req[r].conn \in Existing /\ content' = content \cup {req[r].conn} /\ Finish(r)
        /\ UNCHANGED <<now, conn, access, refresh, unused, ghost>>
    BY <1>2 DEF Publish, Enforced
  <2>2. CallsOK'  BY <2>1, FinishTyped DEF Typed, TypeOK, CallsOK
  <2>3. content' \subseteq Connections  BY <2>1, RowsNameConnections DEF Typed, TypeOK
  <2>4. QED  BY <2>1, <2>2, <2>3 DEF Typed, TypeOK, CallsOK, Accesses, Refreshes, Existing
<1>3. QED  BY <1>1, <1>2

LEMMA RevokeTyped ==
  ASSUME Typed, NEW r \in Requests, RevokeConnection(r)
  PROVE  Typed'
<1> DEFINE n == req[r].conn
<1>1. n \in Connections  BY DEF RevokeConnection, At, Typed, FieldsOK
<1>2. \A t \in Refreshes : [refresh[t] EXCEPT !.revoked = TRUE] \in RefreshRow
                        /\ [refresh[t] EXCEPT !.revoked = TRUE].conn = refresh[t].conn
  BY DEF Refreshes, Typed, TypeOK, RefreshRow
<1>3. \A t \in Refreshes : refresh[t] \in RefreshRow  BY DEF Refreshes, Typed, TypeOK
<1>4. refresh' \in [RefreshTokens -> RefreshRow \cup {None}]
  BY <1>2 DEF RevokeConnection, Typed, TypeOK
<1>5. access' \in [AccessTokens -> AccessRow \cup {None}]
  BY DEF RevokeConnection, Typed, TypeOK
<1>6. conn' \in [Connections -> ConnRow \cup {None}]
  <2>1. CASE n \in Existing
    <3>1. conn[n] \in ConnRow  BY <2>1 DEF Existing, Typed, TypeOK
    <3>2. [conn[n] EXCEPT !.revoked = TRUE] \in ConnRow  BY <3>1 DEF ConnRow
    <3>3. conn' = [conn EXCEPT ![n] = [conn[n] EXCEPT !.revoked = TRUE]]
      BY <2>1 DEF RevokeConnection
    <3>4. QED  BY <3>2, <3>3 DEF Typed, TypeOK
  <2>2. CASE n \notin Existing  BY <2>2 DEF RevokeConnection, Typed, TypeOK
  <2>3. QED  BY <2>1, <2>2
<1>7. Existing \subseteq Existing'
  <2> SUFFICES ASSUME NEW m \in Existing  PROVE m \in Existing'
    OBVIOUS
  <2>1. CASE m = n
    <3>1. conn[m] \in ConnRow  BY DEF Existing, Typed, TypeOK
    <3>2. conn'[m] = [conn[m] EXCEPT !.revoked = TRUE]
      BY <2>1 DEF RevokeConnection, Existing, Typed, TypeOK
    <3>3. conn'[m] \in ConnRow  BY <3>1, <3>2 DEF ConnRow
    <3>4. QED  BY <3>3, NoneAssumption DEF ConnRow, Existing
  <2>2. CASE m # n  BY <2>2 DEF RevokeConnection, Existing, Typed, TypeOK
  <2>3. QED  BY <2>1, <2>2
<1>8. \A a \in Accesses' : access'[a].conn \in Existing'
  BY <1>7 DEF RevokeConnection, Accesses, Typed, TypeOK
<1>9. \A t \in Refreshes' : refresh'[t].conn \in Existing'
  BY <1>2, <1>7 DEF RevokeConnection, Refreshes, Typed, TypeOK
<1>10. CallsOK'  BY FinishTyped DEF RevokeConnection, Typed, TypeOK, CallsOK
<1>11. killed' \subseteq Connections /\ UNCHANGED <<now, content, unused, spent>>
  BY <1>1 DEF RevokeConnection, Typed, TypeOK
<1>12. QED  BY <1>4, <1>5, <1>6, <1>8, <1>9, <1>10, <1>11 DEF Typed, TypeOK, CallsOK

LEMMA DeleteTyped ==
  ASSUME Typed, NEW r \in Requests, DeleteConnection(r)
  PROVE  Typed'
<1>1. CASE Fail(r)  BY <1>1, FailTyped
<1>2. CASE ~Fail(r)
  <2> DEFINE n == req[r].conn
  <2>1. /\ refresh' = [t \in RefreshTokens |->
                         IF t \in Refreshes /\ refresh[t].conn = n THEN None ELSE refresh[t]]
        /\ access' = [a \in AccessTokens |->
                         IF a \in Accesses /\ access[a].conn = n THEN None ELSE access[a]]
        /\ conn' = [conn EXCEPT ![n] = None] /\ Finish(r)
        /\ UNCHANGED <<now, content, unused, ghost>>
    BY <1>2 DEF DeleteConnection
  <2> HIDE DEF n
  <2>2. \A m \in Existing : m # n => m \in Existing'  BY <2>1 DEF Existing, Typed, TypeOK
  <2>3. \A a \in Accesses' : access'[a].conn \in Existing'
    BY <2>1, <2>2 DEF Accesses, Typed, TypeOK
  <2>4. \A t \in Refreshes' : refresh'[t].conn \in Existing'
    BY <2>1, <2>2 DEF Refreshes, Typed, TypeOK
  <2>5. CallsOK'  BY <2>1, FinishTyped DEF Typed, TypeOK, CallsOK
  <2>6. QED  BY <2>1, <2>3, <2>4, <2>5 DEF Typed, TypeOK, CallsOK
<1>3. QED  BY <1>1, <1>2

LEMMA NextTyped == Typed /\ [Next]_vars => Typed'
<1> SUFFICES ASSUME Typed, [Next]_vars PROVE Typed'
  OBVIOUS
<1>1. ASSUME NEW n \in Connections, CreatePersonalToken(n) \/ CreateOAuthConnection(n)
      PROVE  Typed'
  <2>1. now + PersonalTTL \in Nat  BY TTLAssumption, BoundAssumption DEF Typed, TypeOK
  <2>2. QED  BY <1>1, <2>1, ConnectTyped DEF CreatePersonalToken, CreateOAuthConnection
<1>2. ASSUME NEW n \in Connections, RemoveContent(n)  PROVE Typed'
  BY <1>2 DEF RemoveContent, Typed, TypeOK, FieldsOK, Accesses, Refreshes, Existing
<1>3. ASSUME NEW r \in Requests, Step(r)  PROVE Typed'
  BY <1>3, IssueTyped, ReadTyped, RotateTyped, PublishTyped, RevokeTyped, DeleteTyped DEF Step
<1>4. ASSUME NEW r \in Requests, Abort(r)  PROVE Typed'
  BY <1>4, FailTyped DEF Abort
<1>5. CASE Sweep
  BY <1>5 DEF Sweep, Swept, Typed, TypeOK, FieldsOK, Accesses, Refreshes, Existing
<1>6. CASE Tick
  BY <1>6, BoundAssumption DEF Tick, Typed, TypeOK, FieldsOK, Accesses, Refreshes, Existing
<1>7. CASE Restart
  BY <1>7 DEF Restart, Typed, TypeOK, FieldsOK, Accesses, Refreshes, Existing, Idle, Request, Stages
<1>8. CASE UNCHANGED vars
  BY <1>8 DEF vars, Typed, TypeOK, FieldsOK, Accesses, Refreshes, Existing
<1>9. QED
  BY <1>1, <1>2, <1>3, <1>4, <1>5, <1>6, <1>7, <1>8, StartTyped DEF Next

\* The tables and calls keep their types, and no token outlives its connection.
THEOREM TokensTyped == Spec => []TypeOK
  BY InitTyped, NextTyped, PTL DEF Spec, Typed

-----------------------------------------------------------------------------
(* Revocation is final, history is kept, replays stay recognisable.        *)

\* Ids in use, or once in use, are not drawn again.
Drawn == /\ Existing \cap unused = {} /\ killed \cap unused = {}
         /\ \A r \in Requests : req[r].conn \notin unused
         /\ \A t \in RefreshTokens \cap unused : refresh[t] = None /\ spent[t] = 0
\* A killed connection is revoked, or gone.
KilledOK == \A n \in killed : conn[n] = None \/ conn[n].revoked
\* A token that was spent is marked.
SpentOK == \A t \in Refreshes : spent[t] > 0 => refresh[t].revoked

Final == Drawn /\ KilledOK /\ SpentOK /\ HistoryKept

\* A step that only moves calls, to connections already drawn.
LEMMA CallFinal ==
  ASSUME Typed, Final, UNCHANGED <<tables, ghost>>,
         \A q \in Requests : req'[q].conn \notin unused
  PROVE  Final'
  BY DEF Final, Drawn, KilledOK, SpentOK, HistoryKept, Existing, Refreshes

LEMMA BeginFinal ==
  ASSUME Typed, Final, UNCHANGED <<tables, ghost>>, NEW r \in Requests, NEW stage,
         NEW n \in Existing \cup {None}, NEW t, Begin(r, stage, n, t)
  PROVE  Final'
<1>1. n \notin unused  BY NoneAssumption DEF Final, Drawn, Typed, TypeOK
<1>2. \A q \in Requests : req'[q].conn \notin unused
  BY <1>1 DEF Begin, Final, Drawn, Typed, TypeOK
<1>3. QED  BY <1>2, CallFinal

LEMMA FinishDrawn ==
  ASSUME Typed, Drawn, NEW r \in Requests, Finish(r)
  PROVE  \A q \in Requests : req'[q].conn \notin unused
  BY NoneAssumption DEF Typed, TypeOK, Drawn, Finish, Idle

LEMMA FailFinal ==
  ASSUME Typed, Final, NEW r \in Requests, Fail(r)
  PROVE  Final'
  BY FinishDrawn, CallFinal DEF Fail, Final

LEMMA StartFinal ==
  ASSUME Typed, Final, NEW r \in Requests, Start(r)
  PROVE  Final'
<1>1. ASSUME NEW n \in Connections, StartRevoke(r, n)  PROVE Final'
  BY <1>1, BeginFinal DEF StartRevoke
<1>2. ASSUME NEW n \in Connections, ExchangeCode(r, n) \/ AuthenticatePersonal(r, n) \/ StartDelete(r, n)
      PROVE  Final'
  BY <1>2, BeginFinal DEF ExchangeCode, AuthenticatePersonal, StartDelete
<1>3. ASSUME NEW t \in RefreshTokens, LoadRefresh(r, t)  PROVE Final'
  BY <1>3, BeginFinal DEF LoadRefresh
<1>4. ASSUME NEW a \in AccessTokens, AuthenticateAccess(r, a)  PROVE Final'
  BY <1>4, BeginFinal DEF AuthenticateAccess
<1>5. CASE RevokeToken(r)
  <2>1. PICK n \in Connections : StartRevoke(r, n)  BY <1>5, RowsNameConnections DEF RevokeToken
  <2>2. QED  BY <1>1, <2>1
<1>6. QED  BY <1>1, <1>2, <1>3, <1>4, <1>5 DEF Start

LEMMA IssueFinal ==
  ASSUME Typed, Final, NEW r \in Requests, IssueTokens(r)
  PROVE  Final'
<1>1. CASE Fail(r)  BY <1>1, FailFinal
<1>2. CASE ~Fail(r)
  <2>1. PICK a \in AccessTokens \cap unused, t \in RefreshTokens \cap unused :
          /\ refresh' = [refresh EXCEPT ![t] = [conn |-> req[r].conn, expires |-> now + RefreshTTL,
                                                revoked |-> FALSE]]
          /\ unused' = unused \ {a, t}
          /\ Finish(r)
          /\ UNCHANGED <<now, conn, content, ghost>>
    BY <1>2 DEF IssueTokens
  <2>2. spent[t] = 0  BY <2>1 DEF Final, Drawn
  <2>3. Drawn'  BY <2>1, FinishDrawn DEF Final, Drawn, Existing, Typed, TypeOK
  <2>4. SpentOK'  BY <2>1, <2>2 DEF Final, SpentOK, Refreshes, Typed, TypeOK
  <2>5. KilledOK' /\ HistoryKept'  BY <2>1 DEF Final, KilledOK, HistoryKept, Existing
  <2>6. QED  BY <2>3, <2>4, <2>5 DEF Final
<1>3. QED  BY <1>1, <1>2

LEMMA RotateFinal ==
  ASSUME Typed, Final, NEW r \in Requests, Rotate(r)
  PROVE  Final'
<1>1. CASE Fail(r)  BY <1>1, FailFinal
<1>2. CASE ~Fail(r)
  <2> DEFINE t == req[r].token
  <2>1. /\ t \in Refreshes /\ refresh' = [refresh EXCEPT ![t].revoked = TRUE]
        /\ spent' = [spent EXCEPT ![t] = @ + 1] /\ Goto(r, "issue")
        /\ UNCHANGED <<now, conn, access, content, unused, killed>>
    BY <1>2 DEF Rotate
  <2> HIDE DEF t
  <2>2. t \in RefreshTokens /\ refresh[t] \in RefreshRow /\ t \notin unused
    BY <2>1, NoneAssumption DEF Refreshes, Typed, TypeOK, Final, Drawn
  <2>3. refresh'[t].revoked  BY <2>1, <2>2 DEF Typed, TypeOK, RefreshRow
  <2>4. \A q \in Requests : req'[q].conn = req[q].conn
    BY <2>1 DEF Goto, Typed, TypeOK, Request
  <2>5. Drawn'  BY <2>1, <2>2, <2>4 DEF Final, Drawn, Existing, Typed, TypeOK
  <2>6. SpentOK'  BY <2>1, <2>2, <2>3 DEF Final, SpentOK, Refreshes, Typed, TypeOK
  <2>7. KilledOK' /\ HistoryKept'  BY <2>1 DEF Final, KilledOK, HistoryKept, Existing
  <2>8. QED  BY <2>5, <2>6, <2>7 DEF Final
<1>3. QED  BY <1>1, <1>2

LEMMA RevokeFinal ==
  ASSUME Typed, Final, NEW r \in Requests, RevokeConnection(r)
  PROVE  Final'
<1> DEFINE n == req[r].conn
<1>1. n \in Connections /\ n \notin unused
  BY DEF RevokeConnection, At, Typed, FieldsOK, Final, Drawn
<1>2. \A t \in RefreshTokens : refresh[t] = None => refresh'[t] = None
  BY DEF RevokeConnection, Refreshes
<1>15. \A t \in Refreshes : refresh[t].revoked => refresh'[t].revoked
  <2>1. \A t \in Refreshes : refresh[t] \in RefreshRow  BY DEF Refreshes, Typed, TypeOK
  <2>2. QED  BY <2>1 DEF RevokeConnection, Refreshes, RefreshRow
<1>3. n \in Existing => conn'[n].revoked
  BY DEF RevokeConnection, Existing, Typed, TypeOK, ConnRow
<1>4. n \notin Existing => conn[n] = None  BY <1>1 DEF Existing
<1>5. Existing' = Existing
  <2>1. \A m \in Existing : conn[m] \in ConnRow  BY DEF Existing, Typed, TypeOK
  <2>2. n \in Existing => conn'[n] \in ConnRow
    BY <1>1, <2>1 DEF RevokeConnection, Typed, TypeOK, ConnRow
  <2>3. n \in Existing => conn'[n] # None  BY <2>2, NoneAssumption DEF ConnRow
  <2>4. \A m \in Connections : m # n => conn'[m] = conn[m]
    BY DEF RevokeConnection, Typed, TypeOK
  <2>5. n \notin Existing => conn'[n] = conn[n]  BY DEF RevokeConnection
  <2>6. QED  BY <2>3, <2>4, <2>5 DEF Existing
<1>6. \A q \in Requests : req'[q].conn \notin unused
  BY FinishDrawn DEF RevokeConnection, Final
<1>7. \A m \in Connections : m # n => conn'[m] = conn[m]
  BY DEF RevokeConnection, Typed, TypeOK
<1>8. killed' = killed \cup {n} /\ UNCHANGED <<now, content, unused, spent>>
  BY DEF RevokeConnection
<1>9. killed \subseteq Connections /\ conn' \in [Connections -> ConnRow \cup {None}]
  BY RevokeTyped DEF Typed, TypeOK
<1> HIDE DEF n
<1>10. Drawn'
  <2>1. (Existing \cap unused)' = {} /\ (killed \cap unused)' = {}
    BY <1>1, <1>5, <1>8 DEF Final, Drawn
  <2>2. \A t \in RefreshTokens \cap unused : refresh'[t] = None /\ spent'[t] = 0
    BY <1>2, <1>8 DEF Final, Drawn
  <2>3. QED  BY <1>6, <1>8, <2>1, <2>2 DEF Drawn
<1>11. KilledOK'
  <2>1. conn'[n] = None \/ conn'[n].revoked  BY <1>1, <1>3, <1>4, <1>5 DEF Existing
  <2>2. QED  BY <1>7, <1>8, <1>9, <2>1 DEF Final, KilledOK
<1>12. SpentOK'
  <2> SUFFICES ASSUME NEW t \in Refreshes', spent'[t] > 0  PROVE refresh'[t].revoked
    BY DEF SpentOK
  <2>1. t \in Refreshes  BY <1>2 DEF Refreshes
  <2>2. refresh[t].revoked  BY <1>8, <2>1 DEF Final, SpentOK
  <2>3. QED  BY <1>15, <2>1, <2>2
<1>13. HistoryKept'  BY <1>5, <1>8 DEF Final, HistoryKept
<1>14. QED  BY <1>10, <1>11, <1>12, <1>13 DEF Final

LEMMA DeleteFinal ==
  ASSUME Typed, Final, NEW r \in Requests, DeleteConnection(r)
  PROVE  Final'
<1>1. CASE Fail(r)  BY <1>1, FailFinal
<1>2. CASE ~Fail(r)
  <2> DEFINE n == req[r].conn
  <2>1. /\ n \notin content
        /\ \A t \in RefreshTokens : refresh'[t] \in {refresh[t], None}
        /\ conn' = [conn EXCEPT ![n] = None] /\ Finish(r)
        /\ UNCHANGED <<now, content, unused, ghost>>
    BY <1>2 DEF DeleteConnection, Unreferenced
  <2>2. n \in Connections  BY DEF DeleteConnection, At, Typed, FieldsOK
  <2> HIDE DEF n
  <2>3. conn'[n] = None /\ \A m \in Connections : m # n => conn'[m] = conn[m]
    BY <2>1, <2>2 DEF Typed, TypeOK
  <2>4. Existing' = Existing \ {n}  BY <2>2, <2>3 DEF Existing
  <2>5. Drawn'
    <3>1. \A q \in Requests : req'[q].conn \notin unused  BY <2>1, FinishDrawn DEF Final
    <3>2. \A t \in RefreshTokens \cap unused : refresh'[t] = None /\ spent'[t] = 0
      BY <2>1 DEF Final, Drawn
    <3>3. QED  BY <2>1, <2>4, <3>1, <3>2 DEF Final, Drawn
  <2>6. KilledOK'
    <3>1. killed \subseteq Connections  BY DEF Typed, TypeOK
    <3>2. QED  BY <2>1, <2>3, <3>1 DEF Final, KilledOK
  <2>7. SpentOK'  BY <2>1 DEF Final, SpentOK, Refreshes
  <2>8. HistoryKept'  BY <2>1, <2>4 DEF Final, HistoryKept
  <2>9. QED  BY <2>5, <2>6, <2>7, <2>8 DEF Final
<1>3. QED  BY <1>1, <1>2

LEMMA ConnectFinal ==
  ASSUME Typed, Final, NEW n \in Connections, NEW e \in Nat \cup {None}, Connect(n, e)
  PROVE  Final'
<1> DEFINE x == [expires |-> e, revoked |-> FALSE]
<1>1. /\ n \in unused /\ unused' = unused \ {n} /\ conn' = [conn EXCEPT ![n] = x]
      /\ UNCHANGED <<now, access, refresh, content, req, ghost>>
  BY DEF Connect
<1>2. x \in ConnRow  BY DEF ConnRow
<1>3. x # None  BY <1>2, NoneAssumption DEF ConnRow
<1> HIDE DEF x
<1>4. \A m \in Connections : m # n => conn'[m] = conn[m]  BY <1>1 DEF Typed, TypeOK
<1>5. Existing' = Existing \cup {n}  BY <1>1, <1>3, <1>4 DEF Existing, Typed, TypeOK
<1>6. Drawn'  BY <1>1, <1>5 DEF Final, Drawn
<1>7. KilledOK'
  <2>1. n \notin killed /\ killed \subseteq Connections  BY <1>1 DEF Final, Drawn, Typed, TypeOK
  <2>2. QED  BY <1>1, <1>4, <2>1 DEF Final, KilledOK
<1>8. SpentOK' /\ HistoryKept'  BY <1>1, <1>5 DEF Final, SpentOK, HistoryKept, Refreshes
<1>9. QED  BY <1>6, <1>7, <1>8 DEF Final

LEMMA NextFinal == Typed /\ Final /\ [Next]_vars => Final'
<1> SUFFICES ASSUME Typed, Final, [Next]_vars PROVE Final'
  OBVIOUS
<1>1. ASSUME NEW n \in Connections, CreatePersonalToken(n) \/ CreateOAuthConnection(n)
      PROVE  Final'
  <2>1. now + PersonalTTL \in Nat  BY TTLAssumption, BoundAssumption DEF Typed, TypeOK
  <2>2. QED  BY <1>1, <2>1, ConnectFinal DEF CreatePersonalToken, CreateOAuthConnection
<1>2. ASSUME NEW n \in Connections, RemoveContent(n)  PROVE Final'
  BY <1>2 DEF RemoveContent, Final, Drawn, KilledOK, SpentOK, HistoryKept, Existing, Refreshes
<1>3. ASSUME NEW r \in Requests, ReadRefresh(r)  PROVE Final'
  <2>1. CASE Fail(r)  BY <2>1, FailFinal
  <2>2. CASE ~Fail(r)
    <3>1. refresh[req[r].token].conn \in Existing
      BY <1>3, <2>2 DEF ReadRefresh, Typed, TypeOK
    <3>2. QED  BY <1>3, <2>2, <3>1, BeginFinal DEF ReadRefresh
  <2>3. QED  BY <2>1, <2>2
<1>4. ASSUME NEW r \in Requests, Publish(r)  PROVE Final'
  <2>1. CASE Fail(r)  BY <2>1, FailFinal
  <2>2. CASE ~Fail(r)
    <3>1. /\ req[r].conn \in Existing /\ content' = content \cup {req[r].conn} /\ Finish(r)
          /\ UNCHANGED <<now, conn, access, refresh, unused, ghost>>
      BY <1>4, <2>2 DEF Publish, Enforced
    <3>2. \A q \in Requests : req'[q].conn \notin unused  BY <3>1, FinishDrawn DEF Final
    <3>3. QED
      BY <3>1, <3>2 DEF Final, Drawn, KilledOK, SpentOK, HistoryKept, Existing, Refreshes
  <2>3. QED  BY <2>1, <2>2
<1>5. ASSUME NEW r \in Requests, Step(r)  PROVE Final'
  BY <1>3, <1>4, <1>5, IssueFinal, RotateFinal, RevokeFinal, DeleteFinal DEF Step
<1>6. ASSUME NEW r \in Requests, Abort(r)  PROVE Final'
  BY <1>6, FailFinal DEF Abort
<1>7. CASE Sweep
  BY <1>7 DEF Sweep, Final, Drawn, KilledOK, SpentOK, HistoryKept, Existing, Refreshes
<1>8. CASE Tick
  BY <1>8 DEF Tick, Final, Drawn, KilledOK, SpentOK, HistoryKept, Existing, Refreshes
<1>9. CASE Restart
  <2>1. \A q \in Requests : req'[q].conn \notin unused
    BY <1>9, NoneAssumption DEF Restart, Idle, Typed, TypeOK
  <2>2. QED  BY <1>9, <2>1, CallFinal DEF Restart
<1>10. CASE UNCHANGED vars
  BY <1>10 DEF vars, Final, Drawn, KilledOK, SpentOK, HistoryKept, Existing, Refreshes
<1>11. QED
  BY <1>1, <1>2, <1>5, <1>6, <1>7, <1>8, <1>9, <1>10, StartFinal DEF Next

LEMMA InitFinal == Init => Final
  BY NoneAssumption DEF Init, Final, Drawn, KilledOK, SpentOK, HistoryKept, Existing, Refreshes, Idle

LEMMA FinalAlways == Spec => [](Typed /\ Final)
  BY InitTyped, InitFinal, NextTyped, NextFinal, PTL DEF Spec

\* A connection with content is never deleted.
THEOREM HistoryKeptHolds == Spec => []HistoryKept
  BY FinalAlways, PTL DEF Final

\* Only authentication lets a call through, and it looks at the connection.
LEMMA ServedAlive ==
  ASSUME Typed, Final, [Next]_vars, NEW r \in Requests, ~At(r, "serve"), At(r, "serve")'
  PROVE  req'[r].conn \notin killed
<1>1. ASSUME NEW n \in Existing, ~conn[n].revoked, req'[r].conn = n
      PROVE  req'[r].conn \notin killed
  BY <1>1 DEF Final, KilledOK, Existing
<1>2. ASSUME NEW q \in Requests, NEW n \in Connections, AuthenticatePersonal(q, n)
      PROVE  req'[r].conn \notin killed
  <2>1. r = q  BY <1>2 DEF AuthenticatePersonal, Begin, At, Typed, TypeOK
  <2>2. req'[r].conn = n  BY <1>2, <2>1 DEF AuthenticatePersonal, Begin, Typed, TypeOK
  <2>3. QED  BY <1>1, <1>2, <2>2 DEF AuthenticatePersonal
<1>3. ASSUME NEW q \in Requests, NEW a \in AccessTokens, AuthenticateAccess(q, a)
      PROVE  req'[r].conn \notin killed
  <2>1. r = q  BY <1>3 DEF AuthenticateAccess, Begin, At, Typed, TypeOK
  <2>2. req'[r].conn = access[a].conn
    BY <1>3, <2>1 DEF AuthenticateAccess, Begin, Typed, TypeOK
  <2>3. QED  BY <1>1, <1>3, <2>2 DEF AuthenticateAccess, Serves
<1>4. ASSUME NEW q \in Requests, NEW stage \in Stages \ {"serve"}, NEW n, NEW t, Begin(q, stage, n, t)
      PROVE  FALSE
  BY <1>4 DEF Begin, At, Typed, TypeOK
<1>5. ASSUME NEW q \in Requests, Finish(q)  PROVE FALSE
  BY <1>5 DEF Finish, Idle, At, Typed, TypeOK
<1>6. ASSUME NEW q \in Requests, Start(q)  PROVE req'[r].conn \notin killed
  BY <1>2, <1>3, <1>4, <1>6
     DEF Start, ExchangeCode, StartRevoke, StartDelete, LoadRefresh, RevokeToken, Stages
<1>7. ASSUME NEW q \in Requests, Step(q)  PROVE FALSE
  <2>1. CASE Finish(q)  BY <1>5, <2>1
  <2>2. CASE ReadRefresh(q) /\ ~Finish(q)
    BY <1>4, <2>2 DEF ReadRefresh, Fail, Stages
  <2>3. CASE Rotate(q) /\ ~Finish(q)
    BY <2>3 DEF Rotate, Fail, Goto, At, Typed, TypeOK, Request
  <2>4. QED
    BY <1>7, <2>1, <2>2, <2>3
       DEF Step, IssueTokens, Publish, RevokeConnection, DeleteConnection, Fail
<1>8. ASSUME NEW q \in Requests, Abort(q)  PROVE FALSE
  BY <1>5, <1>8 DEF Abort, Fail
<1>9. CASE Restart  BY <1>9 DEF Restart, Idle, At
<1>10. CASE UNCHANGED req  BY <1>10 DEF At
<1>11. QED
  BY <1>6, <1>7, <1>8, <1>9, <1>10
     DEF Next, vars, Sweep, Tick, RemoveContent, CreatePersonalToken, CreateOAuthConnection, Connect

\* Once a revocation is done, no request is authenticated as that connection again.
THEOREM RevocationIsFinal == Spec => RevokedNeverServed
<1>1. Typed /\ Final /\ [Next]_vars
        => [\A r \in Requests : ~At(r, "serve") /\ At(r, "serve")' => req'[r].conn \notin killed]_vars
  BY ServedAlive
<1>2. QED  BY <1>1, FinalAlways, PTL DEF Spec, RevokedNeverServed

\* A refresh token's row goes only when it has expired or with its connection.
LEMMA RefreshStays ==
  ASSUME Typed, Final, [Next]_vars, NEW t \in Refreshes, refresh[t].expires > now
  PROVE  t \in Refreshes' \/ refresh[t].conn \notin Existing'
<1>1. t \in RefreshTokens /\ refresh[t] \in RefreshRow /\ refresh[t] # None
  BY DEF Refreshes, Typed, TypeOK
<1>2. ASSUME UNCHANGED refresh  PROVE t \in Refreshes'
  BY <1>2 DEF Refreshes
<1>3. ASSUME NEW r \in Requests, IssueTokens(r)  PROVE t \in Refreshes'
  <2>1. CASE UNCHANGED refresh  BY <1>2, <2>1
  <2>2. ASSUME NEW u \in RefreshTokens \cap unused, NEW x,
               refresh' = [refresh EXCEPT ![u] = x]
        PROVE  t \in Refreshes'
    <3>1. t # u  BY <1>1 DEF Final, Drawn
    <3>2. QED  BY <1>1, <2>2, <3>1 DEF Refreshes, Typed, TypeOK
  <2>3. QED  BY <1>3, <2>1, <2>2 DEF IssueTokens, Fail
<1>4. ASSUME NEW r \in Requests, Rotate(r)  PROVE t \in Refreshes'
  <2>1. CASE UNCHANGED refresh  BY <1>2, <2>1
  <2>2. CASE refresh' = [refresh EXCEPT ![req[r].token].revoked = TRUE]
    <3>1. CASE t = req[r].token
      <4>1. refresh'[t] = [refresh[t] EXCEPT !.revoked = TRUE]
        BY <1>1, <2>2, <3>1 DEF Typed, TypeOK
      <4>2. refresh'[t] \in RefreshRow  BY <1>1, <4>1 DEF RefreshRow
      <4>3. QED  BY <1>1, <4>2, NoneAssumption DEF RefreshRow, Refreshes
    <3>2. CASE t # req[r].token  BY <1>1, <2>2, <3>2 DEF Refreshes, Typed, TypeOK
    <3>3. QED  BY <3>1, <3>2
  <2>3. QED  BY <1>4, <2>1, <2>2 DEF Rotate, Fail
<1>5. ASSUME NEW r \in Requests, RevokeConnection(r)  PROVE t \in Refreshes'
  <2>1. [refresh[t] EXCEPT !.revoked = TRUE] \in RefreshRow  BY <1>1 DEF RefreshRow
  <2>2. refresh'[t] \in {refresh[t], [refresh[t] EXCEPT !.revoked = TRUE]}
    BY <1>1, <1>5 DEF RevokeConnection
  <2>3. QED  BY <1>1, <2>1, <2>2, NoneAssumption DEF RefreshRow, Refreshes
<1>6. ASSUME NEW r \in Requests, DeleteConnection(r)
      PROVE  t \in Refreshes' \/ refresh[t].conn \notin Existing'
  <2>1. CASE UNCHANGED refresh  BY <1>2, <2>1
  <2>2. CASE refresh[t].conn # req[r].conn
    BY <1>1, <1>6, <2>1, <2>2 DEF DeleteConnection, Fail, Refreshes
  <2>3. CASE conn' = [conn EXCEPT ![req[r].conn] = None] /\ refresh[t].conn = req[r].conn
    BY <1>1, <2>3 DEF Existing, RefreshRow, Typed, TypeOK
  <2>4. QED  BY <1>6, <2>1, <2>2, <2>3 DEF DeleteConnection, Fail
<1>7. CASE Sweep
  BY <1>1, <1>7 DEF Sweep, Swept, Refreshes, RefreshRow, Typed, TypeOK
<1>8. ASSUME NEW r \in Requests, Start(r) \/ ReadRefresh(r) \/ Publish(r) \/ Abort(r)
      PROVE  UNCHANGED refresh
  BY <1>8 DEF Start, ExchangeCode, AuthenticatePersonal, StartRevoke, StartDelete, LoadRefresh,
     AuthenticateAccess, RevokeToken, ReadRefresh, Publish, Abort, Fail
<1>9. QED
  BY <1>2, <1>3, <1>4, <1>5, <1>6, <1>7, <1>8
     DEF Next, Step, vars, Tick, Restart, RemoveContent, CreatePersonalToken, CreateOAuthConnection, Connect

LEMMA SpentGrows ==
  ASSUME Typed, [Next]_vars, NEW t \in RefreshTokens, spent[t] > 0
  PROVE  spent'[t] > 0
<1>1. spent[t] \in Nat  BY DEF Typed, TypeOK
<1>2. ASSUME NEW r \in Requests, Rotate(r)  PROVE spent'[t] > 0
  BY <1>1, <1>2 DEF Rotate, Fail, Typed, TypeOK
<1>3. ASSUME NEW r \in Requests, Step(r), ~Rotate(r)  PROVE UNCHANGED spent
  BY <1>3 DEF Step, IssueTokens, ReadRefresh, Publish, RevokeConnection, DeleteConnection, Fail
<1>4. ASSUME NEW r \in Requests, Start(r) \/ Abort(r)  PROVE UNCHANGED spent
  BY <1>4 DEF Start, ExchangeCode, AuthenticatePersonal, StartRevoke, StartDelete, LoadRefresh,
     AuthenticateAccess, RevokeToken, Abort, Fail
<1>5. QED
  BY <1>2, <1>3, <1>4
     DEF Next, vars, Sweep, Tick, Restart, RemoveContent, CreatePersonalToken, CreateOAuthConnection, Connect

\* A token that was rotated away stays recognisable as a replay until it expires or
\* its connection is deleted.
THEOREM ReplaysRecognised == Spec => SpentRemembered
<1>1. ASSUME Typed, Final, [Next]_vars, NEW t \in Refreshes, spent[t] > 0, refresh[t].expires > now
      PROVE  (t \in Refreshes' /\ refresh'[t].revoked) \/ refresh[t].conn \notin Existing'
  <2>1. t \in RefreshTokens  BY DEF Refreshes
  <2>2. SpentOK' /\ spent'[t] > 0  BY <1>1, <2>1, NextFinal, SpentGrows DEF Final
  <2>3. QED  BY <1>1, <2>2, RefreshStays DEF SpentOK
<1>2. Typed /\ Final /\ [Next]_vars
        => [\A t \in RefreshTokens : t \in Refreshes /\ spent[t] > 0 /\ refresh[t].expires > now
              => \/ t \in Refreshes' /\ refresh'[t].revoked
                 \/ refresh[t].conn \notin Existing']_vars
  BY <1>1
<1>3. QED  BY <1>2, FinalAlways, PTL DEF Spec, SpentRemembered

=============================================================================
