------------------------- MODULE OAuthGrants_proofs -------------------------
(***************************************************************************)
(* Theorems about OAuthGrants, for any number of requests, users, clients, *)
(* codes and connections and any lifetimes.                                *)
(***************************************************************************)
EXTENDS OAuthGrants, TLAPS

Exchanging == {"find", "burn", "lock", "look", "create", "insert", "issue"}
Holding    == {"look", "create", "insert"}

\* What the stage of a request says of its fields.
FieldsOK == \A r \in Requests :
    /\ ~At(r, "idle") => /\ req[r].user \in Users /\ req[r].client \in Clients
                         /\ req[r].code \in Codes
    /\ At(r, "issue") => req[r].conn \in Connections

Typed == TypeOK /\ FieldsOK

-----------------------------------------------------------------------------
LEMMA InitTyped == Init => Typed
  BY BoundAssumption DEF Init, Typed, TypeOK, FieldsOK, At, Idle, Request, Stages, Stored

\* Ending a call, or moving it to its next await, keeps the types of the calls.
LEMMA FinishTyped ==
  ASSUME Typed, NEW r \in Requests, Finish(r)
  PROVE  /\ req' \in [Requests -> Request] /\ FieldsOK'
         /\ lock' \in [Users \X Clients -> Requests \cup {None}]
  BY DEF Typed, TypeOK, FieldsOK, Finish, At, Idle, Request, Stages

LEMMA FailTyped ==
  ASSUME Typed, NEW r \in Requests, Fail(r)
  PROVE  Typed'
<1>1. /\ req' \in [Requests -> Request] /\ FieldsOK'
      /\ lock' \in [Users \X Clients -> Requests \cup {None}]
  BY FinishTyped DEF Fail
<1>2. QED  BY <1>1 DEF Fail, Typed, TypeOK, rows, ghost, Stored

LEMMA GotoTyped ==
  ASSUME Typed, NEW r \in Requests, ~At(r, "idle"), NEW stage \in Stages \ {"issue"}, Goto(r, stage)
  PROVE  req' \in [Requests -> Request] /\ FieldsOK'
  BY DEF Typed, TypeOK, FieldsOK, Goto, At, Request, Stages

\* A request that knows its connection goes on to issue tokens.
LEMMA ToIssueTyped ==
  ASSUME Typed, NEW r \in Requests, ~At(r, "idle"), NEW n \in Connections,
         req' = [req EXCEPT ![r].at = "issue", ![r].conn = n]
  PROVE  req' \in [Requests -> Request] /\ FieldsOK'
<1>1. req[r] \in Request  BY DEF Typed, TypeOK
<1>2. [req[r] EXCEPT !.at = "issue", !.conn = n] \in Request  BY <1>1 DEF Request, Stages
<1>3. req' \in [Requests -> Request]  BY <1>2 DEF Typed, TypeOK
<1>4. /\ req'[r].user = req[r].user /\ req'[r].client = req[r].client
      /\ req'[r].code = req[r].code /\ req'[r].conn = n
  BY <1>1 DEF Typed, TypeOK, Request
<1>5. ASSUME NEW q \in Requests, q # r  PROVE req'[q] = req[q]
  BY <1>5 DEF Typed, TypeOK
<1>6. FieldsOK'  BY <1>4, <1>5 DEF Typed, FieldsOK, At
<1>7. QED  BY <1>3, <1>6

\* An approval completes the row: it is approved and names a user.
LEMMA ApprovalTyped ==
  ASSUME NEW k, code[k] \in CodeRow, NEW u \in Users
  PROVE  /\ Approval(k, u) \in CodeRow
         /\ Approval(k, u).secret # 0 /\ Approval(k, u).user = u
         /\ Approval(k, u).client = code[k].client /\ Approval(k, u).browser = code[k].browser
<1>1. code[k].secret + 1 \in Nat /\ code[k].secret + 1 # 0  BY DEF CodeRow
<1>2. Approval(k, u) \in CodeRow  BY <1>1 DEF Approval, CodeRow
<1>3. Approval(k, u).secret = code[k].secret + 1  BY DEF Approval, CodeRow
<1>4. QED  BY <1>1, <1>2, <1>3 DEF Approval, CodeRow

LEMMA PairTyped ==
  ASSUME Typed, NEW r \in Requests, ~At(r, "idle")
  PROVE  Pair(r) \in Users \X Clients
  BY DEF Typed, FieldsOK, Pair

LEMMA StepTyped ==
  ASSUME Typed, NEW r \in Requests, Step(r)
  PROVE  Typed'
<1> USE DEF rows, ghost
<1>1. CASE Approve(r)
  <2>1. CASE Fail(r)  BY <2>1, FailTyped
  <2>2. CASE ~Fail(r)
    <3> DEFINE k == req[r].code
    <3>1. /\ k \in Stored /\ Finish(r)
          /\ code' = [code EXCEPT ![k] = Approval(k, req[r].user)]
          /\ cookie' = [cookie EXCEPT ![req[r].user] = None]
          /\ consented' = consented \cup {Pair(r)}
          /\ UNCHANGED <<now, client, conn, unused, issued>>
      BY <1>1, <2>2 DEF Approve
    <3>2. /\ req' \in [Requests -> Request] /\ FieldsOK'
          /\ lock' \in [Users \X Clients -> Requests \cup {None}]
      BY <3>1, FinishTyped
    <3>3. ~At(r, "idle") /\ req[r].user \in Users /\ k \in Codes
      BY <1>1 DEF Approve, At, Typed, FieldsOK
    <3>4. Pair(r) \in Users \X Clients  BY <3>3, PairTyped
    <3>5. code[k] \in CodeRow  BY <3>1 DEF Typed, TypeOK, Stored
    <3>6. Approval(k, req[r].user) \in CodeRow /\ Approval(k, req[r].user).secret # 0
      BY <3>3, <3>5, ApprovalTyped
    <3>7. Approval(k, req[r].user).user # None
      BY <3>3, <3>5, ApprovalTyped, NoneAssumption
    <3>8. code' \in [Codes -> CodeRow \cup {None}]  BY <3>1, <3>6 DEF Typed, TypeOK
    <3>9. \A j \in Stored' : code'[j].secret = 0 <=> code'[j].user = None
      BY <3>1, <3>3, <3>6, <3>7 DEF Typed, TypeOK, Stored
    <3>10. QED  BY <3>1, <3>2, <3>3, <3>4, <3>8, <3>9 DEF Typed, TypeOK
  <2>3. QED  BY <2>1, <2>2
<1>2. CASE Deny(r)
  <2>1. /\ req' \in [Requests -> Request] /\ FieldsOK'
        /\ lock' \in [Users \X Clients -> Requests \cup {None}]
    BY <1>2, FinishTyped DEF Deny
  <2>2. QED  BY <1>2, <2>1 DEF Deny, Typed, TypeOK, Stored
<1>3. CASE FindCode(r)
  <2>1. CASE Fail(r)  BY <2>1, FailTyped
  <2>2. CASE ~Fail(r)
    <3>1. Goto(r, "burn") /\ UNCHANGED <<now, rows, cookie, lock, ghost>> /\ ~At(r, "idle")
      BY <1>3, <2>2 DEF FindCode, At
    <3>2. req' \in [Requests -> Request] /\ FieldsOK'  BY <3>1, GotoTyped DEF Stages
    <3>3. QED  BY <3>1, <3>2 DEF Typed, TypeOK, Stored
  <2>3. QED  BY <2>1, <2>2
<1>4. CASE BurnCode(r)
  <2>1. ~At(r, "idle")  BY <1>4 DEF BurnCode, At
  <2>2. req' \in [Requests -> Request] /\ FieldsOK'
    BY <1>4, <2>1, GotoTyped DEF BurnCode, Stages
  <2>3. QED  BY <1>4, <2>2 DEF BurnCode, Typed, TypeOK, Stored
<1>5. CASE FindConnection(r)
  <2>1. CASE Fail(r)  BY <2>1, FailTyped
  <2>2. ASSUME NEW n \in Active(req[r].user, req[r].client),
               req' = [req EXCEPT ![r].at = "issue", ![r].conn = n],
               Unlock(r), UNCHANGED <<now, rows, cookie, ghost>>
        PROVE  Typed'
    <3>1. n \in Connections /\ ~At(r, "idle")  BY <1>5 DEF Active, Existing, FindConnection, At
    <3>2. req' \in [Requests -> Request] /\ FieldsOK'
      BY <2>2, <3>1, ToIssueTyped
    <3>3. QED  BY <2>2, <3>1, <3>2 DEF Typed, TypeOK, Unlock, Stored
  <2>3. CASE Goto(r, "create") /\ UNCHANGED <<now, rows, cookie, lock, ghost>>
    <3>1. ~At(r, "idle")  BY <1>5 DEF FindConnection, At
    <3>2. req' \in [Requests -> Request] /\ FieldsOK'  BY <2>3, <3>1, GotoTyped DEF Stages
    <3>3. QED  BY <2>3, <3>2 DEF Typed, TypeOK, Stored
  <2>4. QED  BY <1>5, <2>1, <2>2, <2>3 DEF FindConnection
<1>6. CASE FindClient(r)
  <2>1. CASE Fail(r)  BY <2>1, FailTyped
  <2>2. CASE ~Fail(r)
    <3>1. Goto(r, "insert") /\ UNCHANGED <<now, rows, cookie, lock, ghost>> /\ ~At(r, "idle")
      BY <1>6, <2>2 DEF FindClient, At
    <3>2. req' \in [Requests -> Request] /\ FieldsOK'  BY <3>1, GotoTyped DEF Stages
    <3>3. QED  BY <3>1, <3>2 DEF Typed, TypeOK, Stored
  <2>3. QED  BY <2>1, <2>2
<1>7. CASE CreateConnection(r)
  <2>1. CASE Fail(r)  BY <2>1, FailTyped
  <2>2. CASE ~Fail(r)
    <3>1. PICK n \in Connections :
            /\ conn' = [conn EXCEPT ![n] = [user |-> req[r].user, client |-> req[r].client,
                                            revoked |-> FALSE]]
            /\ unused' = unused \ {n}
            /\ req' = [req EXCEPT ![r].at = "issue", ![r].conn = n]
            /\ Unlock(r)
            /\ UNCHANGED <<now, client, code, cookie, ghost>>
      BY <1>7, <2>2 DEF CreateConnection
    <3>2. ~At(r, "idle")  BY <1>7 DEF CreateConnection, At
    <3>3. req[r].user \in Users /\ req[r].client \in Clients  BY <3>2 DEF Typed, FieldsOK
    <3>4. req' \in [Requests -> Request] /\ FieldsOK'
      BY <3>1, <3>2, ToIssueTyped
    <3>5. conn' \in [Connections -> ConnRow \cup {None}]
      BY <3>1, <3>3 DEF Typed, TypeOK, ConnRow
    <3>6. QED  BY <3>1, <3>4, <3>5 DEF Typed, TypeOK, Unlock, Stored
  <2>3. QED  BY <2>1, <2>2
<1>8. CASE IssueTokens(r)
  <2>1. CASE Fail(r)  BY <2>1, FailTyped
  <2>2. CASE ~Fail(r)
    <3>1. /\ issued' = [issued EXCEPT ![req[r].code] = @ + 1] /\ Finish(r)
          /\ UNCHANGED <<now, rows, cookie, consented>>
      BY <1>8, <2>2 DEF IssueTokens
    <3>2. /\ req' \in [Requests -> Request] /\ FieldsOK'
          /\ lock' \in [Users \X Clients -> Requests \cup {None}]
      BY <3>1, FinishTyped
    <3>3. req[r].code \in Codes  BY <1>8 DEF IssueTokens, At, Typed, FieldsOK
    <3>4. issued' \in [Codes -> Nat]  BY <3>1, <3>3 DEF Typed, TypeOK
    <3>5. QED  BY <3>1, <3>2, <3>4 DEF Typed, TypeOK, Stored
  <2>3. QED  BY <2>1, <2>2
<1>9. QED  BY <1>1, <1>2, <1>3, <1>4, <1>5, <1>6, <1>7, <1>8 DEF Step

LEMMA NextTyped == Typed /\ [Next]_vars => Typed'
<1> SUFFICES ASSUME Typed, [Next]_vars PROVE Typed'
  OBVIOUS
<1> USE DEF rows, ghost
<1>1. ASSUME NEW c \in Clients, Register(c)  PROVE Typed'
  <2>1. now \in Nat  BY BoundAssumption DEF Typed, TypeOK
  <2>2. client' \in [Clients -> Nat \cup {None}]  BY <1>1, <2>1 DEF Register, Typed, TypeOK
  <2>3. QED  BY <1>1, <2>2 DEF Register, Typed, TypeOK, FieldsOK, At, Stored
<1>2. ASSUME NEW c \in Clients, NEW b \in Users, Authorize(c, b)  PROVE Typed'
  <2>1. PICK k \in Codes \cap unused :
          /\ code' = [code EXCEPT ![k] = [client |-> c, user |-> None, secret |-> 0,
                                          expires |-> now + CodeTTL, browser |-> b]]
          /\ unused' = unused \ {k}
          /\ cookie' = [cookie EXCEPT ![b] = k]
    BY <1>2 DEF Authorize
  <2>2. now + CodeTTL \in Nat  BY BoundAssumption, TTLAssumption DEF Typed, TypeOK
  <2>3. code' \in [Codes -> CodeRow \cup {None}]  BY <2>1, <2>2 DEF Typed, TypeOK, CodeRow
  <2>4. \A j \in Stored' : code'[j].secret = 0 <=> code'[j].user = None
    BY <2>1 DEF Typed, TypeOK, Stored
  <2>5. QED  BY <1>2, <2>1, <2>3, <2>4 DEF Authorize, Typed, TypeOK, FieldsOK, At
<1>3. ASSUME NEW r \in Requests, NEW b \in Users, NEW k \in Codes, ReadConsent(r, b, k)
      PROVE  Typed'
  <2>1. code[k].client \in Clients
    BY <1>3 DEF ReadConsent, Answerable, Stored, Typed, TypeOK, CodeRow
  <2>2. PICK answer \in {"approve", "deny"} :
          req' = [req EXCEPT ![r] = [Idle EXCEPT !.at = answer, !.code = k, !.user = b,
                                                 !.client = code[k].client]]
    BY <1>3 DEF ReadConsent
  <2>3. req' \in [Requests -> Request] /\ FieldsOK'
    BY <2>1, <2>2 DEF Typed, TypeOK, FieldsOK, Idle, Request, Stages, At
  <2>4. QED  BY <1>3, <2>3 DEF ReadConsent, Typed, TypeOK, Stored
<1>4. ASSUME NEW r \in Requests, NEW c \in Clients, NEW k \in Codes,
             NEW s \in 1..Cardinality(Requests), LoadCode(r, c, k, s)
      PROVE  Typed'
  <2>1. code[k] \in CodeRow /\ code[k].secret = s /\ s # 0
    BY <1>4 DEF LoadCode, Stored, Typed, TypeOK
  <2>2. code[k].user \in Users /\ s \in Nat
    BY <1>4, <2>1 DEF LoadCode, Stored, Typed, TypeOK, CodeRow
  <2>3. req' \in [Requests -> Request] /\ FieldsOK'
    BY <1>4, <2>2 DEF LoadCode, Typed, TypeOK, FieldsOK, Request, Stages, At
  <2>4. QED  BY <1>4, <2>3 DEF LoadCode, Typed, TypeOK, Stored
<1>5. ASSUME NEW r \in Requests, LockPair(r)  PROVE Typed'
  <2>1. ~At(r, "idle")  BY <1>5 DEF LockPair, At
  <2>2. req' \in [Requests -> Request] /\ FieldsOK'
    BY <1>5, <2>1, GotoTyped DEF LockPair, Stages
  <2>3. Pair(r) \in Users \X Clients  BY <2>1, PairTyped
  <2>4. QED  BY <1>5, <2>2, <2>3 DEF LockPair, Typed, TypeOK, Stored
<1>6. ASSUME NEW r \in Requests, Abort(r)  PROVE Typed'
  BY <1>6, FailTyped DEF Abort
<1>7. ASSUME NEW n \in Connections, Revoke(n) \/ Delete(n)  PROVE Typed'
  <2>1. conn' \in [Connections -> ConnRow \cup {None}]
    BY <1>7 DEF Revoke, Delete, Existing, Typed, TypeOK, ConnRow
  <2>2. QED  BY <1>7, <2>1 DEF Revoke, Delete, Typed, TypeOK, FieldsOK, At, Stored
<1>8. CASE Sweep
  BY <1>8 DEF Sweep, Typed, TypeOK, FieldsOK, At, Stored
<1>9. CASE Tick
  BY <1>9, BoundAssumption DEF Tick, Typed, TypeOK, FieldsOK, At, Stored
<1>10. CASE Restart
  BY <1>10 DEF Restart, Typed, TypeOK, FieldsOK, At, Stored, Idle, Request, Stages
<1>11. CASE UNCHANGED vars
  BY <1>11 DEF vars, Typed, TypeOK, FieldsOK, At, Stored
<1>12. QED
  BY <1>1, <1>2, <1>3, <1>4, <1>5, <1>6, <1>7, <1>8, <1>9, <1>10, <1>11, StepTyped DEF Next

\* The tables, locks, cookies and coroutines keep their types; a code is approved
\* exactly when it names a user (the case oauth_provider.py:143-147 "Shouldn't happen").
THEOREM GrantsTyped == Spec => []TypeOK
  BY InitTyped, NextTyped, PTL DEF Spec, Typed

-----------------------------------------------------------------------------
(* One active connection per user and client.                              *)

\* A call between taking the lock and releasing it holds the lock of its pair,
\* and one that found no connection is right that there is none.
LockHeld == \A r \in Requests : req[r].at \in Holding => lock[Pair(r)] = r
NoneYet  == \A r \in Requests, u \in Users, c \in Clients :
              req[r].at \in {"create", "insert"} /\ Pair(r) = <<u, c>> => Active(u, c) = {}
Single   == LockHeld /\ NoneYet /\ OneActiveConnection

\* Whoever holds the lock of a pair holds it alone.
LEMMA Alone ==
  ASSUME LockHeld, NEW r \in Requests, NEW q \in Requests,
         req[r].at \in Holding, req[q].at \in Holding, Pair(r) = Pair(q)
  PROVE  r = q
  BY DEF LockHeld

\* A step that moves no call into the critical section, adds no connection and
\* takes no lock away from a call still in it is harmless.
LEMMA QuietStep ==
  ASSUME Single,
         \A q \in Requests : req'[q].at \in Holding => req'[q] = req[q] /\ lock'[Pair(q)] = lock[Pair(q)],
         \A u \in Users, c \in Clients : Active(u, c)' \subseteq Active(u, c)
  PROVE  Single'
<1>1. LockHeld'  BY DEF Single, LockHeld, Pair
<1>2. NoneYet'
  <2> SUFFICES ASSUME NEW q \in Requests, NEW u \in Users, NEW c \in Clients,
                      req'[q].at \in {"create", "insert"}, Pair(q)' = <<u, c>>
               PROVE  Active(u, c)' = {}
    BY DEF NoneYet
  <2>1. req[q].at \in {"create", "insert"} /\ Pair(q) = <<u, c>>  BY DEF Holding, Pair
  <2>2. QED  BY <2>1 DEF Single, NoneYet
<1>3. OneActiveConnection'  BY DEF Single, OneActiveConnection
<1>4. QED  BY <1>1, <1>2, <1>3 DEF Single

\* Ending a call takes away only its own locks.
LEMMA FinishQuiet ==
  ASSUME Typed, Single, NEW r \in Requests, Finish(r), UNCHANGED conn
  PROVE  Single'
<1>1. ASSUME NEW q \in Requests, req'[q].at \in Holding
      PROVE  req'[q] = req[q] /\ lock'[Pair(q)] = lock[Pair(q)]
  <2>1. q # r /\ req'[q] = req[q]
    BY <1>1 DEF Finish, Idle, Holding, Typed, TypeOK
  <2>2. lock[Pair(q)] = q  BY <1>1, <2>1 DEF Single, LockHeld
  <2>3. Pair(q) \in Users \X Clients  BY <1>1, <2>1, PairTyped DEF Holding, At
  <2>4. QED  BY <2>1, <2>2, <2>3 DEF Finish
<1>2. \A u \in Users, c \in Clients : Active(u, c)' \subseteq Active(u, c)
  BY DEF Active, Existing
<1>3. QED  BY <1>1, <1>2, QuietStep

\* Releasing the lock of its pair on the way out of the critical section.
LEMMA UnlockQuiet ==
  ASSUME Typed, Single, NEW r \in Requests, req[r].at \in Holding, Unlock(r),
         NEW n, req' = [req EXCEPT ![r].at = "issue", ![r].conn = n]
  PROVE  \A q \in Requests : req'[q].at \in Holding
            => req'[q] = req[q] /\ lock'[Pair(q)] = lock[Pair(q)] /\ Pair(q) # Pair(r)
<1> SUFFICES ASSUME NEW q \in Requests, req'[q].at \in Holding
             PROVE  req'[q] = req[q] /\ lock'[Pair(q)] = lock[Pair(q)] /\ Pair(q) # Pair(r)
  OBVIOUS
<1>1. q # r
  <2>1. req[r] \in Request  BY DEF Typed, TypeOK
  <2>2. req'[r].at = "issue"  BY <2>1 DEF Typed, TypeOK, Request
  <2>3. QED  BY <2>2 DEF Holding
<1>2. req'[q] = req[q]  BY <1>1 DEF Typed, TypeOK
<1>3. Pair(q) # Pair(r)  BY <1>1, <1>2, Alone DEF Single
<1>4. Pair(q) \in Users \X Clients  BY <1>2, PairTyped DEF Holding, At
<1>5. QED  BY <1>2, <1>3, <1>4 DEF Unlock, Typed, TypeOK

LEMMA CreateSingle ==
  ASSUME Typed, Single, NEW r \in Requests, CreateConnection(r)
  PROVE  Single'
<1>1. CASE Fail(r)  BY <1>1, FinishQuiet DEF Fail, rows
<1>2. CASE ~Fail(r)
  <2>1. PICK n \in Connections :
          /\ conn' = [conn EXCEPT ![n] = [user |-> req[r].user, client |-> req[r].client,
                                          revoked |-> FALSE]]
          /\ req' = [req EXCEPT ![r].at = "issue", ![r].conn = n]
          /\ Unlock(r)
    BY <1>2 DEF CreateConnection
  <2>2. req[r].at = "insert" /\ req[r].at \in Holding  BY DEF CreateConnection, At, Holding
  <2>3. Pair(r) \in Users \X Clients  BY <2>2, PairTyped DEF At
  <2>4. \A q \in Requests : req'[q].at \in Holding
            => req'[q] = req[q] /\ lock'[Pair(q)] = lock[Pair(q)] /\ Pair(q) # Pair(r)
    BY <2>1, <2>2, UnlockQuiet
  <2>5. \A u \in Users, c \in Clients : <<u, c>> # Pair(r) => Active(u, c)' \subseteq Active(u, c)
    <3> SUFFICES ASSUME NEW u \in Users, NEW c \in Clients, <<u, c>> # Pair(r), NEW m \in Active(u, c)'
                 PROVE  m \in Active(u, c)
      OBVIOUS
    <3>1. m \in Connections /\ conn'[m].user = u /\ conn'[m].client = c /\ conn'[m] # None
          /\ ~conn'[m].revoked
      BY DEF Active, Existing
    <3>2. m # n  BY <2>1, <3>1 DEF Pair, Typed, TypeOK
    <3>3. conn'[m] = conn[m]  BY <2>1, <3>2 DEF Typed, TypeOK
    <3>4. QED  BY <3>1, <3>3 DEF Active, Existing
  <2>6. \A u \in Users, c \in Clients : <<u, c>> = Pair(r) => Active(u, c)' \subseteq {n}
    <3> SUFFICES ASSUME NEW u \in Users, NEW c \in Clients, <<u, c>> = Pair(r), NEW m \in Active(u, c)',
                        m # n
                 PROVE  FALSE
      OBVIOUS
    <3>1. m \in Connections /\ conn'[m].user = u /\ conn'[m].client = c /\ conn'[m] # None
          /\ ~conn'[m].revoked
      BY DEF Active, Existing
    <3>2. conn'[m] = conn[m]  BY <2>1 DEF Typed, TypeOK
    <3>3. m \in Active(u, c)  BY <3>1, <3>2 DEF Active, Existing
    <3>4. QED  BY <2>2, <3>3 DEF Single, NoneYet
  <2>7. LockHeld'  BY <2>4 DEF Single, LockHeld, Pair
  <2>8. NoneYet'
    <3> SUFFICES ASSUME NEW q \in Requests, NEW u \in Users, NEW c \in Clients,
                        req'[q].at \in {"create", "insert"}, Pair(q)' = <<u, c>>
                 PROVE  Active(u, c)' = {}
      BY DEF NoneYet
    <3>1. req'[q] = req[q] /\ Pair(q) # Pair(r)  BY <2>4 DEF Holding
    <3>2. Pair(q) = <<u, c>>  BY <3>1 DEF Pair
    <3>3. QED  BY <2>5, <3>1, <3>2 DEF Single, NoneYet
  <2>9. OneActiveConnection'
    <3> SUFFICES ASSUME NEW u \in Users, NEW c \in Clients
                 PROVE  \A m, k \in Active(u, c)' : m = k
      BY DEF OneActiveConnection
    <3>1. CASE <<u, c>> = Pair(r)  BY <2>6, <3>1
    <3>2. CASE <<u, c>> # Pair(r)  BY <2>5, <3>2 DEF Single, OneActiveConnection
    <3>3. QED  BY <3>1, <3>2
  <2>10. QED  BY <2>7, <2>8, <2>9 DEF Single
<1>3. QED  BY <1>1, <1>2

\* Moving a call outside the critical section, or one step deeper into it.
LEMMA GotoQuiet ==
  ASSUME Typed, Single, NEW r \in Requests, NEW stage \in Stages \ Holding, Goto(r, stage),
         UNCHANGED <<conn, lock>>
  PROVE  Single'
<1>1. ASSUME NEW q \in Requests, req'[q].at \in Holding
      PROVE  req'[q] = req[q] /\ lock'[Pair(q)] = lock[Pair(q)]
  BY <1>1 DEF Goto, Typed, TypeOK, Request
<1>2. \A u \in Users, c \in Clients : Active(u, c)' \subseteq Active(u, c)
  BY DEF Active, Existing
<1>3. QED  BY <1>1, <1>2, QuietStep

LEMMA GotoDeeper ==
  ASSUME Typed, Single, NEW r \in Requests, req[r].at \in Holding, NEW stage \in {"create", "insert"},
         Goto(r, stage), UNCHANGED <<conn, lock>>,
         \A u \in Users, c \in Clients : Pair(r) = <<u, c>> => Active(u, c) = {}
  PROVE  Single'
<1>1. \A q \in Requests : Pair(q)' = Pair(q) /\ (q # r => req'[q] = req[q])
  BY DEF Goto, Pair, Typed, TypeOK, Request
<1>2. \A u \in Users, c \in Clients : Active(u, c)' = Active(u, c)
  BY DEF Active, Existing
<1>3. LockHeld'  BY <1>1 DEF Single, LockHeld
<1>4. NoneYet'  BY <1>1, <1>2 DEF Single, NoneYet
<1>5. OneActiveConnection'  BY <1>2 DEF Single, OneActiveConnection
<1>6. QED  BY <1>3, <1>4, <1>5 DEF Single

LEMMA LockSingle ==
  ASSUME Typed, Single, NEW r \in Requests, LockPair(r)
  PROVE  Single'
<1>1. ~At(r, "idle") /\ req[r].at = "lock"  BY DEF LockPair, At
<1>2. Pair(r) \in Users \X Clients  BY <1>1, PairTyped
<1>3. /\ \A q \in Requests : Pair(q)' = Pair(q) /\ (q # r => req'[q] = req[q])
      /\ req'[r].at = "look"
  BY DEF LockPair, Goto, Pair, Typed, TypeOK, Request
<1>4. \A u \in Users, c \in Clients : Active(u, c)' = Active(u, c)
  BY DEF LockPair, rows, Active, Existing
<1>5. LockHeld'
  <2> SUFFICES ASSUME NEW q \in Requests, req'[q].at \in Holding
               PROVE  lock'[Pair(q)] = q
    BY <1>3 DEF LockHeld
  <2>1. CASE q = r  BY <1>2, <2>1 DEF LockPair, Typed, TypeOK
  <2>2. CASE q # r
    <3>1. lock[Pair(q)] = q  BY <1>3, <2>2 DEF Single, LockHeld
    <3>2. Pair(q) # Pair(r)  BY <3>1, NoneAssumption DEF LockPair
    <3>3. QED  BY <3>1, <3>2 DEF LockPair, Typed, TypeOK
  <2>3. QED  BY <2>1, <2>2
<1>6. NoneYet'  BY <1>3, <1>4 DEF Single, NoneYet
<1>7. OneActiveConnection'  BY <1>4 DEF Single, OneActiveConnection
<1>8. QED  BY <1>5, <1>6, <1>7 DEF Single

LEMMA FindSingle ==
  ASSUME Typed, Single, NEW r \in Requests, FindConnection(r)
  PROVE  Single'
<1>1. req[r].at \in Holding  BY DEF FindConnection, At, Holding
<1>2. CASE Active(req[r].user, req[r].client) = {} /\ Goto(r, "create")
           /\ UNCHANGED <<now, rows, cookie, lock, ghost>>
  <2>1. \A u \in Users, c \in Clients : Pair(r) = <<u, c>> => Active(u, c) = {}
    BY <1>2 DEF Pair
  <2>2. QED  BY <1>1, <1>2, <2>1, GotoDeeper DEF rows
<1>3. ASSUME NEW n \in Active(req[r].user, req[r].client),
             req' = [req EXCEPT ![r].at = "issue", ![r].conn = n],
             Unlock(r), UNCHANGED <<now, rows, cookie, ghost>>
      PROVE  Single'
  <2>1. \A q \in Requests : req'[q].at \in Holding
           => req'[q] = req[q] /\ lock'[Pair(q)] = lock[Pair(q)]
    BY <1>1, <1>3, UnlockQuiet
  <2>2. \A u \in Users, c \in Clients : Active(u, c)' \subseteq Active(u, c)
    BY <1>3 DEF rows, Active, Existing
  <2>3. QED  BY <2>1, <2>2, QuietStep
<1>4. CASE Fail(r)  BY <1>4, FinishQuiet DEF Fail, rows
<1>5. QED  BY <1>2, <1>3, <1>4 DEF FindConnection

\* Everything else starts or ends calls, or removes connections.
LEMMA OtherSingle ==
  ASSUME Typed, Single, UNCHANGED <<req, lock>>,
         \A n \in Connections : conn'[n] = None
                               \/ (conn[n] # None /\ conn'[n].user = conn[n].user
                                   /\ conn'[n].client = conn[n].client
                                   /\ (conn[n].revoked => conn'[n].revoked))
  PROVE  Single'
<1>1. \A u \in Users, c \in Clients : Active(u, c)' \subseteq Active(u, c)
  <2> SUFFICES ASSUME NEW u \in Users, NEW c \in Clients, NEW m \in Active(u, c)'
               PROVE  m \in Active(u, c)
    OBVIOUS
  <2>1. m \in Connections /\ conn'[m].user = u /\ conn'[m].client = c /\ conn'[m] # None
        /\ ~conn'[m].revoked
    BY DEF Active, Existing
  <2>2. conn[m] # None /\ conn[m].user = u /\ conn[m].client = c /\ ~conn[m].revoked
    BY <2>1
  <2>3. QED  BY <2>1, <2>2 DEF Active, Existing
<1>2. QED  BY <1>1, QuietStep

LEMMA StartSingle ==
  ASSUME Typed, Single, NEW r \in Requests, NEW x, x.at \notin Holding,
         req' = [req EXCEPT ![r] = x], UNCHANGED <<conn, lock>>
  PROVE  Single'
<1>1. ASSUME NEW q \in Requests, req'[q].at \in Holding
      PROVE  req'[q] = req[q] /\ lock'[Pair(q)] = lock[Pair(q)]
  <2>1. q # r  BY <1>1 DEF Typed, TypeOK
  <2>2. QED  BY <2>1 DEF Typed, TypeOK
<1>2. \A u \in Users, c \in Clients : Active(u, c)' \subseteq Active(u, c)
  BY DEF Active, Existing
<1>3. QED  BY <1>1, <1>2, QuietStep

LEMMA NextSingle == Typed /\ Single /\ [Next]_vars => Single'
<1> SUFFICES ASSUME Typed, Single, [Next]_vars PROVE Single'
  OBVIOUS
<1> USE DEF rows, ghost
<1>1. ASSUME NEW r \in Requests, Step(r)  PROVE Single'
  <2>1. CASE Approve(r) \/ Deny(r) \/ IssueTokens(r)
    BY <2>1, FinishQuiet DEF Approve, Deny, IssueTokens, Fail
  <2>2. CASE FindCode(r)
    <3>1. CASE Fail(r)  BY <3>1, FinishQuiet DEF Fail
    <3>2. CASE Goto(r, "burn") /\ UNCHANGED <<now, rows, cookie, lock, ghost>>
      BY <3>2, GotoQuiet DEF Stages, Holding
    <3>3. QED  BY <2>2, <3>1, <3>2 DEF FindCode
  <2>3. CASE BurnCode(r)  BY <2>3, GotoQuiet DEF BurnCode, Stages, Holding
  <2>4. CASE FindClient(r)
    <3>1. CASE Fail(r)  BY <3>1, FinishQuiet DEF Fail
    <3>2. CASE Goto(r, "insert") /\ UNCHANGED <<now, rows, cookie, lock, ghost>>
      <4>1. req[r].at = "create" /\ req[r].at \in Holding  BY <2>4 DEF FindClient, At, Holding
      <4>2. \A u \in Users, c \in Clients : Pair(r) = <<u, c>> => Active(u, c) = {}
        BY <4>1 DEF Single, NoneYet
      <4>3. QED  BY <3>2, <4>1, <4>2, GotoDeeper
    <3>3. QED  BY <2>4, <3>1, <3>2 DEF FindClient
  <2>5. QED  BY <1>1, <2>1, <2>2, <2>3, <2>4, FindSingle, CreateSingle DEF Step
<1>2. ASSUME NEW c \in Clients, Register(c) \/ \E b \in Users : Authorize(c, b)  PROVE Single'
  <2>1. UNCHANGED <<conn, req, lock>>  BY <1>2 DEF Register, Authorize
  <2>2. QED  BY <2>1, OtherSingle
<1>3. ASSUME NEW r \in Requests, NEW b \in Users, NEW k \in Codes, ReadConsent(r, b, k)
      PROVE  Single'
  <2>1. PICK answer \in {"approve", "deny"} :
          req' = [req EXCEPT ![r] = [Idle EXCEPT !.at = answer, !.code = k, !.user = b,
                                                 !.client = code[k].client]]
    BY <1>3 DEF ReadConsent
  <2>2. [Idle EXCEPT !.at = answer, !.code = k, !.user = b, !.client = code[k].client].at \notin Holding
    BY DEF Idle, Holding
  <2>3. QED  BY <1>3, <2>1, <2>2, StartSingle DEF ReadConsent
<1>4. ASSUME NEW r \in Requests, NEW c \in Clients, NEW k \in Codes,
             NEW s \in 1..Cardinality(Requests), LoadCode(r, c, k, s)
      PROVE  Single'
  <2> DEFINE x == [at |-> "find", code |-> k, secret |-> s, user |-> code[k].user,
                   client |-> c, conn |-> None]
  <2>1. x.at \notin Holding  BY DEF Holding
  <2>2. QED  BY <1>4, <2>1, StartSingle DEF LoadCode
<1>5. ASSUME NEW r \in Requests, Abort(r)  PROVE Single'
  BY <1>5, FinishQuiet DEF Abort, Fail
<1>6. ASSUME NEW n \in Connections, Revoke(n) \/ Delete(n)  PROVE Single'
  <2>1. UNCHANGED <<req, lock>>  BY <1>6 DEF Revoke, Delete
  <2>2. \A m \in Connections : conn'[m] = None
                              \/ (conn[m] # None /\ conn'[m].user = conn[m].user
                                  /\ conn'[m].client = conn[m].client
                                  /\ (conn[m].revoked => conn'[m].revoked))
    BY <1>6 DEF Revoke, Delete, Existing, Typed, TypeOK, ConnRow
  <2>3. QED  BY <2>1, <2>2, OtherSingle
<1>7. CASE Sweep \/ Tick \/ UNCHANGED vars
  <2>1. UNCHANGED <<conn, req, lock>>  BY <1>7 DEF Sweep, Tick, vars
  <2>2. QED  BY <2>1, OtherSingle
<1>8. CASE Restart
  <2>1. \A q \in Requests : req'[q].at \notin Holding  BY <1>8 DEF Restart, Idle, Holding
  <2>2. \A u \in Users, c \in Clients : Active(u, c)' \subseteq Active(u, c)
    BY <1>8 DEF Restart, Active, Existing
  <2>3. QED  BY <2>1, <2>2, QuietStep
<1>9. QED
  BY <1>1, <1>2, <1>3, <1>4, <1>5, <1>6, <1>7, <1>8, LockSingle DEF Next

LEMMA InitSingle == Init => Single
  BY DEF Init, Single, LockHeld, NoneYet, OneActiveConnection, Active, Existing, Idle, Holding

\* For any number of concurrent exchanges, revocations, deletions and restarts, a
\* user and a client have at most one connection that is not revoked.
THEOREM OneConnectionHolds == Spec => []OneActiveConnection
<1>1. Init => Typed /\ Single  BY InitTyped, InitSingle
<1>2. Typed /\ Single /\ [Next]_vars => (Typed /\ Single)'  BY NextTyped, NextSingle
<1>3. Typed /\ Single => OneActiveConnection  BY DEF Single
<1>4. QED  BY <1>1, <1>2, <1>3, PTL DEF Spec

-----------------------------------------------------------------------------
(* Consent: a request is approved by the user it was started for, and only *)
(* approvals lead to connections.                                          *)

\* A request id is in no row, cookie or call before /authorize draws it.
Fresh     == \A k \in Codes \cap unused :
               /\ code[k] = None
               /\ \A b \in Users : cookie[b] # k
               /\ \A r \in Requests : req[r].code # k
\* A cookie is on the browser that the request was started from.
CookieOK  == \A b \in Users : cookie[b] \in Stored => code[cookie[b]].browser = b
\* What an approval read is still so when it writes.
AnswerOK  == \A r \in Requests : At(r, "approve") /\ req[r].code \in Stored
               => code[req[r].code].client = req[r].client /\ code[req[r].code].browser = req[r].user
\* An approved row, and an exchange of one, stem from an approval.
RowsOK    == \A k \in Stored : code[k].secret # 0 => <<code[k].user, code[k].client>> \in consented
CallsOK   == \A r \in Requests : req[r].at \in Exchanging => Pair(r) \in consented
StartedOK == \A k \in Stored : code[k].secret # 0 => code[k].user = code[k].browser

Trusted == Fresh /\ CookieOK /\ AnswerOK /\ RowsOK /\ CallsOK /\ StartedOK /\ OnlyConsented

\* Rows, cookies and connections may go, calls may end or move on.
KeptTables == /\ \A k \in Codes : code'[k] \in {code[k], None}
              /\ \A b \in Users : cookie'[b] \in {cookie[b], None}
              /\ \A n \in Connections : conn'[n] = None
                   \/ (conn[n] # None /\ conn'[n].user = conn[n].user /\ conn'[n].client = conn[n].client)
              /\ consented' = consented /\ unused' \subseteq unused
KeptCalls  == \A q \in Requests :
                /\ req'[q].code \in {req[q].code, None}
                /\ req'[q].at = "approve" => req'[q] = req[q]
                /\ req'[q].at \in Exchanging => /\ req[q].at \in Exchanging
                                                /\ req'[q].user = req[q].user
                                                /\ req'[q].client = req[q].client

LEMMA KeptTrusted ==
  ASSUME Typed, Trusted, KeptTables, KeptCalls
  PROVE  Trusted'
<1>1. None \notin Codes /\ \A k \in Codes : k \in Stored' => k \in Stored /\ code'[k] = code[k]
  BY NoneAssumption DEF KeptTables, Stored
<1>2. Fresh'  BY <1>1 DEF Trusted, Fresh, KeptTables, KeptCalls
<1>3. CookieOK'  BY <1>1 DEF Trusted, CookieOK, KeptTables, Stored
<1>4. AnswerOK'  BY <1>1 DEF Trusted, AnswerOK, KeptCalls, At, Stored
<1>5. RowsOK'  BY <1>1 DEF Trusted, RowsOK, KeptTables, Stored
<1>6. CallsOK'  BY DEF Trusted, CallsOK, KeptCalls, KeptTables, Pair
<1>7. StartedOK'  BY <1>1 DEF Trusted, StartedOK, Stored
<1>8. OnlyConsented'  BY DEF Trusted, OnlyConsented, KeptTables, Existing
<1>9. QED  BY <1>2, <1>3, <1>4, <1>5, <1>6, <1>7, <1>8 DEF Trusted

LEMMA FinishKept ==
  ASSUME Typed, NEW r \in Requests, Finish(r)
  PROVE  KeptCalls
  BY DEF KeptCalls, Finish, Idle, Exchanging, Typed, TypeOK

LEMMA GotoKept ==
  ASSUME Typed, NEW r \in Requests, req[r].at \in Exchanging, NEW stage \in Exchanging, Goto(r, stage)
  PROVE  KeptCalls
  BY DEF KeptCalls, Goto, Exchanging, Typed, TypeOK, Request

LEMMA FailKept ==
  ASSUME Typed, Trusted, NEW r \in Requests, Fail(r)
  PROVE  Trusted'
<1>1. KeptTables  BY DEF Fail, KeptTables, rows, ghost
<1>2. QED  BY <1>1, FinishKept, KeptTrusted DEF Fail

LEMMA ApproveTrusted ==
  ASSUME Typed, Trusted, NEW r \in Requests, Approve(r)
  PROVE  Trusted'
<1>1. CASE Fail(r)  BY <1>1, FailKept
<1>2. CASE ~Fail(r)
  <2> DEFINE k == req[r].code
  <2>1. /\ k \in Stored /\ Finish(r)
        /\ code' = [code EXCEPT ![k] = Approval(k, req[r].user)]
        /\ cookie' = [cookie EXCEPT ![req[r].user] = None]
        /\ consented' = consented \cup {Pair(r)}
        /\ UNCHANGED <<conn, unused>>
    BY <1>2 DEF Approve
  <2>2. At(r, "approve") /\ req[r].user \in Users /\ k \in Codes
    BY DEF Approve, At, Typed, FieldsOK
  <2>3. code[k] \in CodeRow /\ code[k] # None  BY <2>1 DEF Typed, TypeOK, Stored
  <2>4. /\ Approval(k, req[r].user).user = req[r].user
        /\ Approval(k, req[r].user).client = code[k].client
        /\ Approval(k, req[r].user).browser = code[k].browser
        /\ Approval(k, req[r].user) \in CodeRow
    BY <2>2, <2>3, ApprovalTyped
  <2>5. code[k].client = req[r].client /\ code[k].browser = req[r].user
    BY <2>1, <2>2 DEF Trusted, AnswerOK
  <2>6. KeptCalls  BY <2>1, FinishKept
  <2>7. \A j \in Codes : j # k => code'[j] = code[j]  BY <2>1 DEF Typed, TypeOK
  <2>8. code'[k] = Approval(k, req[r].user)  BY <2>1, <2>2 DEF Typed, TypeOK
  <2>9. Stored' = Stored
    BY <2>1, <2>2, <2>4, <2>7, <2>8, NoneAssumption DEF Stored, CodeRow
  <2>10. \A b \in Users : cookie'[b] \in {cookie[b], None}  BY <2>1 DEF Typed, TypeOK
  <2>11. \A j \in Stored : code'[j].client = code[j].client /\ code'[j].browser = code[j].browser
    BY <2>4, <2>7, <2>8 DEF Stored
  <2> HIDE DEF k
  <2>12. Fresh'
    <3>1. k \notin unused  BY <2>2, <2>3 DEF Trusted, Fresh
    <3>2. QED  BY <3>1, <2>1, <2>6, <2>7, <2>10, NoneAssumption DEF Trusted, Fresh, KeptCalls
  <2>13. CookieOK'
    BY <2>9, <2>10, <2>11, NoneAssumption DEF Trusted, CookieOK, Stored
  <2>14. AnswerOK'
    BY <2>6, <2>9, <2>11 DEF Trusted, AnswerOK, KeptCalls, At
  <2>15. RowsOK'
    BY <2>1, <2>4, <2>5, <2>7, <2>8, <2>9 DEF Trusted, RowsOK, Pair, k, Stored
  <2>16. CallsOK'
    BY <2>1, <2>6 DEF Trusted, CallsOK, KeptCalls, Pair
  <2>17. StartedOK'
    BY <2>4, <2>5, <2>7, <2>8, <2>9 DEF Trusted, StartedOK, Stored
  <2>18. OnlyConsented'  BY <2>1 DEF Trusted, OnlyConsented, Existing
  <2>19. QED  BY <2>12, <2>13, <2>14, <2>15, <2>16, <2>17, <2>18 DEF Trusted
<1>3. QED  BY <1>1, <1>2

LEMMA CreateTrusted ==
  ASSUME Typed, Trusted, NEW r \in Requests, CreateConnection(r)
  PROVE  Trusted'
<1>1. CASE Fail(r)  BY <1>1, FailKept
<1>2. CASE ~Fail(r)
  <2>1. PICK n \in Connections :
          /\ conn' = [conn EXCEPT ![n] = [user |-> req[r].user, client |-> req[r].client,
                                          revoked |-> FALSE]]
          /\ unused' = unused \ {n}
          /\ req' = [req EXCEPT ![r].at = "issue", ![r].conn = n]
          /\ UNCHANGED <<now, client, code, cookie, ghost>>
    BY <1>2 DEF CreateConnection
  <2>2. At(r, "insert") /\ Pair(r) \in consented
    BY DEF CreateConnection, Trusted, CallsOK, Exchanging, At
  <2>3. req[r] \in Request  BY DEF Typed, TypeOK
  <2>4. KeptCalls
    <3>1. /\ req'[r].at = "issue" /\ req'[r].code = req[r].code
          /\ req'[r].user = req[r].user /\ req'[r].client = req[r].client
      BY <2>1, <2>3 DEF Typed, TypeOK, Request
    <3>2. \A q \in Requests : q # r => req'[q] = req[q]  BY <2>1 DEF Typed, TypeOK
    <3>3. QED  BY <2>2, <3>1, <3>2 DEF KeptCalls, Exchanging, At
  <2>5. code' = code /\ cookie' = cookie /\ consented' = consented /\ unused' \subseteq unused
    BY <2>1 DEF ghost
  <2>11. Fresh'  BY <2>4, <2>5, NoneAssumption DEF Trusted, Fresh, KeptCalls
  <2>6. CookieOK' /\ RowsOK' /\ StartedOK'
    BY <2>1 DEF Trusted, CookieOK, RowsOK, StartedOK, Stored, ghost
  <2>7. AnswerOK'  BY <2>1, <2>4 DEF Trusted, AnswerOK, KeptCalls, At, Stored
  <2>8. CallsOK'
    <3> SUFFICES ASSUME NEW q \in Requests, req'[q].at \in Exchanging
                 PROVE  <<req'[q].user, req'[q].client>> \in consented
      BY <2>5 DEF CallsOK, Pair
    <3> QED  BY <2>4 DEF Trusted, CallsOK, KeptCalls, Pair
  <2>9. OnlyConsented'
    <3> SUFFICES ASSUME NEW m \in Connections, conn'[m] # None
                 PROVE  <<conn'[m].user, conn'[m].client>> \in consented'
      BY DEF OnlyConsented, Existing
    <3>1. CASE m = n  BY <2>1, <2>2, <3>1 DEF Typed, TypeOK, Pair, ghost
    <3>2. CASE m # n
      <4>1. conn'[m] = conn[m]  BY <2>1, <3>2 DEF Typed, TypeOK
      <4>2. QED  BY <2>1, <4>1 DEF Trusted, OnlyConsented, Existing, ghost
    <3>3. QED  BY <3>1, <3>2
  <2>10. QED  BY <2>6, <2>7, <2>8, <2>9, <2>11 DEF Trusted
<1>3. QED  BY <1>1, <1>2

LEMMA AuthorizeTrusted ==
  ASSUME Typed, Trusted, NEW c \in Clients, NEW b \in Users, Authorize(c, b)
  PROVE  Trusted'
<1>1. PICK k \in Codes \cap unused :
        /\ code' = [code EXCEPT ![k] = [client |-> c, user |-> None, secret |-> 0,
                                        expires |-> now + CodeTTL, browser |-> b]]
        /\ unused' = unused \ {k}
        /\ cookie' = [cookie EXCEPT ![b] = k]
  BY DEF Authorize
<1>2. UNCHANGED <<now, client, conn, lock, req, ghost>>  BY DEF Authorize
<1>3. \A j \in Codes : j # k => code'[j] = code[j]  BY <1>1 DEF Typed, TypeOK
<1>4. code'[k].browser = b /\ code'[k].secret = 0  BY <1>1 DEF Typed, TypeOK
<1>5. cookie'[b] = k /\ \A d \in Users : d # b => cookie'[d] = cookie[d]
  BY <1>1 DEF Typed, TypeOK
<1>6. (\A d \in Users : cookie[d] # k) /\ \A r \in Requests : req[r].code # k
  BY <1>1 DEF Trusted, Fresh
<1>7. Fresh'  BY <1>1, <1>2, <1>3, <1>5 DEF Trusted, Fresh
<1>8. CookieOK'  BY <1>3, <1>4, <1>5, <1>6 DEF Trusted, CookieOK, Stored
<1>9. AnswerOK'  BY <1>2, <1>3, <1>6 DEF Trusted, AnswerOK, Stored, At
<1>10. RowsOK' /\ StartedOK'
  BY <1>2, <1>3, <1>4 DEF Trusted, RowsOK, StartedOK, Stored, ghost
<1>11. CallsOK' /\ OnlyConsented'
  BY <1>2 DEF Trusted, CallsOK, OnlyConsented, Existing, Pair, ghost
<1>12. QED  BY <1>7, <1>8, <1>9, <1>10, <1>11 DEF Trusted

LEMMA StartTrusted ==
  ASSUME Typed, Trusted, NEW r \in Requests, NEW x, req' = [req EXCEPT ![r] = x],
         UNCHANGED <<rows, cookie, ghost>>, x.code \in Stored,
         x.at = "approve" => code[x.code].client = x.client /\ code[x.code].browser = x.user,
         x.at \in Exchanging => <<x.user, x.client>> \in consented
  PROVE  Trusted'
<1> USE DEF rows, ghost
<1>1. req'[r] = x /\ \A q \in Requests : q # r => req'[q] = req[q]  BY DEF Typed, TypeOK
<1>2. x.code \notin unused  BY DEF Trusted, Fresh, Stored
<1>3. Fresh'
  <2> SUFFICES ASSUME NEW k \in Codes \cap unused
               PROVE  /\ code[k] = None /\ \A b \in Users : cookie[b] # k
                      /\ \A q \in Requests : req'[q].code # k
    BY DEF Fresh
  <2>1. \A q \in Requests : req'[q].code # k
    <3> SUFFICES ASSUME NEW q \in Requests  PROVE req'[q].code # k
      OBVIOUS
    <3>1. CASE q = r  BY <1>1, <1>2, <3>1
    <3>2. CASE q # r  BY <1>1, <3>2 DEF Trusted, Fresh
    <3>3. QED  BY <3>1, <3>2
  <2>2. QED  BY <2>1 DEF Trusted, Fresh
<1>4. AnswerOK'  BY <1>1 DEF Trusted, AnswerOK, At, Stored
<1>5. CallsOK'
  <2> SUFFICES ASSUME NEW q \in Requests, req'[q].at \in Exchanging
               PROVE  <<req'[q].user, req'[q].client>> \in consented
    BY DEF CallsOK, Pair
  <2>1. CASE q = r  BY <1>1, <2>1
  <2>2. CASE q # r  BY <1>1, <2>2 DEF Trusted, CallsOK, Pair
  <2>3. QED  BY <2>1, <2>2
<1>6. CookieOK' /\ RowsOK' /\ StartedOK' /\ OnlyConsented'
  BY DEF Trusted, CookieOK, RowsOK, StartedOK, OnlyConsented, Stored, Existing
<1>7. QED  BY <1>3, <1>4, <1>5, <1>6 DEF Trusted

LEMMA StepTrusted ==
  ASSUME Typed, Trusted, NEW r \in Requests, Step(r) \/ LockPair(r)
  PROVE  Trusted'
<1> USE DEF rows, ghost
<1>1. CASE Fail(r)  BY <1>1, FailKept
<1>2. CASE Deny(r)
  <2>1. KeptTables  BY <1>2 DEF Deny, KeptTables, Typed, TypeOK
  <2>2. QED  BY <1>2, <2>1, FinishKept, KeptTrusted DEF Deny
<1>3. CASE FindCode(r) /\ ~Fail(r)
  <2>1. Goto(r, "burn") /\ UNCHANGED <<now, rows, cookie, lock, ghost>> /\ req[r].at \in Exchanging
    BY <1>3 DEF FindCode, At, Exchanging
  <2>2. KeptTables  BY <2>1 DEF KeptTables
  <2>3. QED  BY <2>1, <2>2, GotoKept, KeptTrusted DEF Exchanging
<1>4. CASE BurnCode(r)
  <2>1. KeptTables  BY <1>4 DEF BurnCode, KeptTables, Typed, TypeOK
  <2>2. req[r].at \in Exchanging  BY <1>4 DEF BurnCode, At, Exchanging
  <2>3. QED  BY <1>4, <2>1, <2>2, GotoKept, KeptTrusted DEF BurnCode, Exchanging
<1>5. CASE LockPair(r)
  <2>1. KeptTables  BY <1>5 DEF LockPair, KeptTables
  <2>2. req[r].at \in Exchanging  BY <1>5 DEF LockPair, At, Exchanging
  <2>3. QED  BY <1>5, <2>1, <2>2, GotoKept, KeptTrusted DEF LockPair, Exchanging
<1>6. CASE FindConnection(r) /\ ~Fail(r)
  <2>1. KeptTables  BY <1>6 DEF FindConnection, KeptTables
  <2>2. req[r].at \in Exchanging /\ req[r].at # "approve"
    BY <1>6 DEF FindConnection, At, Exchanging
  <2>3. CASE Goto(r, "create")  BY <2>1, <2>2, <2>3, GotoKept, KeptTrusted DEF Exchanging
  <2>4. ASSUME NEW n, req' = [req EXCEPT ![r].at = "issue", ![r].conn = n]  PROVE Trusted'
    <3>1. req[r] \in Request  BY DEF Typed, TypeOK
    <3>2. /\ req'[r].at = "issue" /\ req'[r].code = req[r].code
          /\ req'[r].user = req[r].user /\ req'[r].client = req[r].client
      BY <2>4, <3>1 DEF Typed, TypeOK, Request
    <3>3. \A q \in Requests : q # r => req'[q] = req[q]  BY <2>4 DEF Typed, TypeOK
    <3>4. KeptCalls  BY <2>2, <3>2, <3>3 DEF KeptCalls, Exchanging
    <3>5. QED  BY <2>1, <3>4, KeptTrusted
  <2>5. QED  BY <1>6, <2>3, <2>4 DEF FindConnection
<1>7. CASE FindClient(r) /\ ~Fail(r)
  <2>1. Goto(r, "insert") /\ UNCHANGED <<now, rows, cookie, lock, ghost>> /\ req[r].at \in Exchanging
    BY <1>7 DEF FindClient, At, Exchanging
  <2>2. KeptTables  BY <2>1 DEF KeptTables
  <2>3. QED  BY <2>1, <2>2, GotoKept, KeptTrusted DEF Exchanging
<1>8. CASE IssueTokens(r) /\ ~Fail(r)
  <2>1. KeptTables /\ Finish(r)  BY <1>8 DEF IssueTokens, KeptTables
  <2>2. QED  BY <2>1, FinishKept, KeptTrusted
<1>9. QED
  BY <1>1, <1>2, <1>3, <1>4, <1>5, <1>6, <1>7, <1>8, ApproveTrusted, CreateTrusted DEF Step

LEMMA NextTrusted == Typed /\ Trusted /\ [Next]_vars => Trusted'
<1> SUFFICES ASSUME Typed, Trusted, [Next]_vars PROVE Trusted'
  OBVIOUS
<1> USE DEF rows, ghost
<1>1. ASSUME UNCHANGED req, KeptTables  PROVE Trusted'
  <2>1. KeptCalls  BY <1>1 DEF KeptCalls
  <2>2. QED  BY <1>1, <2>1, KeptTrusted
<1>2. ASSUME NEW c \in Clients, Register(c)  PROVE Trusted'
  BY <1>1, <1>2 DEF Register, KeptTables
<1>3. ASSUME NEW r \in Requests, NEW b \in Users, NEW k \in Codes, ReadConsent(r, b, k)
      PROVE  Trusted'
  <2>1. PICK answer \in {"approve", "deny"} :
          req' = [req EXCEPT ![r] = [Idle EXCEPT !.at = answer, !.code = k, !.user = b,
                                                 !.client = code[k].client]]
    BY <1>3 DEF ReadConsent
  <2> DEFINE x == [Idle EXCEPT !.at = answer, !.code = k, !.user = b, !.client = code[k].client]
  <2>2. x.at = answer /\ x.code = k /\ x.user = b /\ x.client = code[k].client  BY DEF Idle
  <2>3. k \in Stored /\ cookie[b] = k  BY <1>3 DEF ReadConsent, Answerable, Bound
  <2>4. code[k].browser = b  BY <2>3 DEF Trusted, CookieOK
  <2>5. UNCHANGED <<rows, cookie, ghost>>  BY <1>3 DEF ReadConsent
  <2>6. req' = [req EXCEPT ![r] = x]  BY <2>1
  <2>7. x.at \notin Exchanging  BY <2>2 DEF Exchanging
  <2> HIDE DEF x
  <2>8. QED  BY <2>2, <2>3, <2>4, <2>5, <2>6, <2>7, StartTrusted
<1>4. ASSUME NEW r \in Requests, NEW c \in Clients, NEW k \in Codes,
             NEW s \in 1..Cardinality(Requests), LoadCode(r, c, k, s)
      PROVE  Trusted'
  <2> DEFINE x == [at |-> "find", code |-> k, secret |-> s, user |-> code[k].user,
                   client |-> c, conn |-> None]
  <2>1. x.at = "find" /\ x.code = k /\ x.user = code[k].user /\ x.client = c  OBVIOUS
  <2>2. k \in Stored /\ code[k].client = c /\ code[k].secret = s
    BY <1>4 DEF LoadCode, IssuedTo
  <2>3. s # 0  OBVIOUS
  <2>4. <<code[k].user, c>> \in consented  BY <2>2, <2>3 DEF Trusted, RowsOK
  <2>5. req' = [req EXCEPT ![r] = x] /\ UNCHANGED <<rows, cookie, ghost>>  BY <1>4 DEF LoadCode
  <2> HIDE DEF x
  <2>6. QED  BY <2>1, <2>2, <2>4, <2>5, StartTrusted
<1>5. ASSUME NEW r \in Requests, Abort(r)  PROVE Trusted'
  BY <1>5, FailKept DEF Abort
<1>6. ASSUME NEW n \in Connections, Revoke(n) \/ Delete(n)  PROVE Trusted'
  <2>1. KeptTables
    BY <1>6 DEF Revoke, Delete, Existing, KeptTables, Typed, TypeOK, ConnRow
  <2>2. QED  BY <1>1, <1>6, <2>1 DEF Revoke, Delete
<1>7. CASE Sweep \/ Tick \/ UNCHANGED vars
  <2>1. KeptTables  BY <1>7 DEF Sweep, Tick, vars, KeptTables
  <2>2. QED  BY <1>1, <1>7, <2>1 DEF Sweep, Tick, vars
<1>8. CASE Restart
  <2>1. KeptTables /\ KeptCalls
    BY <1>8 DEF Restart, KeptTables, KeptCalls, Idle, Exchanging
  <2>2. QED  BY <2>1, KeptTrusted
<1>9. QED
  BY <1>2, <1>3, <1>4, <1>5, <1>6, <1>7, <1>8, StepTrusted, AuthorizeTrusted DEF Next

LEMMA InitTrusted == Init => Trusted
  BY NoneAssumption DEF Init, Trusted, Fresh, CookieOK, AnswerOK, RowsOK, CallsOK, StartedOK,
     OnlyConsented, Stored, Existing, At, Idle, Exchanging

LEMMA TrustedAlways == Spec => []Trusted
<1>1. Init => Typed /\ Trusted  BY InitTyped, InitTrusted
<1>2. Typed /\ Trusted /\ [Next]_vars => (Typed /\ Trusted)'  BY NextTyped, NextTrusted
<1>3. QED  BY <1>1, <1>2, PTL DEF Spec

\* A request is approved only from the browser that /authorize redirected.
THEOREM ConsentIsBound == Spec => []ApprovedWhereStarted
<1>1. Typed /\ Trusted => ApprovedWhereStarted
  BY DEF Typed, TypeOK, Trusted, StartedOK, ApprovedWhereStarted, Stored, CodeRow
<1>2. QED  BY <1>1, TrustedAlways, InitTyped, NextTyped, PTL DEF Spec

\* A connection exists only for a user who approved that very client.
THEOREM ConsentIsNeeded == Spec => []OnlyConsented
  BY TrustedAlways, PTL DEF Trusted

=============================================================================
