--------------------------- MODULE SignIn_proofs ---------------------------
(***************************************************************************)
(* Theorems about SignIn, for any number of requests, accounts, subjects,  *)
(* states and sessions, any lifetimes and any schemes.                     *)
(***************************************************************************)
EXTENDS SignIn, DataInduction

USE DEF rows, scheme, memory, history

-----------------------------------------------------------------------------
(* No takeover.  A link is recorded before anything can be read through    *)
(* it, and what a waiting call read stays recorded when it is removed.     *)

LinkTypes == /\ identity \in [Subjects -> Emails \cup {None}]
             /\ session \in [Sessions -> SessionRow \cup {None}]
             /\ req \in [Requests -> Request]

Linked == \A s \in Subjects : identity[s] # None => <<s, identity[s]>> \in linked

\* What the record of a request says, wherever the links have got to.
RequestOK(q) == /\ q \in Request
                /\ q.at \in {"identity", "email", "provision", "recover"}
                     => q.sub \in Subjects /\ q.email \in Emails
                /\ q.at = "session" => /\ q.email \in Emails
                                       /\ q.sub # None => <<q.sub, q.email>> \in linked

RequestsOK == \A r \in Requests : RequestOK(req[r])

TakeoverInv == LinkTypes /\ Linked /\ RequestsOK /\ NoTakeover

\* Links are only ever added.
LEMMA LinkedGrows == [Next]_vars => linked \subseteq linked'
<1> SUFFICES ASSUME [Next]_vars  PROVE linked \subseteq linked'
  OBVIOUS
<1>1. ASSUME NEW r \in Requests, Step(r)  PROVE linked \subseteq linked'
  BY <1>1 DEF Step, Callback, ExchangeCode, FindIdentity, CheckEmail, KnownEmail, Provision,
              Recover, CreateSession, Abort, SignInAs, Goto, Fail
<1>2. CASE Login \/ StartFlow \/ Tick \/ \E n \in Sessions : EndSession(n)
  BY <1>2 DEF Login, LoginWrong, LoginRight, StartFlow, Tick, EndSession
<1>3. CASE CommandLine
  BY <1>3 DEF CommandLine, CreateUser, UnlinkIdentity, LinkIdentity, SetScheme
<1>4. CASE Process
  BY <1>4 DEF Process, Boot, AdoptScheme, Restart, SweepStates, SweepFailures
<1>5. QED  BY <1>1, <1>2, <1>3, <1>4 DEF Next, vars

\* A request takes a new record, or all keep theirs.
LEMMA RequestTakes ==
  ASSUME TakeoverInv, NEW r \in Requests, NEW x, RequestOK(x)', req' = [req EXCEPT ![r] = x],
         linked \subseteq linked'
  PROVE  req' \in [Requests -> Request] /\ RequestsOK'
<1>1. x \in Request  BY DEF RequestOK
<1>2. req' \in [Requests -> Request]  BY <1>1 DEF TakeoverInv, LinkTypes
<1>3. ASSUME NEW s \in Requests  PROVE RequestOK(req[s])'
  <2>1. CASE s = r
    <3>1. req'[s] = x  BY <2>1 DEF TakeoverInv, LinkTypes
    <3>2. QED  BY <3>1
  <2>2. CASE s # r
    <3>1. req'[s] = req[s] /\ RequestOK(req[s])
      BY <2>2 DEF TakeoverInv, LinkTypes, RequestsOK
    <3>2. QED  BY <3>1 DEF RequestOK
  <2>3. QED  BY <2>1, <2>2
<1>4. QED  BY <1>2, <1>3 DEF RequestsOK

LEMMA IdleOK == RequestOK(Idle) /\ RequestOK(Idle)'
  BY DEF RequestOK, Idle, Request, Stages

\* A step of a call that changes no link and opens no session.
LEMMA TakeStep ==
  ASSUME TakeoverInv, NEW r \in Requests, NEW x, RequestOK(x), req' = [req EXCEPT ![r] = x],
         UNCHANGED <<identity, session, linked>>
  PROVE  TakeoverInv'
<1>1. RequestOK(x)'  BY DEF RequestOK
<1>2. req' \in [Requests -> Request] /\ RequestsOK'  BY <1>1, RequestTakes
<1>3. QED  BY <1>2 DEF TakeoverInv, LinkTypes, Linked, NoTakeover

LEMMA FailStep ==
  ASSUME TakeoverInv, NEW r \in Requests, Fail(r)
  PROVE  TakeoverInv'
  BY IdleOK, TakeStep DEF Fail, Finish

\* A request at a stage of the callback, with the subject the provider vouched for.
LEMMA AtStage ==
  ASSUME TakeoverInv, NEW r \in Requests
  PROVE  /\ req[r] \in Request
         /\ req[r].at \in {"identity", "email", "provision", "recover"}
              => req[r].sub \in Subjects /\ req[r].email \in Emails
  BY DEF TakeoverInv, LinkTypes, RequestsOK, RequestOK

LEMMA GotoStep ==
  ASSUME TakeoverInv, NEW r \in Requests, NEW stage \in {"email", "provision", "recover", "raised"},
         req[r].at \in {"identity", "email", "provision", "recover"}, Goto(r, stage)
  PROVE  TakeoverInv'
<1> DEFINE x == [req[r] EXCEPT !.at = stage]
<1>1. x \in Request /\ x.at = stage /\ x.sub \in Subjects /\ x.email \in Emails
  BY AtStage DEF Request, Stages
<1>2. req' = [req EXCEPT ![r] = x] /\ UNCHANGED <<identity, session, linked>>  BY DEF Goto
<1> HIDE DEF x
<1>3. RequestOK(x)  BY <1>1 DEF RequestOK
<1>4. QED  BY <1>2, <1>3, TakeStep

\* Signing in through the identity that was found.
LEMMA SignInStep ==
  ASSUME TakeoverInv, NEW r \in Requests, req[r].sub \in Subjects,
         identity[req[r].sub] # None, SignInAs(r, identity[req[r].sub])
  PROVE  TakeoverInv'
<1> DEFINE u == identity[req[r].sub]
           x == [req[r] EXCEPT !.at = "session", !.email = u]
<1>1. u \in Emails /\ <<req[r].sub, u>> \in linked
  BY DEF TakeoverInv, LinkTypes, Linked
<1>2. req' = [req EXCEPT ![r] = x] /\ UNCHANGED <<identity, session, linked>>
  <2>1. req' = [req EXCEPT ![r].at = "session", ![r].email = u]  BY DEF SignInAs
  <2>2. req \in [Requests -> Request]  BY DEF TakeoverInv, LinkTypes
  <2>3. QED  BY <2>1, <2>2 DEF SignInAs
<1> HIDE DEF u
<1>3. x \in Request /\ x.at = "session" /\ x.email = u /\ x.sub = req[r].sub
  BY <1>1, AtStage DEF Request, Stages
<1> HIDE DEF x
<1>4. RequestOK(x)  BY <1>1, <1>3 DEF RequestOK
<1>5. QED  BY <1>2, <1>4, TakeStep

\* A session opened for u, vouched for by s when s is not None.
LEMMA OpenStep ==
  ASSUME TakeoverInv, NEW u \in Emails, NEW s \in Subjects \cup {None}, OpenSession(u, s),
         s # None => <<s, u>> \in linked', linked \subseteq linked'
  PROVE  session' \in [Sessions -> SessionRow \cup {None}] /\ NoTakeover'
<1> DEFINE x == [user |-> u, via |-> s]
<1>1. x \in SessionRow /\ x.user = u /\ x.via = s  BY DEF SessionRow
<1>2. PICK n \in Sessions : session' = [session EXCEPT ![n] = x]  BY DEF OpenSession
<1> HIDE DEF x
<1>3. session' \in [Sessions -> SessionRow \cup {None}]
  BY <1>1, <1>2 DEF TakeoverInv, LinkTypes
<1>4. session'[n] = x /\ \A m \in Sessions : m # n => session'[m] = session[m]
  BY <1>2 DEF TakeoverInv, LinkTypes
<1>5. NoTakeover'  BY <1>1, <1>4 DEF TakeoverInv, NoTakeover
<1>6. QED  BY <1>3, <1>5

LEMMA ProvisionStep ==
  ASSUME TakeoverInv, NEW r \in Requests, Provision(r)
  PROVE  TakeoverInv'
<1>1. req[r].at = "provision"  BY DEF Provision, At
<1>2. CASE Goto(r, "raised") \/ Goto(r, "recover")  BY <1>1, <1>2, GotoStep
<1>3. CASE Fail(r)  BY <1>3, FailStep
<1>4. CASE ~(Goto(r, "raised") \/ Goto(r, "recover") \/ Fail(r))
  <2> DEFINE s == req[r].sub
             e == req[r].email
  <2>1. s \in Subjects /\ e \in Emails  BY <1>1, AtStage
  <2>2. /\ identity' = [identity EXCEPT ![s] = e] /\ linked' = linked \cup {<<s, e>>}
        /\ OpenSession(e, s) /\ Finish(r)
    BY <1>4 DEF Provision
  <2> HIDE DEF s, e
  <2>3. identity' \in [Subjects -> Emails \cup {None}] /\ Linked'
    BY <2>1, <2>2 DEF TakeoverInv, LinkTypes, Linked
  <2>4. session' \in [Sessions -> SessionRow \cup {None}] /\ NoTakeover'
    BY <2>1, <2>2, OpenStep
  <2>5. req' \in [Requests -> Request] /\ RequestsOK'
    BY <2>2, IdleOK, RequestTakes DEF Finish
  <2>6. QED  BY <2>3, <2>4, <2>5 DEF TakeoverInv, LinkTypes
<1>5. QED  BY <1>2, <1>3, <1>4

LEMMA CreateSessionStep ==
  ASSUME TakeoverInv, NEW r \in Requests, CreateSession(r)
  PROVE  TakeoverInv'
<1>1. CASE Fail(r)  BY <1>1, FailStep
<1>2. CASE ~Fail(r)
  <2>1. /\ OpenSession(req[r].email, req[r].sub) /\ Finish(r)
        /\ UNCHANGED <<identity, linked>>
    BY <1>2 DEF CreateSession
  <2>2. /\ req[r].email \in Emails /\ req[r].sub \in Subjects \cup {None}
        /\ req[r].sub # None => <<req[r].sub, req[r].email>> \in linked
    BY DEF CreateSession, At, TakeoverInv, LinkTypes, RequestsOK, RequestOK, Request
  <2>3. session' \in [Sessions -> SessionRow \cup {None}] /\ NoTakeover'
    BY <2>1, <2>2, OpenStep
  <2>4. req' \in [Requests -> Request] /\ RequestsOK'
    BY <2>1, IdleOK, RequestTakes DEF Finish
  <2>5. QED  BY <2>1, <2>3, <2>4 DEF TakeoverInv, LinkTypes, Linked
<1>3. QED  BY <1>1, <1>2

LEMMA StepKeepsLinks ==
  ASSUME TakeoverInv, NEW r \in Requests, Step(r)
  PROVE  TakeoverInv'
<1>1. ASSUME NEW x \in States, Callback(r, x)  PROVE TakeoverInv'
  <2> DEFINE y == [req[r] EXCEPT !.at = "exchange"]
  <2>1. req' = [req EXCEPT ![r] = y] /\ UNCHANGED <<identity, session, linked>>
    BY <1>1 DEF Callback
  <2>2. RequestOK(y)  BY AtStage DEF RequestOK, Request, Stages
  <2>3. QED  BY <2>1, <2>2, TakeStep
<1>2. ASSUME NEW s \in Subjects, NEW e \in Emails, ExchangeCode(r, s, e)  PROVE TakeoverInv'
  <2> DEFINE y == [at |-> "identity", sub |-> s, email |-> e]
  <2>1. req' = [req EXCEPT ![r] = y] /\ UNCHANGED <<identity, session, linked>>
    BY <1>2 DEF ExchangeCode
  <2>2. RequestOK(y)  BY DEF RequestOK, Request, Stages
  <2>3. QED  BY <2>1, <2>2, TakeStep
<1>3. CASE FindIdentity(r)
  <2>1. req[r].at = "identity" /\ req[r].sub \in Subjects  BY <1>3, AtStage DEF FindIdentity, At
  <2>2. QED  BY <1>3, <2>1, SignInStep, GotoStep DEF FindIdentity
<1>4. CASE CheckEmail(r)
  <2>1. req[r].at = "email"  BY <1>4 DEF CheckEmail, At
  <2>2. QED  BY <1>4, <2>1, FailStep, GotoStep DEF CheckEmail, KnownEmail
<1>5. CASE Recover(r)
  <2>1. req[r].at = "recover" /\ req[r].sub \in Subjects  BY <1>5, AtStage DEF Recover, At
  <2>2. QED  BY <1>5, <2>1, SignInStep, FailStep DEF Recover
<1>6. CASE Abort(r)  BY <1>6, FailStep DEF Abort
<1>7. QED  BY <1>1, <1>2, <1>3, <1>4, <1>5, <1>6, ProvisionStep, CreateSessionStep DEF Step

LEMMA LoginKeepsLinks ==
  ASSUME TakeoverInv, Login
  PROVE  TakeoverInv'
<1>1. ASSUME NEW e \in Emails, LoginWrong(e)  PROVE TakeoverInv'
  BY <1>1 DEF LoginWrong, TakeoverInv, LinkTypes, Linked, RequestsOK, RequestOK, NoTakeover
<1>2. ASSUME NEW r \in Requests, NEW e \in Emails, LoginRight(r, e)  PROVE TakeoverInv'
  <2> DEFINE x == [at |-> "session", sub |-> None, email |-> e]
  <2>1. req' = [req EXCEPT ![r] = x] /\ UNCHANGED <<identity, session, linked>>
    BY <1>2 DEF LoginRight
  <2>2. RequestOK(x)  BY DEF RequestOK, Request, Stages
  <2>3. QED  BY <2>1, <2>2, TakeStep
<1>3. QED  BY <1>1, <1>2 DEF Login

LEMMA CommandLineKeepsLinks ==
  ASSUME TakeoverInv, CommandLine
  PROVE  TakeoverInv'
<1>1. UNCHANGED <<session, req>> /\ linked \subseteq linked'
  BY LinkedGrows DEF CommandLine, CreateUser, UnlinkIdentity, LinkIdentity, SetScheme, Next
<1>2. RequestsOK' /\ NoTakeover'
  BY <1>1 DEF TakeoverInv, RequestsOK, RequestOK, NoTakeover
<1>3. identity' \in [Subjects -> Emails \cup {None}] /\ Linked'
  BY DEF CommandLine, CreateUser, UnlinkIdentity, LinkIdentity, SetScheme,
         TakeoverInv, LinkTypes, Linked
<1>4. QED  BY <1>1, <1>2, <1>3 DEF TakeoverInv, LinkTypes

LEMMA RestKeepsLinks ==
  ASSUME TakeoverInv,
         \/ StartFlow \/ Process \/ Tick \/ UNCHANGED vars
         \/ \E n \in Sessions : EndSession(n)
  PROVE  TakeoverInv'
<1>1. ASSUME NEW n \in Sessions, EndSession(n)  PROVE TakeoverInv'
  BY <1>1 DEF EndSession, TakeoverInv, LinkTypes, Linked, RequestsOK, RequestOK, NoTakeover
<1>2. CASE Restart
  <2>1. req' \in [Requests -> Request]  BY <1>2 DEF Restart, Idle, Request, Stages
  <2>2. \A r \in Requests : req'[r] = Idle  BY <1>2 DEF Restart
  <2>3. RequestsOK'  BY <2>2, IdleOK DEF RequestsOK
  <2>4. QED  BY <1>2, <2>1, <2>3 DEF Restart, TakeoverInv, LinkTypes, Linked, NoTakeover
<1>3. CASE /\ UNCHANGED <<identity, session, req, linked>>
  BY <1>3 DEF TakeoverInv, LinkTypes, Linked, RequestsOK, RequestOK, NoTakeover
<1>4. QED
  BY <1>1, <1>2, <1>3
  DEF StartFlow, Process, Boot, AdoptScheme, SweepStates, SweepFailures, Tick, vars

LEMMA TakeoverNext == TakeoverInv /\ [Next]_vars => TakeoverInv'
  BY StepKeepsLinks, LoginKeepsLinks, CommandLineKeepsLinks, RestKeepsLinks DEF Next

LEMMA TakeoverInit == Init => TakeoverInv
  BY DEF Init, TakeoverInv, LinkTypes, Linked, RequestsOK, RequestOK, NoTakeover,
         Idle, Request, Stages

\* dashboard.py:282-287: nobody gets a session of an account through a subject that was
\* never linked to it, however many logins, links and unlinks are in flight.
THEOREM NoTakeoverHolds == Spec => []NoTakeover
<1>1. TakeoverInv => NoTakeover  BY DEF TakeoverInv
<1>2. QED  BY <1>1, TakeoverInit, TakeoverNext, PTL DEF Spec

-----------------------------------------------------------------------------
(* A state is spent once.  A spent state that this process still accepts   *)
(* the signature of is remembered as used, or too old: it was used after   *)
(* it was minted, and is forgotten only StateTTL after it was used.        *)

ClockTypes == /\ now \in Nat
              /\ flow \in [States -> Nat \cup {None}]
              /\ used \in [States -> Nat \cup {None}]
              /\ funded \in [States -> Nat]

SpentOK == \A x \in States :
    /\ funded[x] <= 1
    /\ x \in unused => flow[x] = None /\ funded[x] = 0
    /\ used[x] # None => flow[x] # None /\ used[x] > flow[x]
    /\ flow[x] # None /\ funded[x] > 0 => used[x] # None \/ now - flow[x] > StateTTL

StateInv == ClockTypes /\ SpentOK

LEMMA StateInit == Init => StateInv
  BY TimesAssumption DEF Init, StateInv, ClockTypes, SpentOK

LEMMA StartFlowSpent ==
  ASSUME StateInv, StartFlow
  PROVE  StateInv'
<1>1. PICK x \in States \cap unused :
        flow' = [flow EXCEPT ![x] = now] /\ unused' = unused \ {x}
  BY DEF StartFlow
<1>2. UNCHANGED <<now, used, funded>>  BY DEF StartFlow
<1>3. ClockTypes'  BY <1>1, <1>2 DEF StateInv, ClockTypes
<1>4. flow'[x] = now /\ \A y \in States : y # x => flow'[y] = flow[y]
  BY <1>1 DEF StateInv, ClockTypes
<1>5. SpentOK'
  <2> SUFFICES ASSUME NEW y \in States
               PROVE  /\ funded'[y] <= 1
                      /\ y \in unused' => flow'[y] = None /\ funded'[y] = 0
                      /\ used'[y] # None => flow'[y] # None /\ used'[y] > flow'[y]
                      /\ flow'[y] # None /\ funded'[y] > 0
                           => used'[y] # None \/ now' - flow'[y] > StateTTL
    BY DEF SpentOK
  <2>1. CASE y = x  BY <1>1, <1>2, <1>4, <2>1 DEF StateInv, SpentOK
  <2>2. CASE y # x  BY <1>1, <1>2, <1>4, <2>2 DEF StateInv, SpentOK
  <2>3. QED  BY <2>1, <2>2
<1>6. QED  BY <1>3, <1>5 DEF StateInv

LEMMA CallbackSpent ==
  ASSUME StateInv, NEW r \in Requests, NEW x \in States, Callback(r, x)
  PROVE  StateInv'
<1>1. /\ used' = [used EXCEPT ![x] = now] /\ funded' = [funded EXCEPT ![x] = @ + 1]
      /\ UNCHANGED <<now, flow, unused>>
  BY DEF Callback
<1>2. flow[x] # None /\ used[x] = None /\ now > flow[x] /\ now - flow[x] <= StateTTL
  BY DEF Callback, Spendable
<1>3. funded[x] \in Nat /\ flow[x] \in Nat /\ now \in Nat
  BY <1>2 DEF StateInv, ClockTypes
<1>4. funded[x] = 0 /\ x \notin unused
  BY <1>2, <1>3, TimesAssumption DEF StateInv, SpentOK
<1>5. ClockTypes'  BY <1>1, <1>3 DEF StateInv, ClockTypes
<1>6. /\ used'[x] = now /\ funded'[x] = 1
      /\ \A y \in States : y # x => used'[y] = used[y] /\ funded'[y] = funded[y]
  BY <1>1, <1>4 DEF StateInv, ClockTypes
<1>7. now # None  BY <1>3, NoneAssumption
<1>8. SpentOK'
  <2> SUFFICES ASSUME NEW y \in States
               PROVE  /\ funded'[y] <= 1
                      /\ y \in unused' => flow'[y] = None /\ funded'[y] = 0
                      /\ used'[y] # None => flow'[y] # None /\ used'[y] > flow'[y]
                      /\ flow'[y] # None /\ funded'[y] > 0
                           => used'[y] # None \/ now' - flow'[y] > StateTTL
    BY DEF SpentOK
  <2>1. CASE y = x  BY <1>1, <1>2, <1>4, <1>6, <1>7, <2>1
  <2>2. CASE y # x  BY <1>1, <1>6, <2>2 DEF StateInv, SpentOK
  <2>3. QED  BY <2>1, <2>2
<1>9. QED  BY <1>5, <1>8 DEF StateInv

LEMMA SweepSpent ==
  ASSUME StateInv, SweepStates
  PROVE  StateInv'
<1>1. /\ used' = [x \in States |-> IF used[x] # None /\ used[x] <= now - StateTTL
                                   THEN None ELSE used[x]]
      /\ UNCHANGED <<now, flow, unused, funded>>
  BY DEF SweepStates
<1>2. ClockTypes'  BY <1>1 DEF StateInv, ClockTypes
<1>3. SpentOK'
  <2> SUFFICES ASSUME NEW y \in States
               PROVE  /\ funded'[y] <= 1
                      /\ y \in unused' => flow'[y] = None /\ funded'[y] = 0
                      /\ used'[y] # None => flow'[y] # None /\ used'[y] > flow'[y]
                      /\ flow'[y] # None /\ funded'[y] > 0
                           => used'[y] # None \/ now' - flow'[y] > StateTTL
    BY DEF SpentOK
  <2>1. CASE used[y] # None /\ used[y] <= now - StateTTL
    <3>1. flow[y] # None /\ used[y] > flow[y]  BY <2>1 DEF StateInv, SpentOK
    <3>2. used[y] \in Nat /\ flow[y] \in Nat /\ now \in Nat
      BY <2>1, <3>1 DEF StateInv, ClockTypes
    <3>3. now - flow[y] > StateTTL  BY <2>1, <3>1, <3>2, TimesAssumption
    <3>4. used'[y] = None  BY <1>1, <2>1
    <3>5. QED  BY <1>1, <3>3, <3>4 DEF StateInv, SpentOK
  <2>2. CASE ~(used[y] # None /\ used[y] <= now - StateTTL)
    <3>1. used'[y] = used[y]  BY <1>1, <2>2
    <3>2. QED  BY <1>1, <3>1 DEF StateInv, SpentOK
  <2>3. QED  BY <2>1, <2>2
<1>4. QED  BY <1>2, <1>3 DEF StateInv

LEMMA TickSpent ==
  ASSUME StateInv, Tick
  PROVE  StateInv'
<1>1. now' = now + 1 /\ UNCHANGED <<flow, used, unused, funded>>  BY DEF Tick
<1>2. ClockTypes'  BY <1>1 DEF StateInv, ClockTypes
<1>3. SpentOK'
  <2>1. \A x \in States : flow[x] # None => flow[x] \in Nat  BY DEF StateInv, ClockTypes
  <2>2. now \in Nat /\ StateTTL \in Nat  BY TimesAssumption DEF StateInv, ClockTypes
  <2>3. QED  BY <1>1, <2>1, <2>2 DEF StateInv, SpentOK
<1>4. QED  BY <1>2, <1>3 DEF StateInv

LEMMA RestartSpent ==
  ASSUME StateInv, Restart
  PROVE  StateInv'
  BY DEF Restart, StateInv, ClockTypes, SpentOK

\* What the other actions leave alone, drawing new session ids at most.
LEMMA AsideSpent ==
  ASSUME StateInv, UNCHANGED <<now, flow, used, funded>>, unused' \subseteq unused
  PROVE  StateInv'
  BY DEF StateInv, ClockTypes, SpentOK

LEMMA StateNext == StateInv /\ [Next]_vars => StateInv'
<1> SUFFICES ASSUME StateInv, [Next]_vars  PROVE StateInv'
  OBVIOUS
<1>1. ASSUME NEW r \in Requests, Step(r)  PROVE StateInv'
  <2>1. CASE \E x \in States : Callback(r, x)  BY <2>1, CallbackSpent
  <2>2. CASE ~\E x \in States : Callback(r, x)
    <3>1. UNCHANGED <<now, flow, used, funded>> /\ unused' \subseteq unused
      BY <1>1, <2>2 DEF Step, ExchangeCode, FindIdentity, CheckEmail, KnownEmail, Provision,
                        Recover, CreateSession, OpenSession, Abort, SignInAs, Goto, Fail
    <3>2. QED  BY <3>1, AsideSpent
  <2>3. QED  BY <2>1, <2>2
<1>2. CASE Login \/ CommandLine \/ \E n \in Sessions : EndSession(n)
  <2>1. UNCHANGED <<now, flow, used, funded, unused>>
    BY <1>2 DEF Login, LoginWrong, LoginRight, CommandLine, CreateUser, UnlinkIdentity,
                LinkIdentity, SetScheme, EndSession
  <2>2. QED  BY <2>1, AsideSpent
<1>3. CASE Process
  <2>1. CASE (\E x \in Schemes : Boot(x)) \/ AdoptScheme \/ SweepFailures
    <3>1. UNCHANGED <<now, flow, used, funded, unused>>
      BY <2>1 DEF Boot, AdoptScheme, SweepFailures
    <3>2. QED  BY <3>1, AsideSpent
  <2>2. QED  BY <1>3, <2>1, RestartSpent, SweepSpent DEF Process
<1>4. CASE UNCHANGED vars  BY <1>4, AsideSpent DEF vars
<1>5. QED  BY <1>1, <1>2, <1>3, <1>4, StartFlowSpent, TickSpent DEF Next

\* oidc_state.py:23-34: a state pays for one token exchange, although the sweep forgets
\* it was used and a restart forgets everything.
THEOREM StateFundsOneHolds == Spec => []StateFundsOne
<1>1. StateInv => StateFundsOne  BY DEF StateInv, SpentOK, StateFundsOne
<1>2. QED  BY <1>1, StateInit, StateNext, PTL DEF Spec

-----------------------------------------------------------------------------
(* The scheme lock.  Once a start has succeeded a scheme is persisted, so  *)
(* no start is about to adopt one.                                         *)

Settled == served => persisted # None /\ booting = None

LEMMA SettledNext == Settled /\ [Next]_vars => Settled'
<1> SUFFICES ASSUME Settled, [Next]_vars  PROVE Settled'
  OBVIOUS
<1>1. ASSUME NEW r \in Requests, Step(r)  PROVE Settled'
  BY <1>1 DEF Step, Callback, ExchangeCode, FindIdentity, CheckEmail, KnownEmail, Provision,
              Recover, CreateSession, Abort, SignInAs, Goto, Fail, Settled
<1>2. CASE Login \/ StartFlow \/ Tick \/ \E n \in Sessions : EndSession(n)
  BY <1>2 DEF Login, LoginWrong, LoginRight, StartFlow, Tick, EndSession, Settled
<1>3. CASE CommandLine
  BY <1>3, NoneAssumption
  DEF CommandLine, CreateUser, UnlinkIdentity, LinkIdentity, SetScheme, Settled
<1>4. CASE Process
  BY <1>4 DEF Process, Boot, FirstBoot, AdoptScheme, Restart, SweepStates, SweepFailures, Settled
<1>5. QED  BY <1>1, <1>2, <1>3, <1>4 DEF Next, vars, Settled

\* auth_scheme.py:58-62: after the first start only the command changes the scheme,
\* however often the server starts and under whatever environment.
THEOREM SchemeLockedHolds == Spec => SchemeLocked
<1>1. Init => Settled  BY DEF Init, Settled
<1>2. Settled /\ [Next]_vars => [served /\ persisted' # persisted => UNCHANGED <<active, booting>>]_vars
  <2> SUFFICES ASSUME Settled, Next, served, persisted' # persisted
               PROVE  UNCHANGED <<active, booting>>
    OBVIOUS
  <2>1. ASSUME NEW r \in Requests, Step(r)  PROVE FALSE
    BY <2>1 DEF Step, Callback, ExchangeCode, FindIdentity, CheckEmail, KnownEmail, Provision,
                Recover, CreateSession, Abort, SignInAs, Goto, Fail
  <2>2. CASE Login \/ StartFlow \/ Tick \/ \E n \in Sessions : EndSession(n)
    BY <2>2 DEF Login, LoginWrong, LoginRight, StartFlow, Tick, EndSession
  <2>3. CASE CommandLine
    BY <2>3 DEF CommandLine, CreateUser, UnlinkIdentity, LinkIdentity, SetScheme
  <2>4. CASE Process
    BY <2>4 DEF Process, Boot, AdoptScheme, Restart, SweepStates, SweepFailures, Settled
  <2>5. QED  BY <2>1, <2>2, <2>3, <2>4 DEF Next
<1>3. QED  BY <1>1, <1>2, SettledNext, PTL DEF Spec, SchemeLocked

-----------------------------------------------------------------------------
(* The filter of session_auth.py:29, over any list of times.               *)

\* The values of the recursive function that NewerThan takes the last of.
Keeps(kept, times, cutoff, n) ==
    kept = [i \in 0..n |->
              IF i = 0 THEN <<>>
              ELSE IF times[i] > cutoff THEN Append(kept[i - 1], times[i]) ELSE kept[i - 1]]

LEMMA KeepsExist ==
  ASSUME NEW times, NEW cutoff, NEW n \in Nat
  PROVE  \E kept : Keeps(kept, times, cutoff, n)
<1> DEFINE P == {i \in 0..n : \E kept : Keeps(kept, times, cutoff, i)}
<1>1. 0 \in P
  <2>1. Keeps([i \in 0..0 |-> <<>>], times, cutoff, 0)  BY DEF Keeps
  <2>2. QED  BY <2>1
<1>2. ASSUME NEW i \in 0..n - 1, i \in P  PROVE i + 1 \in P
  <2>1. PICK kept : Keeps(kept, times, cutoff, i)  BY <1>2
  <2> DEFINE last == IF times[i + 1] > cutoff THEN Append(kept[i], times[i + 1]) ELSE kept[i]
             more == [j \in 0..i + 1 |-> IF j = i + 1 THEN last ELSE kept[j]]
  <2>2. \A j \in 0..i : more[j] = IF j = 0 THEN <<>>
                                  ELSE IF times[j] > cutoff THEN Append(more[j - 1], times[j])
                                                            ELSE more[j - 1]
    <3> HIDE DEF last
    <3> SUFFICES ASSUME NEW j \in 0..i
                 PROVE  more[j] = IF j = 0 THEN <<>>
                                  ELSE IF times[j] > cutoff THEN Append(more[j - 1], times[j])
                                                            ELSE more[j - 1]
      OBVIOUS
    <3>1. more[j] = kept[j] /\ (j # 0 => more[j - 1] = kept[j - 1])  OBVIOUS
    <3> HIDE DEF more
    <3>2. QED  BY <2>1, <3>1 DEF Keeps
  <2>3. more[i + 1] = IF times[i + 1] > cutoff THEN Append(more[(i + 1) - 1], times[i + 1])
                                               ELSE more[(i + 1) - 1]
    <3>1. more[i + 1] = last /\ more[(i + 1) - 1] = kept[i]  OBVIOUS
    <3> HIDE DEF more
    <3>2. QED  BY <3>1
  <2>4. Keeps(more, times, cutoff, i + 1)
    <3>1. DOMAIN more = 0..i + 1 /\ more = [j \in 0..i + 1 |-> more[j]]  OBVIOUS
    <3> HIDE DEF more
    <3>2. \A j \in 0..i + 1 : more[j] = IF j = 0 THEN <<>>
                                  ELSE IF times[j] > cutoff THEN Append(more[j - 1], times[j])
                                                            ELSE more[j - 1]
      BY <2>2, <2>3
    <3>3. QED  BY <3>1, <3>2 DEF Keeps
  <2>5. QED  BY <2>4
<1>3. \A i \in 0..n : i \in P
  <2> HIDE DEF P
  <2> QED  BY <1>1, <1>2, UpTo
<1>4. QED  BY <1>3

LEMMA NewerThanIs ==
  ASSUME NEW times \in Seq(Nat), NEW cutoff
  PROVE  \E kept : /\ Keeps(kept, times, cutoff, Len(times))
                   /\ NewerThan(times, cutoff) = kept[Len(times)]
<1>1. \E kept : Keeps(kept, times, cutoff, Len(times))
  <2>1. Len(times) \in Nat  OBVIOUS
  <2>2. QED  BY <2>1, KeepsExist
<1>2. NewerThan(times, cutoff) = (CHOOSE kept : Keeps(kept, times, cutoff, Len(times)))[Len(times)]
  BY DEF NewerThan, Keeps
<1>3. QED  BY <1>1, <1>2

Chosen(few, times, cutoff) ==
    /\ few \in Seq(Nat)
    /\ \A k \in 1..Len(few) : \E j \in 1..Len(times) : few[k] = times[j] /\ times[j] > cutoff

LEMMA ChooseOneMore ==
  ASSUME NEW times \in Seq(Nat), NEW cutoff \in Int, NEW s, Chosen(s, times, cutoff),
         NEW i \in 1..Len(times), times[i] > cutoff
  PROVE  /\ Chosen(Append(s, times[i]), times, cutoff)
         /\ Len(Append(s, times[i])) = Len(s) + 1 /\ Len(s) \in Nat
<1> DEFINE t == times[i]
<1>1. s \in Seq(Nat) /\ t \in Nat  BY DEF Chosen
<1> HIDE DEF t
<1>2. /\ Append(s, t) \in Seq(Nat) /\ Len(Append(s, t)) = Len(s) + 1 /\ Len(s) \in Nat
      /\ \A k \in 1..Len(s) : Append(s, t)[k] = s[k]
      /\ Append(s, t)[Len(s) + 1] = t
  BY <1>1
<1>3. ASSUME NEW k \in 1..Len(s) + 1
      PROVE  \E j \in 1..Len(times) : Append(s, t)[k] = times[j] /\ times[j] > cutoff
  <2>1. CASE k = Len(s) + 1  BY <1>2, <2>1 DEF t
  <2>2. CASE k # Len(s) + 1
    <3>1. k \in 1..Len(s)  BY <1>2, <2>2
    <3>2. QED  BY <1>2, <3>1 DEF Chosen
  <2>3. QED  BY <2>1, <2>2
<1>4. QED  BY <1>2, <1>3 DEF Chosen, t

\* What the filter returns: some of the times, and none that is too old; all of them
\* when it returns as many.
LEMMA Filtered ==
  ASSUME NEW times \in Seq(Nat), NEW cutoff \in Int
  PROVE  LET few == NewerThan(times, cutoff) IN
         /\ few \in Seq(Nat) /\ Len(few) <= Len(times)
         /\ \A b \in Int : (\A j \in 1..Len(times) : times[j] <= b)
                             => \A k \in 1..Len(few) : few[k] <= b
         /\ (\A j \in 1..Len(times) : times[j] <= cutoff) => few = <<>>
         /\ Len(few) = Len(times) => few = times
<1>1. PICK kept : /\ Keeps(kept, times, cutoff, Len(times))
                  /\ NewerThan(times, cutoff) = kept[Len(times)]
  BY NewerThanIs
<1> DEFINE Same(s, i) == Len(s) = i => \A k \in 1..i : s[k] = times[k]
           P == {i \in 0..Len(times) : /\ Chosen(kept[i], times, cutoff) /\ Len(kept[i]) <= i
                                       /\ Same(kept[i], i)}
<1>2. 0 \in P
  <2>1. kept[0] = <<>>  BY <1>1 DEF Keeps
  <2>2. Chosen(<<>>, times, cutoff) /\ Len(<<>>) = 0  BY DEF Chosen
  <2>3. QED  BY <2>1, <2>2
<1>3. ASSUME NEW i \in 0..Len(times) - 1, i \in P  PROVE i + 1 \in P
  <2>1. kept[i + 1] = IF times[i + 1] > cutoff THEN Append(kept[i], times[i + 1]) ELSE kept[i]
    <3>1. i + 1 \in 0..Len(times) /\ i + 1 # 0 /\ (i + 1) - 1 = i  OBVIOUS
    <3>2. QED  BY <1>1, <3>1 DEF Keeps
  <2>2. /\ i + 1 \in 1..Len(times) /\ Chosen(kept[i], times, cutoff) /\ Len(kept[i]) <= i
        /\ Same(kept[i], i)
    BY <1>3
  <2>3. Len(kept[i]) \in Nat  BY <2>2 DEF Chosen
  <2>4. Chosen(kept[i + 1], times, cutoff) /\ Len(kept[i + 1]) <= i + 1
    <3>1. CASE times[i + 1] > cutoff
      <4>1. /\ Chosen(Append(kept[i], times[i + 1]), times, cutoff)
            /\ Len(Append(kept[i], times[i + 1])) = Len(kept[i]) + 1
        BY <2>2, <3>1, ChooseOneMore
      <4>2. QED  BY <2>1, <2>2, <2>3, <3>1, <4>1
    <3>2. CASE ~(times[i + 1] > cutoff)  BY <2>1, <2>2, <2>3, <3>2
    <3>3. QED  BY <3>1, <3>2
  <2>5. Same(kept[i + 1], i + 1)
    <3>1. CASE times[i + 1] > cutoff
      <4> DEFINE s == kept[i]
      <4>1. s \in Seq(Nat) /\ times[i + 1] \in Nat  BY <2>2 DEF Chosen
      <4>2. kept[i + 1] = Append(s, times[i + 1])  BY <2>1, <3>1
      <4>3. Len(s) = i => \A k \in 1..i : s[k] = times[k]  BY <2>2
      <4> HIDE DEF s
      <4>4. /\ Len(Append(s, times[i + 1])) = Len(s) + 1 /\ Len(s) \in Nat
            /\ \A k \in 1..Len(s) : Append(s, times[i + 1])[k] = s[k]
            /\ Append(s, times[i + 1])[Len(s) + 1] = times[i + 1]
        BY <4>1
      <4>5. QED  BY <4>2, <4>3, <4>4
    <3>2. CASE ~(times[i + 1] > cutoff)  BY <2>1, <2>2, <2>3, <3>2
    <3>3. QED  BY <3>1, <3>2
  <2>6. QED  BY <2>2, <2>4, <2>5
<1>4. \A i \in 0..Len(times) : i \in P
  <2>1. Len(times) \in Nat  OBVIOUS
  <2> HIDE DEF P
  <2>2. QED  BY <1>2, <1>3, <2>1, UpTo
<1>5. /\ Chosen(kept[Len(times)], times, cutoff) /\ Len(kept[Len(times)]) <= Len(times)
      /\ Same(kept[Len(times)], Len(times))
  BY <1>4
<1> DEFINE few == NewerThan(times, cutoff)
<1>6. /\ few \in Seq(Nat) /\ Len(few) <= Len(times)
      /\ \A k \in 1..Len(few) : \E j \in 1..Len(times) : few[k] = times[j] /\ times[j] > cutoff
      /\ Len(few) = Len(times) => \A k \in 1..Len(times) : few[k] = times[k]
  BY <1>1, <1>5 DEF Chosen
<1> HIDE DEF few
<1>7. ASSUME \A j \in 1..Len(times) : times[j] <= cutoff  PROVE few = <<>>
  <2>1. \A k \in 1..Len(few) : FALSE  BY <1>6, <1>7
  <2>2. Len(few) = 0  BY <1>6, <2>1
  <2>3. QED  BY <1>6, <2>2
<1>8. ASSUME Len(few) = Len(times)  PROVE few = times
  <2>1. /\ few = [k \in 1..Len(few) |-> few[k]]
        /\ times = [k \in 1..Len(times) |-> times[k]]
    BY <1>6
  <2>2. \A k \in 1..Len(times) : few[k] = times[k]  BY <1>6, <1>8
  <2>3. QED  BY <1>8, <2>1, <2>2
<1>9. QED  BY <1>6, <1>7, <1>8 DEF few

-----------------------------------------------------------------------------
(* The lockout.  The tracker holds the 401s since the last success, or the *)
(* sweep has dropped it, and then every one of them is out of the window.  *)
(* While an email is locked out nothing is added, and nothing is too old.  *)

TimesTyped == /\ now \in Nat
              /\ failed \in [Emails -> Seq(Nat)] /\ refused \in [Emails -> Seq(Nat)]

LatestLast(times, t)  == \A k \in 1..Len(times) : times[k] <= times[Len(times)] /\ times[k] <= t
AllOld(times, cutoff) == \A k \in 1..Len(times) : times[k] <= cutoff

\* A tracker and the 401s it stands for, at time t.
Tracks(kept, answered, t) ==
    /\ LatestLast(answered, t) /\ Len(answered) <= MaxAttempts
    /\ kept = answered \/ (kept = <<>> /\ AllOld(answered, t - Window))

Counted == \A e \in Emails : Tracks(failed[e], refused[e], now)

LockoutInv == TimesTyped /\ Counted

LEMMA RecentIs ==
  ASSUME now \in Nat, NEW times \in Seq(Nat)
  PROVE  /\ Recent(times) \in Seq(Nat) /\ Len(Recent(times)) <= Len(times)
         /\ AllOld(times, now - Window) => Recent(times) = <<>>
         /\ Len(Recent(times)) = Len(times) => Recent(times) = times
         /\ (\A k \in 1..Len(times) : times[k] <= now)
              => \A k \in 1..Len(Recent(times)) : Recent(times)[k] <= now
<1>1. now - Window \in Int /\ now \in Int  BY TimesAssumption
<1>2. QED  BY <1>1, Filtered DEF Recent, AllOld

LEMMA NothingTracked ==
  ASSUME NEW t  PROVE Tracks(<<>>, <<>>, t)
  BY TimesAssumption DEF Tracks, LatestLast

\* What the window shows of a tracker is what it shows of the 401s.
LEMMA SameRecent ==
  ASSUME LockoutInv, NEW e \in Emails
  PROVE  Recent(failed[e]) = Recent(refused[e])
<1>1. now \in Nat /\ refused[e] \in Seq(Nat)  BY DEF LockoutInv, TimesTyped
<1>2. CASE failed[e] = <<>> /\ AllOld(refused[e], now - Window)
  <2>1. AllOld(<<>>, now - Window) /\ <<>> \in Seq(Nat)  BY DEF AllOld
  <2>2. Recent(<<>>) = <<>>  BY <1>1, <2>1, RecentIs
  <2>3. Recent(refused[e]) = <<>>  BY <1>1, <1>2, RecentIs
  <2>4. QED  BY <1>2, <2>2, <2>3
<1>3. QED  BY <1>2 DEF LockoutInv, Counted, Tracks

\* While locked out, what is_login_rate_limited keeps is all there is.
LEMMA LimitedStep ==
  ASSUME LockoutInv, NEW e \in Emails, LoginLimited(e)
  PROVE  UNCHANGED <<failed, refused>>
<1>1. /\ Limited(e) /\ failed' = [failed EXCEPT ![e] = Recent(failed[e])]
      /\ UNCHANGED refused
  BY DEF LoginLimited
<1>2. /\ now \in Nat /\ failed[e] \in Seq(Nat) /\ refused[e] \in Seq(Nat)
      /\ failed \in [Emails -> Seq(Nat)]
  BY DEF LockoutInv, TimesTyped
<1>3. /\ Recent(failed[e]) \in Seq(Nat) /\ Len(Recent(failed[e])) <= Len(failed[e])
      /\ Len(Recent(failed[e])) = Len(failed[e]) => Recent(failed[e]) = failed[e]
  BY <1>2, RecentIs
<1>4. Len(failed[e]) <= MaxAttempts
  <2>1. CASE failed[e] = refused[e]  BY <2>1 DEF LockoutInv, Counted, Tracks
  <2>2. CASE failed[e] = <<>>  BY <2>2, TimesAssumption
  <2>3. QED  BY <2>1, <2>2 DEF LockoutInv, Counted, Tracks
<1>5. Len(Recent(failed[e])) >= MaxAttempts  BY <1>1 DEF Limited
<1>6. Len(failed[e]) \in Nat /\ Len(Recent(failed[e])) \in Nat  BY <1>2, <1>3
<1>7. Recent(failed[e]) = failed[e]  BY <1>3, <1>4, <1>5, <1>6, TimesAssumption
<1>8. QED  BY <1>1, <1>2, <1>7

LEMMA RefusedStep ==
  ASSUME LockoutInv, NEW e \in Emails, LoginRefused(e), UNCHANGED now
  PROVE  LockoutInv'
<1> DEFINE kept == Recent(refused[e])
<1> USE DEF LockoutInv, TimesTyped
<1>1. /\ ~Limited(e) /\ UNCHANGED now
      /\ failed' = [failed EXCEPT ![e] = Append(Recent(failed[e]), now)]
      /\ refused' = [refused EXCEPT ![e] = Append(kept, now)]
  BY DEF LoginRefused
<1>2. now \in Nat /\ refused[e] \in Seq(Nat) /\ failed[e] \in Seq(Nat)  OBVIOUS
<1>3. /\ kept \in Seq(Nat) /\ Len(kept) \in Nat
      /\ \A k \in 1..Len(kept) : kept[k] <= now
  <2>1. \A k \in 1..Len(refused[e]) : refused[e][k] <= now
    BY DEF Counted, Tracks, LatestLast
  <2>2. kept \in Seq(Nat) /\ \A k \in 1..Len(kept) : kept[k] <= now
    BY <1>2, <2>1, RecentIs
  <2> HIDE DEF kept
  <2>3. QED  BY <2>2
<1>4. Recent(failed[e]) = kept /\ Len(kept) < MaxAttempts
  <2>1. Recent(failed[e]) = kept  BY SameRecent
  <2>2. ~(Len(kept) >= MaxAttempts)  BY <1>1, <2>1 DEF Limited
  <2> HIDE DEF kept
  <2>3. QED  BY <1>3, <2>1, <2>2, TimesAssumption
<1> HIDE DEF kept
<1> DEFINE more == Append(kept, now)
<1>5. /\ more \in Seq(Nat) /\ Len(more) = Len(kept) + 1 /\ more[Len(kept) + 1] = now
      /\ \A k \in 1..Len(kept) : more[k] = kept[k]
  BY <1>2, <1>3
<1> HIDE DEF more
<1>6. failed' = [failed EXCEPT ![e] = more] /\ refused' = [refused EXCEPT ![e] = more]
  BY <1>1, <1>4 DEF more
<1>7. TimesTyped'
  <2>1. failed' \in [Emails -> Seq(Nat)] /\ refused' \in [Emails -> Seq(Nat)]  BY <1>5, <1>6
  <2>2. now' \in Nat  BY <1>1, <1>2
  <2>3. QED  BY <2>1, <2>2
<1>8. LatestLast(more, now)
  <2> SUFFICES ASSUME NEW k \in 1..Len(more)  PROVE more[k] <= now
    BY <1>3, <1>5 DEF LatestLast
  <2>1. CASE k = Len(kept) + 1  BY <1>2, <1>5, <2>1
  <2>2. CASE k # Len(kept) + 1
    <3>1. k \in 1..Len(kept)  BY <1>3, <1>5, <2>2
    <3>2. QED  BY <1>3, <1>5, <3>1
  <2>3. QED  BY <2>1, <2>2
<1>9. Len(more) <= MaxAttempts  BY <1>3, <1>4, <1>5, TimesAssumption
<1>10. Tracks(more, more, now)  BY <1>8, <1>9 DEF Tracks
<1>11. Counted'
  <2> SUFFICES ASSUME NEW f \in Emails  PROVE Tracks(failed'[f], refused'[f], now)
    BY <1>1 DEF Counted
  <2>1. CASE f = e  BY <1>6, <1>10, <2>1
  <2>2. CASE f # e  BY <1>6, <2>2 DEF Counted
  <2>3. QED  BY <2>1, <2>2
<1>12. QED  BY <1>7, <1>11

\* A success, or a restart, forgets the 401s with the tracker.
LEMMA Forgotten ==
  ASSUME LockoutInv, NEW gone \in SUBSET Emails, UNCHANGED now,
         failed' \in [Emails -> Seq(Nat)], refused' \in [Emails -> Seq(Nat)],
         \A e \in gone : failed'[e] = <<>> /\ refused'[e] = <<>>,
         \A e \in Emails \ gone : failed'[e] = failed[e] /\ refused'[e] = refused[e]
  PROVE  LockoutInv'
<1>1. Counted'
  <2> SUFFICES ASSUME NEW e \in Emails  PROVE Tracks(failed'[e], refused'[e], now)
    BY DEF Counted
  <2>1. CASE e \in gone  BY <2>1, NothingTracked
  <2>2. CASE e \notin gone  BY <2>2 DEF LockoutInv, Counted
  <2>3. QED  BY <2>1, <2>2
<1>2. QED  BY <1>1 DEF LockoutInv, TimesTyped

\* The sweep drops a tracker whose newest time, and so every one, is out of the window.
LEMMA Swept ==
  ASSUME LockoutInv, SweepFailures
  PROVE  LockoutInv'
<1> USE DEF LockoutInv, TimesTyped
<1>1. /\ failed' = [e \in Emails |-> IF Stale(failed[e]) THEN <<>> ELSE failed[e]]
      /\ UNCHANGED <<now, refused>>
  BY DEF SweepFailures
<1>2. <<>> \in Seq(Nat)  OBVIOUS
<1>3. TimesTyped'  BY <1>1, <1>2
<1>4. Counted'
  <2> SUFFICES ASSUME NEW e \in Emails  PROVE Tracks(failed'[e], refused[e], now)
    BY <1>1 DEF Counted
  <2>1. CASE ~Stale(failed[e])  BY <1>1, <2>1 DEF Counted
  <2>2. CASE Stale(failed[e])
    <3> DEFINE times == refused[e]
    <3>1. failed'[e] = <<>> /\ times \in Seq(Nat) /\ now \in Nat  BY <1>1, <2>2
    <3>2. failed[e] = times  BY <2>2 DEF Stale, Counted, Tracks
    <3>3. times # <<>> /\ times[Len(times)] <= now - Window  BY <2>2, <3>2 DEF Stale
    <3>4. LatestLast(times, now) /\ Len(times) <= MaxAttempts  BY DEF Counted, Tracks
    <3> HIDE DEF times
    <3>5. Len(times) \in 1..Len(times) /\ \A k \in 1..Len(times) : times[k] \in Nat
      BY <3>1, <3>3
    <3>6. \A k \in 1..Len(times) : times[k] <= now - Window
      BY <3>1, <3>3, <3>4, <3>5, TimesAssumption DEF LatestLast
    <3>7. AllOld(times, now - Window)  BY <3>6 DEF AllOld
    <3>8. QED  BY <3>1, <3>4, <3>7 DEF Tracks, times
  <2>3. QED  BY <2>1, <2>2
<1>5. QED  BY <1>3, <1>4

LEMMA Ticked ==
  ASSUME LockoutInv, Tick
  PROVE  LockoutInv'
<1> USE DEF LockoutInv, TimesTyped
<1>1. now' = now + 1 /\ UNCHANGED <<failed, refused>>  BY DEF Tick
<1>2. ASSUME NEW e \in Emails  PROVE Tracks(failed[e], refused[e], now + 1)
  <2>1. refused[e] \in Seq(Nat) /\ now \in Nat  OBVIOUS
  <2>2. \A k \in 1..Len(refused[e]) : refused[e][k] \in Nat  BY <2>1
  <2>3. /\ LatestLast(refused[e], now) => LatestLast(refused[e], now + 1)
        /\ AllOld(refused[e], now - Window) => AllOld(refused[e], (now + 1) - Window)
    BY <2>1, <2>2, TimesAssumption DEF LatestLast, AllOld
  <2>4. QED  BY <2>3 DEF Counted, Tracks
<1>3. Counted'  BY <1>1, <1>2 DEF Counted
<1>4. QED  BY <1>1, <1>3

LEMMA LockoutNext == LockoutInv /\ [Next]_vars => LockoutInv'
<1> SUFFICES ASSUME LockoutInv, [Next]_vars  PROVE LockoutInv'
  OBVIOUS
<1> <<>> \in Seq(Nat)  OBVIOUS
<1>1. CASE UNCHANGED <<now, failed, refused>>
  BY <1>1 DEF LockoutInv, TimesTyped, Counted
<1>2. ASSUME NEW r \in Requests, NEW e \in Emails, LoginRight(r, e)  PROVE LockoutInv'
  <2>1. /\ failed' = [failed EXCEPT ![e] = <<>>] /\ refused' = [refused EXCEPT ![e] = <<>>]
        /\ UNCHANGED now
    BY <1>2 DEF LoginRight
  <2>2. /\ failed' \in [Emails -> Seq(Nat)] /\ refused' \in [Emails -> Seq(Nat)]
        /\ \A f \in {e} : failed'[f] = <<>> /\ refused'[f] = <<>>
        /\ \A f \in Emails \ {e} : failed'[f] = failed[f] /\ refused'[f] = refused[f]
    BY <2>1 DEF LockoutInv, TimesTyped
  <2>3. {e} \in SUBSET Emails  OBVIOUS
  <2>4. QED  BY <2>1, <2>2, <2>3, Forgotten
<1>3. CASE Restart
  <2>1. /\ failed' = [e \in Emails |-> <<>>] /\ refused' = [e \in Emails |-> <<>>]
        /\ UNCHANGED now
    BY <1>3 DEF Restart
  <2>2. /\ failed' \in [Emails -> Seq(Nat)] /\ refused' \in [Emails -> Seq(Nat)]
        /\ \A e \in Emails : failed'[e] = <<>> /\ refused'[e] = <<>>
    BY <2>1
  <2>3. \A e \in Emails \ Emails : failed'[e] = failed[e] /\ refused'[e] = refused[e]
    OBVIOUS
  <2>4. Emails \in SUBSET Emails  OBVIOUS
  <2>5. QED  BY <2>1, <2>2, <2>3, <2>4, Forgotten
<1>4. ASSUME NEW r \in Requests, Step(r)  PROVE UNCHANGED <<now, failed, refused>>
  BY <1>4 DEF Step, Callback, ExchangeCode, FindIdentity, CheckEmail, KnownEmail, Provision,
              Recover, CreateSession, Abort, SignInAs, Goto, Fail
<1>5. CASE StartFlow \/ CommandLine \/ \E n \in Sessions : EndSession(n)
  BY <1>1, <1>5 DEF StartFlow, EndSession, CommandLine, CreateUser, UnlinkIdentity, LinkIdentity,
                    SetScheme
<1>6. CASE Process
  BY <1>1, <1>3, <1>6, Swept DEF Process, Boot, AdoptScheme, SweepStates
<1>7. ASSUME NEW e \in Emails, LoginWrong(e)  PROVE LockoutInv'
  BY <1>1, <1>7, LimitedStep, RefusedStep DEF LoginWrong
<1>8. QED
  BY <1>1, <1>2, <1>4, <1>5, <1>6, <1>7, Ticked DEF Next, Login, vars

LEMMA LockoutInit == Init => LockoutInv
<1> SUFFICES ASSUME Init  PROVE LockoutInv  OBVIOUS
<1>1. <<>> \in Seq(Nat)  OBVIOUS
<1>2. TimesTyped  BY <1>1 DEF Init, TimesTyped
<1>3. ASSUME NEW e \in Emails  PROVE Tracks(failed[e], refused[e], now)
  BY NothingTracked DEF Init
<1>4. QED  BY <1>2, <1>3 DEF LockoutInv, Counted

\* session_auth.py:18-34: whenever the sweep runs, the server restarts and locked-out
\* callers keep trying, a wrong password is answered 429 exactly when MaxAttempts were
\* answered 401 within the window and since the last success, for any limit and window.
THEOREM LockoutExactHolds == Spec => []LockoutExact
<1>1. LockoutInv => LockoutExact
  <2> SUFFICES ASSUME LockoutInv, NEW e \in Emails
               PROVE  /\ Len(Recent(refused[e])) <= MaxAttempts
                      /\ Limited(e) <=> Len(Recent(refused[e])) = MaxAttempts
    BY DEF LockoutExact
  <2>1. refused[e] \in Seq(Nat) /\ now \in Nat /\ Len(refused[e]) <= MaxAttempts
    BY DEF LockoutInv, TimesTyped, Counted, Tracks
  <2>2. Recent(refused[e]) \in Seq(Nat) /\ Len(Recent(refused[e])) <= Len(refused[e])
    BY <2>1, RecentIs
  <2>3. Limited(e) <=> Len(Recent(refused[e])) >= MaxAttempts  BY SameRecent DEF Limited
  <2>4. Len(refused[e]) \in Nat /\ Len(Recent(refused[e])) \in Nat  BY <2>1, <2>2
  <2>5. QED  BY <2>1, <2>2, <2>3, <2>4, TimesAssumption
<1>2. QED  BY <1>1, LockoutInit, LockoutNext, PTL DEF Spec

-----------------------------------------------------------------------------
(* Types.  The invariants above type the clock, the tokens, the requests   *)
(* and the tracker; what remains is whose accounts the rows name.          *)

SchemeTyped == /\ persisted \in Schemes \cup {None} /\ active \in Schemes \cup {None}
               /\ booting \in Schemes \cup {None} /\ served \in BOOLEAN

PoolTyped == now <= MaxTime /\ unused \subseteq States \cup Sessions /\ linked \subseteq Subjects \X Emails

Peopled == /\ account \in [Emails -> {"password", "sso", None}]
           /\ \A s \in Subjects : identity[s] # None => identity[s] \in Accounts
           /\ \A n \in Sessions : session[n] # None => session[n].user \in Accounts
           /\ \A r \in Requests : req[r].at = "session" => req[r].email \in Accounts

TypeInv == TakeoverInv /\ SchemeTyped /\ PoolTyped /\ Peopled

LEMMA SchemeNext == SchemeTyped /\ [Next]_vars => SchemeTyped'
<1> SUFFICES ASSUME SchemeTyped, [Next]_vars  PROVE SchemeTyped'
  OBVIOUS
<1>1. ASSUME NEW r \in Requests, Step(r)  PROVE UNCHANGED <<persisted, active, booting, served>>
  BY <1>1 DEF Step, Callback, ExchangeCode, FindIdentity, CheckEmail, KnownEmail, Provision,
              Recover, CreateSession, Abort, SignInAs, Goto, Fail
<1>2. CASE UNCHANGED <<persisted, active, booting, served>>  BY <1>2 DEF SchemeTyped
<1>3. CASE Login \/ StartFlow \/ Tick \/ \E n \in Sessions : EndSession(n)
  BY <1>2, <1>3 DEF Login, LoginWrong, LoginRight, StartFlow, Tick, EndSession
<1>4. CASE CommandLine
  BY <1>4 DEF CommandLine, CreateUser, UnlinkIdentity, LinkIdentity, SetScheme, SchemeTyped
<1>5. CASE Process
  BY <1>5 DEF Process, Boot, AdoptScheme, Restart, SweepStates, SweepFailures, SchemeTyped
<1>6. QED  BY <1>1, <1>2, <1>3, <1>4, <1>5 DEF Next, vars

LEMMA PoolNext ==
  ASSUME TakeoverInv, now \in Nat, PoolTyped, [Next]_vars
  PROVE  PoolTyped'
<1> USE DEF PoolTyped
<1>1. ASSUME NEW r \in Requests, Step(r)
      PROVE  UNCHANGED now /\ unused' \subseteq unused /\ linked' \subseteq Subjects \X Emails
  <2>1. CASE Provision(r)
    <3>1. req[r].sub \in Subjects /\ req[r].email \in Emails
      BY <2>1, AtStage DEF Provision, At
    <3>2. QED  BY <2>1, <3>1 DEF Provision, OpenSession, Goto, Fail
  <2>2. CASE ~Provision(r)
    BY <1>1, <2>2 DEF Step, Callback, ExchangeCode, FindIdentity, CheckEmail, KnownEmail,
                      Recover, CreateSession, OpenSession, Abort, SignInAs, Goto, Fail
  <2>3. QED  BY <2>1, <2>2
<1>2. CASE Login \/ StartFlow \/ \E n \in Sessions : EndSession(n)
  BY <1>2 DEF Login, LoginWrong, LoginRight, StartFlow, EndSession
<1>3. CASE Tick  BY <1>3, TimesAssumption DEF Tick
<1>4. CASE CommandLine
  BY <1>4 DEF CommandLine, CreateUser, UnlinkIdentity, LinkIdentity, SetScheme
<1>5. CASE Process
  BY <1>5 DEF Process, Boot, AdoptScheme, Restart, SweepStates, SweepFailures
<1>6. QED  BY <1>1, <1>2, <1>3, <1>4, <1>5 DEF Next, vars

\* No user is ever deleted.
LEMMA AccountsGrow ==
  ASSUME TakeoverInv, Peopled, [Next]_vars
  PROVE  /\ Accounts \subseteq Accounts' /\ account' \in [Emails -> {"password", "sso", None}]
<1> USE DEF Peopled
<1>1. CASE UNCHANGED account  BY <1>1 DEF Accounts
<1>2. ASSUME NEW e \in Emails, NEW kind \in {"password", "sso"}, account' = [account EXCEPT ![e] = kind]
      PROVE  /\ Accounts \subseteq Accounts' /\ account' \in [Emails -> {"password", "sso", None}]
  BY <1>2, NoneAssumption DEF Accounts
<1>3. ASSUME NEW r \in Requests, Step(r), ~UNCHANGED account
      PROVE  \E e \in Emails : account' = [account EXCEPT ![e] = "sso"]
  <2>1. Provision(r)
    BY <1>3 DEF Step, Callback, ExchangeCode, FindIdentity, CheckEmail, KnownEmail,
                Recover, CreateSession, Abort, SignInAs, Goto, Fail
  <2>2. req[r].email \in Emails  BY <2>1, AtStage DEF Provision, At
  <2>3. QED  BY <1>3, <2>1, <2>2 DEF Provision, Goto, Fail
<1>4. CASE Login \/ StartFlow \/ Tick \/ \E n \in Sessions : EndSession(n)
  BY <1>1, <1>4 DEF Login, LoginWrong, LoginRight, StartFlow, Tick, EndSession
<1>5. CASE CommandLine
  BY <1>1, <1>2, <1>5 DEF CommandLine, CreateUser, UnlinkIdentity, LinkIdentity, SetScheme
<1>6. CASE Process
  BY <1>1, <1>6 DEF Process, Boot, AdoptScheme, Restart, SweepStates, SweepFailures
<1>7. QED  BY <1>1, <1>2, <1>3, <1>4, <1>5, <1>6 DEF Next, vars

\* Whoever is about to get a session has an account.
LEMMA SignedInNext ==
  ASSUME TakeoverInv, Peopled, [Next]_vars, NEW q \in Requests, req'[q].at = "session"
  PROVE  req'[q].email \in Accounts'
<1> USE DEF Peopled
<1>1. Accounts \subseteq Accounts'  BY AccountsGrow
<1>2. req \in [Requests -> Request]  BY DEF TakeoverInv, LinkTypes
<1>3. CASE req'[q] = req[q]  BY <1>1, <1>3
<1>4. ASSUME NEW r \in Requests, NEW s, SignInAs(r, identity[s]), s \in Subjects, identity[s] # None
      PROVE  req'[q].email \in Accounts'
  <2>1. CASE q # r  BY <1>2, <1>3, <1>4, <2>1 DEF SignInAs
  <2>2. CASE q = r  BY <1>1, <1>2, <1>4, <2>2 DEF SignInAs, Request
  <2>3. QED  BY <2>1, <2>2
<1>5. ASSUME NEW r \in Requests, Step(r)  PROVE req'[q].email \in Accounts'
  <2>1. CASE Finish(r)  BY <1>2, <1>3, <2>1 DEF Finish, Idle
  <2>2. CASE \E stage \in {"exchange", "email", "provision", "recover", "raised"} :
               req' = [req EXCEPT ![r].at = stage]
    <3>1. q # r => req'[q] = req[q]  BY <1>2, <2>2
    <3>2. q # r  BY <1>2, <2>2 DEF Request
    <3>3. QED  BY <1>3, <3>1, <3>2
  <2>3. CASE \E s \in Subjects, e \in Emails : ExchangeCode(r, s, e)
    <3>1. q # r  BY <1>2, <2>3 DEF ExchangeCode
    <3>2. req'[q] = req[q]  BY <1>2, <2>3, <3>1 DEF ExchangeCode
    <3>3. QED  BY <1>3, <3>2
  <2>4. CASE FindIdentity(r)
    <3>1. req[r].sub \in Subjects  BY <2>4, AtStage DEF FindIdentity, At
    <3>2. QED  BY <1>4, <2>2, <2>4, <3>1 DEF FindIdentity, Goto
  <2>5. CASE Recover(r)
    <3>1. req[r].sub \in Subjects  BY <2>5, AtStage DEF Recover, At
    <3>2. QED  BY <1>4, <2>1, <2>5, <3>1 DEF Recover, Fail
  <2>6. CASE CheckEmail(r)  BY <2>1, <2>2, <2>6 DEF CheckEmail, KnownEmail, Goto, Fail
  <2>7. CASE Provision(r)   BY <2>1, <2>2, <2>7 DEF Provision, Goto, Fail
  <2>8. CASE CreateSession(r) \/ Abort(r)  BY <2>1, <2>8 DEF CreateSession, Abort, Fail
  <2>9. CASE \E x \in States : Callback(r, x)  BY <2>2, <2>9 DEF Callback
  <2>10. QED  BY <1>5, <2>3, <2>4, <2>5, <2>6, <2>7, <2>8, <2>9 DEF Step
<1>6. ASSUME NEW r \in Requests, NEW e \in Emails, LoginRight(r, e)
      PROVE  req'[q].email \in Accounts'
  <2>1. account[e] = "password" /\ req' = [req EXCEPT ![r] = [at |-> "session", sub |-> None, email |-> e]]
    BY <1>6 DEF LoginRight, Verified
  <2>2. e \in Accounts  BY <2>1, NoneAssumption DEF Accounts
  <2>3. CASE q = r  BY <1>1, <1>2, <2>1, <2>2, <2>3
  <2>4. CASE q # r  BY <1>2, <1>3, <2>1, <2>4
  <2>5. QED  BY <2>3, <2>4
<1>7. CASE Restart  BY <1>7 DEF Restart, Idle
<1>8. CASE \/ StartFlow \/ Tick \/ CommandLine \/ UNCHANGED vars \/ \E n \in Sessions : EndSession(n)
           \/ \E e \in Emails : LoginWrong(e)
  BY <1>3, <1>8 DEF LoginWrong, StartFlow, Tick, EndSession, CommandLine, CreateUser,
                    UnlinkIdentity, LinkIdentity, SetScheme, vars
<1>9. CASE Process
  BY <1>3, <1>7, <1>9 DEF Process, Boot, AdoptScheme, SweepStates, SweepFailures
<1>10. QED  BY <1>5, <1>6, <1>8, <1>9 DEF Next, Login

\* The rows name accounts that exist.
LEMMA PeopledNext ==
  ASSUME TakeoverInv, Peopled, [Next]_vars
  PROVE  Peopled'
<1> USE DEF Peopled
<1>1. Accounts \subseteq Accounts' /\ account' \in [Emails -> {"password", "sso", None}]
  BY AccountsGrow
<1>2. \A r \in Requests : req'[r].at = "session" => req'[r].email \in Accounts'
  BY SignedInNext
<1>3. /\ identity \in [Subjects -> Emails \cup {None}]
      /\ session \in [Sessions -> SessionRow \cup {None}]
  BY DEF TakeoverInv, LinkTypes
<1>4. CASE UNCHANGED <<identity, session>>  BY <1>1, <1>2, <1>4
<1>5. ASSUME NEW u \in Accounts', NEW via, OpenSession(u, via)
      PROVE  \A n \in Sessions : session'[n] # None => session'[n].user \in Accounts'
  BY <1>1, <1>3, <1>5 DEF OpenSession
<1>6. ASSUME NEW s \in Subjects, NEW e \in Accounts', identity' = [identity EXCEPT ![s] = e]
      PROVE  \A t \in Subjects : identity'[t] # None => identity'[t] \in Accounts'
  BY <1>1, <1>3, <1>6
<1>7. ASSUME NEW r \in Requests, Step(r), ~UNCHANGED <<identity, session>>  PROVE Peopled'
  <2>1. Provision(r) \/ CreateSession(r)
    BY <1>7 DEF Step, Callback, ExchangeCode, FindIdentity, CheckEmail, KnownEmail, Recover,
                Abort, SignInAs, Goto, Fail
  <2>2. CASE Provision(r)
    <3> DEFINE s == req[r].sub
               e == req[r].email
    <3>1. s \in Subjects /\ e \in Emails  BY <2>2, AtStage DEF Provision, At
    <3>2. /\ account' = [account EXCEPT ![e] = "sso"] /\ identity' = [identity EXCEPT ![s] = e]
          /\ OpenSession(e, s)
      BY <1>7, <2>2 DEF Provision, Goto, Fail
    <3>3. e \in Accounts'
      BY <3>1, <3>2, NoneAssumption DEF Accounts
    <3> HIDE DEF s, e
    <3>4. QED  BY <1>1, <1>2, <1>5, <1>6, <3>1, <3>2, <3>3
  <2>3. CASE CreateSession(r)
    <3>1. OpenSession(req[r].email, req[r].sub) /\ UNCHANGED identity /\ req[r].at = "session"
      BY <1>7, <2>3 DEF CreateSession, Fail, At
    <3>2. req[r].email \in Accounts'  BY <1>1, <3>1
    <3>3. QED  BY <1>1, <1>2, <1>5, <3>1, <3>2
  <2>4. QED  BY <2>1, <2>2, <2>3
<1>8. ASSUME NEW n \in Sessions, EndSession(n)  PROVE Peopled'
  BY <1>1, <1>2, <1>3, <1>8 DEF EndSession
<1>9. CASE CommandLine
  <2>1. ASSUME NEW s \in Subjects, NEW e \in Emails, LinkIdentity(s, e)  PROVE Peopled'
    <3>1. e \in Accounts'  BY <1>1, <2>1 DEF LinkIdentity, Accounts
    <3>2. QED  BY <1>1, <1>2, <1>6, <2>1, <3>1 DEF LinkIdentity
  <2>2. ASSUME NEW s \in Subjects, UnlinkIdentity(s)  PROVE Peopled'
    BY <1>1, <1>2, <1>3, <2>2 DEF UnlinkIdentity
  <2>3. CASE (\E e \in Emails : CreateUser(e)) \/ \E x \in Schemes : SetScheme(x)
    BY <1>4, <2>3 DEF CreateUser, SetScheme
  <2>4. QED  BY <1>9, <2>1, <2>2, <2>3 DEF CommandLine
<1>10. CASE Process \/ Login \/ StartFlow \/ Tick \/ UNCHANGED vars
  BY <1>4, <1>10 DEF Process, Boot, AdoptScheme, Restart, SweepStates, SweepFailures, Login,
                     LoginWrong, LoginRight, StartFlow, Tick, vars
<1>11. QED  BY <1>4, <1>7, <1>8, <1>9, <1>10 DEF Next

\* auth.py, session_auth.py and the unique constraints of models.py: in every reachable
\* state each identity link and each session belongs to an account that exists, and
\* every variable has its type.
THEOREM SignInTyped == Spec => []TypeOK
<1>1. Init => TypeInv /\ StateInv /\ LockoutInv
  <2>1. Init => SchemeTyped /\ PoolTyped /\ Peopled
    <3> SUFFICES ASSUME Init  PROVE SchemeTyped /\ PoolTyped /\ Peopled
      OBVIOUS
    <3>1. SchemeTyped  BY DEF Init, SchemeTyped
    <3>2. now <= MaxTime /\ unused \subseteq States \cup Sessions  BY TimesAssumption DEF Init
    <3>3. linked \subseteq Subjects \X Emails  BY DEF Init
    <3>4. account \in [Emails -> {"password", "sso", None}]  BY DEF Init
    <3>5. \A s \in Subjects : identity[s] = None  BY DEF Init
    <3>6. \A n \in Sessions : session[n] = None  BY DEF Init
    <3>7. \A r \in Requests : req[r].at # "session"  BY DEF Init, Idle
    <3>8. QED
      BY <3>1, <3>2, <3>3, <3>4, <3>5, <3>6, <3>7 DEF PoolTyped, Peopled
  <2>2. Init => LockoutInv  BY LockoutInit
  <2>3. QED  BY <2>1, <2>2, TakeoverInit, StateInit DEF TypeInv
<1>2. TypeInv /\ StateInv /\ LockoutInv /\ [Next]_vars => (TypeInv /\ StateInv /\ LockoutInv)'
  BY SchemeNext, PoolNext, PeopledNext, TakeoverNext, StateNext, LockoutNext
  DEF TypeInv, StateInv, ClockTypes
<1>3. TypeInv /\ StateInv /\ LockoutInv => TypeOK
  <2> SUFFICES ASSUME TypeInv, StateInv, LockoutInv  PROVE TypeOK  OBVIOUS
  <2>1. identity \in [Subjects -> Accounts \cup {None}]
    BY DEF TypeInv, TakeoverInv, LinkTypes, Peopled
  <2>2. now \in 0..MaxTime
    BY TimesAssumption DEF TypeInv, PoolTyped, StateInv, ClockTypes
  <2>3. QED
    BY <2>1, <2>2
    DEF TypeOK, TypeInv, TakeoverInv, LinkTypes, SchemeTyped, PoolTyped, Peopled, StateInv,
        ClockTypes, LockoutInv, TimesTyped
<1>4. QED  BY <1>1, <1>2, <1>3, PTL DEF Spec

=============================================================================
