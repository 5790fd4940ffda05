------------------------ MODULE ArtifactStore_proofs ------------------------
(***************************************************************************)
(* Theorems about ArtifactStore, for every number of requests, connections *)
(* and artifacts, every limit and every workload.                          *)
(***************************************************************************)
EXTENDS ArtifactStore, DataInduction

USE DEF TablesOK

-----------------------------------------------------------------------------
\* Every state of the tables, the locks and the coroutines has its type.
LEMMA InitTyped == Init => TypeOK
  BY DEF Init, TypeOK, NoArtifacts, Request, Idle, Stages

\* Ending a call, or moving it to its next await, keeps the types.
LEMMA FinishTyped ==
  ASSUME TypeOK, NEW r \in Requests, Finish(r)
  PROVE  /\ active' \subseteq Connections
         /\ lock' \in [Connections -> Requests \cup {None}]
         /\ req' \in [Requests -> Request]
  BY DEF TypeOK, Finish, Request, Idle, Stages

LEMMA RejectTyped ==
  ASSUME TypeOK, NEW r \in Requests, Reject(r)
  PROVE  TypeOK'
  BY FinishTyped DEF TypeOK, Reject

LEMMA GotoTyped ==
  ASSUME TypeOK, NEW r \in Requests, NEW stage \in Stages, Goto(r, stage)
  PROVE  TypeOK'
  BY DEF TypeOK, Goto, Request

LEMMA StartTyped ==
  ASSUME TypeOK, NEW r \in Requests, Start(r)
  PROVE  TypeOK'
<1>1. ASSUME NEW c \in Connections, NEW s \in Sizes, StartPublish(r, c, s)
      PROVE  TypeOK'
  BY <1>1, SizesAssumption DEF TypeOK, StartPublish, Begin, Request, Idle, Stages, Kinds
<1>2. ASSUME NEW c \in Connections, NEW a \in Artifacts, NEW base \in 1..VersionBound - 1,
             NEW s \in Sizes, StartUpdate(r, c, a, base, s)
      PROVE  TypeOK'
  <2>1. base \in Nat /\ s \in Nat  BY SizesAssumption, BoundAssumption
  <2>2. QED  BY <1>2, <2>1 DEF TypeOK, StartUpdate, Begin, Request, Idle, Stages, Kinds
<1>3. ASSUME NEW a \in Artifacts, NEW c \in Connections, StartReassign(r, a, c)
      PROVE  TypeOK'
  <2>1. artifact[a] \in Row  BY <1>3 DEF TypeOK, StartReassign, Live
  <2>2. artifact[a].size \in Nat  BY <2>1 DEF Row
  <2>3. QED  BY <1>3, <2>1, <2>2 DEF TypeOK, StartReassign, Begin, Request, Idle, Stages, Kinds
<1>4. ASSUME NEW a \in Artifacts, StartDelete(r, a)
      PROVE  TypeOK'
  BY <1>4 DEF TypeOK, StartDelete, Begin, Request, Idle, Stages, Kinds
<1>5. ASSUME NEW a \in Artifacts, StartPrune(r, a)
      PROVE  TypeOK'
  <2>1. artifact[a].version \in Nat  BY <1>5 DEF TypeOK, StartPrune, Live, Row
  <2>2. QED  BY <1>5, <2>1 DEF TypeOK, StartPrune, Begin, Request, Idle, Stages, Kinds
<1>6. ASSUME NEW a \in Artifacts, NEW v \in 1..VersionBound, StartDeleteVersion(r, a, v)
      PROVE  TypeOK'
  <2>1. v \in Nat  BY BoundAssumption
  <2>2. QED  BY <1>6, <2>1 DEF TypeOK, StartDeleteVersion, Begin, Request, Idle, Stages, Kinds
<1>7. QED  BY <1>1, <1>2, <1>3, <1>4, <1>5, <1>6 DEF Start

\* The three writes keep the tables well typed.
LEMMA WritesTyped ==
  ASSUME TablesOK, NEW a \in Artifacts
  PROVE  /\ \A c \in Connections, s \in Nat : Insert(a, c, s) => TablesOK'
         /\ \A v, s, t \in Nat : a \in Live /\ AddVersion(a, v, s, t) => TablesOK'
         /\ Remove(a) => TablesOK'
<1>1. ASSUME NEW c \in Connections, NEW s \in Nat, Insert(a, c, s)
      PROVE  TablesOK'
  BY <1>1 DEF Insert, Row, VersionRow
<1>2. ASSUME NEW v \in Nat, NEW s \in Nat, NEW t \in Nat, a \in Live, AddVersion(a, v, s, t)
      PROVE  TablesOK'
  <2>1. artifact[a] \in Row  BY <1>2 DEF Live
  <2>2. artifact' \in [Artifacts -> Row \cup {None}]  BY <1>2, <2>1 DEF AddVersion, Row
  <2>3. Retained(rows[a] \cup {[version |-> v, size |-> s]}) \in SUBSET VersionRow
    BY DEF Retained, VersionRow
  <2>4. QED  BY <1>2, <2>2, <2>3 DEF AddVersion
<1>3. Remove(a) => TablesOK'
  BY DEF Remove
<1>4. QED  BY <1>1, <1>2, <1>3

\* What the stage of a request says of its fields: a request past its lock has
\* the connection it locked, and one that writes to an artifact has its id.
FieldsOK == \A r \in Requests :
    /\ req[r].at \in {"target", "lock", "read", "count", "sum", "commit"} => req[r].conn \in Connections
    /\ req[r].at \in {"target", "lock", "read", "count", "sum", "commit"}
         => req[r].op \in {"publish", "update", "reassign"}
    /\ req[r].at # "idle" /\ req[r].op # "publish" => req[r].art \in Artifacts
    /\ req[r].at \in {"sum", "commit"} /\ req[r].op = "update" => req[r].seen \in Row
    /\ req[r].at = "rows" => req[r].op \notin {"publish", "update", "reassign"}
    /\ req[r].at = "target" => req[r].op = "reassign"
    /\ req[r].at = "read" => req[r].op = "update"
    /\ req[r].at = "count" => req[r].op # "update"

LEMMA StepTyped ==
  ASSUME TypeOK, FieldsOK, NEW r \in Requests, Step(r)
  PROVE  TypeOK'
<1>1. CASE ReadForUpdate(r)
  <2>1. CASE Reject(r)  BY <2>1, RejectTyped
  <2>2. CASE ~Reject(r)
    <3>1. req[r].art \in Live  BY <1>1, <2>2 DEF ReadForUpdate, OwnsIt, Owned
    <3>2. artifact[req[r].art] \in Row  BY <3>1 DEF TypeOK, Live
    <3>3. QED  BY <1>1, <2>2, <3>2 DEF TypeOK, ReadForUpdate, Request, Stages
  <2>3. QED  BY <2>1, <2>2
<1>2. CASE CheckCount(r)
  BY <1>2, RejectTyped, GotoTyped DEF CheckCount, Stages
<1>3. CASE CheckSum(r)
  BY <1>3, RejectTyped, GotoTyped DEF CheckSum, Stages
<1>4. CASE ReadTarget(r)
  BY <1>4, RejectTyped, GotoTyped DEF ReadTarget, Stages
<1>5. CASE CommitPublish(r)
  <2>1. req[r].conn \in Connections /\ req[r].size \in Nat
    BY <1>5 DEF CommitPublish, FieldsOK, At, TypeOK, Request
  <2>2. TablesOK'  BY <1>5, <2>1, WritesTyped DEF CommitPublish, TypeOK
  <2>3. QED  BY <1>5, <2>2, FinishTyped DEF CommitPublish, TypeOK
<1>6. CASE CommitUpdate(r)
  <2>1. CASE Reject(r)  BY <2>1, RejectTyped
  <2>2. CASE ~Reject(r)
    <3> DEFINE a == req[r].art
               t == IF req[r].size = req[r].seen.size THEN artifact[a].size ELSE req[r].size
    <3>1. a \in Live /\ AddVersion(a, req[r].seen.version + 1, req[r].size, t) /\ Finish(r)
      BY <1>6, <2>2 DEF CommitUpdate
    <3>2. req[r].seen \in Row /\ artifact[a] \in Row /\ req[r].size \in Nat
      BY <1>6, <3>1 DEF CommitUpdate, FieldsOK, At, TypeOK, Request, Live
    <3>3. req[r].seen.version + 1 \in Nat /\ t \in Nat  BY <3>2 DEF Row
    <3>4. a \in Artifacts  BY <3>1 DEF Live
    <3>5. TablesOK'
      <4> HIDE DEF a, t
      <4>1. QED  BY <3>1, <3>2, <3>3, <3>4, WritesTyped DEF TypeOK
    <3>6. QED  BY <3>1, <3>5, FinishTyped DEF TypeOK
  <2>3. QED  BY <2>1, <2>2
<1>7. CASE CommitReassign(r)
  <2>1. CASE Reject(r)  BY <2>1, RejectTyped
  <2>2. CASE ~Reject(r)
    <3>1. req[r].art \in Live /\ Finish(r) /\ UNCHANGED <<rows, fresh>>
          /\ artifact' = [artifact EXCEPT ![req[r].art].owner = req[r].conn]
      BY <1>7, <2>2 DEF CommitReassign
    <3>2. artifact[req[r].art] \in Row /\ req[r].conn \in Connections
      BY <1>7, <3>1 DEF CommitReassign, FieldsOK, At, TypeOK, Live
    <3>3. TablesOK'  BY <3>1, <3>2 DEF TypeOK, Row
    <3>4. QED  BY <3>1, <3>3, FinishTyped DEF TypeOK
  <2>3. QED  BY <2>1, <2>2
<1>8. CASE DeleteRows(r)
  <2>1. req[r].art \in Artifacts
    BY <1>8 DEF DeleteRows, FieldsOK, At
  <2>2. TablesOK'  BY <1>8, <2>1, WritesTyped DEF DeleteRows, TypeOK
  <2>3. QED  BY <1>8, <2>2, FinishTyped DEF DeleteRows, TypeOK
<1>9. QED  BY <1>1, <1>2, <1>3, <1>4, <1>5, <1>6, <1>7, <1>8 DEF Step

\* Only one coroutine moves at a time, and it moves from stage to stage.
LEMMA OthersWait ==
  ASSUME TypeOK, NEW r \in Requests, Start(r) \/ Acquire(r) \/ Step(r) \/ Abort(r)
  PROVE  \A q \in Requests \ {r} : req'[q] = req[q]
<1> USE DEF TypeOK
<1>1. CASE Start(r)
  BY <1>1 DEF Start, StartPublish, StartUpdate, StartReassign, StartDelete, StartPrune,
              StartDeleteVersion, Begin
<1>2. CASE Acquire(r)
  BY <1>2 DEF Acquire
<1>3. CASE Step(r)
  BY <1>3 DEF Step, ReadForUpdate, CheckCount, CheckSum, ReadTarget, CommitPublish, CommitUpdate,
              CommitReassign, DeleteRows, Goto, Reject, Finish
<1>4. CASE Abort(r)
  BY <1>4 DEF Abort, Reject, Finish
<1>5. QED  BY <1>1, <1>2, <1>3, <1>4

LEMMA FieldsKept ==
  ASSUME TypeOK, FieldsOK, [Next]_vars
  PROVE  FieldsOK'
<1> SUFFICES ASSUME NEW r \in Requests, Start(r) \/ Acquire(r) \/ Step(r) \/ Abort(r)
             PROVE  FieldsOK'
  BY DEF Next, vars, FieldsOK, Revoke, Restart, Idle
<1> DEFINE Ok(q) ==
    /\ q.at \in {"target", "lock", "read", "count", "sum", "commit"} => q.conn \in Connections
    /\ q.at \in {"target", "lock", "read", "count", "sum", "commit"}
         => q.op \in {"publish", "update", "reassign"}
    /\ q.at # "idle" /\ q.op # "publish" => q.art \in Artifacts
    /\ q.at \in {"sum", "commit"} /\ q.op = "update" => q.seen \in Row
    /\ q.at = "rows" => q.op \notin {"publish", "update", "reassign"}
    /\ q.at = "target" => q.op = "reassign"
    /\ q.at = "read" => q.op = "update"
    /\ q.at = "count" => q.op # "update"
<1>1. Ok(Idle)  BY DEF Idle
<1>2. Ok(req[r])  BY DEF FieldsOK
<1>3. Ok(req'[r])
  <2>1. CASE Finish(r)
    BY <1>1, <2>1 DEF Finish, TypeOK
  <2>2. CASE Start(r)
    <3>1. ASSUME NEW c \in Connections, NEW s \in Sizes, StartPublish(r, c, s)
          PROVE  Ok(req'[r])
      BY <3>1 DEF StartPublish, Begin, TypeOK, Idle
    <3>2. ASSUME NEW c \in Connections, NEW a \in Artifacts, NEW b \in 1..VersionBound - 1,
                 NEW s \in Sizes, StartUpdate(r, c, a, b, s)
          PROVE  Ok(req'[r])
      BY <3>2 DEF StartUpdate, Begin, TypeOK, Idle
    <3>3. ASSUME NEW a \in Artifacts, NEW c \in Connections, StartReassign(r, a, c)
          PROVE  Ok(req'[r])
      BY <3>3 DEF StartReassign, Begin, TypeOK, Idle
    <3>4. ASSUME NEW a \in Artifacts, StartDelete(r, a) \/ StartPrune(r, a)
          PROVE  Ok(req'[r])
      <4>1. CASE StartDelete(r, a)  BY <4>1 DEF StartDelete, Begin, TypeOK, Idle
      <4>2. CASE StartPrune(r, a)   BY <4>2 DEF StartPrune, Begin, TypeOK, Idle
      <4>3. QED  BY <3>4, <4>1, <4>2
    <3>5. ASSUME NEW a \in Artifacts, NEW v \in 1..VersionBound, StartDeleteVersion(r, a, v)
          PROVE  Ok(req'[r])
      BY <3>5 DEF StartDeleteVersion, Begin, TypeOK, Idle
    <3>6. QED  BY <2>2, <3>1, <3>2, <3>3, <3>4, <3>5 DEF Start
  <2>3. CASE Acquire(r)
    BY <1>2, <2>3 DEF Acquire, At, TypeOK, Request
  <2>4. CASE ReadForUpdate(r) /\ ~Finish(r)
    <3>1. req[r].art \in Live  BY <2>4 DEF ReadForUpdate, Reject, OwnsIt, Owned
    <3>2. artifact[req[r].art] \in Row  BY <3>1 DEF TypeOK, Live
    <3>3. QED  BY <1>2, <2>4, <3>2 DEF ReadForUpdate, Reject, At, TypeOK, Request
  <2>5. CASE (CheckCount(r) \/ CheckSum(r) \/ ReadTarget(r)) /\ ~Finish(r)
    <3>1. \E stage \in {"sum", "commit", "lock"} :
            /\ Goto(r, stage)
            /\ stage = "sum" => At(r, "count")
            /\ stage = "commit" => At(r, "sum")
            /\ stage = "lock" => At(r, "target")
      BY <2>5 DEF CheckCount, CheckSum, ReadTarget, Reject
    <3>2. PICK stage \in {"sum", "commit", "lock"} :
            /\ req'[r] = [req[r] EXCEPT !.at = stage]
            /\ stage = "sum" => At(r, "count")
            /\ stage = "commit" => At(r, "sum")
            /\ stage = "lock" => At(r, "target")
      BY <3>1 DEF Goto, TypeOK
    <3>3. QED  BY <1>2, <3>2 DEF At, TypeOK, Request
  <2>6. CASE CommitPublish(r) \/ CommitUpdate(r) \/ CommitReassign(r) \/ DeleteRows(r) \/ Abort(r)
    <3>1. Finish(r)
      BY <2>6 DEF CommitPublish, CommitUpdate, CommitReassign, DeleteRows, Abort, Reject
    <3>2. QED  BY <3>1, <2>1
  <2>7. QED  BY <2>1, <2>2, <2>3, <2>4, <2>5, <2>6 DEF Step
<1>4. \A q \in Requests : Ok(req'[q])
  BY <1>3, OthersWait DEF FieldsOK
<1>5. QED  BY <1>4 DEF FieldsOK

LEMMA TypeKept ==
  ASSUME TypeOK, FieldsOK, [Next]_vars
  PROVE  TypeOK'
<1>1. ASSUME NEW r \in Requests, Start(r)
      PROVE  TypeOK'
  BY <1>1, StartTyped
<1>2. ASSUME NEW r \in Requests, Acquire(r)
      PROVE  TypeOK'
  <2>1. req[r].conn \in Connections  BY <1>2 DEF Acquire, At, FieldsOK
  <2>2. QED  BY <1>2, <2>1 DEF TypeOK, Acquire, Request, Stages
<1>3. ASSUME NEW r \in Requests, Step(r)
      PROVE  TypeOK'
  BY <1>3, StepTyped
<1>4. ASSUME NEW r \in Requests, Abort(r)
      PROVE  TypeOK'
  BY <1>4, RejectTyped DEF Abort
<1>5. ASSUME NEW c \in Connections, Revoke(c)
      PROVE  TypeOK'
  BY <1>5 DEF TypeOK, Revoke
<1>6. CASE Restart
  BY <1>6 DEF TypeOK, Restart, Request, Idle, Stages
<1>7. CASE UNCHANGED vars
  BY <1>7 DEF TypeOK, vars
<1>8. QED  BY <1>1, <1>2, <1>3, <1>4, <1>5, <1>6, <1>7 DEF Next

\* The store is well typed in every reachable state.
THEOREM TypeCorrect == Spec => [](TypeOK /\ FieldsOK)
<1>1. Init => TypeOK /\ FieldsOK
  BY InitTyped DEF Init, FieldsOK, Idle
<1>2. TypeOK /\ FieldsOK /\ [Next]_vars => (TypeOK /\ FieldsOK)'
  BY TypeKept, FieldsKept
<1>3. QED  BY <1>1, <1>2, PTL DEF Spec

-----------------------------------------------------------------------------
(* The artifact quota.  A request that passed the count check holds its    *)
(* connection's lock until it commits, and nothing else adds an artifact   *)
(* to that connection: the place it saw free is still free.                *)

HoldsLock == \A r \in Requests :
    req[r].at \in {"read", "count", "sum", "commit"} => lock[req[r].conn] = r

PlaceKept == \A r \in Requests :
    req[r].at \in {"sum", "commit"} /\ req[r].op # "update" => CountFits(r)

CountInv == TypeOK /\ FieldsOK /\ HoldsLock /\ PlaceKept /\ ArtifactCountBounded

\* The environment's calls begin at an await, holding nothing.
LEMMA StartShape ==
  ASSUME TypeOK, NEW r \in Requests, Start(r)
  PROVE  /\ UNCHANGED lock /\ req'[r].at \in {"target", "lock", "rows"}
         /\ req'[r].op \in Workload \ {"revoke"} /\ req'[r].size \in Nat
         /\ req'[r].op \in {"publish", "update"} => req'[r].size \in Sizes
<1> DEFINE Begins(stage) == /\ UNCHANGED lock /\ req'[r].at = stage
                            /\ req'[r].op \in Workload \ {"revoke"} /\ req'[r].size \in Nat
                            /\ req'[r].op \in {"publish", "update"} => req'[r].size \in Sizes
<1> USE SizesAssumption DEF TypeOK, Begin, Idle, Accepts
<1>1. ASSUME NEW c \in Connections, NEW s \in Sizes, StartPublish(r, c, s)
      PROVE  Begins("lock")
  BY <1>1 DEF StartPublish
<1>2. ASSUME NEW c \in Connections, NEW a \in Artifacts, NEW b \in 1..VersionBound - 1,
             NEW s \in Sizes, StartUpdate(r, c, a, b, s)
      PROVE  Begins("lock")
  BY <1>2 DEF StartUpdate
<1>3. ASSUME NEW a \in Artifacts, NEW c \in Connections, StartReassign(r, a, c)
      PROVE  Begins("target")
  <2>1. artifact[a] \in Row  BY <1>3 DEF StartReassign, Live
  <2>2. artifact[a].size \in Nat  BY <2>1 DEF Row
  <2>3. QED  BY <1>3, <2>2 DEF StartReassign
<1>4. ASSUME NEW a \in Artifacts, StartDelete(r, a)
      PROVE  Begins("rows")
  BY <1>4 DEF StartDelete
<1>5. ASSUME NEW a \in Artifacts, StartPrune(r, a)
      PROVE  Begins("rows")
  BY <1>5 DEF StartPrune
<1>6. ASSUME NEW a \in Artifacts, NEW v \in 1..VersionBound, StartDeleteVersion(r, a, v)
      PROVE  Begins("rows")
  BY <1>6 DEF StartDeleteVersion
<1>7. QED  BY <1>1, <1>2, <1>3, <1>4, <1>5, <1>6 DEF Start

\* A request ends by releasing what it holds, and takes only a free lock.
LEMMA LocksKept ==
  ASSUME TypeOK, FieldsOK, HoldsLock, [Next]_vars
  PROVE  HoldsLock'
<1> USE DEF TypeOK
<1>1. ASSUME NEW r \in Requests, Finish(r), \A q \in Requests \ {r} : req'[q] = req[q]
      PROVE  HoldsLock'
  <2> SUFFICES ASSUME NEW q \in Requests, req'[q].at \in {"read", "count", "sum", "commit"}
               PROVE  lock'[req'[q].conn] = q
    BY DEF HoldsLock
  <2>1. q # r  BY <1>1 DEF Finish, Idle
  <2>2. req'[q] = req[q] /\ lock[req[q].conn] = q  BY <1>1, <2>1 DEF HoldsLock
  <2>3. req[q].conn \in Connections  BY <2>2 DEF FieldsOK
  <2>4. QED  BY <1>1, <2>1, <2>2, <2>3 DEF Finish
<1>2. ASSUME NEW r \in Requests, UNCHANGED lock, \A q \in Requests \ {r} : req'[q] = req[q],
             \/ req'[r].at \in {"target", "lock", "rows"}
             \/ req[r].at \in {"read", "count", "sum"} /\ req'[r].conn = req[r].conn
      PROVE  HoldsLock'
  BY <1>2 DEF HoldsLock
<1>3. ASSUME NEW r \in Requests, Start(r)
      PROVE  HoldsLock'
  BY <1>2, <1>3, StartShape, OthersWait
<1>4. ASSUME NEW r \in Requests, Acquire(r)
      PROVE  HoldsLock'
  <2> SUFFICES ASSUME NEW q \in Requests, req'[q].at \in {"read", "count", "sum", "commit"}
               PROVE  lock'[req'[q].conn] = q
    BY DEF HoldsLock
  <2>1. req[r].conn \in Connections  BY <1>4 DEF Acquire, At, FieldsOK
  <2>2. CASE q = r  BY <1>4, <2>1, <2>2 DEF Acquire
  <2>3. CASE q # r
    <3>1. req'[q] = req[q] /\ lock[req[q].conn] = q
      BY <1>4, <2>3, OthersWait DEF HoldsLock
    <3>2. QED  BY <1>4, <2>1, <3>1, NoneAssumption DEF Acquire
  <2>4. QED  BY <2>2, <2>3
<1>5. ASSUME NEW r \in Requests, Step(r)
      PROVE  HoldsLock'
  <2> DEFINE Moves == /\ UNCHANGED lock
                      /\ \/ req'[r].at = "lock"
                         \/ req[r].at \in {"read", "count", "sum"} /\ req'[r].conn = req[r].conn
  <2>1. CASE ReadForUpdate(r)
    <3>1. Finish(r) \/ Moves  BY <2>1 DEF ReadForUpdate, Reject, At, Request
    <3>2. QED  BY <1>1, <1>2, <1>5, <3>1, OthersWait
  <2>2. CASE CheckCount(r) \/ CheckSum(r) \/ ReadTarget(r)
    <3>1. Finish(r) \/ Moves
      BY <2>2 DEF CheckCount, CheckSum, ReadTarget, Goto, Reject, At, Request
    <3>2. QED  BY <1>1, <1>2, <1>5, <3>1, OthersWait
  <2>3. CASE CommitPublish(r) \/ CommitUpdate(r) \/ CommitReassign(r) \/ DeleteRows(r)
    <3>1. Finish(r)  BY <2>3 DEF CommitPublish, CommitUpdate, CommitReassign, DeleteRows, Reject
    <3>2. QED  BY <1>1, <1>5, <3>1, OthersWait
  <2>4. QED  BY <1>5, <2>1, <2>2, <2>3 DEF Step
<1>6. ASSUME NEW r \in Requests, Abort(r)
      PROVE  HoldsLock'
  BY <1>1, <1>6, OthersWait DEF Abort, Reject
<1>7. CASE Restart
  BY <1>7 DEF Restart, HoldsLock, Idle
<1>8. ASSUME NEW c \in Connections, Revoke(c)
      PROVE  HoldsLock'
  BY <1>8 DEF Revoke, HoldsLock
<1>9. CASE UNCHANGED vars
  BY <1>9 DEF vars, HoldsLock
<1>10. QED  BY <1>3, <1>4, <1>5, <1>6, <1>7, <1>8, <1>9 DEF Next

\* A step adds at most one artifact, to the connection of the request that commits it.
LEMMA OwnedGrows ==
  ASSUME TypeOK, FieldsOK, [Next]_vars
  PROVE  \/ \A c \in Connections : Owned(c)' \subseteq Owned(c)
         \/ \E r \in Requests, a \in Artifacts :
              /\ req[r].at = "commit" /\ req[r].op # "update"
              /\ Finish(r) /\ \A q \in Requests \ {r} : req'[q] = req[q]
              /\ \A c \in Connections :
                   Owned(c)' \subseteq IF c = req[r].conn THEN Owned(c) \cup {a} ELSE Owned(c)
<1> USE DEF TypeOK
<1>1. CASE UNCHANGED artifact  BY <1>1 DEF Owned, Live
<1>2. ASSUME NEW r \in Requests, Step(r), ~UNCHANGED artifact
      PROVE  \/ \A c \in Connections : Owned(c)' \subseteq Owned(c)
             \/ \E a \in Artifacts :
                  /\ req[r].at = "commit" /\ req[r].op # "update"
                  /\ Finish(r) /\ \A q \in Requests \ {r} : req'[q] = req[q]
                  /\ \A c \in Connections :
                       Owned(c)' \subseteq IF c = req[r].conn THEN Owned(c) \cup {a} ELSE Owned(c)
  <2>1. CASE CommitPublish(r)
    <3>1. PICK a \in fresh : Insert(a, req[r].conn, req[r].size)  BY <1>2, <2>1 DEF CommitPublish
    <3>2. a \in Artifacts /\ \A b \in Artifacts \ {a} : artifact'[b] = artifact[b]
      BY <3>1 DEF Insert
    <3>3. artifact'[a].owner = req[r].conn  BY <3>1, <3>2 DEF Insert
    <3>4. \A c \in Connections :
            Owned(c)' \subseteq IF c = req[r].conn THEN Owned(c) \cup {a} ELSE Owned(c)
      BY <3>2, <3>3 DEF Owned, Live
    <3>5. QED  BY <1>2, <2>1, <3>2, <3>4, OthersWait DEF CommitPublish, At
  <2>2. CASE CommitUpdate(r)
    <3> DEFINE a == req[r].art
    <3>1. PICK s, t : a \in Live /\ AddVersion(a, req[r].seen.version + 1, s, t)
      BY <1>2, <2>2 DEF CommitUpdate, Reject
    <3>2. artifact[a] \in Row  BY <3>1 DEF Live
    <3>3. a \in Live /\ artifact'[a].owner = artifact[a].owner
          /\ \A b \in Artifacts \ {a} : artifact'[b] = artifact[b]
      BY <3>1, <3>2 DEF AddVersion, Live, Row
    <3>4. \A c \in Connections : Owned(c)' \subseteq Owned(c)  BY <3>3 DEF Owned, Live
    <3>5. QED  BY <3>4
  <2>3. CASE CommitReassign(r)
    <3> DEFINE a == req[r].art
    <3>1. a \in Live /\ Finish(r) /\ artifact' = [artifact EXCEPT ![a].owner = req[r].conn]
      BY <1>2, <2>3 DEF CommitReassign, Reject
    <3>2. artifact[a] \in Row  BY <3>1 DEF Live
    <3>3. a \in Artifacts /\ artifact'[a].owner = req[r].conn
          /\ \A b \in Artifacts \ {a} : artifact'[b] = artifact[b]
      BY <3>1, <3>2 DEF Live, Row
    <3>4. \A c \in Connections :
            Owned(c)' \subseteq IF c = req[r].conn THEN Owned(c) \cup {a} ELSE Owned(c)
      BY <3>3 DEF Owned, Live
    <3>5. QED  BY <1>2, <2>3, <3>1, <3>3, <3>4, OthersWait DEF CommitReassign, At
  <2>4. CASE DeleteRows(r)
    <3>1. Remove(req[r].art)  BY <1>2, <2>4 DEF DeleteRows
    <3>2. \A b \in Artifacts : artifact'[b] = artifact[b] \/ artifact'[b] = None
      BY <3>1 DEF Remove
    <3>3. QED  BY <3>2 DEF Owned, Live
  <2>5. QED
    BY <1>2, <2>1, <2>2, <2>3, <2>4
    DEF Step, ReadForUpdate, CheckCount, CheckSum, ReadTarget, Goto, Reject
<1>3. UNCHANGED artifact \/ \E r \in Requests : Step(r)
  BY DEF Next, vars, Start, StartPublish, StartUpdate, StartReassign, StartDelete, StartPrune,
         StartDeleteVersion, Acquire, Abort, Reject, Revoke, Restart
<1>4. QED  BY <1>1, <1>2, <1>3

LEMMA OwnedFinite ==
  ASSUME NEW c
  PROVE  IsFiniteSet(Owned(c)) /\ Cardinality(Owned(c)) \in Nat
<1>1. Owned(c) \in SUBSET Artifacts  BY DEF Owned, Live
<1>2. IsFiniteSet(Owned(c))  BY <1>1, PoolAssumption, FS_Subset
<1>3. QED  BY <1>2, FS_CardinalityType

LEMMA CountKept ==
  ASSUME CountInv, [Next]_vars
  PROVE  (PlaceKept /\ ArtifactCountBounded)'
<1> USE DEF CountInv
<1>1. HoldsLock' /\ FieldsOK' /\ TypeOK'  BY LocksKept, FieldsKept, TypeKept
\* A request at these stages after the step was there before, or has just counted.
<1>2. ASSUME NEW q \in Requests, req'[q].at \in {"sum", "commit"}, req'[q].op # "update"
      PROVE  /\ req'[q].conn = req[q].conn /\ req[q].conn \in Connections
             /\ Cardinality(Owned(req[q].conn)) < MaxArtifactsPerConnection
             /\ lock[req[q].conn] = q
  <2>1. CASE req'[q] = req[q]
    BY <1>2, <2>1 DEF PlaceKept, CountFits, HoldsLock, FieldsOK
  <2>2. CASE req'[q] # req[q]
    <3>1. Start(q) \/ Acquire(q) \/ Step(q) \/ Abort(q)
      <4>1. PICK r \in Requests : Start(r) \/ Acquire(r) \/ Step(r) \/ Abort(r)
        BY <1>2, <2>2 DEF Next, vars, Revoke, Restart, Idle
      <4>2. QED  BY <2>2, <4>1, OthersWait
    <3>2. ~Finish(q)  BY <1>2 DEF Finish, TypeOK, Idle
    <3>3. ~Start(q)  BY <1>2, StartShape
    <3>4. ~Acquire(q)  BY <1>2 DEF Acquire, TypeOK, Request
    <3>5. CheckCount(q) \/ CheckSum(q) \/ ReadForUpdate(q) \/ ReadTarget(q)
      BY <3>1, <3>2, <3>3, <3>4
      DEF Step, Abort, CommitPublish, CommitUpdate, CommitReassign, DeleteRows, Reject
    <3>6. ~ReadTarget(q)  BY <1>2, <3>2 DEF ReadTarget, Goto, Reject, TypeOK, Request
    <3>7. ~ReadForUpdate(q)
      <4>1. SUFFICES ASSUME ReadForUpdate(q)  PROVE FALSE  OBVIOUS
      <4>2. req[q].op = "update"  BY <4>1 DEF ReadForUpdate, At, FieldsOK
      <4>3. req'[q].op = req[q].op  BY <4>1, <3>2 DEF ReadForUpdate, Reject, TypeOK, Request
      <4>4. QED  BY <1>2, <4>2, <4>3
    <3>8. CASE CheckCount(q)
      <4>1. CountFits(q) /\ Goto(q, "sum") /\ At(q, "count")
        BY <3>2, <3>8 DEF CheckCount, Reject
      <4>2. QED  BY <4>1 DEF CountFits, Goto, At, FieldsOK, HoldsLock, TypeOK, Request
    <3>9. CASE CheckSum(q)
      <4>1. Goto(q, "commit") /\ At(q, "sum")  BY <3>2, <3>9 DEF CheckSum, Reject
      <4>2. req'[q].op = req[q].op /\ req'[q].conn = req[q].conn
        BY <4>1 DEF Goto, TypeOK, Request
      <4>3. QED  BY <1>2, <4>1, <4>2 DEF At, FieldsOK, HoldsLock, PlaceKept, CountFits
    <3>10. QED  BY <3>5, <3>6, <3>7, <3>8, <3>9
  <2>3. QED  BY <2>1, <2>2
<1>3. CASE \A c \in Connections : Owned(c)' \subseteq Owned(c)
  <2>1. \A c \in Connections : Cardinality(Owned(c)') <= Cardinality(Owned(c))
    BY <1>3, OwnedFinite, FS_Subset
  <2>2. \A c \in Connections : Cardinality(Owned(c)') \in Nat /\ Cardinality(Owned(c)) \in Nat
    <3> SUFFICES ASSUME NEW c \in Connections
                 PROVE  Cardinality(Owned(c)') \in Nat /\ Cardinality(Owned(c)) \in Nat
      OBVIOUS
    <3>1. IsFiniteSet(Owned(c)')  BY <1>3, OwnedFinite, FS_Subset
    <3>2. QED  BY <3>1, OwnedFinite, FS_CardinalityType
  <2>3. ArtifactCountBounded'
    BY <2>1, <2>2, LimitsAssumption DEF ArtifactCountBounded
  <2>4. PlaceKept'
    <3> SUFFICES ASSUME NEW q \in Requests, req'[q].at \in {"sum", "commit"}, req'[q].op # "update"
                 PROVE  CountFits(q)'
      BY DEF PlaceKept
    <3>1. PICK c \in Connections : c = req'[q].conn /\ Cardinality(Owned(c)) < MaxArtifactsPerConnection
      BY <1>2
    <3>2. Cardinality(Owned(c)') < MaxArtifactsPerConnection
      BY <2>1, <2>2, <3>1, LimitsAssumption
    <3>3. QED  BY <3>1, <3>2 DEF CountFits
  <2>5. QED  BY <2>3, <2>4
<1>4. ASSUME NEW r \in Requests, NEW a \in Artifacts,
             req[r].at = "commit", req[r].op # "update", Finish(r),
             \A q \in Requests \ {r} : req'[q] = req[q],
             \A c \in Connections :
               Owned(c)' \subseteq IF c = req[r].conn THEN Owned(c) \cup {a} ELSE Owned(c)
      PROVE  (PlaceKept /\ ArtifactCountBounded)'
  <2> DEFINE d == req[r].conn
  <2>1. d \in Connections /\ lock[d] = r /\ Cardinality(Owned(d)) < MaxArtifactsPerConnection
    BY <1>4 DEF FieldsOK, HoldsLock, PlaceKept, CountFits
  <2>2. \A c \in Connections : /\ Cardinality(Owned(c)) \in Nat
                               /\ Cardinality(Owned(c)') \in Nat
                               /\ c # d => Cardinality(Owned(c)') <= Cardinality(Owned(c))
                               /\ Cardinality(Owned(c)') <= Cardinality(Owned(c)) + 1
    <3> SUFFICES ASSUME NEW c \in Connections
                 PROVE  /\ Cardinality(Owned(c)) \in Nat
                        /\ Cardinality(Owned(c)') \in Nat
                        /\ c # d => Cardinality(Owned(c)') <= Cardinality(Owned(c))
                        /\ Cardinality(Owned(c)') <= Cardinality(Owned(c)) + 1
      OBVIOUS
    <3>1. IsFiniteSet(Owned(c)) /\ Cardinality(Owned(c)) \in Nat  BY OwnedFinite
    <3>2. /\ IsFiniteSet(Owned(c) \cup {a})
          /\ Cardinality(Owned(c) \cup {a}) <= Cardinality(Owned(c)) + 1
          /\ Cardinality(Owned(c) \cup {a}) \in Nat
      <4>1. /\ IsFiniteSet(Owned(c) \cup {a})
            /\ Cardinality(Owned(c) \cup {a})
                 = IF a \in Owned(c) THEN Cardinality(Owned(c)) ELSE Cardinality(Owned(c)) + 1
        BY <3>1, FS_AddElement
      <4>2. QED  BY <3>1, <4>1
    <3>3. Owned(c)' \subseteq Owned(c) \cup {a}  BY <1>4
    <3>4. IsFiniteSet(Owned(c)') /\ Cardinality(Owned(c)') <= Cardinality(Owned(c) \cup {a})
      BY <3>2, <3>3, FS_Subset
    <3>5. Cardinality(Owned(c)') \in Nat  BY <3>4, FS_CardinalityType
    <3>6. c # d => Cardinality(Owned(c)') <= Cardinality(Owned(c))  BY <1>4, <3>1, FS_Subset
    <3>7. QED  BY <3>1, <3>2, <3>4, <3>5, <3>6
  <2>3. ArtifactCountBounded'
    <3> SUFFICES ASSUME NEW c \in Connections
                 PROVE  Cardinality(Owned(c)') <= MaxArtifactsPerConnection
      BY DEF ArtifactCountBounded
    <3>1. Cardinality(Owned(c)) <= MaxArtifactsPerConnection  BY DEF ArtifactCountBounded
    <3>2. QED  BY <2>1, <2>2, <3>1, LimitsAssumption
  <2>4. PlaceKept'
    <3> SUFFICES ASSUME NEW q \in Requests, req'[q].at \in {"sum", "commit"}, req'[q].op # "update"
                 PROVE  CountFits(q)'
      BY DEF PlaceKept
    <3>1. q # r  BY <1>4 DEF Finish, TypeOK, Idle
    <3>2. PICK c \in Connections : /\ c = req'[q].conn /\ c = req[q].conn /\ lock[c] = q
                                   /\ Cardinality(Owned(c)) < MaxArtifactsPerConnection
      BY <1>2
    <3>3. c # d  BY <2>1, <3>1, <3>2
    <3>4. Cardinality(Owned(c)') < MaxArtifactsPerConnection
      BY <2>2, <3>2, <3>3, LimitsAssumption
    <3>5. QED  BY <3>2, <3>4 DEF CountFits
  <2>5. QED  BY <2>3, <2>4
<1>5. QED  BY <1>3, <1>4, OwnedGrows

LEMMA CountHolds == Spec => []CountInv
<1>1. Init => CountInv
  <2> SUFFICES ASSUME Init  PROVE CountInv  OBVIOUS
  <2>1. TypeOK  BY InitTyped
  <2>2. FieldsOK /\ HoldsLock /\ PlaceKept  BY DEF Init, FieldsOK, HoldsLock, PlaceKept, Idle
  <2>3. \A c \in Connections : Owned(c) = {}  BY DEF Init, NoArtifacts, Owned, Live
  <2>4. ArtifactCountBounded
    BY <2>3, FS_EmptySet, LimitsAssumption DEF ArtifactCountBounded
  <2>5. QED  BY <2>1, <2>2, <2>4 DEF CountInv
<1>2. CountInv /\ [Next]_vars => CountInv'
  BY TypeKept, FieldsKept, LocksKept, CountKept DEF CountInv
<1>3. QED  BY <1>1, <1>2, PTL DEF Spec

\* No interleaving of any calls, reassignment included, and no restart lets a connection
\* own more than max_artifacts_per_connection artifacts.
THEOREM ArtifactQuotaHolds == Spec => []ArtifactCountBounded
<1>1. CountInv => ArtifactCountBounded  BY DEF CountInv
<1>2. QED  BY <1>1, CountHolds, PTL

-----------------------------------------------------------------------------
(* What becomes of version rows and of owners.                             *)

(* The commits.  Every step leaves the tables alone or is one of these.    *)

Published(r) == /\ At(r, "commit") /\ req[r].op = "publish"
                /\ \E a \in fresh : Insert(a, req[r].conn, req[r].size)

Updated(r) == /\ At(r, "commit") /\ req[r].op = "update"
              /\ LET a == req[r].art
                     v == req[r].seen.version + 1
                 IN /\ a \in Live /\ v \notin VersionsOf(a)
                    /\ \E t \in Nat : AddVersion(a, v, req[r].size, t)

Moved(r) == /\ At(r, "commit") /\ req[r].op = "reassign" /\ req[r].art \in Live
            /\ artifact' = [artifact EXCEPT ![req[r].art].owner = req[r].conn]
            /\ UNCHANGED <<rows, fresh>>

Removed(r) == At(r, "rows") /\ Remove(req[r].art)

Thinned(r) == /\ At(r, "rows") /\ req[r].op \notin {"delete", "publish", "update", "reassign"}
              /\ rows' = [rows EXCEPT ![req[r].art] = {v \in @ : v.version \notin Doomed(r)}]
              /\ UNCHANGED <<artifact, fresh>>

Writes(r) == Published(r) \/ Updated(r) \/ Moved(r) \/ Removed(r) \/ Thinned(r)

LEMMA Commits ==
  ASSUME TypeOK, FieldsOK, [Next]_vars
  PROVE  \/ UNCHANGED <<artifact, rows, fresh>>
         \/ \E r \in Requests : Step(r) /\ Writes(r)
<1>1. ASSUME NEW r \in Requests, Step(r), ~UNCHANGED <<artifact, rows, fresh>>
      PROVE  Writes(r)
  <2>1. CASE CommitPublish(r)  BY <1>1, <2>1 DEF CommitPublish, Writes, Published
  <2>2. CASE CommitUpdate(r)
    <3> DEFINE a == req[r].art
               t == IF req[r].size = req[r].seen.size THEN artifact[a].size ELSE req[r].size
    <3>1. /\ At(r, "commit") /\ req[r].op = "update" /\ a \in Live
          /\ req[r].seen.version + 1 \notin VersionsOf(a)
          /\ AddVersion(a, req[r].seen.version + 1, req[r].size, t)
      BY <1>1, <2>2 DEF CommitUpdate, Reject
    <3>2. artifact[a] \in Row /\ req[r].size \in Nat  BY <3>1 DEF TypeOK, Request, Live
    <3>3. t \in Nat  BY <3>2 DEF Row
    <3> HIDE DEF t
    <3>4. QED  BY <3>1, <3>3 DEF Writes, Updated
  <2>3. CASE CommitReassign(r) BY <1>1, <2>3 DEF CommitReassign, Reject, Writes, Moved
  <2>4. CASE DeleteRows(r)
    BY <1>1, <2>4 DEF DeleteRows, FieldsOK, At, Writes, Removed, Thinned
  <2>5. QED
    BY <1>1, <2>1, <2>2, <2>3, <2>4
    DEF Step, ReadForUpdate, CheckCount, CheckSum, ReadTarget, Goto, Reject
<1>2. UNCHANGED <<artifact, rows, fresh>> \/ \E r \in Requests : Step(r)
  BY DEF Next, vars, Start, StartPublish, StartUpdate, StartReassign, StartDelete, StartPrune,
         StartDeleteVersion, Acquire, Abort, Reject, Revoke, Restart
<1>3. QED  BY <1>1, <1>2

\* A request that writes has what its commit needs.
LEMMA WriterHas ==
  ASSUME TypeOK, FieldsOK, NEW r \in Requests, Writes(r)
  PROVE  /\ req[r].conn \in Connections \cup {None} /\ req[r].size \in Nat
         /\ At(r, "commit") => req[r].conn \in Connections
         /\ req[r].op # "publish" => req[r].art \in Artifacts
         /\ Updated(r) => req[r].seen \in Row
  BY DEF TypeOK, FieldsOK, Writes, Published, Updated, Moved, Removed, Thinned, At, Request

\* An update leaves the artifact with its owner and gives it the next version.
LEMMA UpdateKeeps ==
  ASSUME TypeOK, FieldsOK, NEW r \in Requests, Updated(r)
  PROVE  LET a == req[r].art IN
         /\ a \in Live /\ artifact'[a] \in Row /\ artifact'[a] # None
         /\ artifact'[a].owner = artifact[a].owner
         /\ artifact'[a].version = req[r].seen.version + 1
         /\ \A b \in Artifacts \ {a} : artifact'[b] = artifact[b]
<1> DEFINE a == req[r].art
<1>1. PICK t \in Nat : a \in Live /\ AddVersion(a, req[r].seen.version + 1, req[r].size, t)
  BY DEF Updated
<1>2. artifact[a] \in Row /\ req[r].seen.version + 1 \in Nat
  BY <1>1, WriterHas DEF TypeOK, Live, Writes, Row
<1>3. /\ a \in Artifacts /\ \A b \in Artifacts \ {a} : artifact'[b] = artifact[b]
      /\ artifact'[a] = [artifact[a] EXCEPT !.version = req[r].seen.version + 1, !.size = t]
  BY <1>1 DEF AddVersion, TypeOK, Live
<1>4. /\ artifact'[a] \in Row
      /\ artifact'[a].owner = artifact[a].owner
      /\ artifact'[a].version = req[r].seen.version + 1
  BY <1>2, <1>3 DEF Row
<1>5. artifact'[a] # None  BY <1>4, NoRowAssumption DEF Row
<1> HIDE DEF a
<1>6. QED  BY <1>1, <1>3, <1>4, <1>5 DEF a

\* Only a published artifact comes to life; all others that are alive were.
LEMMA BirthIsPublished ==
  ASSUME TypeOK, FieldsOK, NEW r \in Requests, Writes(r)
  PROVE  /\ ~Published(r) => Live' \subseteq Live
         /\ Published(r) => \E a \in fresh : Live' = Live \cup {a} /\ Insert(a, req[r].conn, req[r].size)
<1> USE DEF TypeOK
<1>1. CASE Published(r)
  <2>1. PICK a \in fresh : Insert(a, req[r].conn, req[r].size)  BY <1>1 DEF Published
  <2>2. req[r].conn \in Connections /\ req[r].size \in Nat
    BY <1>1, WriterHas DEF Published
  <2>3. artifact'[a] # None  BY <2>1, <2>2, NoRowAssumption DEF Insert
  <2>4. \A b \in Artifacts \ {a} : artifact'[b] = artifact[b]  BY <2>1 DEF Insert
  <2>5. Live' = Live \cup {a}  BY <2>3, <2>4 DEF Live
  <2>6. QED  BY <1>1, <2>1, <2>5
<1>2. CASE Updated(r)   BY <1>2 DEF Updated, AddVersion, Live, Published, At
<1>3. CASE Moved(r)     BY <1>3 DEF Moved, Live, Published
<1>4. CASE Removed(r)   BY <1>4 DEF Removed, Remove, Live, Published, At
<1>5. CASE Thinned(r)   BY <1>5 DEF Thinned, Live, Published, At
<1>6. QED  BY <1>1, <1>2, <1>3, <1>4, <1>5 DEF Writes

-----------------------------------------------------------------------------
LEMMA OrphansKept ==
  ASSUME TypeOK, FieldsOK, NoOrphanRows, [Next]_vars
  PROVE  NoOrphanRows'
<1> USE DEF TypeOK
<1>1. CASE UNCHANGED <<artifact, rows, fresh>>  BY <1>1 DEF NoOrphanRows, Live
<1>2. ASSUME NEW r \in Requests, Writes(r), NEW a \in Artifacts, a \notin Live'
      PROVE  rows'[a] = {}
  <2>1. CASE Published(r)
    <3>1. PICK b \in fresh : Live' = Live \cup {b} /\ Insert(b, req[r].conn, req[r].size)
      BY <1>2, <2>1, BirthIsPublished
    <3>2. a # b /\ a \notin Live  BY <1>2, <3>1
    <3>3. QED  BY <3>1, <3>2 DEF Insert, NoOrphanRows
  <2>2. CASE Updated(r)
    <3>1. Live' = Live  BY <1>2, <2>2, UpdateKeeps DEF Live
    <3>2. a # req[r].art /\ a \notin Live  BY <1>2, <2>2, <3>1 DEF Updated
    <3>3. QED  BY <2>2, <3>2 DEF Updated, AddVersion, NoOrphanRows
  <2>3. CASE Moved(r)
    <3>1. artifact[req[r].art] \in Row /\ req[r].conn \in Connections
      BY <1>2, <2>3, WriterHas DEF Moved, Live
    <3>2. Live' = Live  BY <2>3, <3>1, NoRowAssumption DEF Moved, Live, Row
    <3>3. QED  BY <1>2, <2>3, <3>2 DEF Moved, NoOrphanRows
  <2>4. CASE Removed(r)
    BY <1>2, <2>4 DEF Removed, Remove, Live, NoOrphanRows
  <2>5. CASE Thinned(r)
    <3>1. a \notin Live /\ rows[a] = {}  BY <1>2, <2>5 DEF Thinned, Live, NoOrphanRows
    <3>2. QED  BY <2>5, <3>1 DEF Thinned
  <2>6. QED  BY <1>2, <2>1, <2>2, <2>3, <2>4, <2>5 DEF Writes
<1>3. QED  BY <1>1, <1>2, Commits DEF NoOrphanRows

\* quotas.py:41-43: no update, clean-up or reassignment that is in flight as an artifact
\* is deleted leaves a version row behind.
THEOREM OrphansNever == Spec => []NoOrphanRows
<1>1. Init => NoOrphanRows  BY DEF Init, NoArtifacts, NoOrphanRows
<1>2. TypeOK /\ FieldsOK /\ NoOrphanRows /\ [Next]_vars => NoOrphanRows'  BY OrphansKept
<1>3. QED  BY <1>1, <1>2, TypeCorrect, PTL DEF Spec

-----------------------------------------------------------------------------
(* Retention.  A version number is stored once, so among the rows retained *)
(* the number of later rows tells them apart; and it is below the limit.   *)

Once(stored) == /\ IsFiniteSet(stored) /\ stored \subseteq VersionRow
                /\ \A v, w \in stored : v.version = w.version => v = w

Later(stored, v) == {w \in stored : w.version > v.version}

LEMMA RetainedFew ==
  ASSUME NEW stored, Once(stored)
  PROVE  Cardinality(Retained(stored)) <= MaxVersionsPerArtifact
<1> DEFINE R == Retained(stored)
           n == MaxVersionsPerArtifact
           rank == [v \in R |-> Cardinality(Later(stored, v))]
<1>1. n \in Nat \ {0}  BY LimitsAssumption
<1>2. \A v \in stored : IsFiniteSet(Later(stored, v)) /\ Cardinality(Later(stored, v)) \in Nat
  <2> SUFFICES ASSUME NEW v \in stored
               PROVE  IsFiniteSet(Later(stored, v)) /\ Cardinality(Later(stored, v)) \in Nat
    OBVIOUS
  <2>1. Later(stored, v) \subseteq stored  BY DEF Later
  <2>2. QED  BY <2>1, FS_Subset, FS_CardinalityType DEF Once
<1>3. R \subseteq stored /\ \A v \in R : Cardinality(Later(stored, v)) < n
  BY DEF Retained, Later
<1>4. rank \in [R -> 0 .. n - 1]
  <2>1. \A v \in R : Cardinality(Later(stored, v)) \in 0 .. n - 1  BY <1>1, <1>2, <1>3
  <2>2. QED  BY <2>1
<1>5. ASSUME NEW v \in R, NEW w \in R, v.version < w.version
      PROVE  rank[v] # rank[w]
  <2>1. v \in stored /\ w \in stored  BY <1>3
  <2>2. Later(stored, w) \subseteq Later(stored, v)
    <3> SUFFICES ASSUME NEW x \in stored, x.version > w.version  PROVE x.version > v.version
      BY DEF Later
    <3>1. x.version \in Nat /\ v.version \in Nat /\ w.version \in Nat
      BY <2>1 DEF Once, VersionRow
    <3>2. QED  BY <1>5, <3>1
  <2>3. w \in Later(stored, v) /\ w \notin Later(stored, w)
    BY <1>5, <2>1 DEF Later, Once, VersionRow
  <2>4. Cardinality(Later(stored, w)) < Cardinality(Later(stored, v))
    BY <1>2, <2>1, <2>2, <2>3, FS_Subset
  <2>5. QED  BY <1>2, <2>1, <2>4
<1>6. ASSUME NEW v \in R, NEW w \in R, v # w  PROVE rank[v] # rank[w]
  <2>1. v.version \in Nat /\ w.version \in Nat /\ v.version # w.version
    BY <1>3, <1>6 DEF Once, VersionRow
  <2>2. v.version < w.version \/ w.version < v.version  BY <2>1
  <2>3. QED  BY <1>5, <2>2
<1>7. rank \in Injection(R, 0 .. n - 1)  BY <1>4, <1>6 DEF Injection, IsInjective
<1>8. IsFiniteSet(0 .. n - 1) /\ Cardinality(0 .. n - 1) = n  BY <1>1, FS_Interval
<1> HIDE DEF R, n, rank
<1>9. Cardinality(R) <= Cardinality(0 .. n - 1)  BY <1>7, <1>8, FS_Injection
<1>10. QED  BY <1>8, <1>9 DEF R, n

NumbersUnique == \A a \in Artifacts : Once(rows[a])

LEMMA NumbersKept ==
  ASSUME TypeOK, FieldsOK, NumbersUnique, VersionRowsBounded, [Next]_vars
  PROVE  NumbersUnique' /\ VersionRowsBounded'
<1> USE DEF TypeOK
<1>1. CASE UNCHANGED <<artifact, rows, fresh>>
  BY <1>1 DEF NumbersUnique, VersionRowsBounded
<1>2. ASSUME NEW stored, Once(stored), NEW fewer \in SUBSET stored
      PROVE  Once(fewer) /\ Cardinality(fewer) <= Cardinality(stored)
  BY <1>2, FS_Subset DEF Once
<1>3. ASSUME NEW a \in Artifacts
      PROVE  /\ Once(rows[a]) /\ Cardinality(rows[a]) \in Nat
             /\ Cardinality(rows[a]) <= MaxVersionsPerArtifact /\ MaxVersionsPerArtifact \in Nat \ {0}
  BY <1>3, FS_CardinalityType, LimitsAssumption DEF NumbersUnique, VersionRowsBounded, Once
<1>4. ASSUME NEW r \in Requests, Writes(r), NEW a \in Artifacts
      PROVE  Once(rows'[a]) /\ Cardinality(rows'[a]) <= MaxVersionsPerArtifact
  <2>1. CASE rows'[a] \subseteq rows[a]
    <3>1. Once(rows'[a]) /\ Cardinality(rows'[a]) <= Cardinality(rows[a])  BY <1>2, <1>3, <2>1
    <3>2. Cardinality(rows'[a]) \in Nat  BY <3>1, FS_CardinalityType DEF Once
    <3>3. QED  BY <1>3, <3>1, <3>2
  <2>2. CASE Published(r)
    <3>1. PICK b \in fresh : Insert(b, req[r].conn, req[r].size)  BY <2>2 DEF Published
    <3>2. CASE a # b  BY <2>1, <3>1, <3>2 DEF Insert
    <3>3. CASE a = b
      <4> DEFINE first == [version |-> 1, size |-> req[r].size]
      <4>1. rows'[a] = {first}  BY <3>1, <3>3 DEF Insert
      <4>2. first \in VersionRow  BY <1>4, WriterHas DEF VersionRow
      <4> HIDE DEF first
      <4>3. Cardinality({first}) = 1 /\ IsFiniteSet({first})  BY FS_Singleton
      <4>4. Once({first})  BY <4>2, <4>3 DEF Once
      <4>5. QED  BY <1>3, <4>1, <4>3, <4>4
    <3>4. QED  BY <3>2, <3>3
  <2>3. CASE Updated(r)
    <3> DEFINE b == req[r].art
               new == [version |-> req[r].seen.version + 1, size |-> req[r].size]
               stored == rows[b] \cup {new}
    <3>1. PICK t \in Nat : AddVersion(b, req[r].seen.version + 1, req[r].size, t)
      BY <2>3 DEF Updated
    <3>2. b \in Artifacts /\ new.version \notin VersionsOf(b)  BY <2>3 DEF Updated, Live
    <3>3. CASE a # b  BY <2>1, <3>1, <3>3 DEF AddVersion
    <3>4. CASE a = b
      <4>1. rows'[a] = Retained(stored)  BY <3>1, <3>2, <3>4 DEF AddVersion
      <4>2. new \in VersionRow
        <5>1. req[r].seen \in Row /\ req[r].size \in Nat  BY <1>4, <2>3, WriterHas
        <5>2. QED  BY <5>1 DEF Row, VersionRow
      <4>3. \A v \in rows[b] : v.version # new.version  BY <3>2 DEF VersionsOf
      <4> HIDE DEF new
      <4>4. Once(stored)
        <5>1. IsFiniteSet(stored)  BY <1>3, <3>2, FS_AddElement DEF Once
        <5>2. QED  BY <1>3, <3>2, <4>2, <4>3, <5>1 DEF Once
      <4> HIDE DEF stored
      <4>5. Retained(stored) \subseteq stored  BY DEF Retained
      <4>6. QED  BY <1>2, <4>1, <4>4, <4>5, RetainedFew
    <3>5. QED  BY <3>3, <3>4
  <2>4. CASE Moved(r) \/ Removed(r) \/ Thinned(r)
    <3>1. rows'[a] \subseteq rows[a]  BY <2>4 DEF Moved, Removed, Remove, Thinned
    <3>2. QED  BY <2>1, <3>1
  <2>5. QED  BY <1>4, <2>2, <2>3, <2>4 DEF Writes
<1>5. QED  BY <1>1, <1>4, Commits DEF NumbersUnique, VersionRowsBounded

LEMMA RowsKnown == Spec => [](NumbersUnique /\ VersionRowsBounded)
<1>1. Init => NumbersUnique /\ VersionRowsBounded
  <2> SUFFICES ASSUME Init, NEW a \in Artifacts
               PROVE  Once(rows[a]) /\ Cardinality(rows[a]) <= MaxVersionsPerArtifact
    BY DEF NumbersUnique, VersionRowsBounded
  <2>1. rows[a] = {}  BY DEF Init, NoArtifacts
  <2>2. QED  BY <2>1, FS_EmptySet, LimitsAssumption DEF Once
<1>2. /\ TypeOK /\ FieldsOK /\ NumbersUnique /\ VersionRowsBounded /\ [Next]_vars
      => NumbersUnique' /\ VersionRowsBounded'
  BY NumbersKept
<1>3. QED  BY <1>1, <1>2, TypeCorrect, PTL DEF Spec

\* tools.py:327-353: whoever updates an artifact, and whatever is deleted, pruned or
\* reassigned meanwhile, it never has more version rows than the limit, for any limit.
THEOREM VersionsCapped == Spec => []VersionRowsBounded
  BY RowsKnown, PTL

-----------------------------------------------------------------------------
(* Owners.  A reassignment checks the user of an owner it read three awaits *)
(* before it commits.                                                       *)

BornOnce == \A a \in Live : a \notin fresh

Reassigning(q) == q.op = "reassign" /\ q.at # "idle"

SameUser == \A r \in Requests : Reassigning(req[r]) =>
    /\ req[r].seen \in Row /\ req[r].art \in Artifacts \ fresh
    /\ req[r].art \in Live => UserOf[artifact[req[r].art].owner] = UserOf[req[r].seen.owner]
    /\ req[r].at # "target" => UserOf[req[r].conn] = UserOf[req[r].seen.owner]

LEMMA BornOnceKept ==
  ASSUME TypeOK, FieldsOK, BornOnce, [Next]_vars
  PROVE  BornOnce' /\ fresh' \subseteq fresh
<1> USE DEF TypeOK
<1>1. CASE UNCHANGED <<artifact, rows, fresh>>  BY <1>1 DEF BornOnce, Live
<1>2. ASSUME NEW r \in Requests, Writes(r)  PROVE BornOnce' /\ fresh' \subseteq fresh
  <2>1. CASE Published(r)
    <3>1. PICK a \in fresh : Live' = Live \cup {a} /\ Insert(a, req[r].conn, req[r].size)
      BY <1>2, <2>1, BirthIsPublished
    <3>2. fresh' = fresh \ {a}  BY <3>1 DEF Insert
    <3>3. QED  BY <3>1, <3>2 DEF BornOnce
  <2>2. CASE ~Published(r)
    <3>1. Live' \subseteq Live  BY <1>2, <2>2, BirthIsPublished
    <3>2. fresh' = fresh
      BY <1>2, <2>2 DEF Writes, Updated, Moved, Removed, Thinned, AddVersion, Remove
    <3>3. QED  BY <3>1, <3>2 DEF BornOnce
  <2>3. QED  BY <2>1, <2>2
<1>3. QED  BY <1>1, <1>2, Commits

\* One step of the tables keeps the user of every artifact.
UsersStay == \A a \in Artifacts : a \notin fresh /\ artifact'[a] # None
                => a \in Live /\ UserOf[artifact'[a].owner] = UserOf[artifact[a].owner]

LEMMA UsersStayPut ==
  ASSUME TypeOK, FieldsOK, BornOnce, SameUser, [Next]_vars
  PROVE  UsersStay
<1> USE DEF TypeOK
<1>1. CASE UNCHANGED <<artifact, rows, fresh>>  BY <1>1 DEF UsersStay, Live
<1>2. ASSUME NEW r \in Requests, Writes(r), NEW a \in Artifacts, a \notin fresh, artifact'[a] # None
      PROVE  a \in Live /\ UserOf[artifact'[a].owner] = UserOf[artifact[a].owner]
  <2>1. CASE artifact'[a] = artifact[a]  BY <1>2, <2>1 DEF Live
  <2>2. CASE Published(r)
    <3>1. artifact'[a] = artifact[a]  BY <1>2, <2>2 DEF Published, Insert
    <3>2. QED  BY <2>1, <3>1
  <2>3. CASE Updated(r)
    <3>1. CASE a = req[r].art  BY <1>2, <2>3, <3>1, UpdateKeeps
    <3>2. CASE a # req[r].art  BY <1>2, <2>1, <2>3, <3>2, UpdateKeeps
    <3>3. QED  BY <3>1, <3>2
  <2>4. CASE Moved(r)
    <3>1. CASE a # req[r].art  BY <2>1, <2>4, <3>1 DEF Moved
    <3>2. CASE a = req[r].art
      <4>1. artifact[a] \in Row /\ a \in Live /\ Reassigning(req[r]) /\ req[r].at # "target"
        BY <2>4, <3>2 DEF Moved, Live, Reassigning, At
      <4>2. artifact'[a].owner = req[r].conn  BY <2>4, <3>2, <4>1 DEF Moved, Row
      <4>3. QED  BY <3>2, <4>1, <4>2 DEF SameUser
    <3>3. QED  BY <3>1, <3>2
  <2>5. CASE Removed(r)
    <3>1. artifact'[a] = artifact[a]  BY <1>2, <2>5, WriterHas DEF Removed, Remove
    <3>2. QED  BY <2>1, <3>1
  <2>6. CASE Thinned(r)  BY <2>1, <2>6 DEF Thinned
  <2>7. QED  BY <1>2, <2>2, <2>3, <2>4, <2>5, <2>6 DEF Writes
<1>3. QED  BY <1>1, <1>2, Commits DEF UsersStay

\* How a request comes to a stage of a reassignment.
Carries(r) == /\ Reassigning(req[r])
              /\ req'[r].seen = req[r].seen /\ req'[r].art = req[r].art /\ req'[r].conn = req[r].conn
              /\ req'[r].at # "target" /\ req[r].at = "target" => TargetIsOurs(r)

LEMMA ReassignMoves ==
  ASSUME TypeOK, FieldsOK, [Next]_vars, NEW q \in Requests, Reassigning(req'[q])
  PROVE  Carries(q) \/ \E a \in Artifacts, c \in Connections : StartReassign(q, a, c)
<1> USE DEF TypeOK, Reassigning
<1>1. CASE req'[q] = req[q]  BY <1>1 DEF Carries
<1>2. CASE req'[q] # req[q]
  <2>1. Start(q) \/ Acquire(q) \/ Step(q) \/ Abort(q)
    <3>1. PICK r \in Requests : Start(r) \/ Acquire(r) \/ Step(r) \/ Abort(r)
      BY <1>2 DEF Next, vars, Revoke, Restart, Idle
    <3>2. QED  BY <1>2, <3>1, OthersWait
  <2>2. ~Finish(q)  BY DEF Finish, Idle
  <2>3. CASE Start(q)
    <3>1. ASSUME NEW c \in Connections, NEW s \in Sizes, StartPublish(q, c, s)  PROVE FALSE
      BY <3>1 DEF StartPublish, Begin, Idle
    <3>2. ASSUME NEW c \in Connections, NEW a \in Artifacts, NEW b \in 1..VersionBound - 1,
                 NEW s \in Sizes, StartUpdate(q, c, a, b, s)  PROVE FALSE
      BY <3>2 DEF StartUpdate, Begin, Idle
    <3>3. ASSUME NEW a \in Artifacts, StartDelete(q, a)  PROVE FALSE
      BY <3>3 DEF StartDelete, Begin, Idle
    <3>4. ASSUME NEW a \in Artifacts, StartPrune(q, a)  PROVE FALSE
      BY <3>4 DEF StartPrune, Begin, Idle
    <3>5. ASSUME NEW a \in Artifacts, NEW v \in 1..VersionBound, StartDeleteVersion(q, a, v)
          PROVE FALSE
      BY <3>5 DEF StartDeleteVersion, Begin, Idle
    <3>6. QED  BY <2>3, <3>1, <3>2, <3>3, <3>4, <3>5 DEF Start
  <2>4. CASE Acquire(q)  BY <2>4 DEF Acquire, At, Request, Carries
  <2>5. CASE ReadForUpdate(q)  BY <2>2, <2>5 DEF ReadForUpdate, Reject, At, FieldsOK, Request
  <2>6. CASE CheckCount(q)  BY <2>2, <2>6 DEF CheckCount, Reject, Goto, At, Request, Carries
  <2>7. CASE CheckSum(q)  BY <2>2, <2>7 DEF CheckSum, Reject, Goto, At, Request, Carries
  <2>8. CASE ReadTarget(q)  BY <2>2, <2>8 DEF ReadTarget, Reject, Goto, At, Request, Carries
  <2>9. QED
    BY <2>1, <2>2, <2>3, <2>4, <2>5, <2>6, <2>7, <2>8
    DEF Step, Abort, CommitPublish, CommitUpdate, CommitReassign, DeleteRows, Reject
<1>3. QED  BY <1>1, <1>2

LEMMA SameUserKept ==
  ASSUME TypeOK, FieldsOK, BornOnce, SameUser, [Next]_vars
  PROVE  SameUser'
<1> USE DEF TypeOK
<1> SUFFICES ASSUME NEW q \in Requests, Reassigning(req'[q])
             PROVE  /\ req'[q].seen \in Row /\ req'[q].art \in Artifacts \ fresh'
                    /\ artifact'[req'[q].art] # None
                         => UserOf[artifact'[req'[q].art].owner] = UserOf[req'[q].seen.owner]
                    /\ req'[q].at # "target" => UserOf[req'[q].conn] = UserOf[req'[q].seen.owner]
  BY DEF SameUser, Live
<1>1. fresh' \subseteq fresh /\ UsersStay  BY BornOnceKept, UsersStayPut
<1>2. CASE Carries(q)
  <2>1. /\ req[q].seen \in Row /\ req[q].art \in Artifacts \ fresh
        /\ req[q].art \in Live => UserOf[artifact[req[q].art].owner] = UserOf[req[q].seen.owner]
        /\ req[q].at # "target" => UserOf[req[q].conn] = UserOf[req[q].seen.owner]
    BY <1>2 DEF Carries, SameUser
  <2>2. QED  BY <1>1, <1>2, <2>1 DEF Carries, UsersStay, TargetIsOurs
<1>3. ASSUME NEW a \in Artifacts, NEW c \in Connections, StartReassign(q, a, c)
      PROVE  /\ req'[q].seen \in Row /\ req'[q].art \in Artifacts \ fresh'
             /\ artifact'[req'[q].art] # None
                  => UserOf[artifact'[req'[q].art].owner] = UserOf[req'[q].seen.owner]
             /\ req'[q].at = "target"
  <2>1. a \in Live /\ artifact[a] \in Row /\ a \notin fresh
    BY <1>3 DEF StartReassign, Live, BornOnce
  <2>2. req'[q].at = "target" /\ req'[q].art = a /\ req'[q].seen = artifact[a]
    BY <1>3 DEF StartReassign, Begin, Idle
  <2>3. QED  BY <1>1, <2>1, <2>2 DEF UsersStay
<1>4. QED  BY <1>2, <1>3, ReassignMoves

LEMMA OwnersKnown == Spec => [](BornOnce /\ SameUser)
<1>1. Init => BornOnce /\ SameUser
  BY DEF Init, NoArtifacts, BornOnce, Live, SameUser, Reassigning, Idle
<1>2. TypeOK /\ FieldsOK /\ BornOnce /\ SameUser /\ [Next]_vars => BornOnce' /\ SameUser'
  BY BornOnceKept, SameUserKept
<1>3. QED  BY <1>1, <1>2, TypeCorrect, PTL DEF Spec

\* tools.py:179-202: a reassignment moves an artifact between connections of one user,
\* although the owner it checked may have changed, and the artifact gone, before it
\* commits: nobody's artifact becomes another user's.
THEOREM UserKeptHolds == Spec => UserKept
<1>1. TypeOK /\ FieldsOK /\ BornOnce /\ SameUser /\ [Next]_vars
      => [\A a \in Artifacts : artifact[a] # None /\ artifact'[a] # None
            => UserOf[artifact'[a].owner] = UserOf[artifact[a].owner]]_vars
  <2> SUFFICES ASSUME TypeOK, FieldsOK, BornOnce, SameUser, [Next]_vars,
                      NEW a \in Artifacts, artifact[a] # None, artifact'[a] # None
               PROVE  UserOf[artifact'[a].owner] = UserOf[artifact[a].owner]
    OBVIOUS
  <2>1. a \notin fresh  BY DEF BornOnce, Live
  <2>2. QED  BY <2>1, UsersStayPut DEF UsersStay
<1>2. QED  BY <1>1, TypeCorrect, OwnersKnown, PTL DEF Spec, UserKept

-----------------------------------------------------------------------------
(* Updates.  Where nothing reassigns artifacts, the lock of a connection   *)
(* serialises the updates of what it owns: the row a waiting update has    *)
(* read is the row it will replace, whatever else is deleted or pruned.    *)

StayingPut == "reassign" \notin Workload

NoMoves == \A r \in Requests : ~Reassigning(req[r])

Checked(q) == q.op = "update" /\ q.at \in {"sum", "commit"}

SeenCurrent == \A r \in Requests : Checked(req[r]) =>
    /\ req[r].seen \in Row /\ req[r].art \in Artifacts \ fresh
    /\ req[r].seen.owner = req[r].conn /\ req[r].seen.version = req[r].ver
    /\ req[r].art \in Live => artifact[req[r].art] = req[r].seen

\* Where a call that is under way after a step comes from.
LEMMA CallsGoOn ==
  ASSUME TypeOK, FieldsOK, [Next]_vars, NEW q \in Requests, req'[q].at # "idle"
  PROVE  \/ Start(q)
         \/ /\ req'[q].op = req[q].op /\ req'[q].conn = req[q].conn /\ req'[q].size = req[q].size
            /\ req[q].at # "idle" /\ (req'[q].at = "rows" => req[q].at = "rows")
            /\ req'[q].at \in {"sum", "commit"}
                 => \/ req[q].at = req'[q].at
                    \/ req[q].size <= MaxBytesPerArtifact /\ req'[q].at = "sum"
                    \/ req[q].at = "sum" /\ CheckSum(q) /\ BytesFit(q)
                       /\ UNCHANGED <<artifact, rows, fresh>>
<1> USE DEF TypeOK
<1> DEFINE Before == /\ req'[q].op = req[q].op /\ req'[q].conn = req[q].conn
                     /\ req'[q].size = req[q].size /\ req[q].at # "idle"
<1>1. CASE req'[q] = req[q]  BY <1>1
<1>2. CASE req'[q] # req[q]
  <2>1. Start(q) \/ Acquire(q) \/ Step(q) \/ Abort(q)
    <3>1. PICK r \in Requests : Start(r) \/ Acquire(r) \/ Step(r) \/ Abort(r)
      BY <1>2 DEF Next, vars, Revoke, Restart, Idle
    <3>2. QED  BY <1>2, <3>1, OthersWait
  <2>2. ~Finish(q)  BY DEF Finish, Idle
  <2>3. CASE Acquire(q)
    BY <2>3 DEF Acquire, At, Request
  <2>4. CASE ReadForUpdate(q)
    <3>1. Before /\ req'[q].at = "sum" /\ req[q].size <= MaxBytesPerArtifact
      BY <2>2, <2>4 DEF ReadForUpdate, Reject, At, Request
    <3>2. QED  BY <3>1
  <2>5. CASE CheckCount(q)
    <3>1. Before /\ req'[q].at = "sum" /\ req[q].size <= MaxBytesPerArtifact
      BY <2>2, <2>5 DEF CheckCount, Reject, Goto, At, Request
    <3>2. QED  BY <3>1
  <2>6. CASE CheckSum(q)
    <3>1. /\ Before /\ req'[q].at = "commit" /\ req[q].at = "sum" /\ BytesFit(q)
          /\ UNCHANGED <<artifact, rows, fresh>>
      BY <2>2, <2>6 DEF CheckSum, Reject, Goto, At, Request
    <3>2. QED  BY <2>6, <3>1
  <2>7. CASE ReadTarget(q)
    <3>1. Before /\ req'[q].at = "lock"  BY <2>2, <2>7 DEF ReadTarget, Reject, Goto, At, Request
    <3>2. QED  BY <3>1
  <2>8. QED
    BY <2>1, <2>2, <2>3, <2>4, <2>5, <2>6, <2>7
    DEF Step, Abort, CommitPublish, CommitUpdate, CommitReassign, DeleteRows, Reject
<1>3. QED  BY <1>1, <1>2

LEMMA NoMovesKept ==
  ASSUME StayingPut, TypeOK, FieldsOK, NoMoves, [Next]_vars
  PROVE  NoMoves'
<1> SUFFICES ASSUME NEW q \in Requests, Reassigning(req'[q])  PROVE FALSE
  BY DEF NoMoves
<1>1. CASE Start(q)  BY <1>1, StartShape DEF StayingPut, Reassigning
<1>2. QED  BY <1>1, CallsGoOn DEF NoMoves, Reassigning

\* A request that writes ends with its commit, and the others wait.
LEMMA WriterEnds ==
  ASSUME TypeOK, NEW r \in Requests, Step(r), Writes(r)
  PROVE  req'[r] = Idle /\ \A q \in Requests \ {r} : req'[q] = req[q]
<1>1. Finish(r)
  BY DEF Step, Writes, Published, Updated, Moved, Removed, Thinned, At, ReadForUpdate, CheckCount,
         CheckSum, ReadTarget, CommitPublish, CommitUpdate, CommitReassign, DeleteRows, Reject
<1>2. QED  BY <1>1, OthersWait DEF Finish, TypeOK

\* How an update comes to the stages past its check.
Holds(r) == /\ Checked(req[r])
            /\ req'[r].seen = req[r].seen /\ req'[r].art = req[r].art
            /\ req'[r].conn = req[r].conn /\ req'[r].ver = req[r].ver

LEMMA UpdateMoves ==
  ASSUME TypeOK, FieldsOK, [Next]_vars, NEW q \in Requests, Checked(req'[q])
  PROVE  \/ Holds(q)
         \/ /\ ReadForUpdate(q) /\ OwnsIt(q) /\ BaseIsCurrent(q)
            /\ UNCHANGED <<artifact, rows, fresh>>
            /\ req'[q] = [req[q] EXCEPT !.at = "sum", !.seen = artifact[req[q].art]]
<1> USE DEF TypeOK, Checked
<1>1. CASE req'[q] = req[q]  BY <1>1 DEF Holds
<1>2. CASE req'[q] # req[q]
  <2>1. Start(q) \/ Acquire(q) \/ Step(q) \/ Abort(q)
    <3>1. PICK r \in Requests : Start(r) \/ Acquire(r) \/ Step(r) \/ Abort(r)
      BY <1>2 DEF Next, vars, Revoke, Restart, Idle
    <3>2. QED  BY <1>2, <3>1, OthersWait
  <2>2. ~Finish(q)  BY DEF Finish, Idle
  <2>3. ~Start(q)  BY StartShape
  <2>4. ~Acquire(q)  BY DEF Acquire, Request
  <2>5. CASE ReadForUpdate(q)  BY <2>2, <2>5 DEF ReadForUpdate, Reject
  <2>6. CASE CheckCount(q)  BY <2>2, <2>6 DEF CheckCount, Reject, Goto, At, FieldsOK, Request
  <2>7. CASE CheckSum(q)  BY <2>2, <2>7 DEF CheckSum, Reject, Goto, At, Request, Holds
  <2>8. CASE ReadTarget(q)  BY <2>2, <2>8 DEF ReadTarget, Reject, Goto, Request
  <2>9. QED
    BY <2>1, <2>2, <2>3, <2>4, <2>5, <2>6, <2>7, <2>8
    DEF Step, Abort, CommitPublish, CommitUpdate, CommitReassign, DeleteRows, Reject
<1>3. QED  BY <1>1, <1>2

UpdateInv == NoMoves /\ BornOnce /\ SeenCurrent

LEMMA SeenKept ==
  ASSUME TypeOK, FieldsOK, HoldsLock, UpdateInv, [Next]_vars
  PROVE  SeenCurrent'
<1> USE DEF TypeOK, UpdateInv
<1> SUFFICES ASSUME NEW q \in Requests, Checked(req'[q])
             PROVE  /\ req'[q].seen \in Row /\ req'[q].art \in Artifacts \ fresh'
                    /\ req'[q].seen.owner = req'[q].conn /\ req'[q].seen.version = req'[q].ver
                    /\ req'[q].art \in Live' => artifact'[req'[q].art] = req'[q].seen
  BY DEF SeenCurrent
<1>1. fresh' \subseteq fresh  BY BornOnceKept
<1>2. CASE Holds(q)
  <2> DEFINE a == req[q].art
  <2>1. /\ req[q].seen \in Row /\ a \in Artifacts \ fresh
        /\ req[q].seen.owner = req[q].conn /\ req[q].seen.version = req[q].ver
        /\ a \in Live => artifact[a] = req[q].seen
    BY <1>2 DEF Holds, SeenCurrent
  <2>2. ASSUME a \in Live'  PROVE a \in Live /\ artifact'[a] = artifact[a]
    <3>1. CASE UNCHANGED <<artifact, rows, fresh>>  BY <2>2, <3>1 DEF Live
    <3>2. ASSUME NEW r \in Requests, Step(r), Writes(r)
          PROVE  a \in Live /\ artifact'[a] = artifact[a]
      <4>1. q # r  BY <3>2, WriterEnds DEF Checked, Idle
      <4>2. CASE Published(r)
        <5>1. PICK b \in fresh : Live' = Live \cup {b} /\ Insert(b, req[r].conn, req[r].size)
          BY <3>2, <4>2, BirthIsPublished
        <5>2. a # b  BY <2>1, <5>1
        <5>3. QED  BY <2>1, <2>2, <5>1, <5>2 DEF Insert
      <4>3. CASE Updated(r)
        <5>1. CASE a # req[r].art
          <6>1. artifact'[a] = artifact[a]  BY <2>1, <4>3, <5>1, UpdateKeeps
          <6>2. QED  BY <2>2, <6>1 DEF Live
        <5>2. CASE a = req[r].art
          <6>1. a \in Live /\ Checked(req[r])  BY <4>3, <5>2 DEF Updated, Checked, At
          <6>2. artifact[a] = req[r].seen /\ req[r].seen.owner = req[r].conn
            BY <5>2, <6>1 DEF SeenCurrent
          <6>3. req[r].conn = req[q].conn  BY <2>1, <6>1, <6>2
          <6>4. lock[req[r].conn] = r /\ lock[req[q].conn] = q
            BY <1>2, <6>1 DEF HoldsLock, Holds, Checked
          <6>5. QED  BY <4>1, <6>3, <6>4
        <5>3. QED  BY <5>1, <5>2
      <4>4. CASE Removed(r)
        <5>1. artifact' = [artifact EXCEPT ![req[r].art] = None]  BY <4>4 DEF Removed, Remove
        <5>2. artifact'[a] = artifact[a]  BY <2>1, <2>2, <5>1 DEF Live
        <5>3. QED  BY <2>2, <5>2 DEF Live
      <4>5. CASE Thinned(r)  BY <2>2, <4>5 DEF Thinned, Live
      <4>6. ~Moved(r)  BY DEF Moved, NoMoves, Reassigning, At
      <4>7. QED  BY <3>2, <4>2, <4>3, <4>4, <4>5, <4>6 DEF Writes
    <3>3. QED  BY <3>1, <3>2, Commits
  <2>3. QED  BY <1>1, <1>2, <2>1, <2>2 DEF Holds
<1>3. CASE /\ ReadForUpdate(q) /\ OwnsIt(q) /\ BaseIsCurrent(q)
           /\ UNCHANGED <<artifact, rows, fresh>>
           /\ req'[q] = [req[q] EXCEPT !.at = "sum", !.seen = artifact[req[q].art]]
  <2>1. /\ req[q].art \in Live /\ artifact[req[q].art].owner = req[q].conn
        /\ artifact[req[q].art].version = req[q].ver
    BY <1>3 DEF OwnsIt, Owned, BaseIsCurrent
  <2>2. artifact[req[q].art] \in Row /\ req[q].art \in Artifacts \ fresh
    BY <2>1 DEF Live, BornOnce
  <2>3. /\ req'[q].seen = artifact[req[q].art] /\ req'[q].art = req[q].art
        /\ req'[q].conn = req[q].conn /\ req'[q].ver = req[q].ver
    BY <1>3 DEF Request
  <2>4. QED  BY <1>3, <2>1, <2>2, <2>3
<1>4. QED  BY <1>2, <1>3, UpdateMoves

LEMMA UpdatesHold ==
  ASSUME StayingPut
  PROVE  Spec => [](HoldsLock /\ UpdateInv)
<1>1. Init => HoldsLock /\ UpdateInv
  <2> SUFFICES ASSUME Init  PROVE HoldsLock /\ UpdateInv
    OBVIOUS
  <2>1. \A a \in Artifacts : a \notin Live  BY DEF Init, NoArtifacts, Live
  <2>2. \A r \in Requests : req[r].at = "idle"  BY DEF Init, Idle
  <2>3. BornOnce  BY <2>1 DEF BornOnce, Live
  <2>4. HoldsLock /\ NoMoves /\ SeenCurrent
    BY <2>2 DEF HoldsLock, NoMoves, Reassigning, SeenCurrent, Checked
  <2>5. QED  BY <2>3, <2>4 DEF UpdateInv
<1>2. TypeOK /\ FieldsOK /\ HoldsLock /\ UpdateInv /\ [Next]_vars => (HoldsLock /\ UpdateInv)'
  BY LocksKept, NoMovesKept, BornOnceKept, SeenKept DEF UpdateInv
<1>3. QED  BY <1>1, <1>2, TypeCorrect, PTL DEF Spec

\* What a step that is an update of request r does.
LEMMA UpdateStep ==
  ASSUME TypeOK, FieldsOK, UpdateInv, [Next]_vars, NEW r \in Requests,
         req[r].op = "update", req'[r] # req[r], artifact'[req[r].art] # artifact[req[r].art]
  PROVE  /\ artifact[req[r].art] = req[r].seen /\ Checked(req[r])
         /\ artifact'[req[r].art].version = req[r].seen.version + 1
<1>1. ~UNCHANGED <<artifact, rows, fresh>>  OBVIOUS
<1>2. PICK w \in Requests : Step(w) /\ Writes(w)  BY <1>1, Commits
<1>3. w = r  BY <1>2, WriterEnds
<1>4. Updated(r)
  <2>1. ~Moved(r)  BY DEF UpdateInv, NoMoves, Moved, Reassigning, At
  <2>2. ~Published(r) /\ ~Removed(r) /\ ~Thinned(r)
    BY DEF Published, Removed, Thinned, FieldsOK, At
  <2>3. QED  BY <1>2, <1>3, <2>1, <2>2 DEF Writes
<1>5. Checked(req[r]) /\ req[r].art \in Live  BY <1>4 DEF Updated, Checked, At
<1>6. QED  BY <1>4, <1>5, UpdateKeeps DEF UpdateInv, SeenCurrent

\* tools.py:285-289: content is replaced only by an update of the very version it was
\* based on, for any number of updates of one artifact.
THEOREM UpdatesNotLost == ASSUME StayingPut PROVE Spec => NoLostUpdate
<1>1. TypeOK /\ FieldsOK /\ UpdateInv /\ [Next]_vars => [UpdateReplacesItsBase]_vars
  <2> SUFFICES ASSUME TypeOK, FieldsOK, UpdateInv, [Next]_vars, NEW r \in Requests,
                      req[r].op = "update", req'[r] # req[r],
                      artifact'[req[r].art] # artifact[req[r].art]
               PROVE  /\ artifact[req[r].art].version = req[r].ver
                      /\ artifact'[req[r].art].version = req[r].ver + 1
    BY DEF UpdateReplacesItsBase
  <2>1. /\ artifact[req[r].art] = req[r].seen /\ Checked(req[r])
        /\ artifact'[req[r].art].version = req[r].seen.version + 1
    BY UpdateStep
  <2>2. req[r].seen.version = req[r].ver  BY <2>1 DEF UpdateInv, SeenCurrent
  <2>3. QED  BY <2>1, <2>2
<1>2. QED  BY <1>1, TypeCorrect, UpdatesHold, PTL DEF Spec, NoLostUpdate

\* tools.py:291: an update replaces content only of an artifact that its own
\* connection owns as it commits.
THEOREM OwnersWrite == ASSUME StayingPut PROVE Spec => OwnerWrites
<1>1. TypeOK /\ FieldsOK /\ UpdateInv /\ [Next]_vars
      => [\A r \in Requests : LET a == req[r].art IN
            /\ req[r].op = "update" /\ req'[r] # req[r] /\ artifact'[a] # artifact[a]
            => artifact[a].owner = req[r].conn]_vars
  <2> SUFFICES ASSUME TypeOK, FieldsOK, UpdateInv, [Next]_vars, NEW r \in Requests,
                      req[r].op = "update", req'[r] # req[r],
                      artifact'[req[r].art] # artifact[req[r].art]
               PROVE  artifact[req[r].art].owner = req[r].conn
    OBVIOUS
  <2>1. artifact[req[r].art] = req[r].seen /\ Checked(req[r])  BY UpdateStep
  <2>2. QED  BY <2>1 DEF UpdateInv, SeenCurrent
<1>2. QED  BY <1>1, TypeCorrect, UpdatesHold, PTL DEF Spec, OwnerWrites

-----------------------------------------------------------------------------
(* The byte quota.  What a connection stores is a sum over its artifacts of *)
(* the sums over their version rows.                                       *)

RowTotal(R) == Total([v \in R |-> v.size])

\* What quotas.py sums over the version rows of an artifact, as a Total.
LEMMA RowsSum ==
  ASSUME NEW R \in SUBSET VersionRow, IsFiniteSet(R)
  PROVE  MapThenSumSet(LAMBDA v : v.size, R) = RowTotal(R) /\ RowTotal(R) \in Nat
<1> DEFINE f == [v \in R |-> v.size]
           Iter(sum) == sum = [T \in SUBSET R |->
                          IF T = {} THEN 0 ELSE Pick(T).size + sum[T \ {Pick(T)}]]
<1>1. f \in [R -> Nat]  BY DEF VersionRow
<1>2. ASSUME NEW sum  PROVE Iter(sum) <=> Sums(sum, f, R)
  <2>1. \A T \in SUBSET R : T # {} => Pick(T) \in R /\ f[Pick(T)] = Pick(T).size
    BY PickIn
  <2>2. QED  BY <2>1 DEF Sums
<1>3. MapThenSumSet(LAMBDA v : v.size, R) = (CHOOSE sum : Iter(sum))[R]
  BY DEF MapThenSumSet, MapThenFoldSet, Pick
<1>4. PICK sum : sum = (CHOOSE s : Iter(s)) /\ Iter(sum)
  <2>1. PICK s : Sums(s, f, R)
    <3> HIDE DEF f
    <3> QED BY <1>1, SumsExist
  <2>2. Iter(s)  BY <1>2, <2>1
  <2> HIDE DEF Iter
  <2>3. QED  BY <2>2
<1> HIDE DEF Iter
<1>5. Total(f) = sum[R]
  <2>1. Sums(sum, f, R)  BY <1>2, <1>4
  <2>2. DOMAIN f = R  OBVIOUS
  <2> HIDE DEF f
  <2>3. QED  BY <2>1, <2>2, TotalIs
<1>6. Total(f) \in Nat
  <2> HIDE DEF f
  <2> QED  BY <1>1, TotalTyped
<1>7. QED  BY <1>3, <1>4, <1>5, <1>6 DEF RowTotal

\* What the artifacts O, with their rows R, hold.
Held(O, R) == Total([a \in O |-> RowTotal(R[a])])

Countable(O, R) == O \subseteq Artifacts /\ \A a \in O : IsFiniteSet(R[a]) /\ R[a] \subseteq VersionRow

\* The sum of sums that StoredBytes is.
Stored(O, R) == MapThenSumSet(LAMBDA a : MapThenSumSet(LAMBDA v : v.size, R[a]), O)

LEMMA StoredSum ==
  ASSUME NEW O, NEW R, Countable(O, R)
  PROVE  Stored(O, R) = Held(O, R) /\ Held(O, R) \in Nat
<1> DEFINE f == [a \in O |-> RowTotal(R[a])]
           bytes(a) == MapThenSumSet(LAMBDA v : v.size, R[a])
           Iter(sum) == sum = [T \in SUBSET O |->
                          IF T = {} THEN 0 ELSE bytes(Pick(T)) + sum[T \ {Pick(T)}]]
<1>1. \A a \in O : bytes(a) = RowTotal(R[a]) /\ RowTotal(R[a]) \in Nat
  BY RowsSum DEF Countable
<1>2. IsFiniteSet(O)  BY PoolAssumption, FS_Subset DEF Countable
<1>3. Stored(O, R) = (CHOOSE sum : Iter(sum))[O]
  BY DEF Stored, MapThenSumSet, MapThenFoldSet, Pick
<1> HIDE DEF bytes
<1>4. f \in [O -> Nat]  BY <1>1
<1>5. ASSUME NEW sum  PROVE Iter(sum) <=> Sums(sum, f, O)
  <2>1. \A T \in SUBSET O : T # {} => Pick(T) \in O /\ f[Pick(T)] = bytes(Pick(T))
    BY <1>1, PickIn
  <2>2. QED  BY <2>1 DEF Sums
<1>6. PICK sum : sum = (CHOOSE s : Iter(s)) /\ Iter(sum)
  <2>1. PICK s : Sums(s, f, O)
    <3> HIDE DEF f
    <3> QED BY <1>2, SumsExist
  <2>2. Iter(s)  BY <1>5, <2>1
  <2> HIDE DEF Iter
  <2>3. QED  BY <2>2
<1> HIDE DEF Iter, f
<1>7. Sums(sum, f, O)  BY <1>5, <1>6
<1> USE DEF f
<1>8. Total(f) = sum[O] /\ Total(f) \in Nat
  <2>1. DOMAIN f = O  OBVIOUS
  <2> HIDE DEF f
  <2>2. QED  BY <1>2, <1>4, <1>7, <2>1, TotalIs, TotalTyped
<1>9. QED  BY <1>3, <1>6, <1>8 DEF Held

\* Fewer rows, or fewer artifacts with fewer rows, hold no more.
LEMMA RowsFewer ==
  ASSUME NEW R, NEW Q \in SUBSET R, IsFiniteSet(R), R \subseteq VersionRow
  PROVE  RowTotal(Q) <= RowTotal(R) /\ RowTotal(Q) \in Nat /\ RowTotal(R) \in Nat
<1> DEFINE f == [v \in R |-> v.size]
           g == [v \in Q |-> v.size]
<1>1. f \in [R -> Nat] /\ g \in [Q -> Nat] /\ \A v \in Q : g[v] <= f[v]
  BY DEF VersionRow
<1>2. IsFiniteSet(Q)  BY FS_Subset
<1> HIDE DEF f, g
<1>3. Total(g) <= Total(f)  BY <1>1, TotalMonotonic
<1>4. Total(g) \in Nat /\ Total(f) \in Nat  BY <1>1, <1>2, TotalTyped
<1>5. QED  BY <1>3, <1>4 DEF RowTotal, f, g

\* One row more, and perhaps fewer of the others.
LEMMA RowsOneMore ==
  ASSUME NEW R, IsFiniteSet(R), R \subseteq VersionRow, NEW v \in VersionRow, NEW Q \in SUBSET (R \cup {v})
  PROVE  RowTotal(Q) <= RowTotal(R) + v.size
<1> DEFINE all == R \cup {v}
           f == [w \in all |-> w.size]
<1>1. IsFiniteSet(all) /\ all \subseteq VersionRow  BY FS_AddElement
<1>2. f \in [all -> Nat] /\ v \in all  BY DEF VersionRow
<1>3. RowTotal(Q) <= RowTotal(all)
  <2> HIDE DEF all
  <2> QED  BY <1>1, RowsFewer DEF all
<1>4. Total(f) = f[v] + Total(Part(f, all \ {v}))
  <2> HIDE DEF f, all
  <2> QED  BY <1>1, <1>2, TotalApart
<1>5. Part(f, all \ {v}) = [w \in R \ {v} |-> w.size]  BY DEF Part
<1>6. RowTotal(all) = v.size + RowTotal(R \ {v})  BY <1>4, <1>5 DEF RowTotal
<1>7. RowTotal(R \ {v}) <= RowTotal(R) /\ RowTotal(R \ {v}) \in Nat /\ RowTotal(R) \in Nat
  BY RowsFewer
<1>8. RowTotal(Q) \in Nat /\ RowTotal(all) \in Nat
  <2> HIDE DEF all
  <2> QED  BY <1>1, RowsFewer DEF all
<1>9. v.size \in Nat  BY DEF VersionRow
<1>10. QED  BY <1>3, <1>6, <1>7, <1>8, <1>9

LEMMA HeldLess ==
  ASSUME NEW O, NEW R, Countable(O, R), NEW P \in SUBSET O, NEW Q, \A a \in P : Q[a] \subseteq R[a]
  PROVE  Held(P, Q) <= Held(O, R)
<1> DEFINE f == [a \in O |-> RowTotal(R[a])]
           g == [a \in P |-> RowTotal(Q[a])]
<1>1. IsFiniteSet(O)  BY PoolAssumption, FS_Subset DEF Countable
<1>2. f \in [O -> Nat] /\ g \in [P -> Nat] /\ \A a \in P : g[a] <= f[a]
  BY RowsFewer DEF Countable
<1> HIDE DEF f, g
<1>3. Total(g) <= Total(f)  BY <1>1, <1>2, TotalMonotonic
<1>4. QED  BY <1>3 DEF Held, f, g

\* One artifact with one row more, or one new artifact with one row, holds that much more.
LEMMA HeldOneMore ==
  ASSUME NEW O, NEW R, Countable(O, R), NEW a \in Artifacts, NEW v \in VersionRow,
         NEW P \in SUBSET (O \cup {a}), NEW Q,
         \A b \in P \ {a} : Q[b] \subseteq R[b],
         a \in O => Q[a] \subseteq R[a] \cup {v},
         a \notin O => Q[a] \subseteq {v}
  PROVE  Held(P, Q) <= Held(O, R) + v.size
<1> DEFINE all == P \cup {a}
           g == [b \in all |-> RowTotal(Q[b])]
           old == IF a \in O THEN RowTotal(R[a]) ELSE 0
<1>1. IsFiniteSet(O) /\ IsFiniteSet(all) /\ O \subseteq Artifacts
  BY PoolAssumption, FS_Subset DEF Countable
<1>2. v.size \in Nat  BY DEF VersionRow
<1>3. RowTotal({}) = 0  BY TotalEmpty DEF RowTotal
<1>4. \A b \in O : R[b] \subseteq VersionRow /\ IsFiniteSet(R[b])  BY DEF Countable
<1>5. RowTotal(Q[a]) <= old + v.size /\ old \in Nat
  <2>1. CASE a \in O  BY <1>4, <2>1, RowsOneMore, RowsFewer
  <2>2. CASE a \notin O
    <3>1. IsFiniteSet({}) /\ Q[a] \subseteq {} \cup {v}  BY <2>2, FS_EmptySet
    <3>2. QED  BY <1>3, <2>2, <3>1, RowsOneMore
  <2>3. QED  BY <2>1, <2>2
<1>6. Countable(all, Q)
  <2>1. \A b \in O : IsFiniteSet(R[b] \cup {v})  BY <1>4, FS_AddElement
  <2>2. IsFiniteSet({v})  BY FS_Singleton
  <2>3. ASSUME NEW b \in all  PROVE IsFiniteSet(Q[b]) /\ Q[b] \subseteq VersionRow
    <3>1. CASE b # a  BY <1>4, <3>1, FS_Subset
    <3>2. CASE b = a  BY <1>4, <2>1, <2>2, <3>2, FS_Subset
    <3>3. QED  BY <3>1, <3>2
  <2>4. QED  BY <1>1, <2>3 DEF Countable
<1>7. g \in [all -> Nat] /\ a \in all
  <2>1. \A b \in all : RowTotal(Q[b]) \in Nat
    <3> HIDE DEF all
    <3> QED  BY <1>6, RowsFewer DEF Countable
  <2>2. QED  BY <2>1
<1>8. Total(g) = RowTotal(Q[a]) + Held(all \ {a}, Q)
  <2>1. Part(g, all \ {a}) = [b \in all \ {a} |-> RowTotal(Q[b])]  BY DEF Part
  <2>2. g[a] = RowTotal(Q[a])  OBVIOUS
  <2> HIDE DEF g, all
  <2>3. Total(g) = g[a] + Total(Part(g, all \ {a}))  BY <1>1, <1>7, TotalApart
  <2>4. QED  BY <2>1, <2>2, <2>3 DEF Held
<1>9. Held(all \ {a}, Q) <= Held(O \ {a}, R)
  <2>1. Countable(O \ {a}, R)  BY DEF Countable
  <2>2. all \ {a} \in SUBSET (O \ {a}) /\ \A b \in all \ {a} : Q[b] \subseteq R[b]  OBVIOUS
  <2> HIDE DEF all
  <2>3. QED  BY <2>1, <2>2, HeldLess
<1>10. old + Held(O \ {a}, R) = Held(O, R)
  <2>1. CASE a \notin O
    <3>1. O \ {a} = O /\ Held(O, R) \in Nat  BY <2>1, StoredSum
    <3>2. QED  BY <2>1, <3>1
  <2>2. CASE a \in O
    <3> DEFINE f == [b \in O |-> RowTotal(R[b])]
    <3>1. f \in [O -> Nat]  BY <1>4, RowsFewer
    <3>2. Part(f, O \ {a}) = [b \in O \ {a} |-> RowTotal(R[b])]  BY DEF Part
    <3>3. f[a] = RowTotal(R[a])  BY <2>2
    <3>4. Total(f) = f[a] + Total(Part(f, O \ {a}))
      <4> HIDE DEF f
      <4> QED  BY <1>1, <2>2, <3>1, TotalApart
    <3>5. QED  BY <2>2, <3>2, <3>3, <3>4 DEF Held
  <2>3. QED  BY <2>1, <2>2
<1>11. Held(P, Q) <= Held(all, Q)
  <2> HIDE DEF all
  <2> QED  BY <1>6, HeldLess DEF all
<1>12. Held(all, Q) = Total(g)  BY DEF Held
<1>13. /\ Held(P, Q) \in Int /\ Held(all \ {a}, Q) \in Int /\ Held(O \ {a}, R) \in Int
       /\ RowTotal(Q[a]) \in Int
  <2>1. /\ Countable(P, Q) /\ Countable(all \ {a}, Q) /\ Countable(O \ {a}, R)
        /\ Countable(all, Q)
    BY <1>6 DEF Countable
  <2>2. /\ Held(P, Q) \in Nat /\ Held(all \ {a}, Q) \in Nat /\ Held(O \ {a}, R) \in Nat
    <3> HIDE DEF all
    <3> QED  BY <2>1, StoredSum
  <2>3. RowTotal(Q[a]) \in Nat  BY <1>6, RowsFewer DEF Countable
  <2>4. QED  BY <2>2, <2>3
<1> HIDE DEF all, g, old
<1>14. QED  BY <1>2, <1>5, <1>8, <1>9, <1>10, <1>11, <1>12, <1>13

-----------------------------------------------------------------------------
(* A request that has added up what its connection stores holds that        *)
(* connection's lock: what the sum left free is still free as it commits.   *)

LEMMA StoredIs ==
  ASSUME NEW c
  PROVE  StoredBytes(c) = Stored(Owned(c), rows) /\ StoredBytes(c)' = Stored(Owned(c)', rows')
<1>1. StoredBytes(c) = Stored(Owned(c), rows)  BY DEF StoredBytes, BytesOf, Stored
<1>2. (StoredBytes(c) = Stored(Owned(c), rows))'  BY <1>1, PTL
<1>3. QED  BY <1>1, <1>2

LEMMA StoredCounts ==
  ASSUME TypeOK, NumbersUnique, NEW c
  PROVE  /\ StoredBytes(c) = Held(Owned(c), rows) /\ StoredBytes(c) \in Nat
         /\ Countable(Owned(c), rows)
<1>1. Countable(Owned(c), rows)
  BY DEF TypeOK, NumbersUnique, Once, Countable, Owned, Live
<1>2. QED  BY <1>1, StoredSum, StoredIs

LEMMA StoredCountsNext ==
  ASSUME TypeOK', NumbersUnique', NEW c
  PROVE  StoredBytes(c)' = Held(Owned(c)', rows') /\ StoredBytes(c)' \in Nat
<1>1. Countable(Owned(c)', rows')
  BY DEF TypeOK, NumbersUnique, Once, Countable, Owned, Live
<1>2. QED  BY <1>1, StoredSum, StoredIs

\* A step adds the size of one commit, to what that commit's connection stores.
LEMMA BytesGrow ==
  ASSUME TypeOK, FieldsOK, NumbersUnique, VersionRowsBounded, UpdateInv, [Next]_vars
  PROVE  \/ \A c \in Connections : StoredBytes(c)' <= StoredBytes(c)
         \/ \E r \in Requests :
              /\ req[r].at = "commit" /\ Step(r) /\ Writes(r)
              /\ \A c \in Connections :
                   StoredBytes(c)' <= IF c = req[r].conn THEN StoredBytes(c) + req[r].size
                                                         ELSE StoredBytes(c)
<1> USE DEF TypeOK, UpdateInv
<1>1. TypeOK' /\ NumbersUnique'  BY TypeKept, NumbersKept
<1>2. ASSUME NEW c \in Connections, Owned(c)' \subseteq Owned(c),
             \A a \in Owned(c)' : rows'[a] \subseteq rows[a]
      PROVE  StoredBytes(c)' <= StoredBytes(c)
  <2>1. Countable(Owned(c), rows) /\ StoredBytes(c) = Held(Owned(c), rows)  BY StoredCounts
  <2>2. StoredBytes(c)' = Held(Owned(c)', rows')  BY <1>1, StoredCountsNext
  <2>3. Held(Owned(c)', rows') <= Held(Owned(c), rows)  BY <1>2, <2>1, HeldLess
  <2>4. QED  BY <2>1, <2>2, <2>3
<1>3. ASSUME NEW c \in Connections, NEW a \in Artifacts, NEW v \in VersionRow,
             Owned(c)' \subseteq Owned(c) \cup {a},
             \A b \in Owned(c)' \ {a} : rows'[b] \subseteq rows[b],
             a \in Owned(c) => rows'[a] \subseteq rows[a] \cup {v},
             a \notin Owned(c) => rows'[a] \subseteq {v}
      PROVE  StoredBytes(c)' <= StoredBytes(c) + v.size
  <2>1. Countable(Owned(c), rows) /\ StoredBytes(c) = Held(Owned(c), rows)  BY StoredCounts
  <2>2. StoredBytes(c)' = Held(Owned(c)', rows')  BY <1>1, StoredCountsNext
  <2>3. Held(Owned(c)', rows') <= Held(Owned(c), rows) + v.size  BY <1>3, <2>1, HeldOneMore
  <2>4. QED  BY <2>1, <2>2, <2>3
<1>4. CASE UNCHANGED <<artifact, rows, fresh>>
  <2>1. \A c \in Connections : Owned(c)' = Owned(c)  BY <1>4 DEF Owned, Live
  <2>2. QED  BY <1>2, <1>4, <2>1
<1>5. ASSUME NEW r \in Requests, Step(r), Published(r)
      PROVE  /\ req[r].at = "commit" /\ Writes(r)
             /\ \A c \in Connections :
                  StoredBytes(c)' <= IF c = req[r].conn THEN StoredBytes(c) + req[r].size
                                                        ELSE StoredBytes(c)
  <2>1. Writes(r) /\ req[r].at = "commit" /\ req[r].size \in Nat
    BY <1>5, WriterHas DEF Writes, Published, At
  <2>2. PICK a \in fresh : Live' = Live \cup {a} /\ Insert(a, req[r].conn, req[r].size)
    BY <1>5, <2>1, BirthIsPublished
  <2> DEFINE v == [version |-> 1, size |-> req[r].size]
  <2>3. v \in VersionRow /\ v.size = req[r].size  BY <2>1 DEF VersionRow
  <2>4. /\ a \in Artifacts /\ a \notin Live /\ rows'[a] = {v}
        /\ artifact'[a].owner = req[r].conn
        /\ \A b \in Artifacts \ {a} : artifact'[b] = artifact[b] /\ rows'[b] = rows[b]
    BY <2>2 DEF Insert, BornOnce
  <2> HIDE DEF v
  <2>5. \A c \in Connections : Owned(c)' \subseteq Owned(c) \cup {a} /\ a \notin Owned(c)
    BY <2>2, <2>4 DEF Owned, Live
  <2>6. \A c \in Connections : c # req[r].conn => Owned(c)' \subseteq Owned(c)
    BY <2>2, <2>4 DEF Owned, Live
  <2>7. \A c \in Connections : \A b \in Owned(c)' \ {a} : rows'[b] \subseteq rows[b]
    BY <2>4, <2>5 DEF Owned, Live
  <2>8. ASSUME NEW c \in Connections
        PROVE  StoredBytes(c)' <= IF c = req[r].conn THEN StoredBytes(c) + req[r].size
                                                     ELSE StoredBytes(c)
    <3>1. CASE c = req[r].conn  BY <1>3, <2>3, <2>4, <2>5, <2>7, <3>1
    <3>2. CASE c # req[r].conn
      <4>1. \A b \in Owned(c)' : rows'[b] \subseteq rows[b]  BY <2>5, <2>6, <2>7, <3>2
      <4>2. QED  BY <1>2, <2>6, <3>2, <4>1
    <3>3. QED  BY <3>1, <3>2
  <2>9. QED  BY <2>1, <2>8
<1>6. ASSUME NEW r \in Requests, Step(r), Updated(r)
      PROVE  /\ req[r].at = "commit" /\ Writes(r)
             /\ \A c \in Connections :
                  StoredBytes(c)' <= IF c = req[r].conn THEN StoredBytes(c) + req[r].size
                                                        ELSE StoredBytes(c)
  <2> DEFINE a == req[r].art
             v == [version |-> req[r].seen.version + 1, size |-> req[r].size]
  <2>1. Writes(r) /\ req[r].at = "commit" /\ req[r].size \in Nat /\ req[r].seen \in Row
    BY <1>6, WriterHas DEF Writes, Updated, At
  <2>2. v \in VersionRow /\ v.size = req[r].size  BY <2>1 DEF VersionRow, Row
  <2>3. a \in Live /\ Checked(req[r])  BY <1>6 DEF Updated, Checked, At
  <2>4. artifact[a].owner = req[r].conn  BY <2>3 DEF SeenCurrent
  <2>5. /\ artifact'[a] # None /\ artifact'[a].owner = artifact[a].owner
        /\ \A b \in Artifacts \ {a} : artifact'[b] = artifact[b]
    BY <1>6, UpdateKeeps
  <2>6. rows' = [rows EXCEPT ![a] = Retained(@ \cup {v})]  BY <1>6 DEF Updated, AddVersion
  <2>7. rows'[a] \subseteq rows[a] \cup {v} /\ \A b \in Artifacts \ {a} : rows'[b] = rows[b]
    BY <2>3, <2>6 DEF Retained, Live
  <2> HIDE DEF a, v
  <2>8. \A c \in Connections : Owned(c)' \subseteq Owned(c) /\ (a \in Owned(c) <=> c = req[r].conn)
    BY <2>3, <2>4, <2>5 DEF Owned, Live
  <2>9. a \in Artifacts /\ \A c \in Connections : Owned(c) \subseteq Artifacts
    BY <2>3 DEF Owned, Live
  <2>10. ASSUME NEW c \in Connections
         PROVE  StoredBytes(c)' <= IF c = req[r].conn THEN StoredBytes(c) + req[r].size
                                                      ELSE StoredBytes(c)
    <3>1. \A b \in Owned(c)' \ {a} : rows'[b] \subseteq rows[b]  BY <2>7, <2>8, <2>9
    <3>2. CASE c = req[r].conn
      BY <1>3, <2>2, <2>7, <2>8, <2>9, <3>1, <3>2
    <3>3. CASE c # req[r].conn
      <4>1. \A b \in Owned(c)' : rows'[b] \subseteq rows[b]  BY <2>8, <3>1, <3>3
      <4>2. QED  BY <1>2, <2>8, <3>3, <4>1
    <3>4. QED  BY <3>2, <3>3
  <2>11. QED  BY <2>1, <2>10
<1>7. ASSUME NEW r \in Requests, Removed(r) \/ Thinned(r)
      PROVE  \A c \in Connections : StoredBytes(c)' <= StoredBytes(c)
  <2>1. \A a \in Artifacts : /\ rows'[a] \subseteq rows[a]
                             /\ artifact'[a] = artifact[a] \/ artifact'[a] = None
    BY <1>7 DEF Removed, Remove, Thinned
  <2>2. \A c \in Connections : Owned(c)' \subseteq Owned(c) /\ Owned(c) \subseteq Artifacts
    BY <2>1 DEF Owned, Live
  <2>3. QED  BY <1>2, <2>1, <2>2
<1>8. \A r \in Requests : ~Moved(r)  BY DEF Moved, NoMoves, Reassigning, At
<1>9. QED  BY <1>4, <1>5, <1>6, <1>7, <1>8, Commits DEF Writes

Affords == \A r \in Requests : req[r].at = "commit" => BytesFit(r)

LEMMA BytesKept ==
  ASSUME TypeOK, FieldsOK, HoldsLock, NumbersUnique, VersionRowsBounded, UpdateInv,
         Affords, BytesBounded, [Next]_vars
  PROVE  Affords' /\ BytesBounded'
<1>1. \A c \in Connections : StoredBytes(c) \in Nat /\ StoredBytes(c)' \in Nat
  BY TypeKept, NumbersKept, StoredCounts, StoredCountsNext
\* A request about to commit after the step was so before, or has just added up.
<1>2. ASSUME NEW q \in Requests, req'[q].at = "commit"
      PROVE  /\ req'[q].conn = req[q].conn /\ req'[q].size = req[q].size
             /\ req[q].conn \in Connections /\ req[q].size \in Nat /\ lock[req[q].conn] = q
             /\ StoredBytes(req[q].conn) + req[q].size <= MaxTotalBytesPerConnection
  <2>1. ~Start(q)  BY <1>2, StartShape
  <2>2. /\ req'[q].conn = req[q].conn /\ req'[q].size = req[q].size
        /\ req[q].at \in {"sum", "commit"} /\ BytesFit(q)
    BY <1>2, <2>1, CallsGoOn DEF Affords
  <2>3. QED  BY <2>2 DEF BytesFit, FieldsOK, HoldsLock, TypeOK, Request
<1>3. CASE \A c \in Connections : StoredBytes(c)' <= StoredBytes(c)
  <2>1. BytesBounded'  BY <1>1, <1>3, LimitsAssumption DEF BytesBounded
  <2>2. ASSUME NEW q \in Requests, req'[q].at = "commit"  PROVE BytesFit(q)'
    <3>1. PICK c \in Connections : c = req[q].conn  BY <1>2, <2>2
    <3>2. StoredBytes(c)' + req[q].size <= MaxTotalBytesPerConnection
      BY <1>1, <1>2, <1>3, <2>2, <3>1, LimitsAssumption
    <3>3. QED  BY <1>2, <2>2, <3>1, <3>2 DEF BytesFit
  <2>3. QED  BY <2>1, <2>2 DEF Affords
<1>4. ASSUME NEW r \in Requests, req[r].at = "commit", Step(r), Writes(r),
             \A c \in Connections :
               StoredBytes(c)' <= IF c = req[r].conn THEN StoredBytes(c) + req[r].size
                                                     ELSE StoredBytes(c)
      PROVE  Affords' /\ BytesBounded'
  <2>1. /\ req[r].conn \in Connections /\ req[r].size \in Nat /\ lock[req[r].conn] = r
        /\ StoredBytes(req[r].conn) + req[r].size <= MaxTotalBytesPerConnection
    BY <1>4 DEF Affords, BytesFit, FieldsOK, HoldsLock, TypeOK, Request
  <2>2. BytesBounded'
    <3> SUFFICES ASSUME NEW c \in Connections
                 PROVE  StoredBytes(c)' <= MaxTotalBytesPerConnection
      BY DEF BytesBounded
    <3>1. StoredBytes(c) <= MaxTotalBytesPerConnection  BY DEF BytesBounded
    <3>2. QED  BY <1>1, <1>4, <2>1, <3>1, LimitsAssumption
  <2>3. ASSUME NEW q \in Requests, req'[q].at = "commit"  PROVE BytesFit(q)'
    <3>1. PICK c \in Connections : c = req[q].conn /\ lock[c] = q  BY <1>2, <2>3
    <3>2. q # r  BY <1>4, <2>3, WriterEnds DEF Idle
    <3>3. c # req[r].conn  BY <2>1, <3>1, <3>2
    <3>4. StoredBytes(c)' <= StoredBytes(c)  BY <1>4, <3>3
    <3>5. StoredBytes(c)' + req[q].size <= MaxTotalBytesPerConnection
      BY <1>1, <1>2, <2>3, <3>1, <3>4, LimitsAssumption
    <3>6. QED  BY <1>2, <2>3, <3>1, <3>5 DEF BytesFit
  <2>4. QED  BY <2>2, <2>3 DEF Affords
<1>5. QED  BY <1>3, <1>4, BytesGrow

LEMMA BytesHold ==
  ASSUME StayingPut
  PROVE  Spec => [](Affords /\ BytesBounded)
<1>1. Init => Affords /\ BytesBounded
  <2> SUFFICES ASSUME Init  PROVE Affords /\ BytesBounded  OBVIOUS
  <2>1. Affords  BY DEF Init, Idle, Affords
  <2>2. ASSUME NEW c \in Connections  PROVE StoredBytes(c) = 0
    <3>1. Owned(c) = {}  BY DEF Init, NoArtifacts, Owned, Live
    <3>2. Countable(Owned(c), rows)  BY <3>1 DEF Countable
    <3>3. StoredBytes(c) = Held(Owned(c), rows)  BY <3>2, StoredSum, StoredIs
    <3>4. QED  BY <3>1, <3>3, TotalEmpty DEF Held
  <2>3. QED  BY <2>1, <2>2, LimitsAssumption DEF BytesBounded
<1>2. /\ TypeOK /\ FieldsOK /\ HoldsLock /\ NumbersUnique /\ VersionRowsBounded /\ UpdateInv
      /\ Affords /\ BytesBounded /\ [Next]_vars
      => Affords' /\ BytesBounded'
  BY BytesKept
<1>3. QED  BY <1>1, <1>2, TypeCorrect, RowsKnown, UpdatesHold, PTL DEF Spec

\* quotas.py:74,96: whatever is published, updated, deleted and pruned at the same time,
\* no connection stores more than max_total_bytes_per_connection, every retained version
\* counted.  Without reassignment: it moves bytes to a connection unchecked.
THEOREM ByteQuotaHolds == ASSUME StayingPut PROVE Spec => []BytesBounded
  BY BytesHold, PTL

-----------------------------------------------------------------------------
(* The current version.  Clean-ups may take its row (a request prunes what  *)
(* is no longer current), so here there are none.                           *)

Undisturbed == Workload \subseteq {"publish", "update", "delete", "revoke"}

PlainCalls == \A r \in Requests : req[r].at = "rows" => req[r].op = "delete"

Newest == \A a \in Live : /\ artifact[a].version \in VersionsOf(a)
                          /\ \A v \in rows[a] : v.version <= artifact[a].version

LEMMA PlainKept ==
  ASSUME Undisturbed, TypeOK, FieldsOK, PlainCalls, [Next]_vars
  PROVE  PlainCalls'
<1> SUFFICES ASSUME NEW q \in Requests, req'[q].at = "rows"  PROVE req'[q].op = "delete"
  BY DEF PlainCalls
<1>1. CASE Start(q)
  BY <1>1, StartShape, FieldsKept DEF Undisturbed, FieldsOK
<1>2. QED  BY <1>1, CallsGoOn DEF PlainCalls

\* Of what is written where nothing disturbs: inserts, updates and removals.
LEMMA PlainWrites ==
  ASSUME TypeOK, PlainCalls, NoMoves, NEW r \in Requests, Writes(r)
  PROVE  Published(r) \/ Updated(r) \/ Removed(r)
  BY DEF Writes, Moved, Thinned, PlainCalls, NoMoves, Reassigning, At

\* Retention keeps the row it has just stored: no row has a later number.
LEMMA LatestRetained ==
  ASSUME NEW stored, NEW v \in stored, \A w \in stored : ~(w.version > v.version)
  PROVE  v \in Retained(stored)
<1>1. {w \in stored : w.version > v.version} = {}  OBVIOUS
<1>2. Cardinality({w \in stored : w.version > v.version}) = 0  BY <1>1, FS_EmptySet
<1>3. QED  BY <1>2, LimitsAssumption DEF Retained

LEMMA NewestKept ==
  ASSUME TypeOK, FieldsOK, UpdateInv, Newest, PlainCalls, [Next]_vars
  PROVE  Newest'
<1> USE DEF TypeOK, UpdateInv
<1>1. CASE UNCHANGED <<artifact, rows, fresh>>  BY <1>1 DEF Newest, Live, VersionsOf
<1>2. ASSUME NEW r \in Requests, Writes(r), NEW a \in Live'
      PROVE  /\ \E v \in rows'[a] : v.version = artifact'[a].version
             /\ \A v \in rows'[a] : v.version <= artifact'[a].version
  <2>1. CASE a \in Live /\ artifact'[a] = artifact[a] /\ rows'[a] = rows[a]
    BY <2>1 DEF Newest, VersionsOf
  <2>2. CASE Published(r)
    <3>1. PICK b \in fresh : Live' = Live \cup {b} /\ Insert(b, req[r].conn, req[r].size)
      BY <1>2, <2>2, BirthIsPublished
    <3>2. CASE a # b
      <4>1. a \in Live /\ artifact'[a] = artifact[a] /\ rows'[a] = rows[a]
        BY <3>1, <3>2 DEF Insert, Live
      <4>2. QED  BY <2>1, <4>1
    <3>3. CASE a = b
      <4>1. artifact'[a].version = 1 /\ rows'[a] = {[version |-> 1, size |-> req[r].size]}
        BY <3>1, <3>3 DEF Insert
      <4>2. QED  BY <4>1
    <3>4. QED  BY <3>2, <3>3
  <2>3. CASE Updated(r)
    <3> DEFINE b == req[r].art
               n == req[r].seen.version + 1
               new == [version |-> n, size |-> req[r].size]
               stored == rows[b] \cup {new}
    <3>1. CASE a # b
      <4>1. artifact'[a] = artifact[a] /\ a \in Artifacts  BY <1>2, <2>3, <3>1, UpdateKeeps DEF Live
      <4>2. rows'[a] = rows[a]  BY <2>3, <3>1, <4>1 DEF Updated, AddVersion
      <4>3. a \in Live  BY <1>2, <4>1 DEF Live
      <4>4. QED  BY <2>1, <4>1, <4>2, <4>3
    <3>2. CASE a = b
      <4>1. b \in Live /\ Checked(req[r])  BY <2>3 DEF Updated, Checked, At
      <4>2. artifact[b] = req[r].seen /\ req[r].seen \in Row  BY <4>1 DEF SeenCurrent
      <4>3. artifact'[b].version = n /\ n \in Nat  BY <2>3, <4>2, UpdateKeeps DEF Row
      <4>4. rows'[b] = Retained(stored)  BY <2>3, <4>1 DEF Updated, AddVersion, Live
      <4>5. ASSUME NEW v \in rows[b]  PROVE v.version \in Nat /\ v.version < n
        <5>1. v.version \in Nat /\ req[r].seen.version \in Nat  BY <4>1, <4>2 DEF Live, VersionRow, Row
        <5>2. v.version <= req[r].seen.version  BY <4>1, <4>2 DEF Newest
        <5>3. QED  BY <5>1, <5>2
      <4>6. new \in stored /\ new.version = n  OBVIOUS
      <4>7. \A v \in stored : v.version <= n /\ ~(v.version > n)  BY <4>3, <4>5
      <4> HIDE DEF stored, new, n, b
      <4>8. new \in Retained(stored)  BY <4>6, <4>7, LatestRetained
      <4>9. Retained(stored) \subseteq stored  BY DEF Retained
      <4>10. QED  BY <3>2, <4>3, <4>4, <4>6, <4>7, <4>8, <4>9
    <3>3. QED  BY <3>1, <3>2
  <2>4. CASE Removed(r)
    <3>1. a # req[r].art  BY <1>2, <2>4 DEF Removed, Remove, Live
    <3>2. artifact'[a] = artifact[a] /\ rows'[a] = rows[a]
      BY <1>2, <2>4, <3>1 DEF Removed, Remove, Live
    <3>3. a \in Live  BY <1>2, <3>2 DEF Live
    <3>4. QED  BY <2>1, <3>2, <3>3
  <2>5. QED  BY <1>2, <2>2, <2>3, <2>4, PlainWrites
<1>3. ASSUME NEW r \in Requests, Writes(r)  PROVE Newest'
  BY <1>2, <1>3 DEF Newest, VersionsOf
<1>4. QED  BY <1>1, <1>3, Commits

LEMMA HistoryHolds ==
  ASSUME Undisturbed
  PROVE  Spec => [](HoldsLock /\ UpdateInv /\ PlainCalls /\ Newest)
<1>1. StayingPut  BY DEF Undisturbed, StayingPut
<1>2. Init => PlainCalls /\ Newest
  BY DEF Init, NoArtifacts, Live, Idle, PlainCalls, Newest
<1>3. /\ TypeOK /\ FieldsOK /\ UpdateInv /\ PlainCalls /\ Newest /\ [Next]_vars
      => PlainCalls' /\ Newest'
  BY PlainKept, NewestKept
<1>4. QED  BY <1>1, <1>2, <1>3, TypeCorrect, UpdatesHold, PTL DEF Spec

\* versions.py:71-74: where history is not thinned and nothing is reassigned, the row of
\* an artifact's current version is stored, whatever retention drops beside it.
THEOREM CurrentStays == ASSUME Undisturbed PROVE Spec => []CurrentVersionStored
<1>1. Newest => CurrentVersionStored  BY DEF Newest, CurrentVersionStored
<1>2. QED  BY <1>1, HistoryHolds, PTL

-----------------------------------------------------------------------------
(* The refinement.  Every check a call made is still true as it commits:    *)
(* each commit is one step of the ledger, and all else leaves the tables    *)
(* alone.                                                                  *)

Sized == \A r \in Requests :
    /\ req[r].at # "idle" /\ req[r].op \in {"publish", "update"} => req[r].size \in Sizes
    /\ req[r].at \in {"sum", "commit"} => req[r].size <= MaxBytesPerArtifact

LEMMA SizedKept ==
  ASSUME TypeOK, FieldsOK, Sized, [Next]_vars
  PROVE  Sized'
<1> SUFFICES ASSUME NEW q \in Requests, req'[q].at # "idle"
             PROVE  /\ req'[q].op \in {"publish", "update"} => req'[q].size \in Sizes
                    /\ req'[q].at \in {"sum", "commit"} => req'[q].size <= MaxBytesPerArtifact
  BY DEF Sized
<1>1. CASE Start(q)  BY <1>1, StartShape
<1>2. CASE ~Start(q)  BY <1>2, CallsGoOn DEF Sized
<1>3. QED  BY <1>1, <1>2

\* The ledger's queries are those of the tables, whose operators it has copies of.
LEMMA SameQueries ==
  /\ Ledger!Live = Live
  /\ \A S : Ledger!Cardinality(S) = Cardinality(S)
  /\ \A S : Ledger!Retained(S) = Retained(S)
  /\ \A c : Ledger!Owned(c) = Owned(c) /\ Ledger!StoredBytes(c) = StoredBytes(c)
<1>1. Ledger!Live = Live  BY DEF Ledger!Live, Live
<1>2. \A S : Ledger!Cardinality(S) = Cardinality(S)  BY DEF Ledger!Cardinality, Cardinality
<1>3. ASSUME NEW S  PROVE Ledger!Retained(S) = Retained(S)
  BY <1>2 DEF Ledger!Retained, Retained
<1>4. ASSUME NEW c  PROVE Ledger!Owned(c) = Owned(c)
  BY DEF Ledger!Live, Live, Ledger!Owned, Owned
<1>5. ASSUME NEW c  PROVE Ledger!StoredBytes(c) = StoredBytes(c)
  BY DEF Ledger!Live, Live, Ledger!Owned, Owned, Ledger!StoredBytes, StoredBytes,
         Ledger!BytesOf, BytesOf, Ledger!MapThenSumSet, MapThenSumSet,
         Ledger!MapThenFoldSet, MapThenFoldSet
<1>6. QED  BY <1>1, <1>2, <1>3, <1>4, <1>5

LedgerInv == /\ CountInv /\ NumbersUnique /\ UpdateInv /\ PlainCalls /\ Sized
             /\ Affords /\ NoOrphanRows

LEMMA LedgerStep ==
  ASSUME LedgerInv, [Next]_vars
  PROVE  [Ledger!LedgerNext]_(Ledger!ledger)
<1> USE DEF LedgerInv, CountInv, TypeOK, UpdateInv
<1>1. CASE UNCHANGED <<artifact, rows, fresh>>  BY <1>1 DEF Ledger!ledger
<1>2. ASSUME NEW r \in Requests, Step(r), Writes(r)
      PROVE  Ledger!LedgerNext \/ UNCHANGED <<artifact, rows, fresh>>
  <2>1. ASSUME req[r].at = "commit", req[r].op \in {"publish", "update"}
        PROVE  /\ req[r].conn \in Connections /\ req[r].size \in Sizes
               /\ Ledger!Fits(req[r].conn, req[r].size)
    <3>1. req[r].conn \in Connections /\ req[r].size \in Sizes
      BY <2>1 DEF FieldsOK, Sized
    <3>2. req[r].size <= MaxBytesPerArtifact /\ BytesFit(r)  BY <2>1 DEF Sized, Affords
    <3>3. QED  BY <3>1, <3>2, SameQueries DEF BytesFit, Ledger!Fits
  <2>2. CASE Published(r)
    <3>1. req[r].at = "commit" /\ req[r].op = "publish"  BY <2>2 DEF Published, At
    <3>2. Ledger!Cardinality(Ledger!Owned(req[r].conn)) < MaxArtifactsPerConnection
      BY <3>1, SameQueries DEF PlaceKept, CountFits
    <3>3. \E a \in fresh : Ledger!Insert(a, req[r].conn, req[r].size)
      BY <2>2 DEF Published, Insert, Ledger!Insert
    <3>4. Ledger!Publish(req[r].conn, req[r].size)  BY <2>1, <3>1, <3>2, <3>3 DEF Ledger!Publish
    <3>5. QED  BY <2>1, <3>1, <3>4 DEF Ledger!LedgerNext
  <2>3. CASE Updated(r)
    <3> DEFINE a == req[r].art
    <3>1. /\ req[r].at = "commit" /\ req[r].op = "update" /\ a \in Live /\ Checked(req[r])
          /\ req[r].seen.version + 1 \notin VersionsOf(a)
      BY <2>3 DEF Updated, At, Checked
    <3>2. a \in Artifacts /\ artifact[a] = req[r].seen /\ artifact[a].owner = req[r].conn
      BY <3>1 DEF SeenCurrent
    <3>3. CommitUpdate(r)
      BY <1>2, <3>1
      DEF Step, ReadForUpdate, CheckCount, CheckSum, CommitPublish, ReadTarget, CommitReassign,
          DeleteRows, At
    <3>4. AddVersion(a, artifact[a].version + 1, req[r].size, req[r].size)
      BY <3>1, <3>2, <3>3 DEF CommitUpdate
    <3>5. Ledger!AddVersion(a, artifact[a].version + 1, req[r].size, req[r].size)
      BY <3>4, SameQueries DEF AddVersion, Ledger!AddVersion
    <3>6. Ledger!Update(a, req[r].size)
      BY <2>1, <3>1, <3>2, <3>5, SameQueries DEF Ledger!Update
    <3>7. QED  BY <2>1, <3>1, <3>2, <3>6 DEF Ledger!LedgerNext
  <2>4. CASE Removed(r)
    <3> DEFINE a == req[r].art
    <3>1. a \in Artifacts /\ Remove(a)  BY <1>2, <2>4, WriterHas DEF Removed, At, FieldsOK
    <3>2. CASE a \in Live
      <4>1. Ledger!Delete(a)
        BY <3>1, <3>2, SameQueries DEF Ledger!Delete, Remove, Ledger!Remove
      <4>2. QED  BY <3>1, <4>1 DEF Ledger!LedgerNext
    <3>3. CASE a \notin Live
      <4>1. artifact[a] = None /\ rows[a] = {}  BY <3>1, <3>3 DEF Live, NoOrphanRows
      <4>2. QED  BY <3>1, <4>1 DEF Remove
    <3>4. QED  BY <3>2, <3>3
  <2>5. QED  BY <1>2, <2>2, <2>3, <2>4, PlainWrites
<1>3. QED  BY <1>1, <1>2, Commits DEF Ledger!ledger

\* tools.py:285-289, DESIGN_NOTES.md:43-47: where nothing is reassigned or cleaned up, the
\* interleaved calls change the tables as if each had run alone: every quota and every
\* base_version check it passed holds of the tables its commit writes.
THEOREM CallsAreAtomic == ASSUME Undisturbed PROVE Spec => ActsLikeLedger
<1>1. StayingPut  BY DEF Undisturbed, StayingPut
<1>2. Init => Sized /\ Ledger!NoArtifacts
  BY DEF Init, Idle, Sized, NoArtifacts, Ledger!NoArtifacts
<1>3. TypeOK /\ FieldsOK /\ Sized /\ [Next]_vars => Sized'  BY SizedKept
<1>4. LedgerInv /\ [Next]_vars => [Ledger!LedgerNext]_(Ledger!ledger)  BY LedgerStep
<1>5. Spec => []LedgerInv
  <2>1. Spec => [](UpdateInv /\ PlainCalls)  BY HistoryHolds, PTL
  <2>2. Spec => []Affords  BY <1>1, BytesHold, PTL
  <2>3. Spec => []Sized  BY <1>2, <1>3, TypeCorrect, PTL DEF Spec
  <2>4. QED  BY <2>1, <2>2, <2>3, CountHolds, RowsKnown, OrphansNever, PTL DEF LedgerInv
<1>6. QED  BY <1>2, <1>4, <1>5, PTL DEF Spec, ActsLikeLedger, Ledger!LedgerSpec

=============================================================================
