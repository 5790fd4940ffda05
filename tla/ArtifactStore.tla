--------------------------- MODULE ArtifactStore ---------------------------
(***************************************************************************)
(* Artifacts, their versions and the per-connection quotas:                *)
(* src/renderdesk/tools.py, quotas.py and versions.py.                     *)
(*                                                                         *)
(* Every request is a coroutine of one asyncio process; it yields at each  *)
(* `await`, so each action below is the code between two awaits.  A SELECT *)
(* outside a write transaction sees the latest committed rows, and the     *)
(* first INSERT, UPDATE or DELETE starts SQLite's single write transaction,*)
(* so everything from the first write of a handler to its COMMIT is one    *)
(* step.  What a handler read earlier stays in its ORM object: `seen`.     *)
(***************************************************************************)
EXTENDS ArtifactTables

CONSTANTS
    Requests,        \* coroutines: one HTTP or MCP call each, reused
    Users, UserOf,   \* Connection.user_id never changes
    VersionBound,    \* model bound: no update past this version
    Workload         \* the kinds of calls the environment makes

Kinds == {"publish", "update", "reassign", "delete", "deleteVersion", "prune", "revoke"}

ASSUME ConnectionsAssumption == UserOf \in [Connections -> Users]
ASSUME BoundAssumption       == VersionBound \in Nat \ {0}
ASSUME WorkloadAssumption    == Workload \subseteq Kinds
ASSUME NoneAssumption        == None \notin Requests \cup Connections \cup Artifacts

VARIABLES
    active,   \* connections with revoked_at NULL
    lock,     \* quotas._connection_locks: holder of each asyncio.Lock, or None
    req       \* what each coroutine is doing and has read

vars == <<artifact, rows, fresh, active, lock, req>>

Stages     == {"idle", "target", "lock", "read", "count", "sum", "commit", "rows"}
Request    == [op : Kinds \cup {None}, at : Stages, conn : Connections \cup {None},
               art : Artifacts \cup {None}, size : Nat, ver : Nat, seen : Row \cup {None}]

Idle == [op |-> None, at |-> "idle", conn |-> None, art |-> None,
         size |-> 0, ver |-> 0, seen |-> None]

-----------------------------------------------------------------------------
Begin(r, q)    == req' = [req EXCEPT ![r] = q]
Goto(r, stage) == req' = [req EXCEPT ![r].at = stage] /\ UNCHANGED <<artifact, rows, fresh, active, lock>>

\* The call returns or raises: `async with quota_lock` releases either way.
Finish(r) == /\ req' = [req EXCEPT ![r] = Idle]
             /\ lock' = [c \in Connections |-> IF lock[c] = r THEN None ELSE lock[c]]
             /\ UNCHANGED active
\* Mutated form: a manual acquire and release, with no release on the error path.
RejectKeepingLock(r) == /\ req' = [req EXCEPT ![r] = Idle]
                        /\ UNCHANGED <<artifact, rows, fresh, active, lock>>
Reject(r) == Finish(r) /\ UNCHANGED <<artifact, rows, fresh>>

At(r, stage) == req[r].at = stage
Accepts(r, op) == At(r, "idle") /\ op \in Workload

-----------------------------------------------------------------------------
(* publish_artifact, update_artifact: the caller's connection is locked.   *)

StartPublish(r, c, s) ==
    /\ Accepts(r, "publish") /\ c \in active
    /\ Begin(r, [Idle EXCEPT !.op = "publish", !.at = "lock", !.conn = c, !.size = s])
    /\ UNCHANGED <<artifact, rows, fresh, active, lock>>

StartUpdate(r, c, a, base, s) ==
    /\ Accepts(r, "update") /\ c \in active /\ a \notin fresh
    /\ Begin(r, [Idle EXCEPT !.op = "update", !.at = "lock", !.conn = c,
                             !.art = a, !.ver = base, !.size = s])
    /\ UNCHANGED <<artifact, rows, fresh, active, lock>>

\* Mutated form: quota_lock handing out a new lock on every call.
AcquireUnshared(r) ==
    /\ At(r, "lock")
    /\ lock' = [lock EXCEPT ![req[r].conn] = r]
    /\ req' = [req EXCEPT ![r].at = IF req[r].op = "update" THEN "read" ELSE "count"]
    /\ UNCHANGED <<artifact, rows, fresh, active>>

Acquire(r) ==
    /\ At(r, "lock") /\ lock[req[r].conn] = None
    /\ lock' = [lock EXCEPT ![req[r].conn] = r]
    /\ req' = [req EXCEPT ![r].at = IF req[r].op = "update" THEN "read" ELSE "count"]
    /\ UNCHANGED <<artifact, rows, fresh, active>>

\* get_owned_artifact, the base_version check and the size limit.
OwnsUnscoped(r) == req[r].art \in Live             \* mutated: no connection_id in the query
OwnsIt(r)       == req[r].art \in Owned(req[r].conn)

BaseIsAnything(r) == TRUE                          \* mutated: no base_version check
BaseIsCurrent(r)  == artifact[req[r].art].version = req[r].ver

ReadForUpdate(r) ==
    /\ At(r, "read")
    /\ LET a == req[r].art IN
       IF /\ OwnsIt(r) /\ BaseIsCurrent(r)
          /\ req[r].size <= MaxBytesPerArtifact
       THEN /\ req' = [req EXCEPT ![r].at = "sum", ![r].seen = artifact[a]]
            /\ UNCHANGED <<artifact, rows, fresh, active, lock>>
       ELSE Reject(r)

\* check_new_artifact_quota awaits two SELECTs: the count, then the sum.
CountFitsOffByOne(r) == Cardinality(Owned(req[r].conn)) <= MaxArtifactsPerConnection
CountFits(r) == Cardinality(Owned(req[r].conn)) < MaxArtifactsPerConnection

CheckCount(r) ==
    /\ At(r, "count")
    /\ IF req[r].size <= MaxBytesPerArtifact /\ CountFits(r) THEN Goto(r, "sum") ELSE Reject(r)

\* Mutated form: the quota as it was before versions were counted (quotas.py:90-94).
BytesFitCurrentOnly(r) ==
    MapThenSumSet(LAMBDA a : artifact[a].size, Owned(req[r].conn)) + req[r].size
        <= MaxTotalBytesPerConnection
BytesFit(r) == StoredBytes(req[r].conn) + req[r].size <= MaxTotalBytesPerConnection

CheckSum(r) ==
    /\ At(r, "sum")
    /\ IF BytesFit(r) THEN Goto(r, "commit") ELSE Reject(r)

CommitPublish(r) ==
    /\ At(r, "commit") /\ req[r].op = "publish"
    /\ \/ \E a \in fresh : Insert(a, req[r].conn, req[r].size)
       \/ fresh = {} /\ UNCHANGED <<artifact, rows, fresh>>   \* model bound: the pool is used up
    /\ Finish(r)

\* The flush writes only the columns the handler changed.  A row that is gone
\* (StaleDataError) or a version number already stored (the unique constraint)
\* fails the transaction.
CommitUpdate(r) ==
    /\ At(r, "commit") /\ req[r].op = "update"
    /\ LET a == req[r].art
           v == req[r].seen.version + 1
       IN IF a \in Live /\ v \notin VersionsOf(a)
          THEN /\ AddVersion(a, v, req[r].size,
                     IF req[r].size = req[r].seen.size THEN artifact[a].size ELSE req[r].size)
               /\ Finish(r)
          ELSE Reject(r)

-----------------------------------------------------------------------------
(* reassign_artifact_connection: artifact and target are read before the   *)
(* target's lock is awaited.                                               *)

StartReassign(r, a, target) ==
    /\ Accepts(r, "reassign") /\ a \in Live /\ target # artifact[a].owner
    /\ Begin(r, [Idle EXCEPT !.op = "reassign", !.at = "target", !.conn = target,
                             !.art = a, !.seen = artifact[a], !.size = artifact[a].size])
    /\ UNCHANGED <<artifact, rows, fresh, active, lock>>

TargetIsAnyones(r) == TRUE                         \* mutated: no user_id in the query
TargetIsOurs(r) == UserOf[req[r].conn] = UserOf[req[r].seen.owner]

ReadTarget(r) ==
    /\ At(r, "target")
    /\ IF req[r].conn \in active /\ TargetIsOurs(r) THEN Goto(r, "lock") ELSE Reject(r)

CommitReassign(r) ==
    /\ At(r, "commit") /\ req[r].op = "reassign"
    /\ IF req[r].art \in Live
       THEN /\ artifact' = [artifact EXCEPT ![req[r].art].owner = req[r].conn]
            /\ UNCHANGED <<rows, fresh>>
            /\ Finish(r)
       ELSE Reject(r)

-----------------------------------------------------------------------------
(* delete_artifact and admin_delete_artifact, delete_version and           *)
(* prune_old_versions: one ownership read, then one write transaction.     *)

StartDelete(r, a) ==
    /\ Accepts(r, "delete") /\ a \in Live
    /\ Begin(r, [Idle EXCEPT !.op = "delete", !.at = "rows", !.art = a])
    /\ UNCHANGED <<artifact, rows, fresh, active, lock>>

StartDeleteVersion(r, a, v) ==
    /\ Accepts(r, "deleteVersion") /\ a \in Live /\ v # artifact[a].version
    /\ Begin(r, [Idle EXCEPT !.op = "deleteVersion", !.at = "rows", !.art = a, !.ver = v])
    /\ UNCHANGED <<artifact, rows, fresh, active, lock>>

StartPrune(r, a) ==
    /\ Accepts(r, "prune") /\ a \in Live
    /\ Begin(r, [Idle EXCEPT !.op = "prune", !.at = "rows", !.art = a, !.ver = artifact[a].version])
    /\ UNCHANGED <<artifact, rows, fresh, active, lock>>

\* The versions a dashboard clean-up removes, from what it was told or read.
Doomed(r) == IF req[r].op = "prune" THEN VersionsOf(req[r].art) \ {req[r].ver}
                                    ELSE {req[r].ver}

DeleteRows(r) ==
    /\ At(r, "rows")
    /\ LET a == req[r].art IN
       IF req[r].op = "delete"
       THEN Remove(a)
       ELSE /\ rows' = [rows EXCEPT ![a] = {v \in @ : v.version \notin Doomed(r)}]
            /\ UNCHANGED <<artifact, fresh>>
    /\ Finish(r)

-----------------------------------------------------------------------------
\* Any await may raise: the write lock stays busy past busy_timeout, the client leaves.
Abort(r) == ~At(r, "idle") /\ Reject(r)

Revoke(c) == /\ "revoke" \in Workload /\ c \in active
             /\ active' = active \ {c}
             /\ UNCHANGED <<artifact, rows, fresh, lock, req>>

\* The process dies: locks and coroutines are gone, committed rows are not.
Restart == /\ lock' = [c \in Connections |-> None]
           /\ req' = [r \in Requests |-> Idle]
           /\ UNCHANGED <<artifact, rows, fresh, active>>

Init == /\ NoArtifacts
        /\ active = Connections
        /\ lock = [c \in Connections |-> None]
        /\ req = [r \in Requests |-> Idle]

Start(r) == \/ \E c \in Connections, s \in Sizes : StartPublish(r, c, s)
            \/ \E c \in Connections, a \in Artifacts, base \in 1..VersionBound - 1, s \in Sizes :
                 StartUpdate(r, c, a, base, s)
            \/ \E a \in Artifacts, c \in Connections : StartReassign(r, a, c)
            \/ \E a \in Artifacts : StartDelete(r, a) \/ StartPrune(r, a)
            \/ \E a \in Artifacts, v \in 1..VersionBound : StartDeleteVersion(r, a, v)

Step(r) == \/ ReadForUpdate(r) \/ CheckCount(r) \/ CheckSum(r)
           \/ CommitPublish(r) \/ CommitUpdate(r)
           \/ ReadTarget(r) \/ CommitReassign(r)
           \/ DeleteRows(r)

Next == \/ \E r \in Requests : Start(r) \/ Acquire(r) \/ Step(r) \/ Abort(r)
        \/ \E c \in Connections : Revoke(c)
        \/ Restart

Spec == Init /\ [][Next]_vars

\* The event loop resumes every runnable coroutine, and asyncio.Lock wakes its
\* waiters in order.  Nothing obliges clients to call, to abort or to restart.
Fairness == \A r \in Requests : WF_vars(Step(r)) /\ SF_vars(Acquire(r))

FairSpec == Spec /\ Fairness

-----------------------------------------------------------------------------
TypeOK == /\ TablesOK
          /\ active \subseteq Connections
          /\ lock \in [Connections -> Requests \cup {None}]
          /\ req \in [Requests -> Request]

\* quotas.py:67: no interleaving of publishes, reassignments, updates, deletes and
\* restarts gives a connection more than max_artifacts_per_connection artifacts.
ArtifactCountBounded ==
    \A c \in Connections : Cardinality(Owned(c)) <= MaxArtifactsPerConnection

\* quotas.py:74,96: what a connection stores, every retained version included,
\* stays within max_total_bytes_per_connection.
BytesBounded == \A c \in Connections : StoredBytes(c) <= MaxTotalBytesPerConnection

\* tools.py:327-353: retention caps the version rows of an artifact, whoever updates it.
VersionRowsBounded == \A a \in Artifacts : Cardinality(rows[a]) <= MaxVersionsPerArtifact

\* versions.py:71-74: the current version of a live artifact always has its row.
CurrentVersionStored == \A a \in Live : artifact[a].version \in VersionsOf(a)

\* quotas.py:41-43: an artifact that is gone left no version row behind, even when an
\* update or a clean-up was in flight as it went.
NoOrphanRows == \A a \in Artifacts \ Live : rows[a] = {}

\* tools.py:285-289: content is replaced only by an update whose base_version is
\* the version it replaces, so two updates of the same base never both win.
UpdateReplacesItsBase ==
    \A r \in Requests :
        LET a == req[r].art IN
        /\ req[r].op = "update" /\ req'[r] # req[r]
        /\ artifact'[a] # artifact[a]
        => artifact[a].version = req[r].ver /\ artifact'[a].version = req[r].ver + 1
NoLostUpdate == [][UpdateReplacesItsBase]_vars

\* tools.py:179-202: a reassignment moves an artifact between the connections
\* of one user; no sequence of calls hands it to another user.
UserKept == [][\A a \in Artifacts : artifact[a] # None /\ artifact'[a] # None
                    => UserOf[artifact'[a].owner] = UserOf[artifact[a].owner]]_vars

\* An update writes only through the connection that owned the artifact when it
\* was checked: no other connection's content is replaced.
OwnerWrites == [][\A r \in Requests : LET a == req[r].art IN
                    /\ req[r].op = "update" /\ req'[r] # req[r] /\ artifact'[a] # artifact[a]
                    => artifact[a].owner = req[r].conn]_vars

\* Every call ends, whatever the others do: no request waits on a lock forever.
CallsEnd == \A r \in Requests : ~At(r, "idle") ~> At(r, "idle")

-----------------------------------------------------------------------------
\* tools.py:285-289, DESIGN_NOTES.md:43-47: the interleaved calls change the tables
\* as if each had run alone, quota and base_version checks included.  The mapping
\* keeps the tables and hides locks, revocations and coroutines.
Ledger == INSTANCE ArtifactLedger WITH artifact <- artifact, rows <- rows, fresh <- fresh
ActsLikeLedger == Ledger!LedgerSpec

=============================================================================
