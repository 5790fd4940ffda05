------------------------------ MODULE Startup ------------------------------
(***************************************************************************)
(* app.py: what a new container does to the database before it serves, on *)
(* whatever the previous one left: _run_migrations, the two revisions and  *)
(* the lifespan around them.  Alembic commits schema statements as they    *)
(* run; a revision's number is committed with its last data statement.     *)
(***************************************************************************)
EXTENDS Integers

CONSTANTS
    Statements,    \* the create_table and create_index calls of 0009
    Rows,          \* rows of artifact_versions, written or not
    MaxTries,      \* range(5) in _run_migrations
    MaxCrashes,    \* model bound on the times the process is killed
    None

ASSUME StartupAssumption == /\ Statements \in Nat \ {0} /\ MaxTries \in Nat \ {0}
                            /\ MaxCrashes \in Nat
ASSUME NoneAssumption == None \notin {"0009", "0010", "us", "old"}

VARIABLES
    tables,     \* how many statements of 0009 have taken effect
    revision,   \* alembic_version: None, "0009" or "0010"
    column,     \* artifact_versions.byte_size exists
    size,       \* byte_size of each row
    old,        \* the previous container, an image without 0010, still runs
    writer,     \* who holds the database's write lock: None, "us" or "old"
    boot,       \* where the new container is
    crashes

host    == <<tables, revision, column, size, old, writer>>
startup == <<host, boot, crashes>>

Stages == {"down", "heads", "baseline", "inspect", "alter", "backfill", "bump", "ensure", "serving"}
Stage(at, try) == [at |-> at, try |-> try, done |-> 0, touched |-> {}]
Down    == Stage("down", 0)
Goto(at) == boot' = [boot EXCEPT !.at = at]
Die     == boot' = Down      \* the error leaves lifespan: uvicorn exits

At(stage) == boot.at = stage
Serving   == At("serving")
Unsized(r) == size[r] = "null"

-----------------------------------------------------------------------------
(* The hosts an image is started on: a fresh one, any published image, this one. *)

Fresh  == /\ tables = 0 /\ revision = None /\ column = FALSE /\ old = FALSE
          /\ size = [r \in Rows |-> "none"]
At0009 == /\ tables = Statements /\ revision = "0009" /\ column = FALSE /\ old \in BOOLEAN
          /\ size \in [Rows -> {"none", "null"}]
At0010 == /\ tables = Statements /\ revision = "0010" /\ column = TRUE /\ old = FALSE
          /\ size \in [Rows -> {"none", "known"}]

Deployed == /\ Fresh \/ At0009 \/ At0010
            /\ writer = None /\ boot = Down /\ crashes = 0

-----------------------------------------------------------------------------
(* _run_migrations: command.upgrade(..., "head") *)

\* The container runtime starts the image, after a failed start as well.
Begin == At("down") /\ boot' = Stage("heads", 1) /\ UNCHANGED <<host, crashes>>

ReadHeads == /\ At("heads")
             /\ Goto(CASE revision = None -> "baseline" [] revision = "0009" -> "inspect" [] OTHER -> "ensure")
             /\ UNCHANGED <<host, crashes>>

\* The next statement of 0009.  A table that exists is an error no retry is for.
Statement == /\ At("baseline") /\ boot.done < Statements
             /\ \/ boot.done < tables /\ Die /\ UNCHANGED tables
                \/ /\ boot.done >= tables /\ tables' = tables + 1
                   /\ boot' = [boot EXCEPT !.done = @ + 1]
             /\ UNCHANGED <<revision, column, size, old, writer, crashes>>

Stamp == /\ At("baseline") /\ boot.done = Statements /\ writer = None
         /\ revision' = "0009" /\ Goto("inspect")
         /\ UNCHANGED <<tables, column, size, old, writer, crashes>>

\* 0010 adds its column unless an interrupted run has (mutated first: it just adds it).
InspectNothing == At("inspect") /\ Goto("alter") /\ UNCHANGED <<host, crashes>>
Inspect == At("inspect") /\ Goto(IF column THEN "backfill" ELSE "alter") /\ UNCHANGED <<host, crashes>>

Alter == /\ At("alter") /\ writer = None
         /\ \/ column /\ Die /\ UNCHANGED column
            \/ ~column /\ column' = TRUE /\ Goto("backfill")
         /\ UNCHANGED <<tables, revision, size, old, writer, crashes>>

\* The UPDATE opens the transaction and holds the write lock until the commit
\* (mutated first: it commits on its own).
BackfillCommits == /\ At("backfill") /\ writer = None /\ UNCHANGED writer
                   /\ boot' = [boot EXCEPT !.at = "bump", !.touched = {r \in Rows : Unsized(r)}]
                   /\ UNCHANGED <<tables, revision, column, size, old, crashes>>
Backfill == /\ At("backfill") /\ writer = None /\ writer' = "us"
            /\ boot' = [boot EXCEPT !.at = "bump", !.touched = {r \in Rows : Unsized(r)}]
            /\ UNCHANGED <<tables, revision, column, size, old, crashes>>

\* Alembic's version row and the commit.
Bump == /\ At("bump") /\ writer # "old"
        /\ size' = [r \in Rows |-> IF r \in boot.touched THEN "known" ELSE size[r]]
        /\ revision' = "0010" /\ writer' = None
        /\ boot' = [boot EXCEPT !.at = "ensure", !.touched = {}]
        /\ UNCHANGED <<tables, column, old, crashes>>

\* "database is locked" on the given attempt: four more tries (mutated first: an end
\* that is no error, and no end at all).
AfterLockFallsOut(try) == IF try < MaxTries THEN Stage("heads", try + 1) ELSE Stage("ensure", try)
AfterLockForever(try)  == Stage("heads", try + 1)
AfterLock(try)         == IF try < MaxTries THEN Stage("heads", try + 1) ELSE Down
Locked == /\ boot.at \in {"alter", "backfill", "bump"} /\ writer = "old"
          /\ boot' = AfterLock(boot.try)
          /\ UNCHANGED <<host, crashes>>

\* ensure_auth_scheme, which SignIn models, agrees; the lifespan yields.
Serve == At("ensure") /\ Goto("serving") /\ UNCHANGED <<host, crashes>>

Migrate == \/ ReadHeads \/ Statement \/ Stamp \/ Inspect \/ Alter
           \/ Backfill \/ Bump \/ Locked

\* The process ends at any point; its open transaction is rolled back.
Crash == /\ ~At("down") /\ crashes < MaxCrashes /\ crashes' = crashes + 1
         /\ boot' = Down /\ writer' = IF writer = "us" THEN None ELSE writer
         /\ UNCHANGED <<tables, revision, column, size, old>>

-----------------------------------------------------------------------------
(* Rows written meanwhile *)

\* publish_artifact and update_artifact of this image set byte_size.
NewInserts(r) == /\ Serving /\ writer = None /\ size[r] = "none"
                 /\ size' = [size EXCEPT ![r] = "known"]
                 /\ UNCHANGED <<tables, revision, column, old, writer, boot, crashes>>

\* The previous image's INSERT does not name a column it does not know.
OldBegins     == old /\ writer = None /\ writer' = "old"
                 /\ UNCHANGED <<tables, revision, column, size, old, boot, crashes>>
OldInserts(r) == /\ writer = "old" /\ writer' = None
                 /\ size[r] = "none" /\ size' = [size EXCEPT ![r] = "null"]
                 /\ UNCHANGED <<tables, revision, column, old, boot, crashes>>
OldRollsBack  == writer = "old" /\ writer' = None
                 /\ UNCHANGED <<tables, revision, column, size, old, boot, crashes>>
OldStops      == /\ old /\ old' = FALSE /\ writer' = IF writer = "old" THEN None ELSE writer
                 /\ UNCHANGED <<tables, revision, column, size, boot, crashes>>

OldContainer == OldBegins \/ (\E r \in Rows : OldInserts(r)) \/ OldRollsBack \/ OldStops

-----------------------------------------------------------------------------
BootRecord == [at : Stages, try : 0..MaxTries, done : 0..Statements, touched : SUBSET Rows]
HostOK == /\ tables \in 0..Statements
          /\ revision \in {None, "0009", "0010"} /\ column \in BOOLEAN
          /\ size \in [Rows -> {"none", "null", "known"}]
          /\ old \in BOOLEAN /\ writer \in {None, "us", "old"}
          /\ boot \in BootRecord
          /\ crashes \in 0..MaxCrashes

\* app.py:64-81, with the commits Alembic makes: whatever was interrupted, locked
\* out and retried, the recorded revision is never ahead of the schema, and nothing
\* is served from a schema behind the code.
RevisionHonest == /\ revision # None => tables = Statements
                  /\ revision = "0010" => column
                  /\ Serving => revision = "0010"

\* 0010:37-42: the step that records 0010 leaves no row without a size, rows the
\* previous container wrote during the upgrade included; only that container
\* writes such a row afterwards.
SizesKnown == [][\A r \in Rows : revision' = "0010" /\ size'[r] = "null"
                     => revision = "0010" /\ (Unsized(r) \/ writer = "old")]_startup

\* A host whose very first start died inside 0009.
HalfCreated == revision = None /\ tables > 0

\* 0010:35-42: an upgrade interrupted anywhere ends in a server once the previous
\* container is gone; a first installation interrupted inside 0009 does not.
UpgradeEnds == At("down") ~> (Serving \/ (HalfCreated /\ At("down")))

=============================================================================
