--------------------------- MODULE Server_proofs ---------------------------
(***************************************************************************)
(* Theorems about Server, for any number of statements, tries, crashes,    *)
(* calls, addresses and rules, and about the pages of its Site.            *)
(***************************************************************************)
EXTENDS Site, View_proofs

USE DEF host, startup, limits

-----------------------------------------------------------------------------
(* Types *)

LEMMA DownTyped == Down \in BootRecord
  BY StartupAssumption DEF Down, Stage, Stages, BootRecord

LEMMA HostInit == Deployed => HostOK
<1> SUFFICES ASSUME Deployed  PROVE HostOK
  OBVIOUS
<1>1. /\ tables \in 0..Statements /\ revision \in {None, "0009", "0010"}
      /\ size \in [Rows -> {"none", "null", "known"}]
  BY StartupAssumption DEF Deployed, Fresh, At0009, At0010
<1>2. column \in BOOLEAN /\ old \in BOOLEAN
  BY DEF Deployed, Fresh, At0009, At0010
<1>3. writer = None /\ boot = Down /\ crashes \in 0..MaxCrashes
  BY StartupAssumption DEF Deployed
<1>4. QED  BY <1>1, <1>2, <1>3, DownTyped DEF HostOK

LEMMA HostStep ==
  ASSUME HostOK, Begin \/ Migrate \/ Serve \/ Crash \/ OldContainer \/ \E r \in Rows : NewInserts(r)
  PROVE  HostOK'
<1> USE StartupAssumption DEF HostOK, BootRecord
<1>1. CASE Begin
  <2>1. Stage("heads", 1) \in BootRecord
    BY DEF Stage, Stages
  <2>2. QED  BY <1>1, <2>1 DEF Begin
<1>2. CASE ReadHeads
  <2>1. ASSUME NEW at \in Stages, Goto(at)  PROVE boot' \in BootRecord
    BY <2>1 DEF Goto
  <2>2. QED  BY <1>2, <2>1 DEF ReadHeads, Stages
<1>3. CASE Statement
  <2>1. CASE Die /\ UNCHANGED tables  BY <1>3, <2>1, DownTyped DEF Statement, Die
  <2>2. CASE boot.done >= tables /\ tables' = tables + 1 /\ boot' = [boot EXCEPT !.done = @ + 1]
    <3>1. boot' \in BootRecord
      BY <1>3, <2>2 DEF Statement
    <3>2. tables' \in 0..Statements  BY <1>3, <2>2 DEF Statement
    <3>3. QED  BY <1>3, <3>1, <3>2 DEF Statement
  <2>3. QED  BY <1>3, <2>1, <2>2 DEF Statement
<1>4. CASE Stamp  BY <1>4 DEF Stamp, Goto, Stages
<1>5. CASE Inspect  BY <1>5 DEF Inspect, Goto, Stages
<1>6. CASE Alter
  <2>1. CASE Die /\ UNCHANGED column  BY <1>6, <2>1, DownTyped DEF Alter, Die
  <2>2. CASE column' = TRUE /\ Goto("backfill")  BY <1>6, <2>2 DEF Alter, Goto, Stages
  <2>3. QED  BY <1>6, <2>1, <2>2 DEF Alter
<1>7. CASE Backfill  BY <1>7 DEF Backfill, Stages
<1>8. CASE Bump  BY <1>8 DEF Bump, Stages
<1>9. CASE Locked
  <2>1. AfterLock(boot.try) \in BootRecord
    <3>1. boot.try \in 0..MaxTries  OBVIOUS
    <3>2. CASE boot.try < MaxTries  BY <3>1, <3>2 DEF AfterLock, Stage, Stages
    <3>3. CASE ~(boot.try < MaxTries)  BY <3>3, DownTyped DEF AfterLock
    <3>4. QED  BY <3>2, <3>3
  <2>2. QED  BY <1>9, <2>1 DEF Locked
<1>10. CASE Serve  BY <1>10 DEF Serve, Goto, Stages
<1>11. CASE Crash  BY <1>11, DownTyped DEF Crash
<1>12. CASE OldContainer
  BY <1>12 DEF OldContainer, OldBegins, OldInserts, OldRollsBack, OldStops
<1>13. CASE \E r \in Rows : NewInserts(r)  BY <1>13 DEF NewInserts
<1>14. QED  BY <1>1, <1>2, <1>3, <1>4, <1>5, <1>6, <1>7, <1>8, <1>9, <1>10, <1>11, <1>12, <1>13 DEF Migrate

LEMMA RecordTyped ==
  ASSUME now \in 0..MaxTime, NEW c \in Calls, NEW entries \in SUBSET Entry
  PROVE  Record(c, entries) \in SUBSET Entry
  BY ClockAssumption DEF Record, Entry

LEMMA DispatchTyped ==
  ASSUME LimitsOK, NEW c \in Calls, NEW k \in Keys, Dispatch(c, k)
  PROVE  LimitsOK'
<1> USE DEF LimitsOK
<1>1. Recent(k) \in SUBSET Entry  BY DEF Recent
<1>2. Record(c, Recent(k)) \in SUBSET Entry  BY <1>1, RecordTyped
<1>3. attempts' \in [Keys -> SUBSET Entry]
  BY <1>1, <1>2 DEF Dispatch, Refuse, Count, CountLater
<1>4. call' \in [Calls -> {Waiting} \cup [at : Fates, key : Keys]]
  BY DEF Dispatch, Refuse, Count, CountLater, Becomes, Fates
<1>5. QED  BY <1>3, <1>4 DEF Dispatch

\* A call inside has its key.
LEMMA InsideHasKey ==
  ASSUME LimitsOK, NEW c \in Calls, call[c].at = "inside"
  PROVE  call[c] \in [at : Fates, key : Keys]
  BY DEF LimitsOK, Waiting

LEMMA AnswerTyped ==
  ASSUME LimitsOK, NEW c \in Calls, Answer(c)
  PROVE  LimitsOK'
<1> USE DEF LimitsOK
<1> DEFINE k == call[c].key
<1>1. k \in Keys /\ call[c] \in [at : Fates, key : Keys]  BY InsideHasKey DEF Answer
<1>2. Record(c, attempts[k]) \in SUBSET Entry  BY <1>1, RecordTyped
<1>3. attempts' \in [Keys -> SUBSET Entry]  BY <1>2 DEF Answer
<1>4. call' \in [Calls -> {Waiting} \cup [at : Fates, key : Keys]]  BY <1>1 DEF Answer, Fates
<1>5. QED  BY <1>3, <1>4 DEF Answer

LEMMA ForgetTyped == LimitsOK /\ Forget => LimitsOK'
<1> SUFFICES ASSUME LimitsOK, Forget  PROVE LimitsOK'
  OBVIOUS
<1>1. ASSUME NEW c \in Calls  PROVE call'[c] \in {Waiting} \cup [at : Fates, key : Keys]
  BY InsideHasKey DEF Forget, LimitsOK, Fates
<1>2. QED  BY <1>1 DEF Forget, LimitsOK

LEMMA TypeInit == Init => TypeOK
<1> SUFFICES ASSUME Init  PROVE TypeOK
  OBVIOUS
<1>1. HostOK  BY HostInit DEF Init
<1>2. LimitsOK  BY ClockAssumption DEF Init, NoAttempts, LimitsOK
<1>3. QED  BY <1>1, <1>2 DEF Init, TypeOK, Sweeps

LEMMA TypeStep == TypeOK /\ [Next]_server => TypeOK'
<1> SUFFICES ASSUME TypeOK, [Next]_server  PROVE TypeOK'
  OBVIOUS
<1> USE DEF TypeOK, Sweeps
<1>1. CASE Boot  BY <1>1, HostStep DEF Boot, LimitsOK
<1>2. CASE ServerStarts  BY <1>2, HostStep DEF ServerStarts, LimitsOK
<1>3. CASE ServerEnds  BY <1>3, HostStep, ForgetTyped DEF ServerEnds
<1>4. CASE RowWritten  BY <1>4, HostStep DEF RowWritten, LimitsOK
<1>5. CASE Previous  BY <1>5, HostStep DEF Previous, LimitsOK
<1>6. CASE Request
  <2>1. HostOK'  BY <1>6 DEF Request, HostOK
  <2>2. LimitsOK'  BY <1>6, DispatchTyped, AnswerTyped DEF Request
  <2>3. QED  BY <1>6, <2>1, <2>2 DEF Request
<1>7. CASE ClockTicks  BY <1>7, ClockAssumption DEF ClockTicks, Tick, LimitsOK, HostOK
<1>8. CASE SweepsMemory
  BY <1>8 DEF SweepsMemory, SweepStaleAttempts, LimitsOK, HostOK
<1>9. CASE Wakes \/ SweepsOAuth \/ SweepsSessions \/ SweepFails
  BY <1>9 DEF Wakes, SweepsOAuth, SweepsSessions, SweepFails, LimitsOK, HostOK
<1>10. CASE UNCHANGED server  BY <1>10 DEF server, LimitsOK, HostOK
<1>11. QED  BY <1>1, <1>2, <1>3, <1>4, <1>5, <1>6, <1>7, <1>8, <1>9, <1>10 DEF Next, SweepLoop

\* The variables of a server always have the values app.py and rate_limit.py can give
\* them: no start makes more tries than _run_migrations allows.
THEOREM ServerTyped == Spec => []TypeOK
<1>1. QED  BY TypeInit, TypeStep, PTL DEF Spec

-----------------------------------------------------------------------------
(* The schema.  What a stage of the boot may rely on, and who holds the    *)
(* write lock while rows are being sized.                                  *)

\* How far the database is at each stage of a start.
StageKnows ==
    /\ boot.done <= tables
    /\ At("baseline") => revision = None
    /\ boot.at \in {"inspect", "alter", "backfill", "bump"} => revision = "0009"
    /\ boot.at \in {"backfill", "bump"} => column
    /\ boot.at \in {"ensure", "serving"} => revision = "0010"

\* The update of 0010 is not committed: nobody else writes, and it has every row
\* without a size.
SizingAlone == At("bump") => writer = "us" /\ boot.touched = {r \in Rows : Unsized(r)}

Recorded == /\ revision # None => tables = Statements
            /\ revision = "0010" => column

SchemaInv == HostOK /\ StageKnows /\ SizingAlone /\ Recorded

LEMMA SchemaInit == Deployed => SchemaInv
<1> SUFFICES ASSUME Deployed  PROVE SchemaInv
  OBVIOUS
<1>1. HostOK  BY HostInit
<1>2. boot.at = "down" /\ boot.done = 0  BY DEF Deployed, Down, Stage
<1>3. tables \in Nat  BY StartupAssumption DEF Deployed, Fresh, At0009, At0010
<1>4. StageKnows  BY <1>2, <1>3 DEF StageKnows, At
<1>5. SizingAlone  BY <1>2 DEF SizingAlone, At
<1>6. Recorded  BY NoneAssumption DEF Deployed, Fresh, At0009, At0010, Recorded
<1>7. QED  BY <1>1, <1>4, <1>5, <1>6 DEF SchemaInv

\* A process that ended says nothing about the database.
LEMMA DownKnows ==
  ASSUME boot' = Down, tables' \in 0..Statements
  PROVE  StageKnows' /\ SizingAlone'
<1>1. boot'.at = "down" /\ boot'.done = 0  BY DEF Down, Stage
<1>2. QED  BY <1>1, StartupAssumption DEF StageKnows, SizingAlone, At

LEMMA SchemaStep ==
  ASSUME SchemaInv, Begin \/ Migrate \/ Serve \/ Crash \/ OldContainer \/ \E r \in Rows : NewInserts(r)
  PROVE  SchemaInv'
<1>1. HostOK /\ HostOK'  BY HostStep DEF SchemaInv
<1>2. tables \in Nat /\ tables \in 0..Statements /\ boot \in BootRecord /\ boot.done \in Nat
  BY <1>1, StartupAssumption DEF HostOK, BootRecord
<1> SUFFICES StageKnows' /\ SizingAlone' /\ Recorded'
  BY <1>1 DEF SchemaInv
<1> USE NoneAssumption, StartupAssumption DEF SchemaInv, Recorded
<1>3. CASE Begin
  <2>1. boot'.at = "heads" /\ boot'.done = 0  BY <1>3 DEF Begin, Stage
  <2>2. QED  BY <1>2, <1>3, <2>1 DEF Begin, StageKnows, SizingAlone, At
<1>4. CASE ReadHeads
  <2> DEFINE at == CASE revision = None -> "baseline" [] revision = "0009" -> "inspect" [] OTHER -> "ensure"
  <2>1. boot'.at = at /\ boot'.done = boot.done  BY <1>2, <1>4 DEF ReadHeads, Goto, BootRecord
  <2>2. revision \in {None, "0009", "0010"}  BY <1>1 DEF HostOK
  <2>3. /\ revision = None => at = "baseline"
        /\ revision = "0009" => at = "inspect"
        /\ revision = "0010" => at = "ensure"
    OBVIOUS
  <2>4. QED  BY <1>2, <1>4, <2>1, <2>2, <2>3 DEF ReadHeads, StageKnows, SizingAlone, At
<1>5. CASE Statement
  <2>1. CASE Die /\ UNCHANGED tables  BY <1>2, <1>5, <2>1, DownKnows DEF Statement, Die
  <2>2. CASE boot.done >= tables /\ tables' = tables + 1 /\ boot' = [boot EXCEPT !.done = @ + 1]
    <3>1. boot'.at = boot.at /\ boot'.done = boot.done + 1  BY <1>2, <2>2 DEF BootRecord
    <3>2. revision = None /\ At("baseline")  BY <1>5 DEF Statement, StageKnows
    <3>3. QED  BY <1>2, <1>5, <2>2, <3>1, <3>2 DEF Statement, StageKnows, SizingAlone, At
  <2>3. QED  BY <1>5, <2>1, <2>2 DEF Statement
<1>6. CASE Stamp
  <2>1. boot'.at = "inspect" /\ boot'.done = boot.done  BY <1>2, <1>6 DEF Stamp, Goto, BootRecord
  <2>2. tables = Statements  BY <1>2, <1>6 DEF Stamp, StageKnows
  <2>3. QED  BY <1>2, <1>6, <2>1, <2>2 DEF Stamp, StageKnows, SizingAlone, At
<1>7. CASE Inspect
  <2>1. boot'.at = (IF column THEN "backfill" ELSE "alter") /\ boot'.done = boot.done
    BY <1>2, <1>7 DEF Inspect, Goto, BootRecord
  <2>2. QED  BY <1>2, <1>7, <2>1 DEF Inspect, StageKnows, SizingAlone, At
<1>8. CASE Alter
  <2>1. CASE Die /\ UNCHANGED column  BY <1>2, <1>8, <2>1, DownKnows DEF Alter, Die
  <2>2. CASE column' = TRUE /\ Goto("backfill")
    <3>1. boot'.at = "backfill" /\ boot'.done = boot.done  BY <1>2, <2>2 DEF Goto, BootRecord
    <3>2. QED  BY <1>2, <1>8, <2>2, <3>1 DEF Alter, StageKnows, SizingAlone, At
  <2>3. QED  BY <1>8, <2>1, <2>2 DEF Alter
<1>9. CASE Backfill
  <2>1. /\ boot'.at = "bump" /\ boot'.done = boot.done
        /\ boot'.touched = {r \in Rows : Unsized(r)}
    BY <1>2, <1>9 DEF Backfill, BootRecord
  <2>2. boot'.touched = {r \in Rows : Unsized(r)'}  BY <1>9, <2>1 DEF Backfill, Unsized
  <2>3. QED  BY <1>2, <1>9, <2>1, <2>2 DEF Backfill, StageKnows, SizingAlone, At
<1>10. CASE Bump
  <2>1. boot'.at = "ensure" /\ boot'.done = boot.done  BY <1>2, <1>10 DEF Bump, BootRecord
  <2>2. column /\ tables = Statements  BY <1>10 DEF Bump, StageKnows, At
  <2>3. QED  BY <1>2, <1>10, <2>1, <2>2 DEF Bump, StageKnows, SizingAlone, At
<1>11. CASE Locked
  <2>1. CASE boot.try < MaxTries
    <3>1. boot'.at = "heads" /\ boot'.done = 0  BY <1>11, <2>1 DEF Locked, AfterLock, Stage
    <3>2. QED  BY <1>2, <1>11, <3>1 DEF Locked, StageKnows, SizingAlone, At
  <2>2. CASE ~(boot.try < MaxTries)
    <3>1. boot' = Down  BY <1>11, <2>2 DEF Locked, AfterLock
    <3>2. QED  BY <1>2, <1>11, <3>1, DownKnows DEF Locked
  <2>3. QED  BY <2>1, <2>2
<1>12. CASE Serve
  <2>1. boot'.at = "serving" /\ boot'.done = boot.done  BY <1>2, <1>12 DEF Serve, Goto, BootRecord
  <2>2. QED  BY <1>2, <1>12, <2>1 DEF Serve, StageKnows, SizingAlone, At
<1>13. CASE Crash  BY <1>2, <1>13, DownKnows DEF Crash
<1>14. CASE OldContainer
  <2>1. /\ boot' = boot /\ tables' = tables /\ revision' = revision /\ column' = column
        /\ size' = size \/ writer = "old"
        /\ writer' = writer \/ (writer = "old" /\ writer' = None) \/ (writer = None /\ writer' = "old")
    BY <1>14 DEF OldContainer, OldBegins, OldInserts, OldRollsBack, OldStops
  <2>2. At("bump") => size' = size /\ writer' = writer  BY <2>1 DEF SizingAlone
  <2>3. SizingAlone'  BY <2>1, <2>2 DEF SizingAlone, At, Unsized
  <2>4. QED  BY <2>1, <2>3 DEF StageKnows, At
<1>15. CASE \E r \in Rows : NewInserts(r)
  BY <1>15 DEF NewInserts, StageKnows, SizingAlone, At, Serving
<1>16. QED
  BY <1>3, <1>4, <1>5, <1>6, <1>7, <1>8, <1>9, <1>10, <1>11, <1>12, <1>13, <1>14, <1>15 DEF Migrate

\* The other steps of a server leave the database and the boot alone.
LEMMA StartupMoves ==
  ASSUME [Next]_server
  PROVE  Begin \/ Migrate \/ Serve \/ Crash \/ OldContainer \/ (\E r \in Rows : NewInserts(r))
           \/ UNCHANGED startup
  BY DEF Next, server, Boot, ServerStarts, ServerEnds, RowWritten, Previous, Request, ClockTicks,
         SweepLoop, Wakes, SweepsOAuth, SweepsSessions, SweepsMemory, SweepFails

LEMMA SchemaNext == SchemaInv /\ [Next]_server => SchemaInv'
<1> SUFFICES ASSUME SchemaInv, [Next]_server  PROVE SchemaInv'
  OBVIOUS
<1>1. CASE UNCHANGED startup
  BY <1>1 DEF SchemaInv, HostOK, StageKnows, SizingAlone, Recorded, At, Unsized
<1>2. QED  BY <1>1, StartupMoves, SchemaStep

LEMMA SchemaHolds == Spec => []SchemaInv
<1>1. Init => SchemaInv  BY SchemaInit DEF Init
<1>2. QED  BY <1>1, SchemaNext, PTL DEF Spec

\* However often a start of app.py is locked out, killed and tried again, beside a
\* previous container or not, the recorded revision is never ahead of the schema
\* and no request is served from a schema behind the code.
THEOREM RevisionHonestHolds == Spec => []RevisionHonest
<1>1. SchemaInv => RevisionHonest
  BY DEF SchemaInv, Recorded, StageKnows, RevisionHonest, Serving, At
<1>2. QED  BY <1>1, SchemaHolds, PTL

\* Migration 0010 leaves no row without a size, however many rows there are and
\* whatever the previous container writes while it runs.
THEOREM SizesKnownHolds == Spec => SizesKnown
<1> DEFINE Sized == \A r \in Rows : revision' = "0010" /\ size'[r] = "null"
                      => revision = "0010" /\ (Unsized(r) \/ writer = "old")
<1>1. SchemaInv /\ [Next]_server => [Sized]_startup
  <2> SUFFICES ASSUME SchemaInv, [Next]_server, NEW r \in Rows, ~UNCHANGED startup,
                      revision' = "0010", size'[r] = "null"
               PROVE  revision = "0010" /\ (Unsized(r) \/ writer = "old")
    OBVIOUS
  <2> USE NoneAssumption
  <2>1. CASE Bump
    <3>1. r \in boot.touched <=> Unsized(r)  BY <2>1 DEF SchemaInv, SizingAlone, Bump
    <3>2. size'[r] = IF r \in boot.touched THEN "known" ELSE size[r]  BY <2>1 DEF Bump
    <3>3. FALSE  BY <3>1, <3>2 DEF Unsized
    <3>4. QED  BY <3>3
  <2>2. CASE OldContainer
    <3>1. revision' = revision /\ (size' = size \/ writer = "old")
      BY <2>2 DEF OldContainer, OldBegins, OldInserts, OldRollsBack, OldStops
    <3>2. QED  BY <3>1 DEF Unsized
  <2>3. CASE \E n \in Rows : NewInserts(n)
    <3>1. PICK n \in Rows : NewInserts(n)  BY <2>3
    <3>2. size \in [Rows -> {"none", "null", "known"}]  BY DEF SchemaInv, HostOK
    <3>3. size'[r] = "known" \/ size'[r] = size[r]  BY <3>1, <3>2 DEF NewInserts
    <3>4. QED  BY <3>1, <3>3 DEF NewInserts, Unsized
  <2>4. CASE Begin \/ Migrate \/ Serve \/ Crash
    <3>1. Bump \/ (size' = size /\ (revision' = revision \/ revision' = "0009"))
      BY <2>4 DEF Begin, Migrate, ReadHeads, Statement, Stamp, Inspect, Alter, Backfill, Locked,
                  Serve, Crash
    <3>2. QED  BY <2>1, <3>1 DEF Unsized
  <2>5. QED  BY <2>1, <2>2, <2>3, <2>4, StartupMoves
<1>2. QED  BY <1>1, SchemaHolds, PTL DEF Spec, SizesKnown

-----------------------------------------------------------------------------
(* The limits implement the budgets.  The budget of a key is what the      *)
(* window shows of its list; a server that is not up has neither lists nor *)
(* requests inside.                                                        *)

Quiet == ~Serving => /\ \A k \in Keys : attempts[k] = {}
                     /\ \A c \in Calls : call[c].at # "inside"

LimitInv == TypeOK /\ Quiet

Visible == [k \in Keys |-> Recent(k)]

\* Lifespan serves nothing before its last step, and that step begins it.
LEMMA BootServesNothing ==
  ASSUME HostOK, Begin \/ Migrate
  PROVE  ~Serving /\ ~Serving'
<1> USE DEF Serving, At
<1>1. boot \in BootRecord  BY DEF HostOK
<1>2. ~Serving
  BY DEF Begin, Migrate, ReadHeads, Statement, Stamp, Inspect, Alter, Backfill, Bump, Locked
<1>3. CASE boot' = Down \/ (\E try : boot' = Stage("heads", try))
  BY <1>2, <1>3 DEF Down, Stage
<1>4. CASE ReadHeads
  <2>1. boot'.at \in {"baseline", "inspect", "ensure"}  BY <1>1, <1>4 DEF ReadHeads, Goto, BootRecord
  <2>2. QED  BY <1>2, <2>1
<1>5. CASE Statement /\ boot' # Down  BY <1>1, <1>2, <1>5 DEF Statement, Die, BootRecord
<1>6. CASE Stamp \/ Inspect \/ (Alter /\ boot' # Down) \/ Backfill \/ Bump
  <2>1. boot'.at \in {"inspect", "backfill", "alter", "bump", "ensure"}
    BY <1>1, <1>6 DEF Stamp, Inspect, Alter, Backfill, Bump, Goto, Die, BootRecord
  <2>2. QED  BY <1>2, <2>1
<1>7. Begin \/ Locked => boot' = Down \/ (\E try : boot' = Stage("heads", try))
  BY DEF Begin, Locked, AfterLock
<1>8. QED  BY <1>3, <1>4, <1>5, <1>6, <1>7 DEF Migrate

LEMMA StartServes ==
  ASSUME HostOK, Serve
  PROVE  ~Serving /\ Serving'
  BY DEF Serve, Serving, At, Goto, HostOK, BootRecord

LEMMA CrashServesNothing == Crash => ~Serving'
  BY DEF Crash, Serving, At, Down, Stage

\* After the process ended nothing is remembered.
LEMMA ForgetIsQuiet ==
  ASSUME LimitsOK, Forget
  PROVE  /\ \A k \in Keys : attempts'[k] = {}
         /\ \A c \in Calls : call'[c].at # "inside"
<1>1. ASSUME NEW c \in Calls  PROVE call'[c].at # "inside"
  <2>1. CASE call[c].at = "inside"
    <3>1. call'[c] = [call[c] EXCEPT !.at = "gone"] /\ call[c] \in [at : Fates, key : Keys]
      BY <2>1, InsideHasKey DEF Forget
    <3>2. QED  BY <3>1
  <2>2. CASE call[c].at # "inside"  BY <2>2 DEF Forget
  <2>3. QED  BY <2>1, <2>2
<1>2. QED  BY <1>1 DEF Forget

LEMMA LimitInit == Init => LimitInv
  BY TypeInit DEF Init, NoAttempts, LimitInv, Quiet, Waiting

LEMMA LimitStep == LimitInv /\ [Next]_server => LimitInv'
<1> SUFFICES ASSUME LimitInv, [Next]_server  PROVE LimitInv'
  OBVIOUS
<1>1. TypeOK /\ TypeOK' /\ HostOK /\ LimitsOK  BY TypeStep DEF LimitInv, TypeOK
<1> SUFFICES Quiet'
  BY <1>1 DEF LimitInv
<1>2. CASE Boot  BY <1>1, <1>2, BootServesNothing DEF Boot, LimitInv, Quiet
<1>3. CASE ServerStarts  BY <1>1, <1>3, StartServes DEF ServerStarts, Quiet
<1>4. CASE ServerEnds  BY <1>1, <1>4, ForgetIsQuiet DEF ServerEnds, Quiet
<1>5. CASE RowWritten \/ Previous
  <2>1. boot' = boot /\ UNCHANGED limits
    BY <1>5 DEF RowWritten, NewInserts, Previous, OldContainer, OldBegins, OldInserts, OldRollsBack, OldStops
  <2>2. QED  BY <2>1 DEF LimitInv, Quiet, Serving, At
<1>6. CASE Request \/ ClockTicks
  BY <1>6 DEF Request, ClockTicks, Quiet, Serving, At
<1>7. CASE SweepsMemory
  BY <1>7 DEF SweepsMemory, SweepStaleAttempts, LimitInv, Quiet, Serving, At
<1>8. CASE Wakes \/ SweepsOAuth \/ SweepsSessions \/ SweepFails \/ UNCHANGED server
  BY <1>8 DEF Wakes, SweepsOAuth, SweepsSessions, SweepFails, server, LimitInv, Quiet, Serving, At
<1>9. QED  BY <1>2, <1>3, <1>4, <1>5, <1>6, <1>7, <1>8 DEF Next, SweepLoop

LEMMA LimitInvHolds == Spec => []LimitInv
<1>1. QED  BY LimitInit, LimitStep, PTL DEF Spec

\* An attempt recorded now is in every window, beside what the window showed.
LEMMA ChargeSeen ==
  ASSUME LimitsOK, NEW c \in Calls, NEW k \in Keys, NEW entries \in SUBSET Entry,
         {e \in entries : e.at > now - Window[k[1]]} = Recent(k),
         attempts' = [attempts EXCEPT ![k] = Record(c, entries)], now' = now
  PROVE  Visible' = [Visible EXCEPT ![k] = @ \cup {[of |-> c, at |-> now]}]
<1>1. now \in Int /\ Window[k[1]] \in Nat \ {0} /\ now > now - Window[k[1]]
  BY RulesAssumption, ClockAssumption DEF LimitsOK, Keys
<1>2. attempts'[k] = entries \cup {[of |-> c, at |-> now]}  BY DEF LimitsOK, Record
<1>3. Recent(k)' = Recent(k) \cup {[of |-> c, at |-> now]}  BY <1>1, <1>2 DEF Recent
<1>4. ASSUME NEW other \in Keys, other # k  PROVE Recent(other)' = Recent(other)
  BY <1>4 DEF Recent, LimitsOK
<1>5. QED  BY <1>3, <1>4 DEF Visible

\* Pruning a list changes nothing the window shows.
LEMMA PruneUnseen ==
  ASSUME LimitsOK, NEW k \in Keys, attempts' = [attempts EXCEPT ![k] = Recent(k)], now' = now
  PROVE  Visible' = Visible
<1>1. ASSUME NEW other \in Keys  PROVE Recent(other)' = Recent(other)
  <2>1. CASE other = k
    <3>1. attempts'[k] = Recent(k)  BY DEF LimitsOK
    <3>2. QED  BY <2>1, <3>1 DEF Recent
  <2>2. CASE other # k  BY <2>2 DEF Recent, LimitsOK
  <2>3. QED  BY <2>1, <2>2
<1>2. QED  BY <1>1 DEF Visible

\* The longest window is at least any other.
LEMMA LongestWindow ==
  ASSUME NEW b \in Buckets
  PROVE  MaxWindow \in Nat /\ Window[b] <= MaxWindow
<1> DEFINE Longest(x) == \A other \in Buckets : Window[other] <= Window[x]
           l == CHOOSE x \in Buckets : Longest(x)
<1>1. \E x \in Buckets : Longest(x)  BY LongestRuleAssumption
<1> HIDE DEF Longest
<1>2. l \in Buckets /\ Longest(l)  BY <1>1
<1> USE DEF Longest
<1>3. MaxWindow = Window[l]  BY DEF MaxWindow
<1>4. QED  BY <1>2, <1>3, RulesAssumption

\* What the sweep drops no window shows.
LEMMA SweepUnseen ==
  ASSUME LimitsOK, SweepStaleAttempts
  PROVE  Visible' = Visible
<1>1. ASSUME NEW k \in Keys  PROVE Recent(k)' = Recent(k)
  <2>1. CASE ~Stale(k)
    <3>1. attempts'[k] = attempts[k] /\ now' = now  BY <2>1 DEF SweepStaleAttempts
    <3>2. QED  BY <3>1 DEF Recent
  <2>2. CASE Stale(k)
    <3>1. attempts'[k] = {}  BY <2>2 DEF SweepStaleAttempts
    <3>2. MaxWindow \in Nat /\ Window[k[1]] \in Nat /\ Window[k[1]] <= MaxWindow /\ now \in Int
      BY LongestWindow, RulesAssumption, ClockAssumption DEF Keys, LimitsOK
    <3>3. ASSUME NEW e \in attempts[k]  PROVE ~(e.at > now - Window[k[1]])
      <4>1. e.at \in Int /\ e.at <= now - MaxWindow  BY <2>2, <3>3 DEF Stale, LimitsOK, Entry
      <4>2. QED  BY <3>2, <4>1
    <3>4. Recent(k) = {}  BY <3>3 DEF Recent
    <3>5. QED  BY <3>1, <3>4 DEF Recent
  <2>3. QED  BY <2>1, <2>2
<1>2. QED  BY <1>1 DEF Visible

-----------------------------------------------------------------------------
(* Lists are finite: they have a length to compare with a budget.          *)

Finite == \A k \in Keys : IsFiniteSet(attempts[k])

LEMMA RecordFinite ==
  ASSUME NEW c, NEW entries, IsFiniteSet(entries)
  PROVE  IsFiniteSet(Record(c, entries))
  BY FS_AddElement DEF Record

LEMMA RecentFinite ==
  ASSUME NEW k \in Keys, Finite
  PROVE  IsFiniteSet(Recent(k)) /\ Cardinality(Recent(k)) \in Nat
<1>1. IsFiniteSet(attempts[k]) /\ Recent(k) \subseteq attempts[k]  BY DEF Finite, Recent
<1>2. QED  BY <1>1, FS_Subset, FS_CardinalityType

\* One list takes a finite value, or all keep theirs.
LEMMA FiniteTakes ==
  ASSUME LimitsOK, Finite, NEW k \in Keys, NEW x, IsFiniteSet(x),
         attempts' = [attempts EXCEPT ![k] = x] \/ attempts' = attempts
  PROVE  Finite'
<1>1. ASSUME NEW other \in Keys  PROVE IsFiniteSet(attempts'[other])
  <2>1. attempts'[other] = attempts[other] \/ attempts'[other] = x  BY DEF LimitsOK
  <2>2. QED  BY <2>1 DEF Finite
<1>2. QED  BY <1>1 DEF Finite

LEMMA FiniteStep ==
  ASSUME LimitInv, Finite, [Next]_server
  PROVE  Finite'
<1>1. LimitsOK  BY DEF LimitInv, TypeOK
<1>2. ASSUME NEW c \in Calls, NEW k \in Keys, Dispatch(c, k)  PROVE Finite'
  <2>1. IsFiniteSet(Recent(k)) /\ IsFiniteSet(Record(c, Recent(k)))
    BY RecentFinite, RecordFinite
  <2>2. QED  BY <1>1, <1>2, <2>1, FiniteTakes DEF Dispatch, Refuse, Count, CountLater
<1>3. ASSUME NEW c \in Calls, Answer(c)  PROVE Finite'
  <2> DEFINE k == call[c].key
  <2>1. k \in Keys  BY <1>1, <1>3, InsideHasKey DEF Answer
  <2>2. IsFiniteSet(Record(c, attempts[k]))  BY <2>1, RecordFinite DEF Finite
  <2>3. QED  BY <1>1, <1>3, <2>1, <2>2, FiniteTakes DEF Answer
<1>4. CASE Forget \/ SweepStaleAttempts
  <2>1. \A k \in Keys : attempts'[k] = {} \/ attempts'[k] = attempts[k]
    BY <1>4 DEF Forget, SweepStaleAttempts
  <2>2. QED  BY <2>1, FS_EmptySet DEF Finite
<1>5. CASE attempts' = attempts  BY <1>5 DEF Finite
<1>6. \/ \E c \in Calls, k \in Keys : Dispatch(c, k)
      \/ \E c \in Calls : Answer(c)
      \/ Forget \/ SweepStaleAttempts \/ attempts' = attempts
  BY DEF Next, server, Boot, ServerStarts, ServerEnds, RowWritten, Previous, Request, ClockTicks, Tick,
         SweepLoop, Wakes, SweepsOAuth, SweepsSessions, SweepsMemory, SweepFails
<1>7. QED  BY <1>2, <1>3, <1>4, <1>5, <1>6

LEMMA FiniteHolds == Spec => []Finite
<1>1. Init => Finite  BY FS_EmptySet DEF Init, NoAttempts, Finite
<1>2. LimitInv /\ Finite /\ [Next]_server => Finite'  BY FiniteStep
<1>3. QED  BY <1>1, <1>2, LimitInvHolds, PTL DEF Spec

-----------------------------------------------------------------------------
(* Every step of a server is one of the budgets, or none.                  *)

LEMMA SameKeys == Budget!Keys = Keys /\ Budget!Waiting = Waiting
  BY DEF Budget!Keys, Keys, Budget!Waiting, Waiting

LEMMA SameCardinality ==
  ASSUME NEW S
  PROVE  Budget!Cardinality(S) = Cardinality(S)
  BY DEF Budget!Cardinality, Cardinality

LEMMA VisibleIs ==
  ASSUME NEW k \in Keys
  PROVE  Visible[k] = Recent(k)
  BY DEF Visible

\* A request is let in, or refused, just when its budget says so.
LEMMA DispatchBudget ==
  ASSUME LimitsOK, Finite, Serving, Serving' = Serving, NEW c \in Calls, NEW k \in Keys, Dispatch(c, k)
  PROVE  Budget!LetIn(c, k) \/ Budget!Refuse(c, k)
<1> USE VisibleIs, SameKeys, SameCardinality
<1>1. now' = now /\ call[c] = Waiting  BY DEF Dispatch
<1>2. Cardinality(Visible[k]) \in Nat /\ MaxAttempts[k[1]] \in Nat
  BY RecentFinite, RulesAssumption DEF Keys
<1>3. CASE Refuse(c, k)
  <2>1. Visible' = Visible  BY <1>1, <1>3, PruneUnseen DEF Refuse
  <2>2. Cardinality(Visible[k]) >= MaxAttempts[k[1]]  BY <1>3 DEF Refuse, IsRateLimited
  <2>3. QED  BY <1>1, <1>3, <2>1, <2>2 DEF Refuse, Becomes, Visible, Budget!Refuse
<1>4. ~IsRateLimited(k) => Cardinality(Visible[k]) < MaxAttempts[k[1]]
  BY <1>2 DEF IsRateLimited
<1>5. CASE Count(c, k)
  <2>1. Recent(k) \in SUBSET Entry  BY DEF Recent, LimitsOK
  <2>2. {e \in Recent(k) : e.at > now - Window[k[1]]} = Recent(k)  BY DEF Recent
  <2>3. Visible' = [Visible EXCEPT ![k] = @ \cup {[of |-> c, at |-> now]}]
    BY <1>1, <1>5, <2>1, <2>2, ChargeSeen DEF Count
  <2>4. QED  BY <1>1, <1>4, <1>5, <2>3 DEF Count, Becomes, Visible, Budget!LetIn, Budget!Charge
<1>6. CASE CountLater(c, k)
  <2>1. Visible' = Visible  BY <1>1, <1>6, PruneUnseen DEF CountLater
  <2>2. QED  BY <1>1, <1>4, <1>6, <2>1 DEF CountLater, Becomes, Visible, Budget!LetIn
<1>7. QED  BY <1>3, <1>5, <1>6 DEF Dispatch

LEMMA AnswerBudget ==
  ASSUME LimitsOK, Serving, Serving' = Serving, NEW c \in Calls, Answer(c)
  PROVE  Budget!Conclude(c)
<1> DEFINE k == call[c].key
<1>1. k \in Keys  BY InsideHasKey DEF Answer
<1>2. CASE UNCHANGED attempts
  <2>1. Visible' = Visible  BY <1>2 DEF Answer, Visible, Recent
  <2>2. QED  BY <2>1 DEF Answer, Visible, Budget!Conclude
<1>3. CASE attempts' = [attempts EXCEPT ![k] = Record(c, attempts[k])]
  <2>1. attempts[k] \in SUBSET Entry  BY <1>1 DEF LimitsOK
  <2>2. {e \in attempts[k] : e.at > now - Window[k[1]]} = Recent(k)  BY DEF Recent
  <2>3. Visible' = [Visible EXCEPT ![k] = @ \cup {[of |-> c, at |-> now]}]
    BY <1>1, <1>3, <2>1, <2>2, ChargeSeen DEF Answer
  <2>4. QED  BY <2>3 DEF Answer, Visible, Budget!Conclude, Budget!Charge
<1>4. QED  BY <1>2, <1>3 DEF Answer

LEMMA TickBudget ==
  ASSUME LimitsOK, Serving' = Serving, Tick
  PROVE  Budget!TimePasses
<1>1. now' = now + 1 /\ now < MaxTime /\ attempts' = attempts /\ call' = call  BY DEF Tick
<1>2. ASSUME NEW k \in Keys
      PROVE  Recent(k)' = {e \in Visible[k] : e.at > now' - Window[k[1]]}
  <2>1. now \in Int /\ Window[k[1]] \in Nat
    BY RulesAssumption, ClockAssumption DEF Keys, LimitsOK
  <2>2. ASSUME NEW e \in attempts[k]
        PROVE  e.at > now' - Window[k[1]] => e.at > now - Window[k[1]]
    <3>1. e.at \in Int  BY DEF LimitsOK, Entry
    <3>2. QED  BY <1>1, <2>1, <3>1
  <2>3. QED  BY <1>1, <2>2, VisibleIs DEF Recent
<1>3. Visible' = [k \in Keys |-> {e \in Visible[k] : e.at > now' - Window[k[1]]}]
  BY <1>2 DEF Visible
<1>4. QED  BY <1>1, <1>3, SameKeys DEF Visible, Budget!TimePasses

LEMMA EndBudget ==
  ASSUME LimitInv, Serving, ~Serving', Forget
  PROVE  Budget!Ends
<1>1. Visible' = [k \in Keys |-> {}]  BY DEF Forget, Visible, Recent
<1>2. QED  BY <1>1, SameKeys DEF Forget, Visible, Budget!Ends

\* A start that dies before it serves forgets nothing: there is nothing.
LEMMA EndUnseen ==
  ASSUME LimitInv, ~Serving, Forget
  PROVE  Visible' = Visible /\ call' = call /\ now' = now
<1>1. attempts \in [Keys -> SUBSET Entry] /\ call \in [Calls -> {Waiting} \cup [at : Fates, key : Keys]]
  BY DEF LimitInv, TypeOK, LimitsOK
<1>2. \A k \in Keys : attempts[k] = {}  BY DEF LimitInv, Quiet
<1>3. attempts' = attempts  BY <1>1, <1>2 DEF Forget
<1>4. call' = call  BY <1>1 DEF Forget, LimitInv, Quiet
<1>5. QED  BY <1>3, <1>4 DEF Forget, Visible, Recent

LEMMA BudgetInit == Init => Budget!Budgeted
<1> SUFFICES ASSUME Init  PROVE Budget!Budgeted
  OBVIOUS
<1>1. ~Serving  BY DEF Init, Deployed, Down, Stage, Serving, At
<1>2. Visible = [k \in Keys |-> {}]  BY DEF Init, NoAttempts, Visible, Recent
<1>3. QED  BY <1>1, <1>2, SameKeys DEF Init, NoAttempts, Visible, Budget!Budgeted

LEMMA BudgetStep ==
  ASSUME LimitInv, Finite, [Next]_server
  PROVE  Budget!BudgetNext \/ UNCHANGED Budget!budget
<1>1. HostOK /\ LimitsOK  BY DEF LimitInv, TypeOK
<1>2. ASSUME Serving' = Serving, Visible' = Visible, call' = call, now' = now
      PROVE  UNCHANGED Budget!budget
  BY <1>2 DEF Budget!budget, Visible
<1>3. UNCHANGED limits => Visible' = Visible /\ call' = call /\ now' = now  BY DEF Visible, Recent
<1>4. CASE Boot
  <2>1. Serving' = Serving  BY <1>1, <1>4, BootServesNothing DEF Boot, Serving, At
  <2>2. QED  BY <1>2, <1>3, <1>4, <2>1 DEF Boot
<1>5. CASE ServerStarts
  <2>1. ~Serving /\ Serving'  BY <1>1, <1>5, StartServes DEF ServerStarts
  <2>2. Budget!Starts  BY <1>3, <1>5, <2>1 DEF ServerStarts, Visible, Budget!Starts
  <2>3. QED  BY <2>2 DEF Budget!BudgetNext
<1>6. CASE ServerEnds
  <2>1. ~Serving'  BY <1>6, CrashServesNothing DEF ServerEnds
  <2>2. CASE Serving
    <3>1. Budget!Ends  BY <1>6, <2>1, <2>2, EndBudget DEF ServerEnds
    <3>2. QED  BY <3>1 DEF Budget!BudgetNext
  <2>3. CASE ~Serving
    <3>1. Serving' = Serving  BY <2>1, <2>3 DEF Serving, At
    <3>2. QED  BY <1>2, <1>6, <2>3, <3>1, EndUnseen DEF ServerEnds
  <2>4. QED  BY <2>2, <2>3
<1>7. CASE RowWritten \/ Previous
  <2>1. boot' = boot /\ UNCHANGED limits
    BY <1>7 DEF RowWritten, NewInserts, Previous, OldContainer, OldBegins, OldInserts, OldRollsBack, OldStops
  <2>2. QED  BY <1>2, <1>3, <2>1 DEF Serving, At
<1>8. CASE Request
  <2>1. Serving /\ Serving' = Serving  BY <1>8 DEF Request, Serving, At
  <2>2. CASE \E c \in Calls, k \in Keys : Dispatch(c, k)
    BY <1>1, <2>1, <2>2, DispatchBudget, SameKeys DEF Budget!BudgetNext
  <2>3. CASE \E c \in Calls : Answer(c)
    BY <1>1, <2>1, <2>3, AnswerBudget DEF Budget!BudgetNext
  <2>4. QED  BY <1>8, <2>2, <2>3 DEF Request
<1>9. CASE ClockTicks
  <2>1. Serving' = Serving  BY <1>9 DEF ClockTicks, Serving, At
  <2>2. QED  BY <1>1, <1>9, <2>1, TickBudget DEF ClockTicks, Budget!BudgetNext
<1>10. CASE SweepsMemory
  <2>1. Serving' = Serving  BY <1>10 DEF SweepsMemory, Serving, At
  <2>2. Visible' = Visible /\ call' = call /\ now' = now
    BY <1>1, <1>10, SweepUnseen DEF SweepsMemory, SweepStaleAttempts
  <2>3. QED  BY <1>2, <2>1, <2>2
<1>11. CASE Wakes \/ SweepsOAuth \/ SweepsSessions \/ SweepFails \/ UNCHANGED server
  <2>1. boot' = boot /\ UNCHANGED limits
    BY <1>11 DEF Wakes, SweepsOAuth, SweepsSessions, SweepFails, server
  <2>2. QED  BY <1>2, <1>3, <2>1 DEF Serving, At
<1>12. QED  BY <1>4, <1>5, <1>6, <1>7, <1>8, <1>9, <1>10, <1>11 DEF Next, SweepLoop

\* For any rules, addresses, calls and windows, the lists of rate_limit.py, pruned
\* when they are asked for, swept by the longest window and lost at every restart,
\* let a call in exactly when its address is within its budget.
THEOREM LimitsAreBudgets == Spec => ActsLikeBudget
<1>1. LimitInv /\ Finite /\ [Next]_server => [Budget!BudgetNext]_(Budget!budget)
  BY BudgetStep
<1>2. QED  BY <1>1, BudgetInit, LimitInvHolds, FiniteHolds, PTL DEF Spec, ActsLikeBudget, Budget!BudgetSpec

-----------------------------------------------------------------------------
(* A rule that counts every call is never overrun; the login rule, which   *)
(* counts later, may be, by the calls inside.                              *)

CountedLater == \A c \in Calls : call[c].at = "inside" => ~CountOnSuccess[call[c].key[1]]
Within == \A k \in Keys : CountOnSuccess[k[1]] => Cardinality(Recent(k)) <= MaxAttempts[k[1]]

\* What the window shows of a list only shrinks.
LEMMA ShrinkWithin ==
  ASSUME LimitInv, Finite, Within, \A k \in Keys : Recent(k)' \subseteq Recent(k)
  PROVE  Within'
<1>1. ASSUME NEW k \in Keys, CountOnSuccess[k[1]]
      PROVE  Cardinality(Recent(k)') <= MaxAttempts[k[1]]
  <2>1. IsFiniteSet(Recent(k)) /\ Cardinality(Recent(k)) \in Nat  BY RecentFinite
  <2>2. Cardinality(Recent(k)') \in Nat /\ Cardinality(Recent(k)') <= Cardinality(Recent(k))
    BY <2>1, FS_Subset, FS_CardinalityType
  <2>3. MaxAttempts[k[1]] \in Nat  BY RulesAssumption DEF Keys
  <2>4. QED  BY <1>1, <2>1, <2>2, <2>3 DEF Within
<1>2. QED  BY <1>1 DEF Within

\* One element more is one more at most.
LEMMA OneMore ==
  ASSUME NEW S, IsFiniteSet(S), NEW e
  PROVE  Cardinality(S \cup {e}) \in Nat /\ Cardinality(S \cup {e}) <= Cardinality(S) + 1
<1> DEFINE n == Cardinality(S)
           m == Cardinality(S \cup {e})
<1>1. n \in Nat  BY FS_CardinalityType
<1>2. m = IF e \in S THEN n ELSE n + 1  BY FS_AddElement
<1> HIDE DEF n, m
<1>3. m \in Nat /\ m <= n + 1  BY <1>1, <1>2
<1>4. QED  BY <1>3 DEF n, m

LEMMA CountWithin ==
  ASSUME LimitInv, Finite, Within, NEW c \in Calls, NEW k \in Keys, Count(c, k), now' = now
  PROVE  Within'
<1>1. LimitsOK  BY DEF LimitInv, TypeOK
<1>2. Recent(k) \in SUBSET Entry /\ {e \in Recent(k) : e.at > now - Window[k[1]]} = Recent(k)
  BY <1>1 DEF Recent, LimitsOK
<1>3. Visible' = [Visible EXCEPT ![k] = @ \cup {[of |-> c, at |-> now]}]
  BY <1>1, <1>2, ChargeSeen DEF Count
<1>4. ASSUME NEW other \in Keys, CountOnSuccess[other[1]]
      PROVE  Cardinality(Recent(other)') <= MaxAttempts[other[1]]
  <2>1. Visible'[other] = Recent(other)'  BY DEF Visible
  <2>2. CASE other = k
    <3>1. Recent(k)' = Recent(k) \cup {[of |-> c, at |-> now]}
      BY <1>3, <2>1, <2>2, VisibleIs DEF Visible
    <3>2. /\ IsFiniteSet(Recent(k)) /\ Cardinality(Recent(k)) \in Nat
          /\ MaxAttempts[k[1]] \in Nat
      BY RecentFinite, RulesAssumption DEF Keys
    <3>3. Cardinality(Recent(k)) < MaxAttempts[k[1]]  BY <3>2 DEF Count, IsRateLimited
    <3>4. /\ Cardinality(Recent(k) \cup {[of |-> c, at |-> now]}) <= Cardinality(Recent(k)) + 1
          /\ Cardinality(Recent(k) \cup {[of |-> c, at |-> now]}) \in Nat
      BY <3>2, OneMore
    <3>5. QED  BY <2>2, <3>1, <3>2, <3>3, <3>4
  <2>3. CASE other # k
    <3>1. Recent(other)' = Recent(other)  BY <1>3, <2>1, <2>3, VisibleIs DEF Visible
    <3>2. QED  BY <1>4, <3>1 DEF Within
  <2>4. QED  BY <2>2, <2>3
<1>5. QED  BY <1>4 DEF Within

\* A call that is answered charges a rule that counts later.
LEMMA AnswerWithin ==
  ASSUME LimitInv, CountedLater, Within, NEW c \in Calls, Answer(c)
  PROVE  Within'
<1> DEFINE k == call[c].key
<1>1. LimitsOK  BY DEF LimitInv, TypeOK
<1>2. k \in Keys /\ ~CountOnSuccess[k[1]]  BY <1>1, InsideHasKey DEF Answer, CountedLater
<1>3. ASSUME NEW other \in Keys, CountOnSuccess[other[1]]  PROVE Recent(other)' = Recent(other)
  <2>1. other # k  BY <1>2, <1>3
  <2>2. attempts'[other] = attempts[other] /\ now' = now  BY <1>1, <2>1 DEF Answer, LimitsOK
  <2>3. QED  BY <2>2 DEF Recent
<1>4. QED  BY <1>3 DEF Within

LEMMA CallTakes ==
  ASSUME LimitInv, CountedLater, NEW c \in Calls, NEW k \in Keys, NEW fate \in Fates,
         Becomes(c, fate, k), fate = "inside" => ~CountOnSuccess[k[1]]
  PROVE  CountedLater'
  BY DEF LimitInv, TypeOK, LimitsOK, Becomes, CountedLater

LEMMA WithinStep ==
  ASSUME LimitInv, Finite, CountedLater, Within, [Next]_server
  PROVE  CountedLater' /\ Within'
<1>1. LimitsOK  BY DEF LimitInv, TypeOK
<1>2. ASSUME NEW c \in Calls, NEW k \in Keys, Dispatch(c, k)  PROVE CountedLater' /\ Within'
  <2>1. now' = now  BY <1>2 DEF Dispatch
  <2>2. CASE Count(c, k)
    <3>1. CountedLater'  BY <2>2, CallTakes DEF Count, Fates
    <3>2. QED  BY <2>1, <2>2, <3>1, CountWithin
  <2>3. CASE Refuse(c, k) \/ CountLater(c, k)
    <3>1. CountedLater'
      BY <2>3, CallTakes DEF Refuse, CountLater, Fates
    <3>2. Visible' = Visible  BY <1>1, <2>1, <2>3, PruneUnseen DEF Refuse, CountLater
    <3>3. ASSUME NEW other \in Keys  PROVE Recent(other)' = Recent(other)
      <4>1. Visible'[other] = Recent(other)'  BY DEF Visible
      <4>2. QED  BY <3>2, <4>1, VisibleIs
    <3>4. Within'  BY <3>3, ShrinkWithin
    <3>5. QED  BY <3>1, <3>4
  <2>4. QED  BY <1>2, <2>2, <2>3 DEF Dispatch
<1>3. ASSUME NEW c \in Calls, Answer(c)  PROVE CountedLater' /\ Within'
  <2>1. CountedLater'  BY <1>1, <1>3 DEF Answer, LimitsOK, CountedLater
  <2>2. QED  BY <1>3, <2>1, AnswerWithin
<1>4. CASE Forget
  <2>1. CountedLater'  BY <1>1, <1>4, ForgetIsQuiet DEF CountedLater
  <2>2. \A k \in Keys : Recent(k)' = {}  BY <1>4 DEF Forget, Recent
  <2>3. QED  BY <2>1, <2>2, ShrinkWithin
<1>5. CASE SweepStaleAttempts
  <2>1. CountedLater'  BY <1>5 DEF SweepStaleAttempts, CountedLater
  <2>2. \A k \in Keys : Recent(k)' \subseteq Recent(k)
    BY <1>1, <1>5 DEF SweepStaleAttempts, Recent
  <2>3. QED  BY <2>1, <2>2, ShrinkWithin
<1>6. CASE Tick
  <2>1. CountedLater'  BY <1>6 DEF Tick, CountedLater
  <2>2. ASSUME NEW k \in Keys  PROVE Recent(k)' \subseteq Recent(k)
    <3>1. now \in Int /\ Window[k[1]] \in Nat
      BY <1>1, RulesAssumption, ClockAssumption DEF Keys, LimitsOK
    <3>2. \A e \in attempts[k] : e.at \in Int  BY <1>1 DEF LimitsOK, Entry
    <3>3. QED  BY <1>6, <3>1, <3>2 DEF Tick, Recent
  <2>3. QED  BY <2>1, <2>2, ShrinkWithin
<1>7. CASE UNCHANGED limits
  BY <1>7 DEF CountedLater, Within, Recent
<1>8. \/ \E c \in Calls, k \in Keys : Dispatch(c, k)
      \/ \E c \in Calls : Answer(c)
      \/ Forget \/ SweepStaleAttempts \/ Tick \/ UNCHANGED limits
  BY DEF Next, server, Boot, ServerStarts, ServerEnds, RowWritten, Previous, Request, ClockTicks,
         SweepLoop, Wakes, SweepsOAuth, SweepsSessions, SweepsMemory, SweepFails
<1>9. QED  BY <1>2, <1>3, <1>4, <1>5, <1>6, <1>7, <1>8

\* For any rules and any number of calls that arrive together, an address never has
\* more calls of a counting rule (all of _RULES but login_ip) within the window than
\* the rule allows.
THEOREM CountingRulesHold == Spec => []Within
<1>1. Init => CountedLater /\ Within
  <2> SUFFICES ASSUME Init  PROVE CountedLater /\ Within
    OBVIOUS
  <2>1. CountedLater  BY DEF Init, NoAttempts, CountedLater, Waiting
  <2>2. ASSUME NEW k \in Keys  PROVE Cardinality(Recent(k)) <= MaxAttempts[k[1]]
    <3>1. Recent(k) = {}  BY DEF Init, NoAttempts, Recent
    <3>2. QED  BY <3>1, FS_EmptySet, RulesAssumption DEF Keys
  <2>3. QED  BY <2>1, <2>2 DEF Within
<1>2. LimitInv /\ Finite /\ CountedLater /\ Within /\ [Next]_server => CountedLater' /\ Within'
  BY WithinStep
<1>3. QED  BY <1>1, <1>2, LimitInvHolds, FiniteHolds, PTL DEF Spec

-----------------------------------------------------------------------------
\* Showing pages adds nothing to what a server does, so all of this holds of a site.
THEOREM SiteIsServer == SiteSpec => Spec
<1>1. SiteInit => Init  BY DEF SiteInit
<1>2. [SiteNext]_site => [Next]_server  BY DEF SiteNext, site, PageAsked
<1>3. QED  BY <1>1, <1>2, PTL DEF SiteSpec, Spec

-----------------------------------------------------------------------------
(* Every answer under way is that of one of the two handlers, for some     *)
(* artifact.                                                               *)

Answered == reply = NoReply \/ reply \in Answers

LEMMA AnsweredHolds == SiteSpec => []Answered
<1>1. SiteInit => Answered  BY DEF SiteInit, Answered
<1>2. Answered /\ [SiteNext]_site => Answered'
  <2> SUFFICES ASSUME Answered, [SiteNext]_site  PROVE Answered'
    OBVIOUS
  <2>1. CASE UNCHANGED reply  BY <2>1 DEF Answered
  <2>2. CASE PageAsked
    <3>1. PICK a \in Artifacts : ViewArtifact(a) \/ ViewArtifactRaw(a)  BY <2>2 DEF PageAsked
    <3>2. QED  BY <3>1 DEF ViewArtifact, ViewArtifactRaw, Answered, Answers
  <2>3. CASE Sent  BY <2>3 DEF Sent, Answered
  <2>4. QED  BY <2>1, <2>2, <2>3 DEF SiteNext, site
<1>3. QED  BY <1>1, <1>2, PTL DEF SiteSpec

\* For html of any length, comments opened and closed in it anywhere, and tables of any
\* number of rows: the policy view.py gives a document lets it load the vendored files
\* that are in it and an author's document no others, and what a page frames may be framed.
\* In it is what a browser reads that skips comments as InComment does.
THEOREM PoliciesFit == SiteSpec => []CspFitsPage
<1>1. Answered => CspFitsPage
  BY PagesFit, RawFits, Zenon DEF Answered, Answers, CspFitsPage
<1>2. QED  BY <1>1, AnsweredHolds, PTL

\* For the same documents: the four rewritings of view_artifact_raw, each splicing into
\* what the one before it left, take nothing of the author's away and put every asset
\* that is asked for where it is read in time, or where a comment swallows its place.
THEOREM FeaturesReach == SiteSpec => []FeaturesServed
<1>1. Answered => FeaturesServed
  BY PagesFit, RawFits, Zenon DEF Answered, Answers, FeaturesServed
<1>2. QED  BY <1>1, AnsweredHolds, PTL

=============================================================================
