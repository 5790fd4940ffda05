--------------------------- MODULE Collaboration ---------------------------
(***************************************************************************)
(* Comment threads and shares of artifacts: comments.py and shares.py.     *)
(*                                                                         *)
(* People reach an artifact through a connection of theirs or a share,     *)
(* agents through the connection that owns it.  No lock guards any of      *)
(* this: only foreign keys and one unique constraint hold at the commit.   *)
(* Artifacts are here only as what owns threads and shares; ArtifactStore  *)
(* models them.  Users are never deleted.                                  *)
(***************************************************************************)
EXTENDS Integers, FiniteSets, FiniteSetsExt

CONSTANTS
    Requests,                   \* coroutines: one HTTP or MCP call each, reused
    Users, Connections, UserOf, \* Connection.user_id never changes
    Artifacts, Comments, Shares,           \* pools of ids
    Bodies, Chars, Bytes,       \* bodies of comments, and their two lengths
    MaxCommentsPerArtifact, MaxCommentBytesPerArtifact,
    None

ASSUME UserAssumption  == UserOf \in [Connections -> Users]
ASSUME BodyAssumption  == /\ Chars \in [Bodies -> Nat] /\ Bytes \in [Bodies -> Nat]
                          /\ \A b \in Bodies : Chars[b] <= Bytes[b]
ASSUME PoolAssumption  == IsFiniteSet(Comments) /\ IsFiniteSet(Requests) /\ Requests # {}
ASSUME LimitAssumption == MaxCommentsPerArtifact \in Nat /\ MaxCommentBytesPerArtifact \in Nat
ASSUME AuthorAssumption == Users \cap Connections = {}
ASSUME NoneAssumption ==
    /\ None \notin Requests \cup Users \cup Connections \cup Artifacts \cup Comments \cup Shares \cup Bodies
    /\ None \notin [artifact : Artifacts, parent : Comments \cup {None},
                    author : Users \cup Connections, body : Bodies, resolved : BOOLEAN]
    /\ None \notin [artifact : Artifacts, user : Users]

VARIABLES
    owner,      \* artifacts.connection_id, or None: deleted
    comment,    \* comments: row, or None
    share,      \* artifact_shares: row, or None
    unused,     \* ids not drawn yet
    req,        \* the coroutines
    invited     \* history: who an artifact was ever shared with

tables == <<owner, comment, share, unused>>
vars   == <<tables, req, invited>>

CommentRow == [artifact : Artifacts, parent : Comments \cup {None},
               author : Users \cup Connections, body : Bodies, resolved : BOOLEAN]
ShareRow   == [artifact : Artifacts, user : Users]
Stages     == {"idle", "quota", "post", "mark", "root", "thread", "existing", "share", "unshare"}

\* by: who calls; art, com, shr: what it is about; seen: the resolved flag that was read.
Request == [at : Stages, by : Users \cup Connections \cup {None}, art : Artifacts \cup {None},
            com : Comments \cup {None}, shr : Shares \cup {None}, body : Bodies \cup {None},
            user : Users \cup {None}, seen : BOOLEAN, set : BOOLEAN]
Idle    == [at |-> "idle", by |-> None, art |-> None, com |-> None, shr |-> None, body |-> None,
            user |-> None, seen |-> FALSE, set |-> FALSE]

At(r, stage)   == req[r].at = stage
Begin(r, q)    == At(r, "idle") /\ req' = [req EXCEPT ![r] = q] /\ UNCHANGED <<tables, invited>>
Goto(r, stage) == req' = [req EXCEPT ![r].at = stage] /\ UNCHANGED <<tables, invited>>
Finish(r)      == req' = [req EXCEPT ![r] = Idle]
Fail(r)        == Finish(r) /\ UNCHANGED <<tables, invited>>

Live       == {a \in Artifacts : owner[a] # None}
Posted     == {k \in Comments : comment[k] # None}
Roots      == {k \in Posted : comment[k].parent = None}
On(a)      == {k \in Posted : comment[k].artifact = a}
Shared     == {s \in Shares : share[s] # None}
SharedWith(a, u) == {s \in Shared : share[s] = [artifact |-> a, user |-> u]}

\* get_owned_artifact_by_user, get_accessible_artifact
Owns(u, a)  == a \in Live /\ UserOf[owner[a]] = u
ReachesAny(u, a) == a \in Live         \* mutated: the WHERE clause names the artifact only
Reaches(u, a)    == a \in Live /\ (UserOf[owner[a]] = u \/ SharedWith(a, u) # {})

\* Foreign keys of a comment and of a share, at their INSERT.
EnforcedNot(a, parent) == TRUE         \* mutated: PRAGMA foreign_keys is off
Enforced(a, parent)    == a \in Live /\ parent \in Posted \cup {None}

-----------------------------------------------------------------------------
(* Comments: the access check, the quota and the INSERT are three awaits.  *)

\* Mutated form: the author's column left out.
WritingUnsigned(by, a, root, b) == [Idle EXCEPT !.at = "quota", !.art = a, !.com = root, !.body = b]
Writing(by, a, root, b) == [Idle EXCEPT !.at = "quota", !.by = by, !.art = a, !.com = root, !.body = b]

StartComment(r, u, a, b) == Reaches(u, a) /\ Begin(r, Writing(u, a, None, b))

StartHumanReply(r, u, k, b) ==
    /\ k \in Roots /\ Reaches(u, comment[k].artifact)
    /\ Begin(r, Writing(u, comment[k].artifact, k, b))

\* _get_connection_owned_thread_root
OwnThread(c, k)    == k \in Roots /\ owner[comment[k].artifact] = c

StartAgentReply(r, c, k, b) ==
    OwnThread(c, k) /\ Begin(r, Writing(c, comment[k].artifact, k, b))

\* The sum is of length(body), which counts characters; the new body counts bytes.
CountFitsOffByOne(a) == Cardinality(On(a)) <= MaxCommentsPerArtifact
CountFits(a)   == Cardinality(On(a)) < MaxCommentsPerArtifact
BytesFit(a, b) == MapThenSumSet(LAMBDA k : Chars[comment[k].body], On(a)) + Bytes[b]
                      <= MaxCommentBytesPerArtifact

CheckQuota(r) ==
    /\ At(r, "quota")
    /\ IF CountFits(req[r].art) /\ BytesFit(req[r].art, req[r].body) THEN Goto(r, "post") ELSE Fail(r)

\* Model bound: without a fresh id the call fails.
Post(r) ==
    /\ At(r, "post")
    /\ LET q == req[r] IN
       IF Enforced(q.art, q.com) /\ Comments \cap unused # {}
       THEN \E k \in Comments \cap unused :
              /\ comment' = [comment EXCEPT ![k] = [artifact |-> q.art, parent |-> q.com,
                                author |-> q.by, body |-> q.body, resolved |-> FALSE]]
              /\ unused' = unused \ {k}
              /\ Finish(r)
              /\ UNCHANGED <<owner, share, invited>>
       ELSE Fail(r)

-----------------------------------------------------------------------------
(* The resolved flag.  An UPDATE is sent only when the value differs from  *)
(* the one that was read; if the thread is gone by then it raises.         *)

Marking(k, seen, set) == [Idle EXCEPT !.at = "mark", !.com = k, !.seen = seen, !.set = set]

StartResolve(r, c, k) == OwnThread(c, k) /\ Begin(r, Marking(k, comment[k].resolved, TRUE))

StartToggle(r, u, k) ==
    /\ k \in Roots /\ Reaches(u, comment[k].artifact)
    /\ Begin(r, Marking(k, comment[k].resolved, ~comment[k].resolved))

Mark(r) ==
    /\ At(r, "mark")
    /\ LET k == req[r].com IN
       IF req[r].set # req[r].seen /\ k \in Posted
       THEN /\ comment' = [comment EXCEPT ![k].resolved = req[r].set]
            /\ Finish(r)
            /\ UNCHANGED <<owner, share, unused, invited>>
       ELSE Fail(r)

-----------------------------------------------------------------------------
(* delete_thread: ownership, then the root, then one write transaction.    *)

StartDeleteThread(r, u, a, k) ==
    Owns(u, a) /\ Begin(r, [Idle EXCEPT !.at = "root", !.art = a, !.com = k])

FindRoot(r) ==
    /\ At(r, "root")
    /\ LET k == req[r].com IN
       IF k \in Roots /\ comment[k].artifact = req[r].art THEN Goto(r, "thread") ELSE Fail(r)

Thread(k) == {k} \cup {j \in Posted : comment[j].parent = k}

\* Deleting a root that is gone only warns.
DeleteThread(r) ==
    /\ At(r, "thread")
    /\ comment' = [k \in Comments |-> IF k \in Thread(req[r].com) THEN None ELSE comment[k]]
    /\ Finish(r)
    /\ UNCHANGED <<owner, share, unused, invited>>

-----------------------------------------------------------------------------
(* Shares, by the owning connection's agent or from the owner's dashboard. *)

\* The owner and the recipient do not change while the call waits.
NotSelf(c, u)          == UserOf[c] # u

StartShare(r, a, u) ==
    /\ a \in Live /\ NotSelf(owner[a], u)
    /\ Begin(r, [Idle EXCEPT !.at = "existing", !.art = a, !.user = u])

FindShare(r) ==
    /\ At(r, "existing")
    /\ IF SharedWith(req[r].art, req[r].user) = {} THEN Goto(r, "share") ELSE Fail(r)

\* The unique constraint, and the foreign key, end in IntegrityError, which the
\* call answers with already_shared.
UniqueNot(a, u) == TRUE                \* mutated: no UniqueConstraint
Unique(a, u)    == SharedWith(a, u) = {}

CommitShare(r) ==
    /\ At(r, "share")
    /\ LET a == req[r].art
           u == req[r].user
       IN IF Enforced(a, None) /\ Unique(a, u) /\ Shares \cap unused # {}
          THEN \E s \in Shares \cap unused :
                 /\ share' = [share EXCEPT ![s] = [artifact |-> a, user |-> u]]
                 /\ unused' = unused \ {s}
                 /\ invited' = invited \cup {<<a, u>>}
                 /\ Finish(r)
                 /\ UNCHANGED <<owner, comment>>
          ELSE Fail(r)

StartUnshare(r, u, a, s) ==
    Owns(u, a) /\ Begin(r, [Idle EXCEPT !.at = "unshare", !.art = a, !.shr = s])

Unshare(r) ==
    /\ At(r, "unshare")
    /\ LET s == req[r].shr IN
       IF s \in Shared /\ share[s].artifact = req[r].art
       THEN /\ share' = [share EXCEPT ![s] = None]
            /\ Finish(r)
            /\ UNCHANGED <<owner, comment, unused, invited>>
       ELSE Fail(r)

-----------------------------------------------------------------------------
(* What ArtifactStore does to an artifact meanwhile, one commit each.      *)

OfAnyone(c, d) == TRUE                 \* mutated: no user_id in the query
OfOneUser(c, d) == UserOf[c] = UserOf[d]

Reassign(a, c) ==
    /\ a \in Live /\ c # owner[a] /\ OfOneUser(c, owner[a])
    /\ owner' = [owner EXCEPT ![a] = c]
    /\ UNCHANGED <<comment, share, unused, req, invited>>

\* _delete_artifact_rows
DeleteArtifact(a) ==
    /\ a \in Live
    /\ owner' = [owner EXCEPT ![a] = None]
    /\ comment' = [k \in Comments |-> IF k \in On(a) THEN None ELSE comment[k]]
    /\ share' = [s \in Shares |-> IF s \in Shared /\ share[s].artifact = a THEN None ELSE share[s]]
    /\ UNCHANGED <<unused, req, invited>>

Abort(r) == ~At(r, "idle") /\ Fail(r)

Restart == req' = [r \in Requests |-> Idle] /\ UNCHANGED <<tables, invited>>

-----------------------------------------------------------------------------
Init == /\ owner \in [Artifacts -> Connections]
        /\ comment = [k \in Comments |-> None]
        /\ share = [s \in Shares |-> None]
        /\ unused = Comments \cup Shares
        /\ req = [r \in Requests |-> Idle]
        /\ invited = {}

StartPosting(r) ==
    \E b \in Bodies :
       \/ \E u \in Users : \/ \E a \in Artifacts : StartComment(r, u, a, b)
                           \/ \E k \in Comments : StartHumanReply(r, u, k, b)
       \/ \E c \in Connections, k \in Comments : StartAgentReply(r, c, k, b)

Start(r) ==
    \/ StartPosting(r)
    \/ \E c \in Connections, k \in Comments : StartResolve(r, c, k)
    \/ \E u \in Users :
         \/ \E k \in Comments : StartToggle(r, u, k)
         \/ \E a \in Artifacts : \/ StartShare(r, a, u)
                                 \/ \E k \in Comments : StartDeleteThread(r, u, a, k)
                                 \/ \E s \in Shares : StartUnshare(r, u, a, s)

Step(r) == \/ CheckQuota(r) \/ Post(r) \/ Mark(r) \/ FindRoot(r) \/ DeleteThread(r)
           \/ FindShare(r) \/ CommitShare(r) \/ Unshare(r)

Next == \/ \E r \in Requests : Start(r) \/ Step(r) \/ Abort(r)
        \/ \E a \in Artifacts : DeleteArtifact(a) \/ \E c \in Connections : Reassign(a, c)
        \/ Restart

Spec == Init /\ [][Next]_vars

-----------------------------------------------------------------------------
TypeOK == /\ owner \in [Artifacts -> Connections \cup {None}]
          /\ comment \in [Comments -> CommentRow \cup {None}]
          /\ share \in [Shares -> ShareRow \cup {None}]
          /\ unused \subseteq Comments \cup Shares
          /\ req \in [Requests -> Request]
          /\ invited \subseteq Artifacts \X Users

\* comments.py:317-318, tools.py:99-108: no comment or share outlives its artifact and
\* no reply its thread, whatever was being written as they were deleted.
NothingDangles ==
    /\ \A k \in Posted : comment[k].artifact \in Live
    /\ \A k \in Posted \ Roots : /\ comment[k].parent \in Roots
                                 /\ comment[comment[k].parent].artifact = comment[k].artifact
    /\ \A s \in Shared : share[s].artifact \in Live

\* comments.py:42: an artifact takes max_comments_per_artifact comments, and beyond
\* them at most one for every other call that was past the check at the time.
Posting(a) == {r \in Requests : At(r, "post") /\ req[r].art = a}
CommentsBounded ==
    \A a \in Artifacts : Cardinality(On(a)) + Cardinality(Posting(a))
                             <= MaxCommentsPerArtifact + Cardinality(Requests) - 1

\* shares.py:30-37: concurrent shares leave one row for an artifact and a recipient;
\* two would make get_accessible_artifact raise for that recipient ever after.
OneSharePerRecipient ==
    \A s, t \in Shared : share[s] = share[t] => s = t

\* shares.py:27-28: an artifact is never shared with its own owner, not even one that
\* was reassigned while it was being shared.
NotSharedWithOwner == \A s \in Shared : ~Owns(share[s].user, share[s].artifact)

\* comments.py:162-171, 221-255: every comment is by the artifact's owner, by a
\* connection of the owner, or by someone the artifact was shared with.
AuthorsAllowed ==
    \A k \in Posted : LET by == comment[k].author
                          a  == comment[k].artifact
                      IN IF by \in Connections
                         THEN UserOf[by] = UserOf[owner[a]]
                         ELSE by = UserOf[owner[a]] \/ <<a, by>> \in invited

=============================================================================
