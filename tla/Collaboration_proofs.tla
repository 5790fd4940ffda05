----------------------- MODULE Collaboration_proofs -----------------------
(***************************************************************************)
(* Theorems about Collaboration, for any number of requests, users,        *)
(* connections, artifacts, comments and shares, and any quota.             *)
(***************************************************************************)
EXTENDS Collaboration, TLAPS, FiniteSetTheorems

\* Who may write about an artifact, as AuthorsAllowed says it of a comment.
MayWrite(by, a) == IF by \in Connections
                   THEN UserOf[by] = UserOf[owner[a]]
                   ELSE by = UserOf[owner[a]] \/ <<a, by>> \in invited

\* What a waiting call still knows of the tables.  Ids are drawn once, so a root it
\* found is still that root or is gone for good; artifacts do not change users.
WritingOK(q) ==
    /\ q.art \in Artifacts /\ q.by \in Users \cup Connections /\ q.body \in Bodies
    /\ q.com # None => q.com \notin unused
    /\ q.com \in Posted => q.com \in Roots /\ comment[q.com].artifact = q.art
    /\ q.art \in Live => MayWrite(q.by, q.art)

ThreadOK(q) == /\ q.com \in Comments /\ q.com \notin unused
               /\ q.com \in Posted => q.com \in Roots

SharingOK(q) == /\ q.art \in Artifacts /\ q.user \in Users
                /\ q.art \in Live => NotSelf(owner[q.art], q.user)

Sound(q) == /\ q \in Request
            /\ q.at \in {"quota", "post"} => WritingOK(q)
            /\ q.at \in {"mark", "root"} => q.com \in Comments
            /\ q.at = "thread" => ThreadOK(q)
            /\ q.at \in {"existing", "share"} => SharingOK(q)

CallsOK == /\ req \in [Requests -> Request]
           /\ \A r \in Requests : Sound(req[r])

Typed == /\ owner \in [Artifacts -> Connections \cup {None}]
         /\ comment \in [Comments -> CommentRow \cup {None}]
         /\ share \in [Shares -> ShareRow \cup {None}]
         /\ unused \subseteq Comments \cup Shares
         /\ invited \subseteq Artifacts \X Users

DrawnOnce     == Posted \cap unused = {}
SharesInvited == \A s \in Shared : <<share[s].artifact, share[s].user>> \in invited

CommentsOK == DrawnOnce /\ AuthorsAllowed
SharesOK   == OneSharePerRecipient /\ NotSharedWithOwner /\ SharesInvited

IInv == Typed /\ NothingDangles /\ CommentsOK /\ SharesOK /\ CallsOK

USE UserAssumption, AuthorAssumption, NoneAssumption DEF tables

-----------------------------------------------------------------------------
(* The calls.  A step gives one of them a new record and may change what   *)
(* the tables say of the others.                                           *)

LEMMA RowsAreNotNone ==
  None \notin CommentRow /\ None \notin ShareRow
  BY DEF CommentRow, ShareRow

LEMMA IdleSound == Sound(Idle) /\ Sound(Idle)'
  BY DEF Sound, Idle, Request, Stages

LEMMA CallsKept ==
  ASSUME CallsOK, NEW r \in Requests, NEW x, Sound(x)', req' = [req EXCEPT ![r] = x],
         \A q \in Request : Sound(q) => Sound(q)'
  PROVE  CallsOK'
<1>1. x \in Request  BY DEF Sound
<1>2. req' \in [Requests -> Request]  BY <1>1 DEF CallsOK
<1>3. ASSUME NEW s \in Requests  PROVE Sound(req[s])'
  <2>1. CASE s = r
    <3>1. req'[s] = x  BY <2>1 DEF CallsOK
    <3>2. QED  BY <3>1
  <2>2. CASE s # r
    <3>1. req'[s] = req[s]  BY <2>2 DEF CallsOK
    <3>2. req[s] \in Request /\ Sound(req[s])  BY DEF CallsOK
    <3>3. QED  BY <3>1, <3>2
  <2>3. QED  BY <2>1, <2>2
<1>4. QED  BY <1>2, <1>3 DEF CallsOK

\* A step of a call that leaves the tables alone.
LEMMA CallStep ==
  ASSUME IInv, NEW r \in Requests, NEW x, Sound(x), req' = [req EXCEPT ![r] = x],
         UNCHANGED <<tables, invited>>
  PROVE  IInv'
<1>1. Sound(x)' /\ \A q \in Request : Sound(q) => Sound(q)'
  BY DEF Sound, WritingOK, ThreadOK, SharingOK, MayWrite, NotSelf, Live, Posted, Roots, Request
<1>2. CallsOK'  BY <1>1, CallsKept DEF IInv
<1>3. Typed' /\ NothingDangles'
  BY DEF IInv, Typed, NothingDangles, Live, Posted, Roots, Shared
<1>4. CommentsOK'
  BY DEF IInv, CommentsOK, DrawnOnce, AuthorsAllowed, Posted
<1>5. SharesOK'
  BY DEF IInv, SharesOK, OneSharePerRecipient, NotSharedWithOwner, SharesInvited, Shared, Owns, Live
<1>6. QED  BY <1>2, <1>3, <1>4, <1>5 DEF IInv

LEMMA FailKeeps ==
  ASSUME IInv, NEW r \in Requests, Fail(r)
  PROVE  IInv'
  BY CallStep, IdleSound DEF Fail, Finish

\* The rows of posted comments and of shares, typed.
LEMMA RowTypes ==
  ASSUME Typed
  PROVE  /\ \A k \in Posted : comment[k] \in CommentRow /\ k \in Comments
         /\ \A s \in Shared : share[s] \in ShareRow /\ s \in Shares
         /\ \A a \in Live : owner[a] \in Connections /\ a \in Artifacts
  BY DEF Typed, Posted, Shared, Live

-----------------------------------------------------------------------------
(* Starts: what the access check read holds of the tables at that moment.  *)

LEMMA ReachesMayWrite ==
  ASSUME IInv, NEW u \in Users, NEW a, Reaches(u, a)
  PROVE  a \in Artifacts /\ MayWrite(u, a)
<1>1. a \in Artifacts /\ u \notin Connections  BY DEF Reaches, Live
<1>2. CASE UserOf[owner[a]] = u  BY <1>1, <1>2 DEF MayWrite
<1>3. CASE SharedWith(a, u) # {}
  <2>1. PICK s \in Shared : share[s] = [artifact |-> a, user |-> u]  BY <1>3 DEF SharedWith
  <2>2. <<a, u>> \in invited  BY <2>1 DEF IInv, SharesOK, SharesInvited
  <2>3. QED  BY <1>1, <2>2 DEF MayWrite
<1>4. QED  BY <1>1, <1>2, <1>3 DEF Reaches

LEMMA WritingSound ==
  ASSUME IInv, NEW by \in Users \cup Connections, NEW a \in Artifacts,
         NEW k \in Comments \cup {None}, NEW b \in Bodies, MayWrite(by, a),
         k # None => k \in Roots /\ comment[k].artifact = a
  PROVE  Sound(Writing(by, a, k, b))
<1> DEFINE x == Writing(by, a, k, b)
<1>1. x \in Request /\ x.at = "quota" /\ x.art = a /\ x.by = by /\ x.com = k /\ x.body = b
  BY DEF Writing, Idle, Request, Stages
<1>2. k # None => k \in Posted /\ k \notin unused
  BY DEF IInv, CommentsOK, DrawnOnce, Roots
<1>3. k \in Posted => k # None  BY DEF Posted
<1> HIDE DEF x
<1>4. WritingOK(x)  BY <1>1, <1>2, <1>3 DEF WritingOK
<1>5. Sound(x)  BY <1>1, <1>4 DEF Sound
<1>6. QED  BY <1>5 DEF x

LEMMA StartPostingKeeps ==
  ASSUME IInv, NEW r \in Requests, StartPosting(r)
  PROVE  IInv'
<1>1. ASSUME NEW b \in Bodies, NEW u \in Users, NEW a \in Artifacts, StartComment(r, u, a, b)
      PROVE  IInv'
  <2>1. MayWrite(u, a)  BY <1>1, ReachesMayWrite DEF StartComment
  <2>2. Sound(Writing(u, a, None, b))  BY <2>1, WritingSound
  <2>3. QED  BY <1>1, <2>2, CallStep DEF StartComment, Begin
<1>2. ASSUME NEW b \in Bodies, NEW u \in Users, NEW k \in Comments, StartHumanReply(r, u, k, b)
      PROVE  IInv'
  <2> DEFINE a == comment[k].artifact
  <2>1. k \in Roots /\ Reaches(u, a) /\ Begin(r, Writing(u, a, k, b))
    BY <1>2 DEF StartHumanReply
  <2> HIDE DEF a
  <2>2. a \in Artifacts /\ MayWrite(u, a)  BY <2>1, ReachesMayWrite
  <2>3. Sound(Writing(u, a, k, b))  BY <2>1, <2>2, WritingSound DEF a
  <2>4. QED  BY <2>1, <2>3, CallStep DEF Begin
<1>3. ASSUME NEW b \in Bodies, NEW c \in Connections, NEW k \in Comments,
             StartAgentReply(r, c, k, b)
      PROVE  IInv'
  <2> DEFINE a == comment[k].artifact
  <2>1. k \in Roots /\ owner[a] = c /\ Begin(r, Writing(c, a, k, b))
    BY <1>3 DEF StartAgentReply, OwnThread
  <2>2. a \in Artifacts  BY <2>1, RowTypes DEF IInv, Roots, CommentRow
  <2> HIDE DEF a
  <2>3. MayWrite(c, a)  BY <2>1 DEF MayWrite
  <2>4. Sound(Writing(c, a, k, b))  BY <2>1, <2>2, <2>3, WritingSound DEF a
  <2>5. QED  BY <2>1, <2>4, CallStep DEF Begin
<1>4. QED  BY <1>1, <1>2, <1>3 DEF StartPosting

LEMMA StartKeeps ==
  ASSUME IInv, NEW r \in Requests, Start(r)
  PROVE  IInv'
<1>1. CASE StartPosting(r)  BY <1>1, StartPostingKeeps
<1>2. ASSUME NEW k \in Comments, NEW s \in BOOLEAN, NEW t \in BOOLEAN, Begin(r, Marking(k, s, t))
      PROVE  IInv'
  <2>1. Sound(Marking(k, s, t))  BY DEF Sound, Marking, Idle, Request, Stages
  <2>2. QED  BY <1>2, <2>1, CallStep DEF Begin
<1>3. \A k \in Roots : comment[k].resolved \in BOOLEAN
  BY RowTypes DEF IInv, Roots, CommentRow
<1>4. ASSUME NEW c \in Connections, NEW k \in Comments, StartResolve(r, c, k)
      PROVE  IInv'
  BY <1>2, <1>3, <1>4 DEF StartResolve, OwnThread
<1>5. ASSUME NEW u \in Users, NEW k \in Comments, StartToggle(r, u, k)
      PROVE  IInv'
  BY <1>2, <1>3, <1>5 DEF StartToggle
<1>6. ASSUME NEW u \in Users, NEW a \in Artifacts, StartShare(r, a, u)
      PROVE  IInv'
  <2> DEFINE x == [Idle EXCEPT !.at = "existing", !.art = a, !.user = u]
  <2>1. x \in Request /\ x.at = "existing" /\ x.art = a /\ x.user = u
    BY DEF Idle, Request, Stages
  <2>2. NotSelf(owner[a], u) /\ Begin(r, x)  BY <1>6 DEF StartShare
  <2> HIDE DEF x
  <2>3. Sound(x)  BY <2>1, <2>2 DEF Sound, SharingOK
  <2>4. QED  BY <2>2, <2>3, CallStep DEF Begin
<1>7. ASSUME NEW u \in Users, NEW a \in Artifacts, NEW k \in Comments, StartDeleteThread(r, u, a, k)
      PROVE  IInv'
  <2> DEFINE x == [Idle EXCEPT !.at = "root", !.art = a, !.com = k]
  <2>1. Sound(x)  BY DEF Sound, Idle, Request, Stages
  <2>2. QED  BY <1>7, <2>1, CallStep DEF StartDeleteThread, Begin
<1>8. ASSUME NEW u \in Users, NEW a \in Artifacts, NEW s \in Shares, StartUnshare(r, u, a, s)
      PROVE  IInv'
  <2> DEFINE x == [Idle EXCEPT !.at = "unshare", !.art = a, !.shr = s]
  <2>1. Sound(x)  BY DEF Sound, Idle, Request, Stages
  <2>2. QED  BY <1>8, <2>1, CallStep DEF StartUnshare, Begin
<1>9. QED  BY <1>1, <1>4, <1>5, <1>6, <1>7, <1>8 DEF Start

-----------------------------------------------------------------------------
(* Steps that change no table.                                             *)

LEMMA GotoKeeps ==
  ASSUME IInv, NEW r \in Requests, NEW stage, Goto(r, stage),
         Sound([req[r] EXCEPT !.at = stage])
  PROVE  IInv'
<1>1. req' = [req EXCEPT ![r] = [req[r] EXCEPT !.at = stage]]
  BY DEF Goto
<1>2. QED  BY <1>1, CallStep DEF Goto

LEMMA CheckQuotaKeeps ==
  ASSUME IInv, NEW r \in Requests, CheckQuota(r)
  PROVE  IInv'
<1>1. CASE Fail(r)  BY <1>1, FailKeeps
<1>2. CASE Goto(r, "post")
  <2> DEFINE q == req[r]
             x == [req[r] EXCEPT !.at = "post"]
  <2>1. q \in Request /\ WritingOK(q)  BY DEF CheckQuota, At, IInv, CallsOK, Sound
  <2>2. x \in Request /\ x.at = "post" /\ x.art = q.art /\ x.by = q.by /\ x.com = q.com
        /\ x.body = q.body
    BY <2>1 DEF Request, Stages
  <2> HIDE DEF q, x
  <2>3. Sound(x)  BY <2>1, <2>2 DEF Sound, WritingOK
  <2>4. QED  BY <1>2, <2>3, GotoKeeps DEF x
<1>3. QED  BY <1>1, <1>2 DEF CheckQuota

LEMMA FindRootKeeps ==
  ASSUME IInv, NEW r \in Requests, FindRoot(r)
  PROVE  IInv'
<1>1. CASE Fail(r)  BY <1>1, FailKeeps
<1>2. CASE ~Fail(r)
  <2> DEFINE q == req[r]
             x == [req[r] EXCEPT !.at = "thread"]
  <2>1. q.com \in Roots /\ Goto(r, "thread")  BY <1>2 DEF FindRoot
  <2>2. q \in Request  BY DEF IInv, CallsOK
  <2>3. x \in Request /\ x.at = "thread" /\ x.com = q.com  BY <2>2 DEF Request, Stages
  <2>4. q.com \in Comments /\ q.com \notin unused
    BY <2>1 DEF Roots, Posted, IInv, CommentsOK, DrawnOnce
  <2> HIDE DEF q, x
  <2>5. Sound(x)  BY <2>1, <2>3, <2>4 DEF Sound, ThreadOK
  <2>6. QED  BY <2>1, <2>5, GotoKeeps DEF x
<1>3. QED  BY <1>1, <1>2

LEMMA FindShareKeeps ==
  ASSUME IInv, NEW r \in Requests, FindShare(r)
  PROVE  IInv'
<1>1. CASE Fail(r)  BY <1>1, FailKeeps
<1>2. CASE Goto(r, "share")
  <2> DEFINE q == req[r]
             x == [req[r] EXCEPT !.at = "share"]
  <2>1. q \in Request /\ SharingOK(q)  BY DEF FindShare, At, IInv, CallsOK, Sound
  <2>2. x \in Request /\ x.at = "share" /\ x.art = q.art /\ x.user = q.user
    BY <2>1 DEF Request, Stages
  <2> HIDE DEF q, x
  <2>3. Sound(x)  BY <2>1, <2>2 DEF Sound, SharingOK
  <2>4. QED  BY <1>2, <2>3, GotoKeeps DEF x
<1>3. QED  BY <1>1, <1>2 DEF FindShare

-----------------------------------------------------------------------------
(* Writes to comments.                                                     *)

\* What a write to comments leaves as it was.
SharesAside == UNCHANGED <<owner, share, invited>>

LEMMA SharesKept ==
  ASSUME IInv, SharesAside
  PROVE  SharesOK'
  BY DEF IInv, SharesAside, SharesOK, OneSharePerRecipient, NotSharedWithOwner, SharesInvited,
         Shared, Owns, Live

LEMMA PostKeeps ==
  ASSUME IInv, NEW r \in Requests, Post(r)
  PROVE  IInv'
<1>1. CASE Fail(r)  BY <1>1, FailKeeps
<1>2. CASE ~Fail(r)
  <2> DEFINE q == req[r]
             x == [artifact |-> q.art, parent |-> q.com, author |-> q.by, body |-> q.body,
                   resolved |-> FALSE]
  <2>1. PICK k \in Comments \cap unused :
          /\ comment' = [comment EXCEPT ![k] = x]
          /\ unused' = unused \ {k}
          /\ Finish(r)
          /\ UNCHANGED <<owner, share, invited>>
    BY <1>2 DEF Post
  <2>2. q.art \in Live /\ q.com \in Posted \cup {None}
    BY <1>2 DEF Post, Enforced
  <2>3. q \in Request /\ WritingOK(q)  BY DEF Post, At, IInv, CallsOK, Sound
  <2>4. x \in CommentRow /\ x # None
    <3>1. /\ q.art \in Artifacts /\ q.com \in Comments \cup {None}
          /\ q.by \in Users \cup Connections /\ q.body \in Bodies
      BY <2>2, <2>3 DEF WritingOK, Posted
    <3> HIDE DEF q
    <3>2. x \in CommentRow  BY <3>1 DEF CommentRow
    <3>3. QED  BY <3>2, RowsAreNotNone
  <2>5. x.artifact = q.art /\ x.parent = q.com /\ x.author = q.by  OBVIOUS
  <2>6. q.com \in Posted => q.com \in Roots /\ comment[q.com].artifact = q.art
    BY <2>3 DEF WritingOK
  <2>7. MayWrite(q.by, q.art)  BY <2>2, <2>3 DEF WritingOK
  <2> HIDE DEF q, x
  <2>8. k \notin Posted  BY <2>1 DEF IInv, CommentsOK, DrawnOnce
  <2>9. comment'[k] = x /\ \A j \in Comments : j # k => comment'[j] = comment[j]
    BY <2>1 DEF IInv, Typed
  <2>10. Posted' = Posted \cup {k}  BY <2>1, <2>4, <2>9 DEF Posted
  <2>11. Roots \subseteq Roots'  BY <2>8, <2>9, <2>10 DEF Roots, Posted
  <2>12. Live' = Live /\ Shared' = Shared  BY <2>1 DEF Live, Shared
  <2>13. Typed'  BY <2>1, <2>4 DEF IInv, Typed
  <2>14. NothingDangles'
    <3>1. \A j \in Posted' : comment'[j].artifact \in Live'
      BY <2>2, <2>5, <2>8, <2>9, <2>10, <2>12 DEF IInv, NothingDangles, Posted
    <3>2. ASSUME NEW j \in Posted', j \notin Roots'
          PROVE  /\ comment'[j].parent \in Roots'
                 /\ comment'[comment'[j].parent].artifact = comment'[j].artifact
      <4>1. CASE j = k
        <5>1. q.com # None  BY <2>5, <2>9, <3>2, <4>1 DEF Roots
        <5>2. q.com \in Roots /\ q.com # k  BY <2>2, <2>6, <2>8, <5>1
        <5>3. q.com \in Comments  BY <5>2 DEF Roots, Posted
        <5>4. QED  BY <2>5, <2>6, <2>9, <2>11, <4>1, <5>2, <5>3 DEF Roots
      <4>2. CASE j # k
        <5>1. j \in Posted \ Roots /\ comment'[j] = comment[j]
          BY <2>9, <2>10, <2>11, <3>2, <4>2 DEF Posted
        <5>2. /\ comment[j].parent \in Roots
              /\ comment[comment[j].parent].artifact = comment[j].artifact
          BY <5>1 DEF IInv, NothingDangles
        <5>3. comment[j].parent # k /\ comment[j].parent \in Comments
          BY <2>8, <5>2 DEF Roots, Posted
        <5>4. QED  BY <2>9, <2>11, <5>1, <5>2, <5>3
      <4>3. QED  BY <4>1, <4>2
    <3>3. \A s \in Shared' : share'[s].artifact \in Live'
      BY <2>1, <2>12 DEF IInv, NothingDangles
    <3>4. QED  BY <3>1, <3>2, <3>3 DEF NothingDangles
  <2>15. CommentsOK'
    <3>1. DrawnOnce'  BY <2>1, <2>10 DEF IInv, CommentsOK, DrawnOnce
    <3>2. AuthorsAllowed'
      BY <2>1, <2>5, <2>7, <2>8, <2>9, <2>10
      DEF IInv, CommentsOK, AuthorsAllowed, MayWrite, Posted
    <3>3. QED  BY <3>1, <3>2 DEF CommentsOK
  <2>16. SharesOK'  BY <2>1, SharesKept DEF SharesAside
  <2>17. \A p \in Request : Sound(p) => Sound(p)'
    <3> TAKE p \in Request
    <3>1. WritingOK(p) => WritingOK(p)'
      BY <2>1, <2>8, <2>9, <2>10, <2>11, <2>12, <2>4 DEF WritingOK, MayWrite, Posted
    <3>2. ThreadOK(p) => ThreadOK(p)'
      BY <2>1, <2>10, <2>11 DEF ThreadOK
    <3>3. SharingOK(p) => SharingOK(p)'  BY <2>1, <2>12 DEF SharingOK, NotSelf
    <3>4. QED  BY <3>1, <3>2, <3>3 DEF Sound
  <2>18. CallsOK'  BY <2>1, <2>17, CallsKept, IdleSound DEF Finish, IInv
  <2>19. QED  BY <2>13, <2>14, <2>15, <2>16, <2>18 DEF IInv
<1>3. QED  BY <1>1, <1>2

-----------------------------------------------------------------------------
(* Every other write removes rows, sets a resolved flag or moves an        *)
(* artifact to another connection of its user.                             *)

Shrinks ==
    /\ Posted' \subseteq Posted
    /\ \A k \in Posted' : /\ comment'[k].artifact = comment[k].artifact
                          /\ comment'[k].parent = comment[k].parent
                          /\ comment'[k].author = comment[k].author
    /\ Shared' \subseteq Shared /\ \A s \in Shared' : share'[s] = share[s]
    /\ Live' \subseteq Live /\ \A a \in Live' : UserOf[owner'[a]] = UserOf[owner[a]]
    /\ UNCHANGED <<unused, invited>>

\* What the foreign keys ask of such a write: it leaves no row behind.
Closed == /\ \A k \in Posted' : comment[k].artifact \in Live'
          /\ \A k \in Posted' : comment[k].parent # None => comment[k].parent \in Posted'
          /\ \A s \in Shared' : share[s].artifact \in Live'

LEMMA ShrinkKeeps ==
  ASSUME IInv, Shrinks, Closed, Typed'
  PROVE  /\ NothingDangles' /\ CommentsOK' /\ SharesOK'
         /\ \A q \in Request : Sound(q) => Sound(q)'
<1>1. \A k \in Posted' : k \in Roots' <=> k \in Roots
  BY DEF Shrinks, Roots
<1>2. NothingDangles'
  <2>1. ASSUME NEW k \in Posted', k \notin Roots'
        PROVE  /\ comment'[k].parent \in Roots'
               /\ comment'[comment'[k].parent].artifact = comment'[k].artifact
    <3>1. k \in Posted \ Roots  BY <1>1, <2>1 DEF Shrinks
    <3>2. /\ comment[k].parent \in Roots
          /\ comment[comment[k].parent].artifact = comment[k].artifact
      BY <3>1 DEF IInv, NothingDangles
    <3>3. comment[k].parent \in Posted'  BY <3>1 DEF Closed, Roots
    <3>4. QED  BY <1>1, <3>2, <3>3 DEF Shrinks
  <2>2. \A k \in Posted' : comment'[k].artifact \in Live'  BY DEF Shrinks, Closed
  <2>3. \A s \in Shared' : share'[s].artifact \in Live'  BY DEF Shrinks, Closed
  <2>4. QED  BY <2>1, <2>2, <2>3 DEF NothingDangles
<1>3. CommentsOK'
  <2>1. DrawnOnce'  BY DEF IInv, CommentsOK, DrawnOnce, Shrinks
  <2>2. ASSUME NEW k \in Posted'
        PROVE  IF comment'[k].author \in Connections
               THEN UserOf[comment'[k].author] = UserOf[owner'[comment'[k].artifact]]
               ELSE \/ comment'[k].author = UserOf[owner'[comment'[k].artifact]]
                    \/ <<comment'[k].artifact, comment'[k].author>> \in invited'
    <3>1. UserOf[owner'[comment[k].artifact]] = UserOf[owner[comment[k].artifact]]
      BY DEF Shrinks, Closed
    <3>2. IF comment[k].author \in Connections
          THEN UserOf[comment[k].author] = UserOf[owner[comment[k].artifact]]
          ELSE \/ comment[k].author = UserOf[owner[comment[k].artifact]]
               \/ <<comment[k].artifact, comment[k].author>> \in invited
      BY DEF IInv, CommentsOK, AuthorsAllowed, Shrinks
    <3>3. QED  BY <3>1, <3>2 DEF Shrinks
  <2>3. AuthorsAllowed'  BY <2>2 DEF AuthorsAllowed
  <2>4. QED  BY <2>1, <2>3 DEF CommentsOK
<1>4. SharesOK'
  <2>1. OneSharePerRecipient' /\ SharesInvited'
    BY DEF IInv, SharesOK, OneSharePerRecipient, SharesInvited, Shrinks
  <2>2. NotSharedWithOwner'
    BY DEF IInv, SharesOK, NotSharedWithOwner, Owns, Shrinks
  <2>3. QED  BY <2>1, <2>2 DEF SharesOK
<1>5. ASSUME NEW q \in Request, Sound(q)  PROVE Sound(q)'
  <2>1. WritingOK(q) => WritingOK(q)'
    <3> SUFFICES ASSUME WritingOK(q)  PROVE WritingOK(q)'
      OBVIOUS
    <3>1. q.art \in Live' => q.art \in Live /\ UserOf[owner'[q.art]] = UserOf[owner[q.art]]
      BY DEF Shrinks
    <3>2. q.art \in Live' => MayWrite(q.by, q.art)'
      BY <3>1 DEF WritingOK, MayWrite, Shrinks
    <3>3. q.com \in Posted' => q.com \in Roots' /\ comment'[q.com].artifact = q.art
      BY <1>1 DEF WritingOK, Shrinks
    <3>4. QED  BY <3>2, <3>3 DEF WritingOK, Shrinks
  <2>2. ThreadOK(q) => ThreadOK(q)'  BY <1>1 DEF ThreadOK, Shrinks
  <2>3. SharingOK(q) => SharingOK(q)'  BY DEF SharingOK, NotSelf, Shrinks
  <2>4. QED  BY <1>5, <2>1, <2>2, <2>3 DEF Sound
<1>6. QED  BY <1>2, <1>3, <1>4, <1>5

\* Shrinking steps that end a call, and those that are nobody's call.
LEMMA ShrinkEnds ==
  ASSUME IInv, Shrinks, Closed, Typed', NEW r \in Requests, Finish(r)
  PROVE  IInv'
<1>1. CallsOK'  BY ShrinkKeeps, CallsKept, IdleSound DEF Finish, IInv
<1>2. QED  BY <1>1, ShrinkKeeps DEF IInv

LEMMA ShrinkAside ==
  ASSUME IInv, Shrinks, Closed, Typed', UNCHANGED req
  PROVE  IInv'
<1>1. \A r \in Requests : Sound(req[r])'
  <2> TAKE r \in Requests
  <2>1. req'[r] = req[r] /\ req[r] \in Request /\ Sound(req[r])  BY DEF IInv, CallsOK
  <2>2. QED  BY <2>1, ShrinkKeeps
<1>2. CallsOK'  BY <1>1 DEF IInv, CallsOK
<1>3. QED  BY <1>2, ShrinkKeeps DEF IInv

\* Where a row is left as it is or replaced by None.
LEMMA RowsDropped ==
  ASSUME IInv, NEW K, NEW S,
         comment' = [k \in Comments |-> IF k \in K THEN None ELSE comment[k]],
         share' = [s \in Shares |-> IF s \in S THEN None ELSE share[s]]
  PROVE  /\ Posted' = Posted \ K /\ \A k \in Posted' : comment'[k] = comment[k]
         /\ Shared' = Shared \ S /\ \A s \in Shared' : share'[s] = share[s]
         /\ comment' \in [Comments -> CommentRow \cup {None}]
         /\ share' \in [Shares -> ShareRow \cup {None}]
  BY DEF IInv, Typed, Posted, Shared

LEMMA MarkKeeps ==
  ASSUME IInv, NEW r \in Requests, Mark(r)
  PROVE  IInv'
<1>1. CASE Fail(r)  BY <1>1, FailKeeps
<1>2. CASE ~Fail(r)
  <2> DEFINE k == req[r].com
             s == req[r].set
             x == [comment[k] EXCEPT !.resolved = s]
  <2>1. /\ k \in Posted /\ Finish(r)
        /\ comment' = [comment EXCEPT ![k] = x]
        /\ UNCHANGED <<owner, share, unused, invited>>
    BY <1>2 DEF Mark
  <2>2. comment[k] \in CommentRow /\ k \in Comments  BY <2>1, RowTypes DEF IInv
  <2>3. s \in BOOLEAN  BY DEF IInv, CallsOK, Request
  <2> HIDE DEF s
  <2>4. /\ x \in CommentRow /\ x.artifact = comment[k].artifact
        /\ x.parent = comment[k].parent /\ x.author = comment[k].author
    BY <2>2, <2>3 DEF CommentRow
  <2>5. x # None  BY <2>4, RowsAreNotNone
  <2> HIDE DEF x, k
  <2>6. comment'[k] = x /\ \A j \in Comments : j # k => comment'[j] = comment[j]
    BY <2>1, <2>2 DEF IInv, Typed
  <2>7. Posted' = Posted  BY <2>1, <2>5, <2>6 DEF Posted
  <2>8. Live' = Live /\ Shared' = Shared  BY <2>1 DEF Live, Shared
  <2>9. Shrinks  BY <2>1, <2>4, <2>6, <2>7, <2>8 DEF Shrinks, Posted
  <2>10. Closed
    <3>1. \A j \in Posted : comment[j].parent # None => comment[j].parent \in Posted
      BY DEF IInv, NothingDangles, Roots
    <3>2. QED  BY <2>7, <2>8, <3>1 DEF Closed, IInv, NothingDangles
  <2>11. Typed'  BY <2>1, <2>4 DEF IInv, Typed
  <2>12. QED  BY <2>1, <2>9, <2>10, <2>11, ShrinkEnds
<1>3. QED  BY <1>1, <1>2

LEMMA DeleteThreadKeeps ==
  ASSUME IInv, NEW r \in Requests, DeleteThread(r)
  PROVE  IInv'
<1> DEFINE k == req[r].com
           K == Thread(k)
           S == {}
<1>1. ThreadOK(req[r])  BY DEF DeleteThread, At, IInv, CallsOK, Sound
<1>2. /\ comment' = [j \in Comments |-> IF j \in K THEN None ELSE comment[j]]
      /\ share' = [s \in Shares |-> IF s \in S THEN None ELSE share[s]]
      /\ Finish(r) /\ UNCHANGED <<owner, share, unused, invited>>
  BY DEF DeleteThread, IInv, Typed
<1> HIDE DEF K, S
<1>3. /\ Posted' = Posted \ K /\ \A j \in Posted' : comment'[j] = comment[j]
      /\ comment' \in [Comments -> CommentRow \cup {None}]
  BY <1>2, RowsDropped
<1>4. Shared' = Shared /\ Live' = Live  BY <1>2 DEF Shared, Live
<1>5. Shrinks  BY <1>2, <1>3, <1>4 DEF Shrinks
<1>6. Closed
  <2>1. ASSUME NEW j \in Posted', comment[j].parent # None  PROVE comment[j].parent \notin K
    <3>1. j \in Posted \ Roots /\ j \notin K  BY <1>3, <2>1 DEF Roots
    <3>2. comment[j].parent \in Roots  BY <3>1 DEF IInv, NothingDangles
    <3>3. comment[j].parent # k  BY <3>1 DEF K, Thread
    <3>4. QED  BY <1>1, <3>2, <3>3, NoneAssumption DEF K, Thread, Roots, ThreadOK, IInv,
                  NothingDangles, Posted
  <2>2. \A j \in Posted : comment[j].parent # None => comment[j].parent \in Posted
    BY DEF IInv, NothingDangles, Roots
  <2>3. QED  BY <1>3, <1>4, <2>1, <2>2 DEF Closed, IInv, NothingDangles
<1>7. Typed'  BY <1>2, <1>3 DEF IInv, Typed
<1>8. QED  BY <1>2, <1>5, <1>6, <1>7, ShrinkEnds

LEMMA UnshareKeeps ==
  ASSUME IInv, NEW r \in Requests, Unshare(r)
  PROVE  IInv'
<1>1. CASE Fail(r)  BY <1>1, FailKeeps
<1>2. CASE ~Fail(r)
  <2> DEFINE s == req[r].shr
  <2>1. /\ share' = [share EXCEPT ![s] = None] /\ Finish(r)
        /\ UNCHANGED <<owner, comment, unused, invited>>
    BY <1>2 DEF Unshare
  <2> HIDE DEF s
  <2>2. Posted' = Posted /\ Live' = Live  BY <2>1 DEF Live, Posted
  <2>3. /\ Shared' \subseteq Shared /\ \A t \in Shared' : share'[t] = share[t]
        /\ share' \in [Shares -> ShareRow \cup {None}]
    BY <2>1 DEF Shared, IInv, Typed
  <2>4. Shrinks  BY <2>1, <2>2, <2>3 DEF Shrinks
  <2>5. \A j \in Posted : comment[j].parent # None => comment[j].parent \in Posted
    BY DEF IInv, NothingDangles, Roots
  <2>6. Closed  BY <2>2, <2>3, <2>5 DEF Closed, IInv, NothingDangles
  <2>7. Typed'  BY <2>1, <2>3 DEF IInv, Typed
  <2>8. QED  BY <2>1, <2>4, <2>6, <2>7, ShrinkEnds
<1>3. QED  BY <1>1, <1>2

LEMMA ReassignKeeps ==
  ASSUME IInv, NEW a \in Artifacts, NEW c \in Connections, Reassign(a, c)
  PROVE  IInv'
<1>1. /\ a \in Live /\ UserOf[c] = UserOf[owner[a]] /\ owner' = [owner EXCEPT ![a] = c]
      /\ UNCHANGED <<comment, share, unused, req, invited>>
  BY DEF Reassign, OfOneUser
<1>2. Live' = Live /\ \A b \in Live : UserOf[owner'[b]] = UserOf[owner[b]]
  BY <1>1 DEF Live, IInv, Typed
<1>3. Posted' = Posted /\ Shared' = Shared  BY <1>1 DEF Posted, Shared
<1>4. Shrinks  BY <1>1, <1>2, <1>3 DEF Shrinks
<1>5. \A j \in Posted : comment[j].parent # None => comment[j].parent \in Posted
  BY DEF IInv, NothingDangles, Roots
<1>6. Closed  BY <1>2, <1>3, <1>5 DEF Closed, IInv, NothingDangles
<1>7. Typed'  BY <1>1 DEF IInv, Typed
<1>8. QED  BY <1>1, <1>4, <1>6, <1>7, ShrinkAside

LEMMA DeleteArtifactKeeps ==
  ASSUME IInv, NEW a \in Artifacts, DeleteArtifact(a)
  PROVE  IInv'
<1> DEFINE K == On(a)
           S == {s \in Shared : share[s].artifact = a}
<1>1. /\ comment' = [k \in Comments |-> IF k \in K THEN None ELSE comment[k]]
      /\ share' = [s \in Shares |-> IF s \in S THEN None ELSE share[s]]
  BY DEF DeleteArtifact
<1>2. /\ \A k \in Posted : k \in K <=> comment[k].artifact = a
      /\ \A s \in Shared : s \in S <=> share[s].artifact = a
  BY DEF On
<1> HIDE DEF K, S
<1>3. owner' = [owner EXCEPT ![a] = None] /\ UNCHANGED <<unused, req, invited>>
  BY DEF DeleteArtifact
<1>4. /\ Posted' = Posted \ K /\ \A k \in Posted' : comment'[k] = comment[k]
      /\ Shared' = Shared \ S /\ \A s \in Shared' : share'[s] = share[s]
      /\ comment' \in [Comments -> CommentRow \cup {None}]
      /\ share' \in [Shares -> ShareRow \cup {None}]
  BY <1>1, RowsDropped
<1>5. Live' = Live \ {a} /\ \A b \in Live' : owner'[b] = owner[b]
  BY <1>3 DEF Live, IInv, Typed
<1>6. Shrinks  BY <1>3, <1>4, <1>5 DEF Shrinks
<1>7. \A j \in Posted : comment[j].parent # None =>
         /\ comment[j].parent \in Posted
         /\ comment[comment[j].parent].artifact = comment[j].artifact
  BY DEF IInv, NothingDangles, Roots
<1>8. Closed  BY <1>2, <1>4, <1>5, <1>7 DEF Closed, IInv, NothingDangles
<1>9. Typed'  BY <1>3, <1>4 DEF IInv, Typed
<1>10. QED  BY <1>3, <1>6, <1>8, <1>9, ShrinkAside

LEMMA CommitShareKeeps ==
  ASSUME IInv, NEW r \in Requests, CommitShare(r)
  PROVE  IInv'
<1>1. CASE Fail(r)  BY <1>1, FailKeeps
<1>2. CASE ~Fail(r)
  <2> DEFINE a == req[r].art
             u == req[r].user
             x == [artifact |-> a, user |-> u]
  <2>1. PICK s \in Shares \cap unused :
          /\ share' = [share EXCEPT ![s] = x]
          /\ unused' = unused \ {s}
          /\ invited' = invited \cup {<<a, u>>}
          /\ Finish(r)
          /\ UNCHANGED <<owner, comment>>
    BY <1>2 DEF CommitShare
  <2>2. a \in Live /\ Unique(a, u)  BY <1>2 DEF CommitShare, Enforced
  <2>3. SharingOK(req[r])  BY DEF CommitShare, At, IInv, CallsOK, Sound
  <2>4. a \in Artifacts /\ u \in Users /\ UserOf[owner[a]] # u
    BY <2>2, <2>3 DEF SharingOK, NotSelf
  <2> HIDE DEF a, u
  <2>5. x \in ShareRow /\ x # None /\ x.artifact = a /\ x.user = u
    BY <2>4, RowsAreNotNone DEF ShareRow
  <2>6. \A t \in Shared : share[t] # x  BY <2>2 DEF Unique, SharedWith
  <2> HIDE DEF x
  <2>7. share'[s] = x /\ \A t \in Shares : t # s => share'[t] = share[t]
    BY <2>1 DEF IInv, Typed
  <2>8. Shared' = Shared \cup {s}  BY <2>1, <2>5, <2>7 DEF Shared
  <2>9. Posted' = Posted /\ Roots' = Roots /\ Live' = Live  BY <2>1 DEF Posted, Roots, Live
  <2>10. Typed'  BY <2>1, <2>4, <2>5 DEF IInv, Typed
  <2>11. NothingDangles'
    BY <2>1, <2>2, <2>5, <2>7, <2>8, <2>9 DEF IInv, NothingDangles, Shared
  <2>12. CommentsOK'
    BY <2>1, <2>9 DEF IInv, CommentsOK, DrawnOnce, AuthorsAllowed
  <2>13. SharesOK'
    <3>1. OneSharePerRecipient'
      BY <2>6, <2>7, <2>8 DEF IInv, SharesOK, OneSharePerRecipient, Shared
    <3>2. NotSharedWithOwner'
      BY <2>1, <2>4, <2>5, <2>7, <2>8, <2>9 DEF IInv, SharesOK, NotSharedWithOwner, Owns, Shared
    <3>3. SharesInvited'
      BY <2>1, <2>5, <2>7, <2>8 DEF IInv, SharesOK, SharesInvited, Shared
    <3>4. QED  BY <3>1, <3>2, <3>3 DEF SharesOK
  <2>14. \A q \in Request : Sound(q) => Sound(q)'
    BY <2>1, <2>9 DEF Sound, WritingOK, MayWrite, ThreadOK, SharingOK, NotSelf
  <2>15. CallsOK'  BY <2>1, <2>14, CallsKept, IdleSound DEF Finish, IInv
  <2>16. QED  BY <2>10, <2>11, <2>12, <2>13, <2>15 DEF IInv
<1>3. QED  BY <1>1, <1>2

LEMMA RestartKeeps ==
  ASSUME IInv, Restart
  PROVE  IInv'
<1>1. Idle \in Request  BY DEF Idle, Request, Stages
<1>2. CallsOK'
  <2>1. req' \in [Requests -> Request]  BY <1>1 DEF Restart
  <2>2. \A r \in Requests : req'[r] = Idle  BY DEF Restart
  <2>3. \A r \in Requests : Sound(req[r])'  BY <2>2, IdleSound
  <2>4. QED  BY <2>1, <2>3 DEF CallsOK
<1>3. Typed' /\ NothingDangles'
  BY DEF Restart, IInv, Typed, NothingDangles, Live, Posted, Roots, Shared
<1>4. CommentsOK'
  BY DEF Restart, IInv, CommentsOK, DrawnOnce, AuthorsAllowed, Posted
<1>5. SharesOK'
  BY DEF Restart, IInv, SharesOK, OneSharePerRecipient, NotSharedWithOwner, SharesInvited,
         Shared, Owns, Live
<1>6. QED  BY <1>2, <1>3, <1>4, <1>5 DEF IInv

-----------------------------------------------------------------------------
LEMMA InitHolds == Init => IInv
<1> SUFFICES ASSUME Init  PROVE IInv
  OBVIOUS
<1>1. Posted = {} /\ Shared = {}  BY DEF Init, Posted, Shared
<1>2. Typed  BY DEF Init, Typed
<1>3. NothingDangles /\ CommentsOK /\ SharesOK
  BY <1>1 DEF NothingDangles, CommentsOK, DrawnOnce, AuthorsAllowed, SharesOK,
              OneSharePerRecipient, NotSharedWithOwner, SharesInvited, Roots
<1>4. Idle \in Request  BY DEF Idle, Request, Stages
<1>5. CallsOK  BY <1>4, IdleSound DEF Init, CallsOK
<1>6. QED  BY <1>2, <1>3, <1>5 DEF IInv

LEMMA NextKeeps == IInv /\ [Next]_vars => IInv'
<1> SUFFICES ASSUME IInv, [Next]_vars  PROVE IInv'
  OBVIOUS
<1>1. ASSUME NEW r \in Requests, Step(r)  PROVE IInv'
  BY <1>1, CheckQuotaKeeps, PostKeeps, MarkKeeps, FindRootKeeps, DeleteThreadKeeps,
     FindShareKeeps, CommitShareKeeps, UnshareKeeps DEF Step
<1>2. ASSUME NEW r \in Requests, Abort(r)  PROVE IInv'
  BY <1>2, FailKeeps DEF Abort
<1>3. CASE UNCHANGED vars
  <2>1. Typed' /\ NothingDangles'
    BY <1>3 DEF vars, IInv, Typed, NothingDangles, Live, Posted, Roots, Shared
  <2>2. CommentsOK'
    BY <1>3 DEF vars, IInv, CommentsOK, DrawnOnce, AuthorsAllowed, Posted
  <2>3. SharesOK'
    BY <1>3 DEF vars, IInv, SharesOK, OneSharePerRecipient, NotSharedWithOwner, SharesInvited,
                Shared, Owns, Live
  <2>4. CallsOK'
    BY <1>3 DEF vars, IInv, CallsOK, Sound, WritingOK, ThreadOK, SharingOK, MayWrite, NotSelf,
                Live, Posted, Roots
  <2>5. QED  BY <2>1, <2>2, <2>3, <2>4 DEF IInv
<1>4. QED
  BY <1>1, <1>2, <1>3, StartKeeps, ReassignKeeps, DeleteArtifactKeeps, RestartKeeps DEF Next

LEMMA IInvHolds == Spec => []IInv
  BY InitHolds, NextKeeps, PTL DEF Spec

-----------------------------------------------------------------------------
(* The quota.  Only a passed check adds a call to Posting, and then fewer  *)
(* than the limit are posted; Post turns one of them into a comment.       *)

LEMMA Counts ==
  ASSUME IInv, NEW a
  PROVE  /\ IsFiniteSet(On(a)) /\ Cardinality(On(a)) \in Nat
         /\ IsFiniteSet(Posting(a)) /\ Cardinality(Posting(a)) \in Nat
         /\ Cardinality(Posting(a)) <= Cardinality(Requests) /\ Cardinality(Requests) \in Nat
<1>1. On(a) \subseteq Comments /\ Posting(a) \subseteq Requests  BY DEF On, Posted, Posting
<1>2. QED  BY <1>1, PoolAssumption, FS_Subset, FS_CardinalityType

LEMMA FewerKeeps ==
  ASSUME IInv, CommentsBounded, NEW a \in Artifacts,
         On(a)' \subseteq On(a), Posting(a)' \subseteq Posting(a)
  PROVE  Cardinality(On(a)') + Cardinality(Posting(a)')
             <= MaxCommentsPerArtifact + Cardinality(Requests) - 1
<1>1. /\ Cardinality(On(a)') <= Cardinality(On(a))
      /\ Cardinality(Posting(a)') <= Cardinality(Posting(a))
      /\ Cardinality(On(a)') \in Nat /\ Cardinality(Posting(a)') \in Nat
  BY Counts, FS_Subset, FS_CardinalityType
<1>2. QED  BY <1>1, Counts, LimitAssumption DEF CommentsBounded

\* A call that takes a new record, not to post on a, leaves Posting(a).
LEMMA PostingMoves ==
  ASSUME IInv, NEW r \in Requests, NEW x, req' = [req EXCEPT ![r] = x], NEW a,
         x.at # "post" \/ x.art # a
  PROVE  Posting(a)' = Posting(a) \ {r}
  BY DEF IInv, CallsOK, Posting, At

LEMMA StartBegins ==
  ASSUME NEW r \in Requests, Start(r)
  PROVE  \E x : Begin(r, x) /\ x.at # "post"
<1>1. ASSUME NEW by, NEW a, NEW k, NEW b, Begin(r, Writing(by, a, k, b))
      PROVE  \E x : Begin(r, x) /\ x.at # "post"
  <2>1. Writing(by, a, k, b).at # "post"  BY DEF Writing, Idle
  <2>2. QED  BY <1>1, <2>1
<1>2. ASSUME NEW k, NEW s, NEW t, Begin(r, Marking(k, s, t))
      PROVE  \E x : Begin(r, x) /\ x.at # "post"
  <2>1. Marking(k, s, t).at # "post"  BY DEF Marking, Idle
  <2>2. QED  BY <1>2, <2>1
<1>3. CASE StartPosting(r)
  BY <1>1, <1>3 DEF StartPosting, StartComment, StartHumanReply, StartAgentReply
<1>4. ASSUME NEW c \in Connections, NEW k \in Comments, StartResolve(r, c, k)
      PROVE  \E x : Begin(r, x) /\ x.at # "post"
  BY <1>2, <1>4 DEF StartResolve
<1>5. ASSUME NEW u \in Users, NEW k \in Comments, StartToggle(r, u, k)
      PROVE  \E x : Begin(r, x) /\ x.at # "post"
  BY <1>2, <1>5 DEF StartToggle
<1>6. ASSUME NEW u \in Users, NEW a \in Artifacts, StartShare(r, a, u)
      PROVE  \E x : Begin(r, x) /\ x.at # "post"
  <2>1. [Idle EXCEPT !.at = "existing", !.art = a, !.user = u].at # "post"  BY DEF Idle
  <2>2. QED  BY <1>6, <2>1 DEF StartShare
<1>7. ASSUME NEW u \in Users, NEW a \in Artifacts, NEW k \in Comments, StartDeleteThread(r, u, a, k)
      PROVE  \E x : Begin(r, x) /\ x.at # "post"
  <2>1. [Idle EXCEPT !.at = "root", !.art = a, !.com = k].at # "post"  BY DEF Idle
  <2>2. QED  BY <1>7, <2>1 DEF StartDeleteThread
<1>8. ASSUME NEW u \in Users, NEW a \in Artifacts, NEW s \in Shares, StartUnshare(r, u, a, s)
      PROVE  \E x : Begin(r, x) /\ x.at # "post"
  <2>1. [Idle EXCEPT !.at = "unshare", !.art = a, !.shr = s].at # "post"  BY DEF Idle
  <2>2. QED  BY <1>8, <2>1 DEF StartUnshare
<1>9. QED  BY <1>3, <1>4, <1>5, <1>6, <1>7, <1>8 DEF Start

\* Steps that neither post a comment nor admit a call to posting one.
Quiet == \A a \in Artifacts : On(a)' \subseteq On(a) /\ Posting(a)' \subseteq Posting(a)

LEMMA QuietCall ==
  ASSUME IInv, NEW r \in Requests, NEW x, req' = [req EXCEPT ![r] = x], x.at # "post",
         \A a \in Artifacts : On(a)' \subseteq On(a)
  PROVE  Quiet
<1>1. \A a \in Artifacts : Posting(a)' = Posting(a) \ {r}  BY PostingMoves
<1>2. QED  BY <1>1 DEF Quiet

LEMMA QuietFail ==
  ASSUME IInv, NEW r \in Requests, Fail(r)
  PROVE  Quiet
<1>1. Idle.at # "post"  BY DEF Idle
<1>2. \A a \in Artifacts : On(a)' = On(a)  BY DEF Fail, On, Posted
<1>3. QED  BY <1>1, <1>2, QuietCall DEF Fail, Finish

LEMMA QuietFinish ==
  ASSUME IInv, NEW r \in Requests, Finish(r), \A a \in Artifacts : On(a)' \subseteq On(a)
  PROVE  Quiet
<1>1. Idle.at # "post"  BY DEF Idle
<1>2. QED  BY <1>1, QuietCall DEF Finish

LEMMA QuietGoto ==
  ASSUME IInv, NEW r \in Requests, NEW stage, Goto(r, stage), stage # "post"
  PROVE  Quiet
<1> DEFINE x == [req[r] EXCEPT !.at = stage]
<1>1. req[r] \in Request  BY DEF IInv, CallsOK
<1>2. x.at # "post"  BY <1>1, Zenon DEF Request
<1>3. req' = [req EXCEPT ![r] = x]  BY DEF Goto
<1> HIDE DEF x
<1>4. \A a \in Artifacts : On(a)' = On(a)  BY DEF Goto, On, Posted
<1>5. QED  BY <1>2, <1>3, <1>4, QuietCall

LEMMA QuietMark ==
  ASSUME IInv, NEW r \in Requests, Mark(r)
  PROVE  Quiet
<1>1. CASE Fail(r)  BY <1>1, QuietFail
<1>2. CASE ~Fail(r)
  <2> DEFINE k == req[r].com
             s == req[r].set
             x == [comment[k] EXCEPT !.resolved = s]
  <2>1. k \in Posted /\ Finish(r) /\ comment' = [comment EXCEPT ![k] = x]
    BY <1>2 DEF Mark
  <2>2. comment[k] \in CommentRow  BY <2>1, RowTypes DEF IInv
  <2>3. x.artifact = comment[k].artifact  BY <2>2 DEF CommentRow
  <2> HIDE DEF x, k
  <2>4. \A a \in Artifacts : On(a)' \subseteq On(a)
    BY <2>1, <2>3 DEF IInv, Typed, On, Posted
  <2>5. QED  BY <2>1, <2>4, QuietFinish
<1>3. QED  BY <1>1, <1>2

LEMMA QuietSteps ==
  ASSUME IInv, NEW r \in Requests,
         Mark(r) \/ FindRoot(r) \/ DeleteThread(r) \/ FindShare(r) \/ CommitShare(r) \/ Unshare(r)
  PROVE  Quiet
<1>1. CASE Fail(r)  BY <1>1, QuietFail
<1>2. CASE Mark(r)  BY <1>2, QuietMark
<1>3. CASE ~Fail(r) /\ FindRoot(r)
  <2>1. Goto(r, "thread")  BY <1>3 DEF FindRoot
  <2>2. QED  BY <2>1, QuietGoto
<1>4. CASE ~Fail(r) /\ FindShare(r)
  <2>1. Goto(r, "share")  BY <1>4 DEF FindShare
  <2>2. QED  BY <2>1, QuietGoto
<1>5. CASE DeleteThread(r)
  <2>1. \A a \in Artifacts : On(a)' \subseteq On(a)  BY <1>5 DEF DeleteThread, On, Posted
  <2>2. QED  BY <1>5, <2>1, QuietFinish DEF DeleteThread
<1>6. CASE ~Fail(r) /\ (CommitShare(r) \/ Unshare(r))
  <2>1. Finish(r) /\ comment' = comment  BY <1>6 DEF CommitShare, Unshare
  <2>2. \A a \in Artifacts : On(a)' \subseteq On(a)  BY <2>1 DEF On, Posted
  <2>3. QED  BY <2>1, <2>2, QuietFinish
<1>7. QED  BY <1>1, <1>2, <1>3, <1>4, <1>5, <1>6

LEMMA QuietAside ==
  ASSUME IInv,
         \/ \E a \in Artifacts : DeleteArtifact(a) \/ \E c \in Connections : Reassign(a, c)
         \/ Restart \/ UNCHANGED vars
  PROVE  Quiet
<1>1. ASSUME NEW a \in Artifacts, DeleteArtifact(a)  PROVE Quiet
  BY <1>1 DEF DeleteArtifact, Quiet, On, Posted, Posting, At
<1>2. ASSUME NEW a \in Artifacts, NEW c \in Connections, Reassign(a, c)  PROVE Quiet
  BY <1>2 DEF Reassign, Quiet, On, Posted, Posting, At
<1>3. CASE Restart  BY <1>3 DEF Restart, Quiet, On, Posted, Posting, At, Idle
<1>4. CASE UNCHANGED vars  BY <1>4 DEF vars, Quiet, On, Posted, Posting, At
<1>5. QED  BY <1>1, <1>2, <1>3, <1>4

LEMMA CheckQuotaBounded ==
  ASSUME IInv, CommentsBounded, NEW r \in Requests, CheckQuota(r)
  PROVE  CommentsBounded'
<1>1. CASE Fail(r)  BY <1>1, QuietFail, FewerKeeps DEF Quiet, CommentsBounded
<1>2. CASE ~Fail(r)
  <2> DEFINE b == req[r].art
             x == [req[r] EXCEPT !.at = "post"]
  <2>1. CountFits(b) /\ req' = [req EXCEPT ![r] = x] /\ UNCHANGED <<tables, invited>>
    BY <1>2 DEF CheckQuota, Goto
  <2>2. x.art = b  BY DEF IInv, CallsOK, Request
  <2> HIDE DEF b, x
  <2>3. \A a \in Artifacts : On(a)' = On(a)  BY <2>1 DEF On, Posted
  <2> SUFFICES ASSUME NEW a \in Artifacts
               PROVE  Cardinality(On(a)') + Cardinality(Posting(a)')
                          <= MaxCommentsPerArtifact + Cardinality(Requests) - 1
    BY DEF CommentsBounded
  <2>4. CASE a # b
    <3>1. Posting(a)' = Posting(a) \ {r}  BY <2>1, <2>2, <2>4, PostingMoves
    <3>2. QED  BY <2>3, <3>1, FewerKeeps
  <2>5. CASE a = b
    <3>1. Cardinality(On(a)) < MaxCommentsPerArtifact  BY <2>1, <2>5 DEF CountFits
    <3>2. Posting(a)' \subseteq Requests  BY DEF Posting
    <3>3. Cardinality(Posting(a)') \in Nat /\ Cardinality(Posting(a)') <= Cardinality(Requests)
      BY <3>2, PoolAssumption, FS_Subset, FS_CardinalityType
    <3>4. QED  BY <2>3, <3>1, <3>3, Counts, LimitAssumption
  <2>6. QED  BY <2>4, <2>5
<1>3. QED  BY <1>1, <1>2

LEMMA PostBounded ==
  ASSUME IInv, CommentsBounded, NEW r \in Requests, Post(r)
  PROVE  CommentsBounded'
<1>1. CASE Fail(r)  BY <1>1, QuietFail, FewerKeeps DEF Quiet, CommentsBounded
<1>2. CASE ~Fail(r)
  <2> DEFINE b == req[r].art
             x == [artifact |-> b, parent |-> req[r].com, author |-> req[r].by,
                   body |-> req[r].body, resolved |-> FALSE]
  <2>1. PICK k \in Comments \cap unused :
          comment' = [comment EXCEPT ![k] = x] /\ Finish(r)
    BY <1>2 DEF Post
  <2>2. x.artifact = b /\ Idle.at # "post"  BY DEF Idle
  <2> HIDE DEF x
  <2>3. k \notin Posted  BY <2>1 DEF IInv, CommentsOK, DrawnOnce
  <2>4. \A a \in Artifacts : Posting(a)' = Posting(a) \ {r}
    BY <2>1, <2>2, PostingMoves DEF Finish
  <2>5. \A j \in Comments : j # k => comment'[j] = comment[j]
    BY <2>1 DEF IInv, Typed
  <2>6. comment'[k] = x  BY <2>1 DEF IInv, Typed
  <2> SUFFICES ASSUME NEW a \in Artifacts
               PROVE  Cardinality(On(a)') + Cardinality(Posting(a)')
                          <= MaxCommentsPerArtifact + Cardinality(Requests) - 1
    BY DEF CommentsBounded
  <2>7. CASE a # b
    <3>1. On(a)' \subseteq On(a)  BY <2>2, <2>5, <2>6, <2>7 DEF On, Posted
    <3>2. QED  BY <2>4, <3>1, FewerKeeps
  <2>8. CASE a = b
    <3>1. r \in Posting(a)  BY <2>8 DEF Posting, Post, b
    <3>2. Cardinality(Posting(a)') = Cardinality(Posting(a)) - 1
      BY <2>4, <3>1, Counts, FS_RemoveElement
    <3>3. On(a)' \subseteq On(a) \cup {k} /\ k \notin On(a)
      BY <2>3, <2>5 DEF On, Posted
    <3>4. /\ Cardinality(On(a) \cup {k}) = Cardinality(On(a)) + 1
          /\ IsFiniteSet(On(a) \cup {k})
      BY <3>3, Counts, FS_AddElement
    <3>5. Cardinality(On(a)') \in Nat /\ Cardinality(On(a)') <= Cardinality(On(a)) + 1
      BY <3>3, <3>4, FS_Subset, FS_CardinalityType
    <3>6. QED  BY <3>2, <3>5, Counts, LimitAssumption DEF CommentsBounded
  <2>9. QED  BY <2>7, <2>8
<1>3. QED  BY <1>1, <1>2

LEMMA BoundedNext == IInv /\ CommentsBounded /\ [Next]_vars => CommentsBounded'
<1> SUFFICES ASSUME IInv, CommentsBounded, [Next]_vars  PROVE CommentsBounded'
  OBVIOUS
<1>1. CASE Quiet  BY <1>1, FewerKeeps DEF Quiet, CommentsBounded
<1>2. ASSUME NEW r \in Requests, Start(r)  PROVE Quiet
  <2>1. PICK x : Begin(r, x) /\ x.at # "post"  BY <1>2, StartBegins
  <2>2. \A a \in Artifacts : On(a)' = On(a)  BY <2>1 DEF Begin, On, Posted
  <2>3. QED  BY <2>1, <2>2, QuietCall DEF Begin
<1>3. ASSUME NEW r \in Requests, Abort(r)  PROVE Quiet
  BY <1>3, QuietFail DEF Abort
<1>4. ASSUME NEW r \in Requests, Step(r)  PROVE CommentsBounded'
  <2>1. CASE CheckQuota(r)  BY <2>1, CheckQuotaBounded
  <2>2. CASE Post(r)  BY <2>2, PostBounded
  <2>3. QED  BY <1>1, <1>4, <2>1, <2>2, QuietSteps DEF Step
<1>5. QED  BY <1>1, <1>2, <1>3, <1>4, QuietAside DEF Next

LEMMA BoundedInit == Init => CommentsBounded
<1> SUFFICES ASSUME Init, NEW a \in Artifacts
             PROVE  Cardinality(On(a)) + Cardinality(Posting(a))
                        <= MaxCommentsPerArtifact + Cardinality(Requests) - 1
  BY DEF CommentsBounded
<1>1. On(a) = {} /\ Posting(a) = {}  BY DEF Init, On, Posted, Posting, At, Idle
<1>2. Cardinality(Requests) \in Nat /\ Cardinality(Requests) # 0
  BY PoolAssumption, FS_CardinalityType, FS_EmptySet
<1>3. QED  BY <1>1, <1>2, FS_EmptySet, LimitAssumption

-----------------------------------------------------------------------------
\* Every variable of comments.py and shares.py keeps its type.
THEOREM CollaborationTyped == Spec => []TypeOK
<1>1. IInv => TypeOK  BY DEF IInv, Typed, CallsOK, TypeOK
<1>2. QED  BY <1>1, IInvHolds, PTL

\* comments.py:317-318: no interleaving of replies, deletions of threads and of
\* artifacts leaves a comment without its artifact, a reply without its root or a
\* share without its artifact.
THEOREM NothingDanglesHolds == Spec => []NothingDangles
<1>1. IInv => NothingDangles  BY DEF IInv
<1>2. QED  BY <1>1, IInvHolds, PTL

\* shares.py:27-37: an artifact has one share per recipient and none for its owner,
\* whatever calls raced between the look-up and the commit.
THEOREM SharesAreSingle == Spec => [](OneSharePerRecipient /\ NotSharedWithOwner)
<1>1. IInv => OneSharePerRecipient /\ NotSharedWithOwner  BY DEF IInv, SharesOK
<1>2. QED  BY <1>1, IInvHolds, PTL

\* shares.py:27-29: nobody has a share of an artifact that is theirs, also after a
\* reassignment between the check of a share and its commit.
THEOREM OwnersGetNoShare == Spec => []NotSharedWithOwner
<1>1. QED  BY SharesAreSingle, PTL

\* comments.py:162-171, 221-255: although access is checked two awaits before the
\* INSERT, every comment is by someone who could reach the artifact.
THEOREM AuthorsHold == Spec => []AuthorsAllowed
<1>1. IInv => AuthorsAllowed  BY DEF IInv, CommentsOK
<1>2. QED  BY <1>1, IInvHolds, PTL

\* comments.py:42: the unlocked quota overshoots by less than the number of calls in
\* flight, for every quota and however many of them there are.
THEOREM CommentsBoundedHolds == Spec => []CommentsBounded
<1>1. Init => CommentsBounded  BY BoundedInit
<1>2. IInv /\ CommentsBounded /\ [Next]_vars => CommentsBounded'  BY BoundedNext
<1>3. QED  BY <1>1, <1>2, IInvHolds, PTL DEF Spec

=============================================================================
