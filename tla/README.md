# renderdesk, specified

TLA+ models of renderdesk, model-checked with TLC, with theorems about them
checked by TLAPS. Every definition is translated from the Python under
`src/renderdesk/`; `PROJECT.json` maps each one to the lines it stands for.

## The system

renderdesk is one asyncio process (a single uvicorn worker) over one SQLite
file. Agents publish *artifacts* through MCP tools; people read them, comment
on them, share them and manage them from a dashboard; an OAuth authorization
server issues the tokens agents use; a command line, run by an administrator
in a second process, works on the same database file.

| Part | State | Operations | Source |
|---|---|---|---|
| Artifact store | `artifacts`, `artifact_versions`; one `asyncio.Lock` per connection | publish, update, get, list, delete, reassign, version list/get/delete/prune, quota checks | `tools.py`, `quotas.py`, `versions.py` |
| OAuth grants | `oauth_clients`, `oauth_authorization_codes`, `connections`; a lock per (user, client); a signing key per process | register, authorize, consent, exchange a code, sweep | `oauth_provider.py`, `oauth_consent_state.py`, `dashboard.py` |
| Token rotation | `oauth_access_tokens`, `oauth_refresh_tokens`, `connections.revoked_at` | issue, refresh, authenticate, revoke, delete a connection, personal tokens | `oauth_provider.py`, `auth.py`, `tokens.py`, `cli.py` |
| Comments | `comments`: threads with a root, `resolved` on the root | create, reply, resolve, toggle, delete a thread, list; quota per artifact | `comments.py` |
| Shares | `artifact_shares` | share, unshare, list; access checks | `shares.py`, `comments.py` |
| Login | `sessions`; failed logins by email and by address in memory | password login, logout, lockout, sweep | `session_auth.py`, `rate_limit.py`, `dashboard.py` |
| Single sign-on | `oidc_identities`, `users`; used states in memory; signed state cookie | login redirect, callback, provisioning | `oidc.py`, `oidc_state.py`, `dashboard.py`, `cli.py` |
| Scheme lock | `app_settings` row | startup check, `set-auth-scheme` | `auth_scheme.py`, `app.py`, `cli.py` |
| Process | the schema and `alembic_version`; the write lock; background sweep task | migrate, retry, serve, sweep, stop | `app.py`, `migrations/` |
| Address limits | attempts per (bucket, address), in memory | check and count of a request, sweep | `rate_limit.py` |
| Request guards | none | body-size limit, CSRF double submit, bearer check | `body_limits.py`, `csrf.py`, `auth.py` |
| Rendering | none | render each format, rewrite raw html and react, CSP and framing headers | `view.py`, `security_headers.py`, templates, `react-init.js` |

**How they interact.** All parts share the database. MCP calls are scoped to
the *connection* their token authenticates; dashboard calls to the *user* of
the session cookie. Revoking a connection (dashboard, CLI, OAuth `/revoke`,
or refresh-token reuse) ends its access; deleting one requires that it left no
artifact, comment or share. Reassignment moves an artifact between connections
of one user. The sweep removes expired codes, refresh tokens, sessions, unused
clients and stale in-memory trackers.

**What makes it hard.** Each `await` yields to other requests, so a handler
uses rows it read before. Outside a write transaction each SELECT sees the
latest commit, and attributes of loaded ORM objects never refresh. The quota
and connection-creation locks are process-local `asyncio.Lock`s keyed by
connection or by (user, client). Any write can fail with "database is locked".
A restart drops every coroutine, lock, tracker and signing key and keeps every
committed row. The CLI process takes none of the locks. A new container migrates
the database while its predecessor may still write to it, and SQLite commits
every schema statement by itself, so an upgrade can stop half-way.

## Execution model

All modules use the same reading of the code:

- A coroutine's actions are the stretches of code between two awaits that touch
  shared state.
- SQLAlchemy over `pysqlite` begins a transaction at the first INSERT, UPDATE or
  DELETE. SELECTs before it are single steps on the latest committed rows; from
  the first write to COMMIT the handler holds SQLite's only write transaction,
  so that stretch is one action.
- An UPDATE writes only the attributes the handler changed; an ORM UPDATE of a
  vanished row fails (StaleDataError), an ORM DELETE of one only warns.
- Foreign keys and unique constraints are enforced; a violation fails the
  transaction and the call.
- An `Abort` or failure outcome stands for every exception an await can raise.
- Where a limit of a run is not the program's (how many ids, versions, ticks),
  it is a named constant and appears in a guard.

## The modules

| Module | Models | Runs | Theorems in |
|---|---|---|---|
| `ArtifactTables` | the artifact tables and the queries over them | through the two below | |
| `ArtifactLedger` | the promise: publish, update, delete and clean-up as single steps that check every quota | through `ActsLikeLedger` | |
| `ArtifactStore` | the calls of `tools.py`, `quotas.py`, `versions.py` at their awaits | `store_ledger`, `store_calls`, `reassign_bytes`, `prune_current` | `ArtifactStore_proofs` |
| `OAuthGrants` | registration, consent, codes, connections | `grants`, `grants_live`, `code_spent_twice` | `OAuthGrants_proofs` |
| `TokenRotation` | issued tokens, refresh, authentication, revocation, deletion of connections | `tokens` | `TokenRotation_proofs` |
| `Collaboration` | comments and shares | `collaboration` | `Collaboration_proofs` |
| `SignIn` | password and OIDC logins, identities, sessions, the scheme lock | `sign_in`, `first_login` | `SignIn_proofs` |
| `Startup` | `_run_migrations`, revisions 0009 and 0010, the lifespan up to its `yield`, and the previous container | `server` | `Server_proofs` |
| `AddressBudget` | the promise of the address limits: a budget of attempts per window | through `ActsLikeBudget` | |
| `AddressLimits` | `rate_limit.py`: lists of attempts, pruned, swept and lost | `server` | `Server_proofs` |
| `Server` | composes `Startup`, `AddressLimits` and the sweep loop | `server` | `Server_proofs` |
| `View` | `view.py`, `security_headers.py`: pages, raw documents, policies | `server` | `View_proofs`, `Server_proofs` |
| `Site` | composes `Server` and `View` | `server` | `Server_proofs` (`SiteIsServer`) |
| `DataInduction` | nothing: induction stated with sets, sums over finite sets | | itself; used by `ArtifactStore_proofs`, `SignIn_proofs`, `View_proofs` |

The `MC*` modules only give the constants small values and say what is
interchangeable.

**State.** In every component module the tables are functions from a pool of
ids to a row or `None`; `unused` (`fresh` in `ArtifactTables`) is what the pool
still holds, so an id is never drawn twice. `req` maps each coroutine to a
record: the await it stands at (`at`) and what it has read. In-memory state has
its own variables: `lock` (`quotas._connection_locks`, and the per-pair locks
of `oauth_provider`), `cookie` (the browser's consent cookie, signed with a key
of the process), `failed` and `used` (the login and state trackers). Variables
marked *history* record what no table keeps, are read by no action and exist
for the properties: `consented`, `issued`, `spent`, `killed`, `invited`,
`linked`, `funded`, `refused`, `served`. In `Startup` the
database is what an upgrade can leave half done: how many statements of 0009
took effect (`tables`), the recorded `revision`, whether the column of 0010
exists, and the size of every version row (`none` before it is written, `null`,
`known`). `boot` is where the new container's lifespan is, with the try it is on.

**Actions.** `Start…`, `Load…`, `Read…` actions are the first stretch of a
handler, up to the await after its access check; the others continue it.

- *ArtifactStore.* `publish_artifact`: `StartPublish`, `Acquire`
  (`quota_lock`), `CheckCount`, `CheckSum`, `CommitPublish`. `update_artifact`:
  `StartUpdate`, `Acquire`, `ReadForUpdate`, `CheckSum`, `CommitUpdate`, which
  includes retention. `reassign_artifact_connection`: `StartReassign`,
  `ReadTarget`, `Acquire`, `CheckCount`, `CheckSum`, `CommitReassign`.
  Deletions, version deletion and pruning: `StartDelete`, `StartDeleteVersion`,
  `StartPrune`, `DeleteRows`.
- *OAuthGrants.* `/register`, `/authorize`: one action each. The consent page's
  answer: `ReadConsent`, then `Approve` or `Deny`. The exchange: `LoadCode`,
  `FindCode`, `BurnCode`, `LockPair`, `FindConnection`, `FindClient`,
  `CreateConnection`, `IssueTokens`. `secret` counts the approvals of a request:
  each approval stores a new code hash.
- *TokenRotation.* `IssueTokens` ends an exchange or a refresh; a refresh is
  `LoadRefresh`, `ReadRefresh`, then `Rotate`, or `RevokeConnection` when the
  token was rotated before. `AuthenticateAccess`, `AuthenticatePersonal` and
  `Publish` are an MCP call. `StartDelete`, `DeleteConnection` remove a
  connection that nothing refers to.
- *Collaboration.* `StartComment`, `StartHumanReply`, `StartAgentReply`, then
  `CheckQuota`, `Post`; `StartResolve` and `StartToggle`, then `Mark`;
  `StartDeleteThread`, `FindRoot`, `DeleteThread`; `StartShare`, `FindShare`,
  `CommitShare`; `StartUnshare`, `Unshare`.
- *Startup.* `Begin` is the container runtime. `ReadHeads` is Alembic choosing
  the revisions to apply, on each try. `Statement` is one `create_table` or
  `create_index` of 0009, committed at once; `Stamp` its version row. `Inspect`,
  `Alter`, `Backfill` and `Bump` are 0010: the UPDATE of the backfill opens the
  transaction that Alembic's version row commits. `Locked` is "database is
  locked" on any of these, retried `MaxTries` times; any other error, such as a
  table that exists, ends the lifespan. `Serve` is its `yield`. `OldBegins`,
  `OldInserts`, `OldRollsBack` and `OldStops` are the previous container.
- *AddressLimits.* `Dispatch` is the middleware up to `call_next`: `Refuse`,
  `Count`, or `CountLater` for the rule that counts failures. `Answer` is what
  follows `call_next`. `SweepStaleAttempts`, and `Forget` at the process's end.
- *Server.* `Boot`, `ServerStarts`, `ServerEnds`; `Request`; the loop
  `Wakes`, `SweepsOAuth`, `SweepsSessions`, `SweepsMemory`, or `SweepFails`.
- *View.* `ViewArtifact` and `ViewArtifactRaw` answer with a record of what the
  document contains and which headers it has. An html source is a sequence of
  the *marks* the code looks for (comment ends, `<head>`, `</body>`, a script of
  an allowed CDN, a mermaid element, a geo dataset, an icon); a rewriting adds
  assets between marks. A browser reads the result mark by mark (`Live`), which
  is how the detection by regular expressions and the document that comes out
  are compared.
- *SignIn.* `login_submit` verifies the password first: `LoginRight`, or
  `LoginWrong`, which is `LoginRefused` (401, recorded) or, while the email is
  locked out, `LoginLimited` (429, the tracker only pruned); `StartFlow`, `Callback`,
  `ExchangeCode`, `FindIdentity`, `CheckEmail`, `Provision`, `Recover`,
  `CreateSession`; the commands `CreateUser`, `LinkIdentity`,
  `UnlinkIdentity`, `SetScheme`; the start of a server `Boot`, `AdoptScheme`.

**Composition.** Each component also contains, as one committed step, what the
others do to rows it references: `Reassign` and `DeleteArtifact` in
`Collaboration`, `Revoke` and `Delete` of connections in `OAuthGrants`,
`Revoke` in `ArtifactStore`; each of them is one commit in the code too. `content`
in `TokenRotation` stands for the artifacts, comments and shares that refer to
a connection. `Server` runs a start, the requests through the address limits and
the sweep loop as one process that may be killed at any step; `Site` adds the
pages.

**Refinement.** Two abstract specifications say what a component promises.

- `ArtifactStore` implements `ArtifactLedger` (`ActsLikeLedger`): every
  interleaving of the calls changes the tables as if publish, update and delete
  were single steps that check every quota. The mapping keeps `artifact`, `rows`
  and `fresh` and hides `lock`, `req` and `active`.
- `Server` implements `AddressBudget` (`ActsLikeBudget`): a call is let in
  exactly when fewer than `MaxAttempts` attempts of its bucket lie within
  `Window`. The mapping sends `spent` to the part of each list the window shows
  and `up` to `Serving`, so pruning and sweeping are stutters and the end of
  the process is the only step that forgets an attempt that still counts.

Definitions commented *mutated* change a single definition the way a plausible
bug would. No specification uses them; `PROJECT.json` says which property each
one breaks.

## What the runs check

| Run | Bounds | Shows |
|---|---|---|
| `store_ledger` | 2 calls, 2 connections of one user, 2 artifacts, sizes {1, 2}, limits 2 artifacts, 2 bytes each, 3 in all, 2 versions | `CurrentVersionStored`, `BytesBounded`, `OwnerWrites`, `NoLostUpdate`; implements `ArtifactLedger` (publish, update, delete, with revocations) |
| `store_calls` | 2 calls of every kind but revocation, 3 connections of 2 users, 2 artifacts, limit 1, 1 version retained | `ArtifactCountBounded`, `VersionRowsBounded`, `NoOrphanRows`, `UserKept`; `CallsEnd` under fairness |
| `grants` | 2 calls, 2 users, 2 clients, 2 codes, 2 connections, lifetimes of 1, 1 tick | `OneActiveConnection`, `OnlyConsented`, `ApprovedWhereStarted` |
| `grants_live` | 2 calls, 1 user, 1 client, 2 codes | `ExpiredCodesGo`, `GrantsEnd` under fairness |
| `tokens` | 2 calls, 1 connection, 3 access and 3 refresh tokens, 2 ticks | `HistoryKept`, `RevokedNeverServed`, `SpentRemembered` |
| `collaboration` | 2 calls, 2 users, 3 connections, 1 artifact, 3 comments, 2 shares, limit 1 comment of 3 bytes | `NothingDangles`, `CommentsBounded`, `OneSharePerRecipient`, `NotSharedWithOwner`, `AuthorsAllowed` |
| `sign_in` | 2 calls, 2 emails, 2 subjects, 2 states, 1 session id, 2 attempts, 2 ticks | `NoTakeover`, `StateFundsOne`, `LockoutExact`, `SchemeLocked` |
| `server` | every host (fresh, 0009 with or without a running predecessor, 0010), 2 statements, 1 version row, 2 tries, 1 crash; 3 calls, 1 address, 2 rules, 2 ticks; html of up to 4 marks, every source of the other formats | `RevisionHonest`, `SizesKnown`; implements `AddressBudget`; `CspFitsPage`, `FeaturesServed`; `UpgradeEnds`, `StaleForgotten` under fairness |
| `reassign_bytes`, `prune_current`, `code_spent_twice`, `first_login` | 1 or 2 calls | the counterexamples below |

`TypeOK` is checked once per module.

**Why the bounds are enough.** Two coroutines are the fewest that race; the
handlers compare what they read with what one other call wrote, and a third
call adds only what a sequence of two already does, since a slot of `req` is
reused as soon as its call ends. Two connections of one user and a third of
another distinguish "same connection", "same user" and "somebody else". Every
limit is small enough to be reached and exceeded by one; two sizes let an
update grow or shrink. Retention of two versions with three version numbers
makes the oldest drop. Lifetimes of one tick let everything expire while a call
waits. In `collaboration` a body is one character of two bytes, where the two
lengths differ. In `sign_in` two subjects may claim each other's email, and the
window of two ticks lets a failure age out while a newer one stays.
In `server` two statements let 0009 stop before, between and after them; a
second try shows a retry from every place, and `range(5)` only repeats it; one
row may be written before, during or after the backfill, and rows are
independent. One rule counts every call, with a budget of 2 and a short window,
the other counts later, with a budget of 1 and a longer one: three calls overrun
either, and the sweep (longest window) and the pruning (own window) disagree
about the first. Lists of different addresses never meet. Four marks are the
fewest in which a comment encloses a place a splice looks for and another such
place follows. The clock stands while nobody serves, since counters exist only
then. Pages are asked of a server at rest (`AtRest`): a page shares no state
with the rest, so asking in every state would multiply the states and show the
same documents.
`VersionBound` stops updates (`StartUpdate` takes no base beyond it), `MaxTime`
stops the clock, and the pools of ids end: a call without a fresh id fails.
Symmetry is used in runs without liveness only, over sets whose members no
definition tells apart.

**Fairness.** `FairSpec` assumes weak fairness of a coroutine's own steps (the
event loop resumes what is runnable), strong fairness of taking a lock
(`asyncio.Lock` wakes its waiters in order, so a lock released again and again
is handed to every waiter), and weak fairness of the sweep (`_sweep_loop`
catches every exception and runs for the life of the process). Nothing is
assumed of clients, of the clock, or of restarts. `Server` assumes that a start
proceeds and is tried again after a failure (whoever runs the image restarts
it: an assumption about the deployment), that the previous container is stopped
eventually (`app.py:69-73`: a deploy swaps the containers), and
that a sweep of the database which is tried again and again succeeds at some
time (strong fairness of `SweepsOAuth` and `SweepsSessions`): with a sweep of the
database that fails every hour the sweeps of the memory, which stand after it in
the same `try` (`app.py:102-107`), would never run.

**Deadlock** is checked in every run but `server`, where a host that cannot be
migrated, crashes spent and predecessor gone, has nothing left to do. Each other
model has an always-enabled
`Restart`, so what the check adds is small, and the progress of calls is what
`CallsEnd` and `GrantsEnd` state.

### Counterexamples

- `reassign_bytes`: `check_reassign_quota` (called at `tools.py:210`) adds the
  size of the current version only, while publish and update sum all retained
  versions: an artifact with history takes its new connection over
  `max_total_bytes_per_connection`.
- `prune_current`: `prune_old_versions` deletes every version except the one
  that was current when it read the artifact (`versions.py:93`); an update that
  commits in between loses its row, although the docstring promises to keep the
  current version.
- `code_spent_twice`: `exchange_authorization_code` reads and deletes the code
  row in two awaits (`oauth_provider.py:159`); two exchanges of one code both
  succeed, although it is documented as single-use.
- `first_login`: two callbacks of one new person both pass the email check; the
  second fails on the unique email in a flush outside the `try` at
  `dashboard.py:317`, and the recovery the comment describes is never reached.

### Known deviations

Seen while modelling, part of the models, and forbidden by no property:

- An update that waits for its lock while the artifact is reassigned goes on
  under its old connection's lock, beside updates of the new owner; with the
  version row pruned or deleted meanwhile it overwrites newer content
  (`tools.py:285-289`). `NoLostUpdate` is checked where nothing
  is reassigned, and proved there with clean-ups allowed.
- Two simultaneous refreshes with one token both succeed; reuse is detected
  only once the first has committed (`DESIGN_NOTES.md:247-250`).
- An exchange or refresh in flight across a revocation issues tokens to the
  revoked connection (`oauth_provider.py:347`). They authenticate nothing
  (`RevokedNeverServed`), but their rows stay.
- A call authenticated before a revocation still publishes after it
  (`docs/dashboard-guide.md:104-105`).
- A comment whose author passed the access check is stored although the artifact
  was unshared meanwhile (`comments.py:274`). `AuthorsAllowed` asks only for an
  invitation at some time.
- Sharing an artifact that was deleted meanwhile answers `already_shared`
  (`shares.py:51-53`).
- The comment quota sums characters of stored bodies and bytes of the new one
  (`comments.py:37`), and overshoots by the calls in flight
  (`CommentsBounded` says by how many).
- Resolving a thread that was read as resolved sends no UPDATE, so a toggle in
  between stays (`comments.py:211`).
- `set-auth-scheme` between the two reads of a first start is overwritten
  (`auth_scheme.py:67`).
- `login_submit` verifies the password (`dashboard.py:128`) before it asks for
  the lockout. While an email is locked out a wrong password is answered 429
  and the right one 303 (`test_dashboard.py:182-198`), so passwords beyond the
  limit are still tried and told apart, although `dashboard.py:119-121` says
  that they cannot be. What the lockout bounds is the 401s, and `LockoutExact`
  says only that.
- The login rule checks an address before the request and counts after it
  (`rate_limit.py:137`): calls inside together may overrun it. `AddressBudget`
  says that this, and the end of the process, is all a budget lets through.
- A first installation that stops inside 0009 never starts again: the tables it
  made exist, the revision does not, and "table already exists" is no error the
  retry is for (`app.py:79-81`). `UpgradeEnds` names the case (`HalfCreated`);
  0010 looks before it adds its column and has no such case.
- A predecessor that writes after the backfill leaves a row without a size,
  although `models.py:100-101` says a size is never missing in practice;
  `dashboard.py:528` then adds `None`. `SizesKnown` names the case.
- 0010 counts the bytes of the content alone, while `tools.py` counts title and
  language as well: sizes of old rows are smaller than a new write's.
- The splices look for `<head>` and `</body>` in the text with its comments,
  although what is spliced is detected without them (`view.py:157-209`): an
  asset whose place lies in a comment is not loaded. `FeaturesServed` names the
  case (`SpliceLives`).
- The find loop of `view.py:271-287` takes a comment to be what stands between
  `<!--` and the next `-->`, and so does the browser of the model. Html knows
  more: `<!-->` closes the comment it opens, `--!>` closes one, and `<!--` in
  the text of a script opens none. There the detection and a browser may differ
  and an asset may be missing; no policy is wider for it. Not modelled.
- `_render_csv_table` expects no error of `csv.reader` but the end
  (`view.py:445-481`); a field beyond its limit of characters is one. Not
  modelled.

## What is proved

The `_proofs` modules hold theorems about the specifications themselves, for
all values of the constants: any number of coroutines, users, ids and any
limits. They rest on the named `ASSUME`s of the component modules only (`None`
is no other value, limits and lifetimes are numbers, pools are finite where
something is counted, `UserOf` maps connections to users, `NoReply` is neither a
header nor a policy), which every run evaluates.

| Theorem | Says | Inductive invariant |
|---|---|---|
| `TypeCorrect`, `GrantsTyped`, `TokensTyped`, `CollaborationTyped` | `TypeOK` | with `FieldsOK` (`Sound` in `Collaboration`): the stage of a coroutine determines which fields its record has |
| `ArtifactQuotaHolds` | `ArtifactCountBounded` | `CountInv`: a call that passed the count check holds the lock of its connection and the count still has room, as nobody adds an artifact without that lock |
| `OrphansNever` | `NoOrphanRows` | itself, with `TypeOK` and `FieldsOK` |
| `VersionsCapped` | `VersionRowsBounded` | with `NumbersUnique`: since version numbers are unique, the number of later rows is an injection of the retained rows into `0 .. limit - 1` (`RetainedFew`), which needs no induction |
| `UserKeptHolds` | `UserKept` | `BornOnce` and `SameUser`: an artifact id is drawn once, and while it lives its owner's user is the one a reassignment compared, three awaits ago |
| `UpdatesNotLost`, `OwnersWrite` | `NoLostUpdate`, `OwnerWrites`, where nothing is reassigned (`StayingPut`) | `UpdateInv`: the row an update has read under its lock is still the artifact's row, as whoever else could replace it would hold the same lock. Clean-ups take no lock, but they delete old rows only and leave the row of the artifact alone |
| `ByteQuotaHolds` | `BytesBounded`, under `StayingPut` | `Affords`: what a call about to commit will store still fits. Only its connection's lock lets stored bytes grow, retention and clean-up only make room |
| `CurrentStays` | `CurrentVersionStored`, where calls publish, update, delete and revoke (`Undisturbed`) | `Newest`: no stored row is newer than the current one, so retention never reaches it |
| `CallsAreAtomic` | `ActsLikeLedger`, so `ArtifactStore` implements `ArtifactLedger`, under `Undisturbed` | `LedgerInv`, which is the counts, bytes and reads above together: each commit is a step of the ledger because every check made before it still holds, every other step is a stutter |
| `OneConnectionHolds` | `OneActiveConnection` | a coroutine between look-up and insert holds the lock of its pair, and at the insert the pair has no active connection |
| `ConsentIsBound`, `ConsentIsNeeded` | `ApprovedWhereStarted`, `OnlyConsented` | `Trusted`: ids are drawn once, a cookie names a row its browser started, an answer in flight was bound when it was read, and a call's user consented to its client |
| `RevocationIsFinal`, `HistoryKeptHolds`, `ReplaysRecognised` | `RevokedNeverServed`, `HistoryKept`, `SpentRemembered` | `Final`: a revoked connection is revoked or gone and its id is not drawn again; a spent token is marked revoked |
| `NothingDanglesHolds`, `SharesAreSingle`, `OwnersGetNoShare`, `AuthorsHold` | `NothingDangles`, `OneSharePerRecipient`, `NotSharedWithOwner`, `AuthorsAllowed` | `IInv`: a root a call waits with is still that root or is gone for good; a waiting author still may write if the artifact is alive; every share is in `invited` |
| `CommentsBoundedHolds` | `CommentsBounded` | itself, with `IInv`: only `CheckQuota` enlarges `Posting`, and then the comments are below the limit; `Post` trades one for the other |
| `NoTakeoverHolds` | `NoTakeover` | `TakeoverInv`: links in the table, and those a waiting call read, are recorded in `linked`, which only grows |
| `StateFundsOneHolds` | `StateFundsOne` | `SpentOK`: a spent state whose cookie verifies is remembered or too old, since it was used after it was minted and is forgotten `StateTTL` after that use |
| `SchemeLockedHolds` | `SchemeLocked` | `Settled`: after a successful start a scheme is persisted and no start is about to adopt one |
| `ServerTyped`, `RevisionHonestHolds`, `SizesKnownHolds` | `TypeOK`, `RevisionHonest`, `SizesKnown` | `SchemaInv`: what each stage of a start knows of the schema (`StageKnows`), what the recorded revision stands for (`Recorded`), and that between the backfill's UPDATE and its commit nobody else writes (`SizingAlone`) |
| `LimitsAreBudgets` | `ActsLikeBudget`, so `Server` implements `AddressBudget` | `LimitInv` and `Finite`: while nobody serves, lists are empty and no call is inside (`Quiet`); each action maps to a step of the budget or a stutter. The sweep is a stutter because it goes by the longest window (`LongestRuleAssumption`: there is one) |
| `CountingRulesHold` | a rule that counts every call is never overrun (`Within`) | with `CountedLater`: a call inside is charged to a rule that counts later |
| `SignInTyped` | `TypeOK` of `SignIn` | with `Peopled`: identities, sessions and logins under way belong to accounts |
| `LockoutExactHolds` | `LockoutExact`: a wrong password is answered 429 exactly when `MaxAttempts` were answered 401 within the window and since the last success. This bounds the 401s; the passwords tried are not bounded (*Known deviations*) | `Counted`: for each email the tracker holds exactly the 401s of the history, or nothing while all of them are too old to count, so pruning and sweeping lose none (`Tracks`); while locked out nothing can be pruned (`LimitedStep`) |
| `PoliciesFit`, `FeaturesReach` | `CspFitsPage`, `FeaturesServed` | `Answered`: a reply is the page or the raw document of some artifact. The rest is about the operators of `View`, below |
| `SiteIsServer` | `SiteSpec => Spec`: what is proved of `Server` holds of the specification `server` checks | |

Each proof has the three parts: the initial states satisfy the invariant, every
action preserves it (one lemma per action, over lemmas about a call that takes
a new record), and it implies the property.

None of the invariants holds alone. `OneActiveConnection`, for instance, is not
preserved by `CreateConnection` in an arbitrary state: only the lock, held since
the look-up, says that no active connection has appeared since. In the same way
`NothingDangles` is preserved by `Post` only because a parent found two awaits
before cannot have become something else than a root of the same artifact.

**Hypotheses on the workload.** Five theorems about the artifact store assume
that some calls are not made, because the code does not keep the property with
them. A reassignment moves an artifact under another lock (*Known deviations*)
and charges less than it moves (`reassign_bytes`): `StayingPut` excludes it.
Pruning and deletion by version may take the current row (`prune_current`):
`Undisturbed` excludes them too. `store_ledger` runs a workload that satisfies
both, and the theorems without a hypothesis (`ArtifactQuotaHolds`,
`OrphansNever`, `VersionsCapped`, `UserKeptHolds`) hold of every call.

**Documents.** `View_proofs` proves, for an html source of any length:

- what `CommentSpans` covers, by jumping from opening to closing, is what a
  browser that reads mark by mark (`InComment`: from `<!--` to the next `-->`)
  does not read (`SpansAreHidden`), so what the code detects is what is live for
  such a browser; html's other comment rules are not in the model (*Known
  deviations*);
- a splice shifts the comments behind it and changes none (`Spliced`,
  `SplicedLive`), wherever it is and whether it is itself read or not;
- so each rewriting keeps, for all marks but its own, which are read, which
  places can be spliced and what stands before what (`Kept`). Chained, these
  give `HtmlServed`: the fourth rewriting still finds what the author wrote.

**Induction over data.** The library's induction theorems take a predicate,
which the installed provers cannot instantiate. `DataInduction` states induction
for a *set* instead: if `0` is in it and each number's successor below `n`, then
all of `0..n` are (`UpTo`); if `{}` is in it, and with a set each set with one
element more, then every finite set is (`SetInduction`, from the well-foundedness
of the subset relation). With these, the recursive functions of the models are
shown to exist and to satisfy their equations (`Recent`, `InComment`,
`CommentSpans`, `Without`), and sums over version rows do not depend on the order
in which they are added.

**Only model-checked.** Liveness under fairness (`CallsEnd`, `GrantsEnd`,
`ExpiredCodesGo`, `UpgradeEnds`, `StaleForgotten`), which needs ENABLED. Every
other property of a passing run is stated by a theorem.

## Not modelled

- *Reads.* Listings, pages and `get_*` calls change nothing. What they return is
  covered as far as the rows they read are.
- *Request guards* (`csrf.py`, `body_limits.py`): each decides about one request
  from what that request carries. Which address a request has (proxies) is a
  matter of configuration; a model's call has one.
- *Rendering in detail*: the regular expressions, markdown, Pygments and nh3 are
  libraries'. `View` has what the code does around them: what is detected,
  where it is spliced, what is rewritten, which headers go with it. Browser
  scripts, comment pins and static files keep no state of the server.
- *MCP wiring* (`mcp_server.py`): every tool opens a session, takes the
  connection of its token and calls one function that is modelled.
- *Configuration* and the *load test*: read once, and a client.
- The statements of 0009 are alike in the model: which table each one creates is
  left out.
- Within modelled parts: labels, names and metadata; the texts of errors;
  expiry times of sessions (a session may end at any time); the identity
  provider's key and discovery caches; a second server process on one database,
  which the deployment excludes.

## Plan

Done, in this order: artifact store, OAuth grants, token rotation, comments and
shares, sign-in, then the process itself: migrations, address limits, the sweep
loop and the pages. The most important state comes first: what a user stores,
then who may reach it, then who somebody is.

What could follow:

1. Reads as observations: a page built from two SELECTs (`versions.py:48`)
   beside updates and deletions; `get_accessible_artifact` beside unsharing.
2. `Connections`: one module over artifacts, grants and tokens in which a whole
   MCP call runs from its bearer token to its commit, to state exactly what a
   revocation still lets through.
3. Session expiry and the identity provider's caches in `SignIn`.
4. Proofs: that `ArtifactLedger` by itself keeps every quota, and that
   `AddressBudget` keeps each counting rule, so that what `CallsAreAtomic` and
   `LimitsAreBudgets` carry over is visible at the abstract level; `CurrentStays`
   and `CallsAreAtomic` with deletions by version that name an old version.
