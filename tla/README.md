# Echo backend: formal models, checks and proofs

TLA+ models of the Echo backend (Go; PostgreSQL, Redis, websockets), TLC
configurations that check them on small instances, and proofs of their main
invariants for every instance with the TLA+ proof system (TLAPS). Paths are
relative to the repository.

Run from this directory:

    tlc -workers 2 -config HubSafety.cfg MCHub.tla     # a run; see "Runs"
    tlapm HubProofs.tla                                # the proofs of a module

## 1. The system

One process (`cmd/server/main.go`) serves HTTP with one goroutine per request,
and one more goroutine runs the hub of the live feed. Everything that outlives
a request is in PostgreSQL (users, posts, replies, reactions, reports) or in
Redis (session keys, the cache of the trending feed, the windows of the rate
limiter). Handlers call a service, a service calls repositories and Redis, and
no lock or transaction spans a whole request: only `Report.Create`,
`Post.CreateReply` and `Post.UpsertReaction` open a transaction, each for a few
statements. So two requests interleave between any two statements, and a
request may stop between any two of them, because a store fails or because the
client cancels its context.

| Part | State | Operations | What is hard | Correct when |
|---|---|---|---|---|
| Live feed hub: `internal/hub`, `internal/handler/ws.go` | the map `clients`, four channels, one `send` channel, one socket and two pumps per client | Register, Unregister, Broadcast, Run, remove, readPump, writePump, shutdown | unbuffered knowledge between three goroutines per client; full channels; a client that leaves before it has been registered; shutdown in the middle | no double close, no send on a closed channel; a client sees a gap-free stretch of the feed; a dead client is removed and cannot hold up others; shutdown ends every goroutine |
| Accounts and sessions: `internal/service/auth.go`, `internal/repository/user.go`, `internal/middleware/auth.go` | row of `users` (token hash, pseudonym, `is_admin`), Redis key `session:<id>` with a time to live, the tokens clients hold | Register (with retries), Refresh, the check of every request | two stores written one after the other; concurrent refreshes; a ban or an expiry in the middle; times in whole seconds; a time to live that ages on its way to Redis | a token names its owner; a session is backed by a row; a promotion is not undone; a session that ended stays ended; the current token can be rotated |
| Moderation: `internal/service/report.go`, `internal/repository/report.go`, `Post.Delete`, `Post.SetHidden` | `posts.is_hidden`, rows of `reports` with status and action | Create (a transaction that may hide the post), Act (four separate statements), Delete with its cascade | READ COMMITTED counts; two moderators on one report; failure between the statements of Act; deletion at any time | decisions stand; a resolved hide or ban means a hidden post; a hidden post has its cause on record; sessions go only with bans, and bans do not leave sessions; auto-hiding comes in time |
| Replies and reactions: `internal/service/post.go`, `internal/repository/post.go` | `replies`, `reactions`, `posts.reply_count`, `posts.score` | CreateReply, UpsertReaction | a counter kept beside the rows it counts; a read and a write of one row by two requests | the counters agree with the rows |
| Feeds: `internal/service/feed.go`, `internal/repository/feed.go` | a cached page per limit, for 60 s | Latest (cursor), Trending (cached) | stale pages; ties at a page boundary | paging visits every post once; the cache is at most 60 s old |
| Rate limiting: `internal/middleware/ratelimit.go` | a sorted set per scope and bearer, in Redis, with a time to live | one check per request: two readings of the clock, one transaction | checks overtake each other between clock and transaction; refused requests are recorded too; a transaction may fail with its effect done | never more than the limit in a window; nobody refused for what is out of it |
| Server: `cmd/server/main.go`, `internal/config` | where `run` stands, the listener, the signals, the requests `http.Server` tracks | Load, the stores, the listener, hubCancel, Shutdown with its deadline | a signal at any moment; a listener that has not started yet; requests and sockets alive during shutdown | status 0 cuts off no request; a signal or a failed listener ends the process |
| Request pipeline: `internal/middleware`, `internal/handler` | the context of a request | NoIP, NoIPContext, Security, general limiter, Logger, CORS, Auth, Admin, limiter of posts, the handlers' checks | the order of the middleware and their early returns; a session that ends while its requests are on their way | nobody acts after their session, nor under another's name; whatever the middleware and handlers answer is hardened |
| Domain types, pseudonym generator, IP audit, diagnostic command | none of their own | | | |

How they meet: `service.Post.Create` calls `Hub.Broadcast` after its INSERT;
`service.Report.Act` deletes the session key that `service.Auth` writes and
`middleware.Auth` reads; `main` cancels the hub's context and then calls
`http.Server.Shutdown`; deleting or hiding a post takes its rows and its place
in the feeds along, except for cached pages; `middleware.Auth` puts the token's
own pseudonym and `is_admin` in the request's context, and every handler trusts
them; a websocket upgrade takes its connection out of the hands of
`http.Server`, so that `Shutdown` does not wait for it and only the hub can
close it.

## 2. The modules

| Module | What it is |
|---|---|
| `Hub` | the live feed: Run, the pumps, the websocket handler, Broadcast |
| `FeedStream` | the abstract specification `Hub` implements |
| `Session` | accounts, tokens, the users table and the session keys |
| `Membership` | the abstract specification `Session` implements |
| `Moderation` | reports, decisions, deletion, over the posts and reports tables |
| `Casebook` | the abstract specification `Moderation` implements |
| `Engagement` | replies and reactions, and the counters of a post |
| `Feeds` | paging through the latest posts, the cache of the trending ones |
| `RateLimit` | the sliding windows of the limiters |
| `Pipeline` | a request in the middleware and its handler, on top of `Session` (EXTENDS) |
| `Server` | the process from `Load` to its exit, on top of `Hub` (EXTENDS) |
| `MC...` | the instances of the runs: symmetry sets, and the inputs of `Server` and `Pipeline` |
| `HubProofs`, `SessionProofs`, `ModerationProofs`, `EngagementProofs`, `FeedProofs`, `RateLimitProofs`, `PipelineProofs`, `ServerProofs` | the proofs |

Definitions named *mutant* in their comment are not used by the specification:
each is a plausible wrong version of the definition below it, kept to confirm
that the properties notice it.

### Hub

A channel is a sequence with a capacity, a blocked operation is a disabled
action, and each ready case of a `select` is an action. `hub` is the program
counter of `Run`: `select`; `fanout`, with the clients the `range` has left in
`todo`; `drain`, the same for the loop after `ctx.Done`; `stopped`. A client has
the program counters of its handler (`feed`) and its pumps (`reader`,
`writer`), the payload `writer` holds (`message`), its `send` channel with the
number of times it has been closed (`closes`), and its socket (`conn`).
`close(c.send)` and the `c.conn.Close()` after it are one step: only Run
executes them, back to back, and a pump cannot tell in which order they
happened without the other having been possible. The same goes for the `default`
case of a fan-out and the `remove` it calls: only Run changes the map.

| Action | Code |
|---|---|
| `Connect`, `Register`, `Start` | the handler in `ws.go:29-36`: upgrade, `Hub.Register`, `Client.Start` |
| `PeerLost` | the peer goes away |
| `ReadError`, `Unregister` | `readPump` returns, its deferred `Hub.Unregister` |
| `TakeMessage`, `WriteMessage`, `WriteError`, `SendClosed`, `PingError` | the select loop of `writePump` |
| `Broadcast` | `Hub.Broadcast`, with its `quit` and `default` cases |
| `RunRegister`, `RunUnregister`, `RunBroadcast`, `RunDone` | the cases of Run's select |
| `RunSend`, `RunFanoutEnd` | the fan-out loop; a full buffer removes the client |
| `RunDrain`, `RunQuit` | the loop on shutdown and `close(h.quit)` |
| `Cancel` | `hubCancel()` |

`Escape`, `Room`, `Overflows`, `Forget`, `HangUp`, `Evict`, `Remove` and
`CloseQuit` are the pieces of these that a bug would change. `log`, `joined` and
`delivered` are history: what Run fanned out, where a client came in, and what
its socket was written. Left out: the contents of payloads; pongs and
successful pings, which change nothing but a deadline; a failed upgrade, which
returns before the hub is involved. Two sockets of one user are two
connections, as in the code.

### FeedStream

What the hub is for, without channels: `Publish` appends to one log, `Join`
remembers where a subscriber starts, `Receive` hands it the next payload,
`Leave` ends its membership for good; nobody who is `live` lags by more than
`MaxLag`. `Hub` implements it under the mapping at the end of `Hub.tla`: a
client in the map is live, one whose channel has been closed is gone, `MaxLag`
is the capacity of `send` plus two (the payload in the writer's hand and the
one in the loop).

### Session

Every SQL statement and every Redis command is a step. `Register` draws an id
once, then a pseudonym per attempt (`RegisterBegin`, `RegisterCreate`,
`RegisterConflict` against the UNIQUE constraint, at most `MaxTries`), then
stores the session. `Refresh` is `RefreshBegin` (parse, the Redis Get and its
comparison), `RefreshLoad` (the row, its comparison, the new token),
`RefreshUpdate`, and the storing of the session. That is two steps in either
call, as in `storeSession` (`auth.go:192-199`): `RegisterCheck` and
`RefreshCheck` take the difference of `expiresAt` to the clock and give up if it
is not positive, and `RegisterStore` and `RefreshStore` send it to Redis later,
where it counts from then on (`Set`; without a positive one the key would have
no expiry, `None`). `RegisterFail` and `RefreshFail` stop
a call at any statement, which may or may not have taken effect. `Ban` is the
`Del` of `Report.Act`, `Promote` the UPDATE of `scripts/check_endpoints.sh:258`.

A token is the record of its claims: two tokens with equal claims are the same
string, which happens when they are issued in the same second. A bcrypt hash
stands for the one token it matches. Time is in ticks, a `Second` of which is
what `jwt.NewNumericDate` rounds `iat` and `exp` down to; a tick is the least
time Redis keeps a key for. A Redis key is gone when its time is up. `Users` are
the ids of calls of Register (UUIDs do not collide). `promoted` and `disturbed`
are history.

### Membership

What accounts are for, without statements, stores or clocks: `Join` gives a
member a name of their own for good, `Appoint` makes a moderator, `Enter` opens
the first session, `Renew` and `Renewed` are a renewal, which begins inside, and
`Leave` ends sessions, for whatever reason. A card handed out carries the
holder's name and claims to be a moderator's only if that is so. A member with a
card who is outside gets in again only when a renewal ends that began inside.
`Session` implements it under the mapping at the end of `Session.tla`: the
roster and the moderators are columns of the users table, the cards the claims
of the tokens returned to clients, whoever has a live key is inside, and a
Refresh past its Redis check is a renewal. The Set of either call is the one
statement at which a session opens; the INSERT is `Join`, a tick or a `Del` is
`Leave`, and the UPDATE of a token's hash, with every failure that keeps a call
from storing, changes nothing a member sees but the end of the renewal.

### Moderation

PostgreSQL at READ COMMITTED, its default. Inside the transaction of
`Report.Create` (`CreateInsert`, `CreateCount`, `CreateHide`, `CreateCommit`)
the inserted row and the hidden post are invisible to others until the commit;
the count sees what has been committed and the row itself. Waiting for a lock
is a guard: an INSERT waits for an uncommitted INSERT with the same key, a
DELETE of a post for every transaction that has inserted a reference to it, an
UPDATE of a post for an uncommitted UPDATE of it. An aborted transaction, be it
by a deadlock, a lost connection or a cancelled request, is `CreateFail`.

`Report.Act` has no transaction: `ActBegin` (GetByID and the status),
`ActAuthor`, `ActHide`, `ActResolve`, `ActRevoke` are separate steps, and
`ActFail` stops it at any of them, before or after the statement took effect.
`Post.Delete` checks visibility in `DeleteBegin` and deletes in
`DeleteByAuthor`, with the cascade to `reports`. A report is identified by its
post and its reporter, as in the UNIQUE constraint; a new report after the
deletion of a post cannot come, since ids are not reused. `moderated`, `revoked`
and `spared` are history: the posts Act has hidden, the reports for which it has
deleted the author's session key, and those that are on record as a ban although
the call failed before the key was gone (the answer of the UPDATE was lost, or
the `Del` failed, which the code ignores).

### Casebook

What moderation is for, as if each request were one step and never failed:
`File` puts a report on record and hides the post when the threshold is reached,
or leaves it visible as long as fewer than `Threshold + MaxLate` are on record;
`Hide` and `Decide` are what a moderator does, `SignOut` the end of the author's
session, for a ban on record or a post that is gone, `Delete` takes the post
with its reports. `Moderation` implements it with its own `posts`, `reports` and
`moderated`, `signedOut` as the posts for which an author's key has been deleted
(from `revoked`), and `MaxLate` one less than the calls that may run at once: a
commit of `Report.Create` is a `File`, each statement of `Act` that takes effect
a `Hide`, `Decide` or `SignOut`, and every other statement, failure or roll-back
changes nothing that another request sees.

### Engagement

The transactions of `CreateReply` and `UpsertReaction` a statement at a time,
with the locks and the visibility described for Moderation. A request in a slot
carries what its transaction has written (`wrote`) and what it is about to add
to the score (`delta`); the tables change in `Commit`, where the UPDATEs take
effect on the newest version of the row, as READ COMMITTED has it. `ReplyBegin`
and `ReactBegin` are the checks of the service, `ReplyInsert`, `ReplyCount`,
`ReactRead`, `ReactCreate`, `ReactFlip`, `ReactScore` the statements, `Fail` a
statement that fails, `DeleteByAuthor` and `SetHidden` what other requests do to
the post. `HandleRowsAffected` is the number that `repository/post.go:125`
looks at: GORM counts in the handle that `Clauses(...).Create` returns, so in
the transaction's own handle it is zero.

`first` and `crossed` are history: the kind of a user's first reaction, and the
users with two requests to react to one post at once. Two such requests may both
read the old kind and both add the difference; the properties of the score
leave them out.

### Feeds

A table of posts that appear (in any order of `created_at`, which is taken
before the INSERT), are hidden or are deleted. One client pages through it:
`Latest` is the query behind the cursor, and the cursor the client gets for the
next page. `seen` and `owed` are history: what the client was given, and what
has been visible since its first page and not been given so far. Calls of
`Trending` look into the cache (`TrendingHit`, `TrendingMiss`), query and store
as separate steps; a failing Set is ignored, as in the code. Time is the `Tick`
by which keys expire; there is no clock, and no bound on it. `age` is history:
how long a post has been withdrawn and in no call's hands. Scores are left out:
any visible posts may be the ones that trend, as many as the limit allows.

### RateLimit

A check is three steps, as in `ratelimit.go:55-79`: `Begin` reads the
millisecond that becomes the score and the edge of the window, `ReadMember` the
nanosecond that becomes the member, `Exec` is the transaction (trim, add, count,
expire) and the verdict. `ExecError` is the transaction that fails, with its
effect or without. `Trim`, `Add`, `Expiry` and `Limit` are its parts; `Live` is
what Redis shows of a key whose time may be up. A nanosecond is a millisecond
and one of `Parts`. `hit` and `at` of a check are history: that it has changed
the set, and when.

### Pipeline

`Session`, and requests that pass through it. A request has a place (`pc`), what
it asks for (`input`), and the `context` that Auth has given it; once it is
over, of the `answer` its status, the headers it carries and who wrote it.
`Arrive` runs NoIP, the audit and Security, unless the path matches a route but
for a slash at its end (`"slash"`): `gin.New` (`main.go:91`) leaves
`RedirectTrailingSlash` on, and the engine answers 301 or 307 before any
middleware (`Redirected`); `General` the general limiter and, if it lets the
request through, Logger, CORS and the routes; `Auth` the check of the session
(`Accepts` of `Session`), the claims and, on the routes of moderators, `Admin`;
`PostCreate` the second limiter; `Handle` the handler, as far as the check at
which it stops; `Upgrade` the websocket, whose 101 is written on the connection
that has been taken over, with no header but those it is given, which are none
(`ws.go:30`, `Switched`). `Handler` lists the checks of each handler in their
order, and `ErrorStatus` is `mapDomainError`. Steps that only look at the
request are one with the step before them: nobody else can see them. The
verdicts of the limiters and of the services are left open. `late` is history:
that the bearer's session was over when the request came in.

### Server

`run` is one goroutine, whose place is `main`; each statement that waits, fails
or starts something is an action: `LoadConfig`, `openDB`, `openRedis`, `GoHub`,
`GoListen`, `Notify`, `SelectError` or `SelectSignal`, `HubCancel`, `Shutdown`
(closing the listener), `ShutdownDone`, `ShutdownWait`, `ShutdownTimeout`,
`Exit`. The goroutine of the listener is `Listen`; `listener = "failed"` stands
for an error in `serverErrors`, and `signals` for a signal in its channel, of
which `run` takes one only. `Load` works on environments that map a variable to
what matters of its value. Requests are those that reach the hub: `Accept`,
`Upgrade` (a `Connect` of the hub), `CreatePost` (its `Broadcast`), `Respond`.
The hub's own actions are the hub's, guarded by the process being alive and
`go h.Run` having been reached.

## 3. Runs

Deadlock checking is off in all of them: a server that has stopped, a bound
that is reached or a model without further requests is not an error. Liveness
properties say what must go on.

| Run | Checks | Instance | Shows |
|---|---|---|---|
| `HubSafety` | NeverPanics, StreamContiguous, StoppedClean, ImplementsFeedStream | 2 connections, 3 payloads, all capacities 1 | the hub is safe and implements the abstract feed |
| `PumpLive` | EveryPayloadFannedOut, ShutdownCompletes, ClientsReleased | 1 connection, 3 payloads, fairness of all goroutines | no client can hold up the feed or the shutdown, and lost or left clients are released |
| `PumpQuit` | ClientsReleased | 2 connections that share one slot of `unregister` | the same when clients compete for the hub |
| `ServerStop` | ServerTypeOK, CleanExit, ServerStops | 1 socket, 1 post, environments in which one of three variables is spoilt, failing stores and listener, signals at any moment | the process stops, and cleanly if it says so |
| `SessionNames` | TokenNamesOwner | 2 users, 2 pseudonyms, 2 attempts, failures | pseudonym collisions never leave a token with another's name |
| `RequestSafety` | GoneNeverActs, ActsAsOwner, AnswersHardened, SessionBacked, PromotionSticks, UndisturbedRefreshable, GoneStaysGone, ImplementsMembership | 1 user, 2 names, 2 concurrent refreshes, 1 request on 3 routes or on none, failures, a lifetime of 2 ticks that ends, which are one second | what two stores without a transaction do keep, as the abstract membership has it, and what a request may rely on |
| `SessionWedge` | CurrentTokenRefreshable (violated) | 1 user, 2 concurrent refreshes, no failures | see findings |
| `RateWindows` | TypeOK, WindowBound, EveryWindowBound, RefusedOnlyWhenBusy | 3 checks of one bearer in both scopes, limits 2 and 1, a window of 2 ms and a grace of 1 ms, 4 ms, failures | every window holds while checks overtake each other |
| `ModerationSafety` | ResolvedIsHidden, HiddenForCause, RevokedIsBanned, BanRevokes, AutoHideWithinSlack, DecisionStands, ImplementsCasebook | 1 post, 3 reporters over 2 concurrent calls, 2 moderators, threshold 2, failures, deletion | moderation is safe at every interleaving and every failure, and implements the casebook |
| `EngagementCounts` | TypeOK, ReplyCountExact, NoOrphans, ScoreFollowsFlips | 1 post, 2 users, 2 concurrent requests, failures, deletion, hiding | the counters follow the rows, and the rows their post |
| `EngagementScore` | ScoreCountsReactions (violated) | 1 user, one request at a time | see findings |
| `FeedPages` | NeverTwice, MissesOnlyTies, WithdrawnWithinTTL, FadedStaysFaded, WithdrawnFades | 3 posts at 2 times, pages of 2, a lifetime of 2 ticks | paging misses only ties, the cache forgets |

Why these instances are enough to be interesting. Capacities of one make every
channel full as soon as one element waits, so each `default` and each blocked
send is reached; two connections are needed for a client that is evicted while
another's unregistration waits. Two users and two names give every
kind of collision, and the last attempt; two refreshes are every race between
the two stores. Three reports
against two concurrent calls are the first case in which auto-hiding can come
as late as its bound allows. Two requests on one post meet at every lock of
`Engagement`, which has no lock on two posts; requests to reply stop at
`MaxReplies` rows and requests to react outside `MaxScore`, the only bounds
there. Three posts at two times make a page of two end inside a tie, at its
edge and away from one, and both limits asked for (zero and three) are clamped.
In `FeedPages` one call of `Trending` runs at a time: the stall between its
query and its Set is what makes pages stale, and the theorems of `FeedProofs`
cover any number of calls. `MaxTime` of `Session` is its clock's end: in
`RequestSafety` the first session expires there while refreshes and requests
are on their way, and in `SessionNames` nothing does. A second of two ticks lets
claims be rounded, a time to live shrink between the clock and the command, and a
session outlive its token. One user is enough for what concerns a session, and a
second name for a pseudonym that is not the account's; that nobody else's is used
is proved for several users. Of the three routes two are the longest ways through
the middleware: `create` has the second limiter and every check of the context,
`action` has Admin; `feed` is the websocket. The view `Seen` of `MCPipeline`
keeps of a status only whether it is a redirect, which is all that a property
asks of one. Three
checks against a limit of one are the first case in which two overtake a third,
four milliseconds let a key of three expire, and a
window of two is the shortest one that a late check shortens to something. The
environments of `ServerStop` spoil a text (`SERVER_PORT`), one that may be empty
(`DB_PASSWORD`) and a duration (`JWT_TTL`) in every way; `Load` treats the
others as one of these. The safety properties are proved for all
instances (section 5), so the bounds matter mostly for liveness.

### Fairness

`HubFairness` is fairness of Run. Go picks at random among the ready cases of a
`select`, so a case that is ready again and again is taken: strong fairness for
each of the four cases, weak fairness for `RunLoops`, the steps of the loops
outside of the select, which nothing can disable.

`PumpFairness` adds the pumps. A goroutine that can run does. `ReadDeadline`:
when no pong can come back (the peer is lost, the socket is closed, or
`writePump` no longer pings) the read ends by `pongWait`. A write ends by
`writeWait`, one way or the other. A receive or send on a channel is served in
order, hence strong fairness of `Unregister` and `TakeMessage`. A ping of a
closed socket fails. That a peer is ever lost, that a client connects, or that
the hub is cancelled is never assumed.

`ServerFairSpec`: the statements of `run` follow each other, and the deadline of
Shutdown passes (weak fairness of `Main`). Nothing is assumed of requests,
clients, the listener or the hub; that a store neither fails nor answers for
ever is excluded by the timeouts of the drivers.

`Feeds!Fairness`: time passes, and the query and the Set of `Trending` end, with
or without a result. Nothing is assumed of those who ask for the feed.

## 4. Findings

* **Crossing refreshes wedge a session** (`SessionWedge`). `Refresh` updates
  `users.token_hash` and then the session key (`auth.go:143-149`). Two refreshes
  of one token may cross in between: the row keeps one new token and Redis the
  other. The token that authenticates then fails the comparison with the row
  (`auth.go:128`) for ever. `README.md:53` promises the rotation of the current
  session's token. `UndisturbedRefreshable` shows that overlapping or failed
  refreshes of the same user are the only cause.
* **A first reaction does not score** (`EngagementScore`). `UpsertReaction` adds
  to `posts.score` only if `tx.RowsAffected > 0`, but that handle never counts
  the row `Create` inserted (`repository/post.go:122-127`). A change of kind
  then moves the score by two: `ScoreFollowsFlips` states what the score is
  instead of the sum of the reactions, and the trending feed is ordered by it.

Facts that the passing runs document. A ban only deletes the session key
(`report.go:98-100`), so a refresh that has passed its check writes a new one
afterwards, and the session is back: `GoneStaysGone` says that this is the only
way back, and `GoneNeverActs` that requests which come after the end of a
session do not act. A request that was past Auth by then still does. A ban whose
`Del` fails, or whose UPDATE took effect without an answer, is on record with the
session alive, and no later call makes up for it, since the report is no longer
open; `BanRevokes` says that this happens in no other way. A session may
outlive its token, by what a call stalls between the clock and the Set and by the
rounding of `exp`; it never ends before its token, nor later than a lifetime from
now (`SessionBacked`). Two answers carry none of the security headers: gin's
redirect of a path with a slash too many or too few, and the handshake of a
websocket; `AnswersHardened` covers all others. Concurrent reports do not see
each other's rows, so a post can stay visible with as many reports as the
threshold asks for (`.env.example:49`); `AutoHideWithinSlack` bounds how late
the hiding gets. Posts with one `created_at` on both sides of a page boundary
are skipped by the cursor; `MissesOnlyTies` shows that nothing else is.

## 5. Proofs

The eight proof modules are proved by TLAPS for arbitrary sets of connections,
payloads, users, names, posts, reporters and environments, any number of
concurrent calls, requests and checks, any capacities, lifetimes, limits and
thresholds, with and without failures. The assumptions are the named ASSUMEs of
the modules (capacities and lifetimes are positive, `Reporters` and `Slots`
finite where they are counted, `None` is no other value), which the runs
evaluate.

**Hub.** `HubTypeOK`, `HubNeverPanics`, `HubStoppedClean`, `HubStreamContiguous`,
`HubBoundedLag`, `HubImplementsFeedStream`. NeverPanics is not inductive: that a
client is registered once follows from where its handler stands. The invariant
`Structure` (theorem `HubStructure`) ties for each client the position of its
handler and of its pumps to its place in the register channel, in the map and
in `todo`, and to `closes`. On top of it the invariant of the streams (theorem
`HubStream`) says that what was delivered, is held and is buffered continues
exactly from `joined`, and that a member's stream ends at the end of the log
but for the payload the loop still has to offer it. BoundedLag and the
refinement follow: each step of `Hub` is a step of `FeedStream` or leaves its
variables alone; `Publish` may happen because every member is within `MaxLag`
before it.

**Session.** `SessionTypeOK`, `SessionTokenNamesOwner`, `SessionIsBacked`,
`SessionPromotionSticks`, `SessionGoneStaysGone`,
`SessionUndisturbedRefreshable`, `SessionImplementsMembership`. The invariant
(theorem `SessionInv`) has three parts: of each account, what its row, its
session and its Register call say of each other at each position of the call; of
each token, in the hands of a client or of a call, that it names its owner; of
each promoted user, that the row says so and no token claims more than its row.
`RotationInv` adds what concerns time. Before a call looks at the clock, its
token expires no later than its `expiresAt`, which is at most a lifetime away;
from then to its Set, what it holds of a time to live is positive, no more than
a lifetime, and reaches from now to the token's expiry at least. SessionBacked
follows. And UndisturbedRefreshable needs an order of the writes: as long as a
user's refreshes have neither overlapped nor failed, there is at most one of
them, the row and a session that still admits its token agree except between its
two writes, and the token it replaces expires no later than the one it makes.
The refinement needs only `SessionInv`: a Register call about to store its
session has handed out no token yet, so that its Set is an `Enter`; a Refresh
call holds a token that was issued and a new one that says what the row says, so
that its Set is the end of a renewal, and other calls of the user may go on.

**Moderation.** `ModerationTypeOK`, `ModerationResolvedIsHidden`,
`ModerationHiddenForCause`, `ModerationRevokedIsBanned`, `ModerationBanRevokes`,
`ModerationDecisionStands`, `ModerationAutoHideWithinSlack`. The invariant
(theorem `ModerationInv`) adds that rows in flight are new, different from each
other and of posts that cannot go away, that a call about to hide has counted
enough (counts never fall while it waits), and that a call of Act past its
UPDATE finds the post hidden or gone. The bound on auto-hiding needs more: calls
that counted too few may commit after others did. `Slack` counts them with the
rows already there, and is kept because whoever joins them has seen a count
below the threshold. `BanRevokes` is kept by every step next to that invariant:
a report turns into a ban in the UPDATE alone, which leaves the call at the
`Del` or is the last thing it does. `ModerationImplementsCasebook` is proved
from the same invariant, statement by statement; that a commit which leaves the
post visible is a `File` follows from `AutoHideWithinSlack` in the state it
leads to.

**Engagement.** `EngagementTypeOK`, `EngagementReplyCountExact`,
`EngagementNoOrphans`, `EngagementScoreFollowsFlips`. The invariant (theorem
`EngagementInv`) says of a request at each of its statements what it has
written, and that the post of whatever it has written is not deleted:
`DeleteByAuthor` waits for such a request, and a commit that adds a row
therefore adds it to a post that is there. For the score there is a second one,
`FlipInv`, of the users whose requests to react to a post never overlapped: such
a user has one request at most, what that request has read is still the kind in
the row when it commits, and what it adds is the difference to the new one. The
score is what the rows add up to less what the first ones did; `Tally` writes
either sum as a difference of two cardinalities, between whose sets a commit
moves one user, so that no induction over the users is needed.

**Feeds.** `FeedsTypeOK`, `FeedsNeverTwice`, `FeedsMissesOnlyTies`,
`FeedsWithdrawnWithinTTL`, `FeedsFadedStaysFaded`. The invariant (theorem
`FeedsInv`): everything the client was given lies at the cursor or above;
everything it is owed lies below the cursor or ties with something it was given;
and the time a key has left and the age of a post on its page add up to no more
than the lifetime of a key. The lemma `LeftOut` is the argument for LIMIT: a
post that did not make it to the page has at least as many posts before it as
the page has places, so it does not come before the last one of the page.
`FeedsFadedStaysFaded` is the safety half of `WithdrawnFades`: what the cache
and the calls have let go of does not come back. That they let go of it is
liveness.

**RateLimit.** `RateLimitTypes`, `RateLimitWindowBound`, `RateLimitEveryWindow`,
`RateLimitRefusals`. The invariant (theorem `RateLimitInvariant`) relates the
set of a key to the checks that have changed it: every entry is the mark of such
a check, a key outlives its checks by the window and the grace, and a check
whose nanosecond is its own has its entry still, unless another one is a window
younger or the window and the grace have passed since. WindowBound then is a
count: when a check is admitted, the entries of those admitted before and its
own are distinct members of the set it has counted. EveryWindowBound is the same
count for a window that ends anywhere: a check whose clock is ahead of the one
admitted is so by no more than the latter was late, so what it trimmed lies
before the window, once that is shortened by as much (shortened by a millisecond
less, the run violates the bound). For refusals the count goes the other way,
from the entries of the set to the checks that made them.

**Pipeline.** `PipelineTypes`, `PipelineGoneNeverActs`, `PipelineActsAsOwner`,
`PipelineAnswersHardened`. A step of a request is written with UNCHANGED
sessions, since no middleware or handler of the model writes one (the lemma
`PipelineSession`), so the theorems of `SessionProofs` carry over
(`PipelineSessionBacked`, `PipelinePromotionSticks`,
`PipelineUndisturbedRefreshable`, `PipelineGoneStaysGone`,
`PipelineImplementsMembership`); the invariant (theorem `PipelineInvariant`)
adds that a token a request carries was issued, that whoever was gone when the
request came in is gone still, hence that no request past Auth was late, that
its context is the claims of its token, and who writes its answer at each stage.

**Server.** `ServerNeverPanics`, `ServerStreamContiguous`, `ServerStoppedClean`,
`ServerImplementsFeedStream`, `ServerTypes`, `ServerCleanExit`. `Server` is
built from the actions of `Hub`, guarded by where `run` stands (the lemma
`ServerHub`), hence the safety properties of the hub hold in the process too,
and so does the refinement of `FeedStream`. CleanExit needs the order of `run`:
the context is cancelled before Shutdown, the listener serves nobody once
Shutdown has closed it or was called before it started, and no request becomes
active after that.

Only model-checked: the liveness properties, `WithdrawnFades` among them
(fairness and ENABLED are outside what these proofs cover). Every invariant and
every other action property that a passing run checks is proved.

## 6. Abstractions to keep in mind

* Statements are atomic and PostgreSQL is at READ COMMITTED; Redis commands are
  atomic; there is one server process (the hub is in its memory).
* Tokens cannot be forged and hashes do not collide.
* A failure (`Faults`) is any of: a lost connection, an error of a store, a
  cancelled context. A request that stops never resumes; a crash of the process
  is the failure of all its calls, and the hub holds nothing that outlives it.
* `time.Now()` in one process does not go backwards, and Redis keeps the same
  clock. `RateLimit` counts in milliseconds and windows are whole ones (a window
  configured shorter than a millisecond is left out). EXPIRE counts whole
  seconds: `Grace` is what its truncation leaves of the five seconds.
* In `Pipeline` a header is there or is not. The verdict of a limiter is open,
  since it depends on requests that are not in the model; so is that of a
  service, which is in the module of its tables.
* In `Server` a client that has been accepted may be silent for ever: read and
  write timeouts are not used, and no property needs them. Requests that touch
  neither the hub nor a socket are left out; for Shutdown they are like a post.

## 7. Not modelled

* Domain types (`internal/domain`): declarations.
* The diagnostic command: it calls Register once, which is in `Session`.
* The word lists of the pseudonym generator: `Session` draws any name.
* Configuration beyond what `Load` requires, and what `production` decides:
  addresses, the onion address, the list of origins. They are data for libraries.
* The format of log lines, bodies and error texts; the headers for Tor, which
  change no state and end no request.
* Reads that change nothing: `ListOpen`, `GetByID`, `ListReplies`.
* PostgreSQL, Redis and GORM themselves, beyond the behaviour named in section 6
  and in `Engagement`.
* An abstract specification of the counters of a post: what it would promise is
  what `ReplyCountExact` and `ScoreFollowsFlips` state directly.
