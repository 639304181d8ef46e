# AgroTech Boyacá: verification project

TLA+ specifications of the backend (NestJS, PostgreSQL, Redis, R2, FCM, Firebase) and
of the offline core of the mobile app (Flutter, SQLite), model-checked with TLC, with
theorems checked by TLAPS. `PROJECT.json` lists the components, the runs, the lines
every definition translates, the hazards of the code with the properties about them,
the theorems, and for every property a mutant of the code that breaks it.

## 1. The system

One Node process (several may run behind the balancer) over one PostgreSQL and one
Redis, and an app that works without a connection and synchronises later.

| Component | State it keeps | Operations | What makes it correct |
|---|---|---|---|
| `backend/src/sync` | `sync_ops` (outcome per opId), `sync_clocks` (last clientTs per row) | `POST /sync`: apply a batch, answer outcomes and a delta | one outcome per operation whatever is retried; the newest write wins; nothing reported that was not written; what changed since the mark comes |
| `backend/src/comunidad` | posts, profiles, conversations, messages | create, update, delete, start a conversation, send a message, list, search | one conversation per (post, initiator); a post keeps its author; one notification per message; pages lose and repeat no row |
| `mobile/lib/sync`, `mobile/lib/comunidad` | SQLite: rows, `pending_ops`, `since`; memory: radio, timer, banner, feed | enqueue, flush, apply results and delta, backoff, page | no write lost; every queue gets flushed; the device converges; the feed is whole |
| `mobile/lib/auth`, `backend/src/auth` | tokens in secure storage; refresh tokens, OTP codes and counters in Redis; users; accounts of the email provider | OTP, register, confirm, login, refresh (GETDEL), logout, deletion request | one live refresh token per user; a quiet session lasts, a logout stays; attempts are bounded; account and row go together |
| `backend/src/admin` | verification, audit | judge a juridica, mail, list | the audit tells the verdict in force |
| `backend/src/suscripciones` | subscription (period end, reminders sent), payments | record a payment, grant, daily evaluation | a payment extends the listing, once per reference; a reminder once per period |
| `backend/src/notifications` | inbox rows, FCM devices | send, register device, flush pending, acknowledge | pushed once, to its user; the status only advances; stale tokens removed |
| `backend/src/clima` | alerts, cached weather | upsert an alert, evaluate alerts | an alert fires once per cooldown |
| `backend/src/commodities` | prices, Redis cache | report and invalidate, read through | a reader does not keep seeing an old price |
| `backend/src/guias` | guide rows, objects in R2, meter, monthly reads | upload, download by ranges, relabel, delete | object and row together; the meter counts what is stored; a range is what was asked for |
| `backend/src/shared` | Redis counters | key-value store, throttler, guards, cursors | limits are limits |

Components talk by calls inside the process (sync calls comunidad, clima and
commodities; comunidad, clima and suscripciones call notifications), through the
shared tables, and over HTTP between app and backend. No database transaction spans
two calls of a handler. What is hard: requests that interleave at every `await`; a
client that times out and resends while the first request still runs; a call that
fails although it was applied; crashes between two writes that belong together; on
the device, callbacks (radio, timer, session, user) that run between two awaits of a
flush or a page, and the death of the app between two SQLite statements.

## 2. The modules

| Module | Models | Composed with |
|---|---|---|
| `SyncServer` | `POST /sync`, the REST endpoints over the same rows, conversations and messages | implements `OpLedger` |
| `OpLedger` | what the backend promises of an operation, in three actions | |
| `SyncClient` | queue, engine and controller of the app, and the server as it sees it | |
| `Feed` | the delta, the pages and the feed on the screen | |
| `Pages` | the five cursor listings of the backend | |
| `Suscripciones` | payments, grants, the daily job, the gates of the listing | |
| `Session` | refresh tokens in Redis and the devices that hold them | |
| `Accounts` | registration, verdicts, one-time codes, users | |
| `Notices` | inbox, devices, dispatch, weather alerts | |
| `Catalog` | guides with their objects and meter, prices with their cache | |
| `*Proofs` | the theorems of a module | extend it and TLAPS |
| `MC*` | constants for TLC | extend it |

Conventions. A request in flight is a record in a slot of `req` (of `pay`, `job`, `thr`
where there are several kinds); its `pc` names the next `await`, so a step is the code
between two awaits. A table is a function from keys to rows, with `None` where there is
no row; unique indexes, foreign keys and cascades of `schema.prisma` are guards of the
actions that meet them. `Fault` counts failures, `Crash` ends every request of the
process. History variables say what happened and are read by properties only. The
`Mixes` of a run are the kinds of request that a behaviour mixes: every pair
that shares a table is among them. Operators whose comment begins with "Mutant:" are
the plausible bugs that show a property can fail; nothing else uses them.

### SyncServer and OpLedger

`Receive` is the call of `apply` (which reads the clock once for the whole batch);
`FindOp` is the head of `applyOne` up to the first await of the handler; posts,
profiles, alerts and prices share `Read` (the row), `Decide` (the clock and
`decideLww`), `Own` (only `updateOwn`), `Write` and `Stamp`; conversations and messages
have the steps of `ConversationsService.start` and `sendMessage`; `Save` and `Refind`
are `persist`. `Fail` is an awaited call that throws, with the catch it lands in;
`RestWrite` and `RestDelete` are the endpoints that change the same rows without
touching the clocks. Left out: the content of rows (a row is the operation that wrote
it), the ids of profile, alert and price rows, and invalid entities (the DTO rejects
the whole request).

`OpLedger` says, of each operation, whether its effect is in the database, what was
decided, and what was answered: an effect precedes a decision "applied", a decision
is taken once, an answer is the decision. `KeepsTheLedger` is the refinement: the
effect is the history of writes, the decision the row of `sync_ops`, the answers those
the requests returned to the operation's user. It is checked by the run and proved.

### SyncClient

SQLite runs statements in order, so a count or a peek is read when its caller resumes.
The controller's methods are operators on its record (`Flush`, `ScheduleRetry`,
`Publish`...), the awaits of `_refreshPending` are `asked`, and `eng` is the flush in
progress: `Peek`, `Send`, the server's part (`Serve` one operation at a time,
`Respond`), `ApplyResult` per result, `RemovePending`, `ApplyDelta`, `Mark`. `Fail` is
each way a POST ends without an answer; the server may serve the rest of it later
(`Late`). `Kill` keeps SQLite and the session only. `RemoteWrite` is another device of
the same user. Left out: entities other than posts, SQLite errors, clock skew between
devices, and two writes by the user within the same await. The delta is whole here:
`Feed` has its limits.

### Feed

`Push`, `Apply`, `ReadDelta` (once per collection, each at its instant), `Respond`,
`ApplyDelta` and `WriteSince` are the delta from request to mark, `Stamp` and `Commit`
the two instants of a write of another request. `RefreshFeed`, `LoadMore`, `Look`,
`Fetch`, `CachePosts`, `ReadPage` and `Show` are PostsController with its two cursors, the
remote and the local one, and `Escape` an answer that does not parse, which neither
method catches; `feed` is the sequence of the pages it shows, each a set of posts
that the screen orders from the newest. A post is its place in the order of (createdAt, id); the
device has nothing queued. `Relist` is an author whose listing ends or is renewed.

### Pages

One client walks one listing, page by page; between pages rows are inserted (several
in one millisecond), leave the listing, return (a guide relabelled twice, a verdict
withdrawn, a subscription renewed) and are deleted. Each listing has its own order and
cursor condition, translated from its query; `Paginated` is the common `paginate`. The rows
of an answer are a set that the order of the listing (`Ahead`) sorts, the first n of them
those with fewer than n before them, and a walk is the sequence of its pages.

### Suscripciones

`RecordPayment`, `FindPayment` (only with a reference), `ReadCurrent`, `InsertPayment`
(the unique index) and `UpsertPaid` are the awaits of recordPayment. `Grant` is the
operator's script, one SQL statement. `Evaluate` reads the clock, `ListAll` the rows,
`Remind` takes any row left and sends the notice `Due` at that instant, `Save` writes
the whole row back as it was read. A payment is a value that fixes user, channel and
reference, `Anonymous` those without one. `owed` is what payments and grants add up to;
`disturbed` are the users on whom two requests worked at once or one was cut between
its two writes: `AloneIsExact` leaves them out, because the code makes no promise there
that it keeps. `ListedSince`, `Searched` and `IsListed` are the gates of feed, search
and detail.

### Session

A device has two threads, its screens and the background synchronisation, over one
secure storage (a register) and one `_refreshing` (`flight`). `Post` puts a request in a
slot of the server, which takes (`Take`), checks (`CheckUser`) and issues (`Previous`,
`Drop`, `Record`, `Index`) tokens call by call; `Refreshed`, `Turn`, `Wait`, `Store` and
`Clear` are the client's refresh, `Restore`, `Latest`, `WriteBack`, `Login`, `Save`, `Load`,
`Logout`, `Leave` the controller. A token is the number of its issue. `mishaps` names
what happened: a lost answer or failed call ("cut"), an answer that came after its
session was gone ("late"), another login, an overlap. Left out: a refresh answered with a 200 whose
body does not parse; the call ends as after a timeout, and `restore` ends as a guest.

### Accounts

`Register` is registerJuridica (`Find`, `SignUp`, `Create` with the unique indexes,
`Compensate`, `Confirm`), `Resend` and `Verdict` (`Target`, `Update`, `Audit`,
`NotifyVerified`) the other requests, `SendOtp` and `Verify` the one-time codes over
`SetSession`, `SetCooldown`, `Incr`, `SetExpiry`, `ReadSession`, `Match`, `SaveSession`,
`Consume`. Hashes and encryption are left out: emails, NITs and phones are values. The
password is right, since a wrong one ends a request before any change.

### Notices

`Enqueue`, `ListDevices`, `Push`, `RemoveStale`, `MarkSent` are send and dispatch; `Pending`
starts the flush of a login or a new device, which dispatches row after row (`NextUp`:
notices are numbered in the order of their creation, and `Current` is the oldest of the
queue); `DeleteToken` and `PutToken` are the two calls of a registration. `ListAlerts`, `ReadCache`,
`Fetch`, `Fire`, `MarkFired` are evaluateAlerts. Left out: the cut of a flush by number
and age of the notices; the error of removeByToken after some pushes (it ends the
request like any other, and the sends still in flight in the Promise.all count as not
pushed); an accept of FCM whose answer is lost (it counts as a failed push: the notice
stays pending, so the next flush pushes it again, as after any failure, which
`PushedOnce` leaves out); and the clock of recentlyFired, which the code reads alert by
alert and the model once, when the job lists them.

### Catalog

`Compress`, `Rm` (the directory of ffmpeg; when it cannot be removed it stays and the upload
is refused), `Quota`, `Put`, `CreateRow`, `Undo`, `AddStorage` are the upload; `FindRow`,
`DeleteObject`, `DeleteRow`, `RemoveStorage` the removal; `Open`, `Get`, `IncrementReads`
a ranged read and the count nobody awaits. A call to R2 or to the database is done,
fails, or is done and its answer lost (`Outcome`). `CrashAndStart` hydrates the meter.
`UpsertPrice`, `Invalidate`, `ReadPrice`, `FindPrice`, `FillCache` are the prices. Left out:
labels and the listing (in `Pages`), signed URLs, and the warnings at 80 %.

## 3. Runs

| Run | What it asks |
|---|---|
| `SyncServer_overlap` | two requests over one post id claimed by two users, a conversation opened from two devices, its message and a price, resends, a crash and a throwing call: does a post keep its author, do conversations converge, does the server implement the ledger? |
| `SyncServer_alone` | one request at a time with batches, ties, resends, a date too far ahead, one unreadable and an invalid payload: does the newest write win, and does a losing operation leave no trace? |
| `SyncServer_retry` | liveness: with REST writes, a deletion and a crash besides, is a client that keeps resending answered, and its peer notified at most once? |
| `SyncClient_device` | one post edited from two devices, every kind of failure, late POSTs, radio, logins, kill: is a write lost, does the device converge, does the queue drain? |
| `Suscripciones_listing` | payments recorded twice and at once, a grant, a job, or two jobs at once over two users, a crash or a throwing call at any await: does a reference count once, are notices true, is everybody told? |
| `Session_device` | two devices, one with a background synchronisation: can a refresh hang the device, a logout be undone, a quiet session die, a token outlive its session? |
| `Accounts_life` | two registrations of one email or NIT, two administrators, a phone with a code and guesses: do provider, table and audit agree, do the limits hold? |
| `Notices_inbox` | sends, logins, a phone that changes hands, two alert jobs: what is pushed twice, or to whom it should not? |
| `Catalog_rows` | uploads, removals, reads, reports with calls whose answer is lost: do rows, objects, meter and cache match? |
| `Feed_pages` | deltas, pages, searches, commits, relisting: is what changed on the device, is the feed whole? |
| `Pages_walk` | each listing walked with one and two rows a page while it changes: is the walk exact? |
| `SyncServer_race` | expected to fail, see below |

Properties and what they leave out. Where the code promises nothing under overlap or
failure, the property says so in its antecedent, so the exception is part of the
statement and not a bound of the run: with a history variable (`raced`, `mishaps`,
`leaked`, `disturbed`, `torn`) set by the event its comment names, or, in
`AccountsBacked`, `AuditTells`, `PushedOnce`, `FiresOnce` and `EndIsTheEnd`, with
`faults = 0`, after any failure. In `CodesHold` each limit has an exception of its own:
only a request cut between INCR and EXPIRE leaves a counter without a lifetime, only
overlapping requests of the codes pass the hourly limit, and the bound on attempts may
also fall to a request cut before it wrote down how a comparison ended. In `Catalog`
the bytes of the meter are wrong after a failed hydration, an error that hid what was
done to a row or a removal before the upload was counted, its reads after a failed
hydration or a count that was not stored, and an object stays without a row after a PUT
whose answer was lost, a crash, or an undo that failed. `TypeOK` is the type invariant
of each module (`WalkTypeOK` in `Pages`).

Bounds. Two request slots are enough for every race on one row, because a decision
involves one clock, one row and one opId, and because every exception is about a pair.
Three writes of a post give a winner, a loser and a tie. One crash or failure falls at
every await in turn; `Catalog` has two, so that a call whose answer was lost is followed
by an undo that fails. On the device, two operations and a batch of one exercise the
loop, the cap on batches and an edit in mid-flush; one move and one kill fall at every
await. For the subscriptions, a period, a grace and a warning of one instant each
within four instants go through every status, and a behaviour starts in one of three
ways (`Starts`): payments by two administrators, a grant and a job from the empty table;
two jobs at once over two users whose period ended, in the days of grace and after, where
one fails at a row with another row left to do, or writes back over the other's; and two
jobs at once while the period is granted anew. What a start does not begin, users,
administrators or jobs outside its `cast`, rests. Three tokens allow a
login, a refresh and a login of another device. Two attempts and two sends an hour
reach both limits of the codes. Sizes of one and three bytes under a quota of four
reach the quota and every shape of range. Three posts, pages and deltas of one row
put a row before, on and after every cursor and limit; in `Pages` two instants share a
millisecond and walks have five pages of one or two of the rows.

The deadlock check is off because the bounds stop the system (`MaxCalls`, `MaxOps`,
`MaxSends`...) and because an idle server or device is a legal state. `SYMMETRY` is used
in runs without liveness only.

Fairness. `SyncServer!FairSpec` lets every request in flight proceed (Node resumes
every await) and a client resend what is unanswered (`SyncEngine.flush` sends what is
queued). `SyncClient!FairSpec` lets every ready callback run, timers fire and the server
answer unless the POST fails, at most `MaxFaults` times; `Suscripciones!FairSpec` lets
the scheduler call the job again and again and the job proceed. Nothing is assumed of
the user or of the radio, so `QueueDrains` excuses a queue whose user left, whose radio
went, or whose flush ended in a 401 or an unreadable answer, after which `_flush`
deliberately sets no timer.

## 4. Where documents and code differ

`SyncServer_race` finds it: "Gana el `clientTs` estrictamente mayor"
(`docs/BASE_INFRAESTRUCTURA.md:299`), but two overlapping requests decide on the same
clock, and the older write may land last.

Others were met while modelling. They are stated at the end of their module, and found
by TLC when added as a property to the run named here, but are not runs of their own:

| Property | Sentence, and what happens |
|---|---|
| `RevertRestores` (SyncClient) | "`rejected` sin `record` revierte el optimista" (:98): a rejected edit deletes the post from the device (sync_engine.dart:388) |
| `SinceIsOwn` (SyncClient) | "`since` = último `serverTime` de ese usuario" (:96): a flush that goes on across a change of session stores the mark of another user's answer (sync_engine.dart:312) |
| `BannerTrue` (SyncClient) | "**Sincronizado** (radio y cola vacía)" (:99): a login while a flush is in flight publishes nothing (sync_controller.dart:226) |
| `JobHidesNobody` (Suscripciones) | "el job no oculta filas" (:307): it writes back a period read before a payment (suscripciones.service.ts:207) |
| `EndIsTheEnd` (Feed) | "Lista cursor (GET /posts al haber radio...)" (:107): a local page that holds exactly `limit` rows has no cursor, and loadMore returns before the second remote page (posts_controller.dart:73) |

And without a property. "Push idempotente por periodo" (:315): a job cut between a
reminder and its mark, or two jobs at once, send it again (suscripciones.service.ts:207),
so `AloneIsExact` leaves such users out. "Un refresh vivo por usuario" (:160, :385): two
logins at once, or one cut between storing its token and naming it in the session, leave
a second token the server exchanges (token.service.ts:41), so `AloneOneLive` leaves them
out. The same opId in flight twice may be answered "conflict"
although it wrote the row (the second request meets the clock of the first,
sync.service.ts:461), which is why `LosersYield` is asked of requests that do not
overlap; and the `pending` and `deletions` listings, whose rows raw SQL stamps with
microseconds, compare them with a cursor of milliseconds, so the last row of a page
comes again on the next (users.repository.ts:275, deletion-request.store.ts:33), which is
why the second half of `WalkIsExact` leaves them out. Pages of one row, which
`CursorPaginationQueryDto` allows, then repeat the same row for ever, as does any page
whose rows share a millisecond; in the other three listings every page brings something
new (`WalksMoveOn`, section 5).

## 5. What is proved

For every value of the constants that satisfies the named assumptions, TLAPS checks:

| Module | Theorems (property) | The inductive invariant adds |
|---|---|---|
| `SyncServerProofs` | type correctness, one answer per operation, what is answered "applied" was written, a clock names a write, and the refinement of `OpLedger` (`KeepsTheLedger`); `PostKeepsAuthor`, `NotifiedAtMostOnce`, `ConversationsConverge`; under hypotheses (below) `NewestWins` and `LosersYield` | `Sound`, what a request in flight knows: an outcome about to be persisted is about its own operation and says "applied" only if the write happened; a request past `Write` has written; outcomes in `done` are in the log. `MessagesWritten`, for a message found already stored. `AuthorsHold` (the post an update found is there, with its author), `BellsInv` (notifications sent and on their way are counted by messages stored and posts deleted), `TalksInv` (one conversation per user and post, opened by its own operation, its peer the author of the post, and an outcome names a conversation its user is in), `NewestInv` (no settled write is newer than its clock, no clock newer than the write on its row), `YieldInv` (what was written is recorded "applied" or in the hands of its request) |
| `SyncClientProofs` | type correctness, `NoLostWrite`, timers only when useful; `Converged`, for a device of one account and, under a hypothesis (below), for any | `OnlyMade` (nothing is in the queue or on its way that the user did not write), `OneFlush`, `Answering` (what is applied is an answer to what was sent). For convergence `ConvInv`: `Repeated` (an operation the server has, or that an abandoned POST may still bring it, is in the next batch while it is queued), `Clocked` (the mark lies between the first and the last reading, and both in the past), `Verdicts` (a verdict shows the row, unless the row changed after the last pull), `Pulled` (what was pulled is on the device or its entity is still queued), and what the results, the delta and the mark of the flush in progress will make true (`ResultsTell`, `DeltaTells`, `MarkTells`) |
| `SuscripcionesProofs` | `TypeOK`, `PaidOnce`, `NoticesAreTrue`, `AloneIsExact`, and that the gates of feed, search and detail agree (`ListingsAgree`) | `OneCreditor` (of the requests with one reference only the one whose insert succeeded may add the period), `InThePast` (a notice was sent at an instant that is over), `ExactInv` (of a user nobody disturbed: one request works on it, the row a job read is still the row, what a payment computed is what is owed, a reminder of the period is marked or about to be) |
| `CatalogProofs` | `TypeOK`, `ObjectsMatchRows`, `RangeServed`, `PriceFresh`, `StorageMetered` | `Identity` (nobody else has the id of an upload before its row is there), `Backed` (what is about to be undone or deleted), `Counted` (ids do not run out, each compressor has its directory), `FillsFresh` (what is about to fill the cache is as fresh as the cache). For the meter `Metered`: `Balanced` (its bytes are those of the rows it was told of and of the removals about to tell it, and nobody removes a guide whose upload is about to tell it), `Fits` (one upload at most adds to the rows, and what it is about to store is within the quota), `Reads` (no month after the meter's has reads, stored or to be stored) |
| `SessionProofs` | `TypeOK`, `RefreshIsUnderWay`, `AloneOneLive`, `CalmSessionLasts`, `SignedOutStaysOut` | `Waiting` (each answer finds the one thread that waits for it, and a thread in a refresh holds `_refreshing`), `Counted` (the tokens issued and the requests that may still make one stay within the bound), `Alone` (what issue and logout know of the tokens between their calls, when nothing overlaps). While nothing went wrong: `Screens` (where a thread may be in each phase), `Tidy` (a refresh under way has the token of its device, a guest has none), `Calm` (one device at most has the session, the server exchanges its token and no other, and every request under way comes from it and knows what it will leave behind) |
| `AccountsProofs` | `TypeOK`, `AccountsBacked`, `CodesHold`, `AuditTells` | `Owned` (a registration between the provider and the table owns the account of its email, and no row has it), `Numbered` (no two requests have one number), `Calm` (the count a session keeps is not behind the wrong guesses unless the request that makes it so is about to write it back or to drop it; codes are of one phone each; it is asked only while `Clean`, of requests that neither overlapped nor were cut before they wrote down how a comparison ended; the hourly limit, which a cut does not touch, is carried by `Spared`), `Audited` (while nothing fails and verdicts follow one another, a request about to audit a verdict left it on the row, and nobody without a row has been audited) |
| `NoticesProofs` | `TypeOK`, `PushedOnce`, `ReachesItsUser`, `FiresOnce`, and the action property `OnlyForward` | `Knows` (what a request dispatches is stored, what it is to mark was accepted), `OneByOne` (while one request at a time dispatches, what a device got is no longer pending or is being dispatched), `Undisturbed` (a request that is alone finds the devices as it left them), `OneJob` (an alert that fired is hot or still in the hands of its job) |
| `FeedProofs` | `TypeOK`, `DeltaComplete`, `FeedIsWhole` | `Behind` (no copy of a row is ahead of the server). For the mark `Delta`: `Answered` (a row of a collection already read that changed between the mark and the pull is on the device, on its way, or known to be left out), `OneCopy`, `Marked`. For the feed `Screen`: what a load that nothing overlaps knows at each `await`; its core is `Covered` (SQLite has a full page after the local cursor, down to the cursor of the remote list), so that the remote list is never behind the local one (`Listed`) and the next local page covers what the remote page brought |
| `FeedProofs`, of `Pages` | `WalkTypeOK`, `WalkIsExact`, and that a walk moves on (`WalkMovesOn`: a page with a next one has a row no page before it had, where Prisma stamps the rows) | `Walked` (every row of the listing that was in it all the while was served or lies beyond the cursor, nothing that was served does, and a walk with no cursor has served nothing), `Whole` (the stamps of Prisma are whole milliseconds, so a cursor is as sharp as its row), and that at any moment the rows are finitely many |

Three theorems have a hypothesis besides `Spec`. `NewestWins` holds of the behaviours in
which requests do not overlap (`[]OneAtATime`), through crashes, failing calls, REST
writes and deletions; `SyncServer_race` shows that without it the property fails.
`LosersYield` also asks that nothing disturbs the requests (`[]Undisturbed`: no crash, no
throwing call, no REST endpoint), since a call that throws between the write and its stamp
leaves a written row without an outcome. `SyncServer_alone` is an instance of both.
`DeviceConverges` is about the behaviours in which no POST leaves with the token of
another user than the one whose queue it carries (`[]OneSession`): the engine keeps the
user it started with and the token store does not, so a flush that a logout and a login
overtake stores another user's mark (`SinceIsOwn`, section 4) and rows before that mark
are never pulled. Everything else stays: failed, lost and late POSTs, deaths of the app,
edits during a flush, other devices, and changes of session between flushes. On a device
of one account the hypothesis is a consequence (`OneAccountConverges`, with no temporal
hypothesis), and `SyncClient_device` is an instance of that. The argument: only the order
of server times and the queue decide. A verdict shows the row of its moment; if the row
changed since, it changed after the last pull and the next delta has it; an operation
whose answer was lost is in the next batch again, so its verdict is applied before the
queue can be empty; and an edit made meanwhile keeps its entity queued.

The arguments have the same shape. A step changes one request, so the invariant of the
others is carried by a lemma about what a step leaves alone (`OneRequest`, `Grows`,
`SoundGrows`, `Moves`, `OneWriter` and `Lasting` in SyncServerProofs; `MovesOn`, `Elsewhere` and `NamesKept` in
CatalogProofs, where the sums over the rows are numbers of units and add up by
`TotalSplits` and `TotalRenamed`; `WaitingKept`, `CountedKept`, `AloneKept`, `CalmHeld` and `CalmAside` in SessionProofs;
`BackedKept`, `CodesKept` and `AuditedKept` in AccountsProofs; `CalmStep`, `RowsStep` and `ClockStep` in
SyncClientProofs; `ExactPay` and `ExactJob` in SuscripcionesProofs; `DeltaKept` and
`ScreenAside` in FeedProofs), and each action needs only its own
request and table. The refinement maps initial state to
initial state and each step to a step of `OpLedger` or a stutter; that the effects are
only ever added and that an answer is a decision come from `Sound`.

The assumptions are those each module declares (`SyncAssumption` and the like): the
sets the constants range over, that `None` is none of the values, in `SyncServer`,
`Catalog` and `Session` that the slots are finitely many, and that the device gives every
message and every conversation an id of its own (`FreshMessageIds`,
`FreshConversationIds`; `idGen` in sync_engine.dart). TLC evaluates them in every run.

A page is proved about by counting: `PageOf` (FeedProofs) says of `Paginate` that what is
left out of a page lies below its cursor and that fewer than `PageLimit` rows lie above
it. It rests on `Least`, that a set of numbers has a least one, which comes from the
well-foundedness of strict inclusion among finite sets.

The walks of `Pages` are proved in `FeedProofs` too: they are the pages a load of the feed
asks for. The module extends both, so that `Pages` has names of its own (`WalkSpec`,
`WalkTypeOK`, `clock`, `served`, `Null`); the proofs about one do not use the variables of
the other. `FirstIs` says what the first n
rows of a set are and `PageIs` what `paginate` leaves out of an answer; `CursorIs` and
`BeyondAhead` that the cursor of a page and the order of the listing agree, exactly where
the stamps are whole milliseconds and on one side only where they are not (which is why
the second half of `WalkIsExact` leaves the raw listings out); `ListedIs` that each of the
five queries finds every row of its listing beyond the cursor and none before it. Requests
of others move rows in and out but never restamp one (`OthersKeep`), so what a walk left
behind stays behind.

Only model-checked: liveness (`SentIsAnswered`, `QueueDrains`, `LapseIsTold`), which is out
of the prover's reach. No theorem needs induction over data: `Catalog` writes the sum over
its rows as the cardinality of a union (`Total`), whose laws follow from those of finite
sets, and `Feed` and `Pages` write a page as the rows that have few enough others before
them.

## 6. Not modelled

`legal` (static documents), the platform scaffolding of the app, pipelines and documents
have no behaviour to model. Partly modelled: of `mobile/lib/sync`, the local tables of
profiles, alerts, prices and guides (only ever written by the delta), photos and
eviction; of `shared`, the throttler (it repeats the counter of `RedisKvStore.incr`,
which `Accounts` has), guards, filters, compression, logging and configuration, which
keep no state; of `prisma`, the migrations; of `scripts`, the checks of a deployment; of
the screens, everything but the posts, since widgets, theme and navigation keep no
state beyond what they load. Within modelled components, hashing, encryption, JWT
signatures, wording and validation of DTOs are pure and left out.
