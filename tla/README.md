# GoVideo: a TLA+ model of the backend

GoVideo is a short-video backend in Go: HTTP handlers and services over MySQL
and Redis, worker processes behind RabbitMQ, and server-sent events for
notifications. Several API processes and several worker processes share one
database, one Redis and one broker. The code has few algorithms and many
protocols: almost every write is split over two stores or two processes. This
project models those protocols, checks them with TLC on small instances and
proves the central ones with TLAPS for every instance.

## 1. Inventory

| Component | State | Operations | Interacts with |
|---|---|---|---|
| Video publication, outbox | `videos`, `outbox_msgs` | `VideoService.Publish`, `OutboxWorker.pollOnce` | broker (timeline exchange) |
| MQ consumers | queues, `x-retry-count`, `.dlx` queues | `consumeWithRetry`, `handleMainDelivery` | every worker |
| Likes | `likes`, `videos.likes_count`, `videos.popularity` | `Like`, `Unlike`, `LikeWorker` | exchange `like.events`, notification consumer |
| SSE hub | `clients map[uint][]chan` in each API process | `Subscribe`, `Unsubscribe`, `Push`, `SSEHandler` | notification worker and subscriber |
| Video detail cache | `video:detail:id`, its lock, a singleflight group | `GetDetail`, `UpdatePopularityCache` | popularity worker |
| Sessions | `accounts.token`, `refresh_token`, `account:id`, `refresh:token` | `Login`, `RefreshToken`, `Rename`, `Logout`, JWT middleware | every protected route |
| Rate limiter | a sorted set and a sequence number per key | `Limit`, sliding window script | login, registration and every write route |
| Comments | `comments`, `videos.popularity` | `CommentService.Publish`, `Delete`, `CommentWorker` | exchange `comment.events`, popularity events |
| Follows | `socials` | `Follow`, `Unfollow`, `SocialWorker` | exchange `social.events`, following feed |
| Notifications | `notifications` | `NotificationWorker`, Redis subscriber, mark-read | SSE hub |
| Popularity ranking | minute windows in Redis | `PopularityWorker`, `ListByPopularity` | feeds |
| Timeline and feeds | `feed:global_timeline`, cached pages with a lock, local caches | `TimelineWorker`, `ListLatest`, `ListByFollowing`, three more lists | outbox, follows |
| Messages, profiles, uploads, routing, configuration | rows, files | plain inserts and queries | - |
| Web frontend | - | - | - |

What is hard in this code, in the order of the modules below: claims with a
timeout that a slow holder outlives; a retry that re-publishes to an exchange
instead of a queue; counters kept by separate statements; a slice shared with
readers that hold no lock; a cache filled and deleted by different actors;
tokens kept in two stores; an announcement that follows its row; a window
trimmed by clocks that differ; pages put together from a trimmed sorted set and
a table, or from a cache filled at different times; a row and its count in two
statements. `PROJECT.json` lists the hazards at their lines.

What makes each component correct:

* outbox: every row is settled, a published row was published, a row is given
  up only after its retries, two workers do not handle a row at once;
* consumers: no event is lost, none is dead-lettered early, retries end;
* likes: rows follow the last request, counters follow the rows;
* hub: the table is the set of open connections, a push serves each of them;
* cache: the lock has one owner, everybody is answered, stale entries go;
* sessions: one current token, revoked tokens stay revoked;
* notifications: stored once, announced once, missed only with a reason;
* rate limiter: never too many in a window, refused only for a reason;
* feeds: the newest videos are in the timeline, a scan shows each video once
  and leaves out only what its pages could not see;
* follows: the last request decides, pages do not cross accounts;
* comments: one row, one count, deletions take effect.

## 2. Modules

`MC*.tla` instantiate the modules for TLC. A definition `Bug...` just before
the definition it resembles is a plausible mistake in that code; it is part of
no specification and documents which property would notice the mistake.

### Outbox
`outbox` is the table: a status, `retry_count`, and `expired` in place of
`updated_at < now - timeout` (every UPDATE sets `updated_at` and clears it).
A poll is cut at each statement: `ResetExpired`, `Scan`, then for each row of
the batch `ClaimWins`/`ClaimLoses`/`ClaimFails`, `PublishOK`/`PublishLost`/
`PublishFails`, `MarkPublished`/`MarkPublishFailed`/`MarkFails`. `seen` is the
retry count as the poll read it, which is what `markPublishFailed` uses.
`Crash` kills a process anywhere, `ChannelCloses` closes its channel, `Exit`
is the `log.Fatalf` of `cmd/worker` after the consumers of the same process
have seen the connection go; both restart the process. A publish that returns
nil without reaching the broker is `PublishLost` (no publisher confirms).

### EventRetry
Copies of an event are counted by queue and `x-retry-count`; a consumer has at
most one delivery in `handleMainDelivery`. `Routed` is the topic exchange: a
republish reaches every bound queue. Dead letters go through `dlx.events`,
which routes the same way. `Supervised` tells consumers of `cmd/worker`, which
ends and restarts with them, from the notification goroutines of the API
process, which are only logged when they end.

### LikePipeline
One video. `Check` and `Enqueue` are two steps because the check reads the
table while earlier events are queued; `Fallback` is the transaction used when
the publish fails, `EnqueueLost` a publish that returned nil and did not arrive.
`ApplyRow` and two `ChangeCounter` steps are the worker's
statements; `StatementFails` and `Crash` may fall between them. Queues are
FIFO and unacked deliveries return to the front. A republish and its ack are
one step (EventRetry has them apart). The popularity event that the service
also publishes, with its Redis window, is not part of this module.

### SSEHub
One user. The Go slice is a backing array and a length, because the behaviour
depends on it: `append` writes in place or moves to an array of twice the
capacity, `Unsubscribe` shifts in place element by element, and `Push` walks
the array with the header it copied. The unsynchronised accesses are a data
race; they are modelled as interleavings of single element reads and writes,
and a channel value is read whole (a pointer). A send on a closed channel sets
`panicked`, after which nothing happens: no caller of `Push` recovers.

### DetailCache
One video as a version number. Every Redis command and query of `GetDetail` is
a step; commands and queries may fail, clients may leave (their context is
cancelled, for the leader of a singleflight call on behalf of everybody), keys
may expire. `Change`, `WriteDB` and `DeleteEntry` are a like on its way
through two different queues. A cached value that is not JSON is left out:
only `SetBytes` of a marshalled video writes the key.

### Session
One account. A request is a record that moves through the stages of its
handler; protected requests pass the middleware (`AuthCached`, `AuthDB`,
`AuthCache`) first. Tokens are numbers in order of issue. Two JWTs issued for
the same name within the same second are the same string in the code; the
model takes them to differ. Passwords and JWT expiry only refuse requests
before anything is read and are left out.

### Notification
Several API processes, each with a worker, a Redis subscriber and SSE
connections. `Build`, `Create`, `Publish`, `PushLocal` and `Ack` are the
statements and commands of `process`; `Create` on an existing event_id is the
ignored error 1062. A statement or a PUBLISH may fail before or after it took
effect. `ChannelLost` hands the delivery to somebody else while `process` runs
on. `Echo` is a copy that the business consumer of the exchange published
again. `Push` is a loop: it copies the slice of the user under the lock
(`Begins`) and then, without it, does one connection per step (`SendTo`, or
`ChannelFull` for the `default` branch when the 20 slots are taken), while the
worker and the subscriber of a process push at the same time and clients connect
and leave. What an `Unsubscribe` does to the array of a running loop is the
subject of SSEHub; here it makes every loop of that user in the process `loose`,
and from then on a slot yields any open connection of the user or none
(`SendLoose`), or a closed one, which ends the process (`Panic`). The history
`silent` records every pair of process and event for which the announcement was
given up, `ghosts` the broadcasts that went out with an error, `full` the
connections whose channel was full and `shaken` the ones that a loose loop may
have passed over or served again.

### RateLimit and SlidingWindow
`RateLimit` is the Lua script, one atomic step per call, with `now` taken from
the clock of the calling process (ahead of true time by up to `Skew`) and the
expiry of both keys by the clock of Redis. `SlidingWindow` is what a limiter
promises in true time, without a sorted set: `Pass` and `Refuse` with the
windows `Strict` and `Lenient`. `Contract` instantiates it with
`Window - Skew` and `Window + Skew`; `log`, the true times of the admissions,
is the history that the mapping needs. Calls that the middleware lets through
without a script run (no subject, Redis away) are outside the promise.

### Feed
`rows` and `zset` are sets of videos, ordered by `Time`; `Newest` is both
`ORDER BY create_time DESC LIMIT` and the highest scores, in any order of equal
times. The worker adds and trims in two steps. A request of `ListLatest` goes
through the stages tail, (rebuild, readd,) range, load, stitch or cold, answer,
each one command or query. A joined singleflight takes the result of a query
that may be older than the request: `Seen` lets it see any subset of the rows,
and `known` keeps those it promised nothing about out of the properties. The
outbox and the retry protocol appear as what they promise: the event of a
committed video is pending until it is added, or it is given up.

### FollowFeed
Follows through the queue as in LikePipeline, without counters, and
`ListByFollowing` with its page cache. `Check` reads the table before `Publish`;
`PublishLost` is the publish that returned nil and did not arrive, `Fallback` the
direct write after one that failed. Every worker process runs a SocialWorker
(`docs/distributed-deployment.md`): the broker hands the head of the queue to any
worker with room in its prefetch (`Deliver`), `Apply` is the statement and `Ack`
a later step. A failed statement, which may have taken effect, is followed by a
republish to the exchange (`Retry`), a nack (`Requeue`) or a dead letter
(`DeadLetter`): which of them the retry count allows is left to EventRetry, and
here any of them may follow. `Crash` gives all unacked deliveries back, the one
whose statement has run included. `Echo` is the republish of the notification
consumer, possible for pairs whose follow was routed to it (`told`). The history
`shaken` has the pairs whose order the code does not keep.
The page cache: get, lock, recheck, query, store under the lock; polls, query and
write without it. The lock is released by the deferred `Unlock` of the request
that took it; one that polled has none to release.
Times have `Ticks` per second because cursors and cache keys are in seconds.
Cached pages carry the videos their query could see, a history that the
properties use.

### CommentPipeline
One video. `todo` is the order of `Publish`: comment event, popularity event,
transaction if the first failed, window if the second did. The worker inserts
and counts in two steps. `made` numbers the rows of a call, so that a deletion
by id does not hit a row that a copy of the event made later. The worker is one
process. More of them would not change what the properties speak of: inserts of
one event exclude each other through the unique event id, the increments are
single statements that commute, and a deletion is by an id that the row has to
have first.

## 3. Runs

`TypeOK` of a module (`SessionTypeOK`, `HubTypeOK`, `CommentTypeOK`) describes its
state. It is proved for every component; the runs spend their time on the other
properties.

Constants are small sets and named bounds. Deadlock is checked for Outbox,
whose workers poll for ever; the other instances have finitely many requests,
events, faults and expiries and may stop when they are used up.

| Run | Instance | Shows |
|---|---|---|
| `outbox` | 2 workers, 2 rows in one batch, limit 1, 2 faults, 1 slow claim per row, `FairSpec` | budget, claims, final statuses; every row ends published or failed |
| `retry` | a like in 2 queues and an unlike in 1, a worker and the API, limit 1, 2 faults, `FairSpec` | no loss, earned dead letters, bounded amplification; the worker's queue drains for good |
| `like` | 2 users, 3 requests, 1 or 2 workers (`pool`), prefetch 2, one mishap of each kind | counter drift is bounded by half-applied events and clamped decrements; with one worker no clamping, and the last request wins |
| `sse_hub` | 3 connections, 2 pushers, 2 notifications, capacity 1 | the table, and pushes that no Unsubscribe overlaps |
| `detail` | 2 processes, 3 requests, 1 poll, 1 change, 1 fault, 1 expiry, `FairSpec` | lock ownership, no orphaned followers, where errors and stale entries come from; every request is answered |
| `session` | 4 requests, 3 at a time, 1 fault, 1 expiry | saved tokens only, superseded refresh tokens refused, sequential coherence |
| `notification` | 2 processes, a like or a like of the own video, 2 connections of the author, limit 1, 2 faults | nothing lost, sent once, who is missed and why, read stays read |
| `rate_limit` | 1 subject, limit 2, window 3, skew 1, time up to 8 | never too many; implements `SlidingWindow` |
| `feed` | 4 videos (2 of one time), timeline of 2, pages of 2, 1 client, 1 fault, `FairSpec` | the timeline keeps the newest, pages are complete but for named reasons, nothing twice, the rebuild ends |
| `follow_feed` | 2 accounts, 3 videos of two authors (2 of one second), 2 workers, prefetch 2, 3 requests, 1 fault; 2 clients with pages of 1 beside 2 requests and 1 worker | pages stay with their account, nothing twice, complete scans; the last request wins while the events of a pair keep their order |
| `comment` | 2 comments, 2 deletions, 2 faults, `FairSpec` | counted once, one row, deletions take effect, both counters agree up to the faults |

One more run states what a document of the repository says and ends in a
counterexample, which is a finding in `PROJECT.json` with the quoted line:
`sse_panic`, a send on a channel that Unsubscribe has closed ends the process.

The passing properties say what holds, and their side conditions mark where the
code stops keeping a promise:

* `BoundedAmplification` in place of the four process calls that
  `docs/baby-guide.md` counts: a consumer of another queue that fails
  republishes to the exchange, and a fifth call follows.
* `DriftBounded`: a counter is wrong only by half-applied events (the retry
  finds its row and stops) and clamped decrements. With two workers an unlike's
  decrement can be clamped at 0 before its like's increment, without any fault.
* `LastRequestWins` of likes needs one worker, no fallback, no lost publish and
  nothing published again: a republish, also one of the notification consumer,
  puts a like behind a later unlike of the same user.
* `LastRequestWins` of follows holds for a pair as long as its events were never
  with two workers at a time. Without any fault, two follows may pass the check
  before either is applied, and the second of them be with one worker while the
  unfollow that came after is with another: the delete may run first, and the row
  stays. A republish by either consumer, a lost publish, a dead letter and the
  fallback take a pair out as well.
* `ClaimTokens` and `SettledIsFinal` say what a slow claim costs.
  `GivenUpAfterAllFailures` is one-sided: a worker that claims with a retry
  count it read before another one failed makes more failures possible than
  the limit allows. A failed row is never looked at again, so an outage of a
  few polls is enough to give it up.
* `DeadLetterEarned` counts failures of all queues of an event: `dlx.events`
  copies a dead letter into every matching `.dlx` queue.
* `QuietPushReachesAll`: an Unsubscribe shifts the array under a running push,
  which may then skip or repeat a connection.
* `ErrorsFromLeavers`: a singleflight leader whose client leaves fails those
  who wait for it, in its own process only.
* `StaleOnlyByRace`: the entry is deleted by another consumer than the one that
  writes MySQL, so a request in between can put the old version back, and it
  stays until it expires.
* `SequentialCoherence` is about requests that do not overlap: two logins may
  reach MySQL and Redis in different orders, and a refresh that read the row
  before a logout writes a token after it. It also asks for no expiry: a
  refresh whose lookup key is gone saves its token in MySQL and leaves the old
  one in Redis, where the middleware looks first.
* `SentOnce`: a client gets a notification again when the broadcast went out with
  an error and the worker pushes too, and when another connection of the same
  user closes during the loop and shifts the array (`[c1, c2]` becomes
  `[c2, c2]` under the copied header).
* `OnlineReached`: a crash between insert and broadcast, or an insert whose
  answer is lost, leaves a stored notification that nobody announces; a client
  with a full channel is passed over, and so may be one whose user closed another
  connection during the loop.
* `AtMostLimit`: a process whose clock is ahead trims entries early, so the
  promise holds for a window shorter by the skew.
* `NewestListed` leaves out rows that a flush took or whose event was given up
  (`adrift`): a rebuild happens only while the timeline is empty, so one late
  event after a flush hides all other videos from the first pages.
* `PageComplete`: a short page of a failed stitch query says `has_more = false`
  although the comment at `feed/service.go:300` takes that for certain; between
  the ZADD and the trim of a late event a reader can skip a trimmed video;
  videos with the time of the last one of a page are skipped.
* `ScanExact`: in the following feed the same holds for the whole second of
  the last video.
* `OneRow`: a comment that was deleted comes back when a copy of its event is
  delivered later, because the unique event id went with the row.

**Why the bounds are enough.** Two workers are needed for a stale claim, and
the second row makes a batch of more than one. Two queues on one exchange are
what likes, comments and follows have (business and notification). Two users
and three requests hold a like, its unlike and a bystander. The arrays of the
hub matter up to a shift with a survivor on each side, three connections. Two
API processes are a local and a remote one. Two follow workers with a prefetch of
2 can hold a pair's events together or apart, and three requests are two follows
and an unfollow of one pair. They have this much room only until somebody reads:
`MCNext` leaves beside the clients what the pages depend on, rows that come and go.
Two connections of one user are a survivor and one that leaves during a push; two
events have nothing in common but the processes and are looked at one by one
(`OneEvent`). Faults are bounded because each
one is needed once in a scenario; the bounds are conjuncts of the guards and
named in `CONSTANTS`. The real limits of 3 retries, 100 rows, 50 prefetched
deliveries, 20 notifications and 5 polls are parameters; the runs use smaller
ones so that they are reached. The window of the limiter is longer than the
skew, and the time bound lets keys expire and be used again. The timeline of 2
is shorter than the 4 videos, so that trims, late events and cold pages happen,
and with pages of 2 a page crosses the border between timeline and table. Two
deletions of one comment need the copy of its event between them. Symmetry is used
in safety runs only.

**Fairness.** `Outbox!FairSpec`: weak fairness of each worker (a ticker drives
`Run`, errors are logged, a dead process is restarted) and of the expiry of a
claim nobody holds (time passes). `EventRetry!FairSpec`: weak fairness of a
consumer that is up and of the restart of a supervised one. Nothing is assumed
of `process` succeeding: `ProcessOK` and `ProcessFails` are one fair step.
`DetailCache!FairSpec`: a goroutine that is not blocked runs on; contexts
bound every Redis command and the loop has five rounds. `Feed!FairSpec`: the
same for a request of `ListLatest`; nothing is assumed of the worker.
`CommentPipeline!FairSpec`: the supervised worker takes event after event.
`FollowFeed` has no liveness property. No fairness is assumed
of clients, faults or requests.

## 4. Proofs

`OutboxProofs`, `EventRetryProofs`, `MiddlewareProofs`, `DetailCacheProofs`,
`FollowFeedProofs`, `PipelineProofs`, `NotificationProofs` and `FeedProofs`
are checked by TLAPS for every value of the constants, from the named assumption
on constants of each component (`OutboxConstants`, `RetryConstants`,
`LimitConstants`, `CacheConstants`, `FollowFeedConstants`,
`LikeConstants`, `CommentConstants`, `NotificationConstants`, `HubConstants`,
`FeedConstants`). These give types, the finiteness of
workers, queues, consumers or videos, and that names such as `None` or `"closed"` are not
one of the things they are told apart from; nothing about sizes. Every module
proves its `TypeCorrect` first. The inductive invariants named below hold in
the instances of section 3 as well.

**Outbox.** `TypeCorrect`, `BudgetKept`, `GivenUpLate`, `PublishedHonest`,
`ClaimExclusive`, `SettledForGood`. The inductive invariant `IInv` has three
parts that are proved one after the other:

* `CountInv`: the budget is not inductive because a mark uses the count that
  was *read*; the counts in a batch must be within the budget too
  (`SeenBudget`), rows that do not exist yet start at 0 (`FreshRows`), and no
  count is ahead of the recorded failures (`CountsRecorded`), which gives
  `GivenUpLate`.
* `WrittenInv`: a worker about to mark a row published had its publish
  accepted.
* `TokenInv`: the right to handle a row is a token that is in the row
  (claimable, expired or settled) or with a holder; an expiry under a live
  holder makes one more. The cardinality argument needs the finiteness of the
  holders and that only existing rows are held.

`SettledForGood` is an action property: with no slow claim, `ClaimTokens` says
a settled row has no holder, and only a holder can write it.

**EventRetry.** `RetryTypeCorrect`, `DeadLettersEarned`, `NothingLost`,
`AmplificationBounded`, `NoRetryLivelock`.
`HandInv` says what a consumer holds in each stage and that it republishes
only below the limit; `CountInv` that a copy with count r witnesses r failed
`process` calls, so that a rejection at the limit comes after more than
`MaxRetryCount` of them. `NoLoss` itself is not inductive: a delivery that
waits for its ack may be the only trace of an event. `LossInv` leaves those
deliveries out, because their event has been handled or republished.
`BoundedAmplification` is an account (`CallInv`): the calls a queue has made, with
what waiting copies and deliveries in hand may still cost it, stay within `Cost`
for the publication and `Cost` for each fault. A call is paid by its copy, a
republish turns the worth of one delivery into that of `Fan` copies with a higher
count, and a redelivered copy is paid by its fault; for that its event must have
a queue, which is `RouteInv`. `NoRetryLivelock` shows the variant behind
`WorkerQueuesDrain`: every step that is not a publication, a fault or a consumer
coming back leaves strictly less work for one event and no more for the others.
Sums over queues, counts and consumers are cardinalities of sets of units
(`Total`), and the recursive `Calls` is unfolded by an induction that takes the
least element of a set of naturals instead of a predicate parameter. The sums
need finitely many queues and consumers, which the processes declare at start.

**RateLimit.** `RateLimitType`, `LimitHolds`, `LimiterImplementsWindow`. The
limit is about `log`, the script about `zset`; the invariant ties them
together: every admission of the last `Window - Skew` units still has its own
member in the set, because the member carries a time at most `Skew` ahead, the
keys live longer than the window, and sequence numbers keep members apart.
So the recent admissions inject into the set, which has at most `MaxRequests`
members. For the refinement the same map gives the guard of `Pass`; the guard
of `Refuse` needs the other direction, that every member left in the set is an
admission of the last `Window + Skew` units.

**DetailCache.** `LockOwnership`, `NoFollowerLeftBehind`, `OnlyLeaversFail`,
`StaleEntryWasRaced`, `NoRequestGoesBack`. `LockIsOwned` is inductive with the types: an expiry takes
the lock away from a holder in the same step that lets another one in, and the
unlock compares tokens. `LeaderInv` adds to `FollowersHaveLeader` that the
leader of a flight is a request of the same process between joining and
returning. `ErrorInv` adds where an empty answer comes from before it is
returned. `FreshInv` is the state of the last delete: once it has come and did
not race, no write is left, and neither the entry nor a request about to write
the entry has an old version. `NoRequestGoesBack` measures a request by the stages
and polls ahead of it: each of its steps comes nearer to the answer, and no step of
another request, a client, Redis or a worker sends it back.

**FollowFeed.** `ShowsOnlyFollowed`, `ScansAreExact`, `LastRequestDecides`.
`PageInv` says of every page, in Redis, in a flight or in the hands of a
request, that it is a query's answer for *its own key* on a set of videos that
were visible to that account; the two theorems about pages rest on it, since a
request takes pages that others have read. `ScanInv` is the loop invariant of a
client: what it has shown is not ahead of the cursor, and what it has not shown
is ahead, or in a second in which a page ended. It needs the arithmetic of
seconds and milliseconds of `next_time`.
`LastRequestWins` says of a pair that keeps its order that its deliveries are
with one worker; the induction carries this worker along (`Keeper`). Its pending
deliveries followed by the queue decide as the last request did, whatever worker
is handed the next event: if the keeper has none of the pair, any worker can
become the keeper (`AnyKeeper`). `OrderInv` adds what a crash needs: an event
whose statement has run and that is not acked says the same as the row, so giving
it back changes nothing. A delivery
to a second worker puts the pair into `shaken`, from which nothing comes back
(`ShakenStays`).

**LikePipeline.** `CountersDrift`, `SoleWriterClampsNothing`,
`LastRequestDecides`. An event in the middle of its statements owes the
counters a unit; `DriftBounded` becomes inductive when the debts of the workers
and the recorded abandoned and clamped units are added up on both sides, as
cardinalities of the sets of workers in debt, and each statement moves one unit.
With a sole writer the debt is that of one worker, and a clamp would need a
counter below what the table guarantees. For `LastRequestWins` the invariant is
about the row after *all that is left*: the deliveries in hand followed by the
queue. Each step leaves this sequence as it is, appends a request, applies its
head or takes the deliveries back (a crash), and each of these keeps what its
last action decides; `AppliedInv` makes the second application of a redelivered
event harmless.

**Notification.** `NothingForgotten`, `ReadForGood`, `NoneSentTwice`,
`OnlineAreReached`. `HandInv` ties hands to stages. `AnnounceInv` has two
parts: one worker announces an event, after its row and before anybody is told
(the unique `event_id`), and pushes that are on their way, with the worker, in
the inbox of a process or in a loop that has the connection still ahead of it,
count against the connection's cap from the start (`Load`), so that each step
only moves them. `WalkInv` says of the connections that a loop has ahead of it
that they are the recipient's, and, unless shaken, open in its process and the loop
not loose. `ReachInv` is the progress side: for a connection that misses an event,
neither sent nor in a loop nor in the inbox of its process, there is a worker that
is about to tell this process. `ReadStaysRead` is an action
property and follows from the types, as the insert keeps rows that exist.

**Feed.** `NewestAreListed`, `PagesAreComplete`, `ShownAtMostOnce`,
`NoRequestGoesRound`.
`NewestListed` is inductive with the types: a trim to `Hot` members drops a
member only when `Hot` members at least as new stay, and a rebuild that leaves
a row out lists `Hot` that are at least as new; a late event only adds.
`ScanInv` has four parts for a request at any stage: `Fits` (its page is before
the cursor, and the part from MySQL older than the part from the timeline),
`Covered` (what the timeline did not give is recorded as missed or not newer
than the last video read, which is where `NewestListed` is needed),
`Complete` (`PageComplete` itself) and `NotBefore` (what was shown is not
before the cursor). The lemmas `RangeGives`, `LoadGives`, `StitchGives`,
`StitchMisses` and `AnswerShows` say what each call does to these four.
`NoRequestGoesRound` is the measure for the call of `ListLatest` by itself: a
rebuild that writes has something to write (`RebuildInv`), a trim to `Hot > 0`
members leaves something, so without a fault the timeline is not empty again when
the tail is read the second time.

**Session.** `SessionTypeCorrect`, `OnlySavedAccepted`, `SupersededRefused`,
`SequencesStayCoherent`, in `MiddlewareProofs` beside the other middleware,
with no assumption on the constants.
`StageInv` ties what a request holds to its stage. `SavedInv` extends
`AcceptedWasSaved` to all that a later check is compared with: the row, the cached
token and the tokens that a request is about to cache. `LateInv` rests on a
refresh token being saved by the one Login that made it, before it is given out:
the row cannot get back the token of a late refresh. `CalmInv` says where row and
caches stand at every stage of a request that runs alone.

**SSEHub.** `HubTypeCorrect`, `TableIsExact`, `QuietPushIsExact`, in
`NotificationProofs`. `HeaderInv` keeps every slice header, that of the table and
those that pushes copied, within its array. The table is wrong while an
Unsubscribe shifts it, so `TableInv` is about the slots other than the one that is
being filled: these list the connections that stay, once each. For a push,
`OwnInv` says that one goroutine pushes a notification and nobody hears of it
before, and that a running Unsubscribe has marked every running push as raced;
`QuietInv` that the cells in front of a push that is not raced are the connections
it began with, each served once up to its index. An append behind the copied
length or into a new array does not touch them; an Unsubscribe does, which is why
the property stops there. That a disconnect is harmless is false (`sse_panic`).

**CommentPipeline.** `CommentTypeCorrect`, `RowsCountedOnce`, `OneRowPerCall`,
`CountersStayClose`, `DeletionsPursued`, in `PipelineProofs` beside the likes. `FlowInv` ties a call
to its event: a call that still has its event or its fallback to come has nothing
in the queue and no row, and the worker counts a row of the first event.
`CountedOnce` is then inductive on the set of inserted rows. `SingleInv` says of a
call whose event was never copied that it is in the queue once, and after its row
only while that is counted; a row that is gone was deleted. `AgreeInv` is
two-sided, because the counters are moved by different actors. What the column
may still get is at most one unit per call that owes its row and per publish event
in the queue; what it will get without faults is at least one per call that owes
its row and per *comment* that is queued and has no row. The windows' score with
what is due to it lies between the two, up to one unit per fault. At rest all the
debts are empty and `CountersAgree` is left. `DeletionsPursued` is the safety part
of `DeletionsHappen`: an accepted deletion is in the queue until its row is gone, or
was lost or dead-lettered. It needs `IdsInv`, that no later row of the comment has
the id of a row that was asked for, since a repeated event makes a new row.

**Only model-checked.** Liveness (`EventuallySettled`, `WorkerQueuesDrain`,
`EveryRequestAnswered`, `Answered`, `DeletionsHappen`): fairness and ENABLED are
outside the prover. The safety half of four of them is proved: variants
that every step lowers for `WorkerQueuesDrain` (`NoRetryLivelock`),
`EveryRequestAnswered` (`NoRequestGoesBack`) and `Answered` (`NoRequestGoesRound`),
and for `DeletionsHappen` that the deletion is not dropped (`DeletionsPursued`).
That a fair process with something left to do can always take a step is left to
TLC. `EventuallySettled` has no such variant: workers poll for ever, and a row goes
back to pending whenever a holder dies.

## 5. Not modelled

* The feeds by likes, by tag and by popularity. The first two are one query per
  page; the third pages by offset through a snapshot of the minute windows that
  lives for two minutes. CommentPipeline has the write side of the windows as
  one sum.
* The popularity event and the window of LikeService: the same code as in
  CommentService, which is modelled.
* Registration, password change and profile updates touch no token.
* Messages and profiles are single statements. Uploads, object storage,
  routing, configuration and observability are I/O and wiring. The frontend is
  outside the server.

## 6. Plan

1. done: `Outbox`, `EventRetry`, `LikePipeline`, `SSEHub`, `DetailCache`,
   `Session`, `Notification`, `RateLimit` with `SlidingWindow`, `Feed`,
   `FollowFeed`, `CommentPipeline`.
2. theorems: done for every invariant and every action property of the passing runs.
3. `HotRanking`: snapshot, expiry and pages of `ListByPopularity`, against the
   unpaged order.
4. more abstract specifications: an at-least-once channel that `EventRetry`
   implements; a lock with leases for `DetailCache` and `FollowFeed`.
