----------------------------- MODULE FollowFeed -----------------------------
(***************************************************************************)
(* Follows and the feed of followed authors: SocialService and a pool of   *)
(* SocialWorkers change the relation through a queue,                      *)
(* FeedService.ListByFollowing reads it page by page through a cache in    *)
(* Redis, filled under a lock.                                             *)
(*                                                                         *)
(* The queue is FIFO, and what a worker has not acked goes back in front   *)
(* of it.  Events carry no retry count here: any failure can be the last   *)
(* one (module EventRetry has the protocol).                               *)
(*                                                                         *)
(* A read is a client of one account that follows next_time from the top.  *)
(* Videos are never changed or deleted; a page is its set of videos.  The  *)
(* deadline of 50 ms that all commands before the query share, the 500 ms  *)
(* of the lock and the 24 h of a page can each run out at any moment.  A   *)
(* process without Redis reads MySQL as a request does whose commands all  *)
(* fail.                                                                   *)
(***************************************************************************)
EXTENDS Integers, Sequences, FiniteSets

CONSTANTS
    Accounts,    \* viewers
    Videos,      \* committed videos: one posted later is like one whose author
                 \* is followed later
    Author,      \* Author[v]
    Time,        \* Time[v]: create_time of v in ticks
    Ticks,       \* ticks of a second: cursors and cache keys are in seconds
    SocialWorkers, \* worker processes, each with one SocialWorker
    Prefetch,    \* WorkerPrefetchCount of cmd/worker
    Reads,
    Limit,       \* limit of the reads
    None,        \* no page, no holder
    MaxRequests, \* bound: follow and unfollow requests
    MaxFaults    \* bound: everything that goes wrong

ASSUME FollowFeedConstants ==
    /\ IsFiniteSet(Videos)
    /\ Time \in [Videos -> Nat] /\ \A v \in Videos : Time[v] >= Ticks
    /\ Ticks \in Nat \ {0} /\ Limit \in Nat \ {0}
    /\ SocialWorkers # {} /\ Prefetch \in Nat \ {0}
    /\ MaxRequests \in Nat /\ MaxFaults \in Nat

VARIABLES
    follows,  \* table socials: <<follower, vlogger>>
    asked,    \* requests that have looked at the table and not published yet
    queue,    \* social.events
    buf,      \* buf[w]: deliveries to worker w, not acked; the first is handled
    done,     \* workers that have handled their first delivery, but for the ack
    page,     \* page[k]: cached answer for key k
    lock,     \* lock[k]: the read that holds lock:k
    viewer,   \* viewer[r]: account of r
    stage,    \* stage[r]: its next call
    cursor,   \* cursor[r]: latest_time of its request in seconds, 0 for none
    got,      \* got[r]: the answer
    shown,    \* history: shown[r][v]: how often r has shown v
    marks,    \* history: marks[r]: the cursors that r used
    steady,   \* history: steady[r]: videos visible to every query behind the
              \* pages of r
    ever,     \* history: every pair that was in follows
    last,     \* history: last[p]: the last accepted request for p
    told,     \* history: pairs whose follow reached the exchange
    shaken,   \* history: pairs with an event that lost its place in the order
    requests, \* history: follow and unfollow requests so far
    faults    \* history: faults so far

social == <<follows, asked, queue, buf, done, ever, last, told, shaken, requests>>
reading == <<page, lock, viewer, stage, cursor, got, shown, marks, steady>>
vars == <<social, reading, faults>>

Authors == {Author[v] : v \in Videos}
Pairs == {p \in Accounts \X Authors : p[1] # p[2]}
Events == [pair : Pairs, action : {"follow", "unfollow"}]
Sec(t) == t \div Ticks
Keys == Accounts \X ({0} \cup {Sec(Time[v]) : v \in Videos})
Pages == [list : SUBSET Videos, visible : SUBSET Videos]
Stages == {"ready", "get", "lock", "recheck", "own", "store", "poll", "db", "write", "answer", "end", "error"}

TypeOK ==
    /\ follows \subseteq Pairs /\ ever \subseteq Pairs
    /\ told \subseteq Pairs /\ shaken \subseteq Pairs
    /\ asked \subseteq Events /\ queue \in Seq(Events)
    /\ buf \in [SocialWorkers -> Seq(Events)] /\ done \subseteq SocialWorkers
    /\ \A w \in done : buf[w] # <<>>
    /\ page \in [Keys -> Pages \cup {None}]
    /\ lock \in [Keys -> Reads \cup {None}]
    /\ viewer \in [Reads -> Accounts] /\ stage \in [Reads -> Stages]
    /\ cursor \in [Reads -> Nat] /\ marks \in [Reads -> SUBSET Nat]
    /\ \A r \in Reads : <<viewer[r], cursor[r]>> \in Keys
    /\ got \in [Reads -> Pages] /\ steady \in [Reads -> SUBSET Videos]
    /\ shown \in [Reads -> [Videos -> Nat]]
    /\ last \in [Pairs -> {"follow", "unfollow"}]
    /\ requests \in 0 .. MaxRequests /\ faults \in 0 .. MaxFaults

Nothing == [list |-> {}, visible |-> {}]

Init ==
    /\ follows = {} /\ ever = {} /\ told = {} /\ shaken = {}
    /\ asked = {} /\ queue = <<>>
    /\ buf = [w \in SocialWorkers |-> <<>>] /\ done = {}
    /\ page = [k \in Keys |-> None] /\ lock = [k \in Keys |-> None]
    /\ viewer \in [Reads -> Accounts]
    /\ stage = [r \in Reads |-> "ready"]
    /\ cursor = [r \in Reads |-> 0]
    /\ got = [r \in Reads |-> Nothing]
    /\ shown = [r \in Reads |-> [v \in Videos |-> 0]]
    /\ marks = [r \in Reads |-> {}]
    /\ steady = [r \in Reads |-> Videos]
    /\ last = [p \in Pairs |-> "unfollow"]
    /\ requests = 0 /\ faults = 0

Fault == faults < MaxFaults /\ faults' = faults + 1

-----------------------------------------------------------------------------
(* SocialService.                                                          *)

\* Follow and Unfollow look at the table before they publish.
Check(p, action) ==
    /\ requests < MaxRequests /\ requests' = requests + 1
    /\ (p \in follows) = (action = "unfollow")
    /\ asked' = asked \cup {[pair |-> p, action |-> action]}
    /\ UNCHANGED <<follows, queue, buf, done, ever, last, told, shaken, faults>> /\ UNCHANGED reading

Accepted(e) ==
    /\ asked' = asked \ {e}
    /\ last' = [last EXCEPT ![e.pair] = e.action]

\* The exchange routes every event to social.events, and a follow to the queue
\* of the notification worker.
Routed(e) ==
    /\ queue' = Append(queue, e)
    /\ told' = IF e.action = "follow" THEN told \cup {e.pair} ELSE told

\* Mutant of Publish: an unfollow overtakes what is queued.
BugUnfollowDirect(e) ==
    /\ e \in asked
    /\ Accepted(e)
    /\ IF e.action = "follow" THEN Routed(e) /\ UNCHANGED follows
       ELSE follows' = follows \ {e.pair} /\ UNCHANGED <<queue, told>>
    /\ UNCHANGED <<buf, done, ever, shaken, requests, faults>> /\ UNCHANGED reading

Publish(e) ==
    /\ e \in asked
    /\ Accepted(e)
    /\ Routed(e)
    /\ UNCHANGED <<follows, buf, done, ever, shaken, requests, faults>> /\ UNCHANGED reading

Shakes(e) == shaken' = shaken \cup {e.pair}

\* Publisher confirms are not in use: PublishJSON returns nil for an event that
\* is lost on its way.
PublishLost(e) ==
    /\ e \in asked
    /\ Fault
    /\ Accepted(e)
    /\ Shakes(e)
    /\ UNCHANGED <<follows, queue, buf, done, ever, told, requests>> /\ UNCHANGED reading

\* SocialRepo.Follow and Unfollow.
Written(e) ==
    /\ follows' = IF e.action = "follow" THEN follows \cup {e.pair} ELSE follows \ {e.pair}
    /\ ever' = ever \cup follows'

\* The event cannot be published: the table is written directly.  A row that
\* is there already is an error for the client.
Fallback(e) ==
    /\ e \in asked
    /\ Fault
    /\ IF e.action = "follow" /\ e.pair \in follows
       THEN asked' = asked \ {e} /\ UNCHANGED <<follows, ever, last, shaken>>
       ELSE Accepted(e) /\ Written(e) /\ Shakes(e)
    /\ UNCHANGED <<queue, buf, done, told, requests>> /\ UNCHANGED reading

-----------------------------------------------------------------------------
(* SocialWorker.                                                           *)

Busy(w) == buf[w] # <<>>
First(w) == Head(buf[w])

\* Worker w has an event for p that it has not acked.
Holds(w, p) == \E i \in DOMAIN buf[w] : buf[w][i].pair = p

\* The broker sends the first event of the queue to a worker with less than
\* Prefetch unacked ones.  Once two workers have events of one pair nothing
\* says whose statement is the last.
Deliver(w) ==
    /\ queue # <<>> /\ Len(buf[w]) < Prefetch
    /\ buf' = [buf EXCEPT ![w] = Append(@, Head(queue))]
    /\ queue' = Tail(queue)
    /\ shaken' = IF \E v \in SocialWorkers \ {w} : Holds(v, Head(queue).pair)
                 THEN shaken \cup {Head(queue).pair} ELSE shaken
    /\ UNCHANGED <<follows, asked, done, ever, last, told, requests, faults>> /\ UNCHANGED reading

\* SocialWorker.process; a duplicate row is no error.
Apply(w) ==
    /\ Busy(w) /\ w \notin done
    /\ Written(First(w))
    /\ done' = done \cup {w}
    /\ UNCHANGED <<asked, queue, buf, last, told, shaken, requests, faults>> /\ UNCHANGED reading

\* The first delivery leaves the worker.
Settled(w) ==
    /\ buf' = [buf EXCEPT ![w] = Tail(@)]
    /\ done' = done \ {w}

Ack(w) ==
    /\ w \in done
    /\ Settled(w)
    /\ UNCHANGED <<follows, asked, queue, ever, last, told, shaken, requests, faults>>
    /\ UNCHANGED reading

\* The statement returns an error, and may have taken effect.
StatementFails(w) ==
    /\ Busy(w) /\ w \notin done
    /\ Fault
    /\ Written(First(w)) \/ UNCHANGED <<follows, ever>>
    /\ Shakes(First(w))
    /\ UNCHANGED <<asked, last, requests>> /\ UNCHANGED reading

\* The event is published again, behind the others, unless this publish is lost,
\* and then acked.
Retry(w) ==
    /\ StatementFails(w)
    /\ Routed(First(w)) \/ UNCHANGED <<queue, told>>
    /\ done' = done \cup {w}
    /\ UNCHANGED buf

\* The event cannot be published again: Nack gives it back.
Requeue(w) ==
    /\ StatementFails(w)
    /\ queue' = <<First(w)>> \o queue
    /\ Settled(w)
    /\ UNCHANGED told

\* The last retry fails too.
DeadLetter(w) ==
    /\ StatementFails(w)
    /\ Settled(w)
    /\ UNCHANGED <<queue, told>>

\* The process, or its channel, is lost with what it has not acked.
Crash(w) ==
    /\ Busy(w)
    /\ Fault
    /\ queue' = buf[w] \o queue
    /\ buf' = [buf EXCEPT ![w] = <<>>]
    /\ done' = done \ {w}
    /\ UNCHANGED <<follows, asked, ever, last, told, shaken, requests>> /\ UNCHANGED reading

\* The notification worker fails on a follow and publishes it again, to every
\* queue of the exchange.
Echo(e) ==
    /\ e.action = "follow" /\ e.pair \in told
    /\ Fault
    /\ Routed(e)
    /\ Shakes(e)
    /\ UNCHANGED <<follows, asked, buf, done, ever, last, requests>> /\ UNCHANGED reading

Worker(w) ==
    \/ Deliver(w) \/ Apply(w) \/ Ack(w)
    \/ Retry(w) \/ Requeue(w) \/ DeadLetter(w) \/ Crash(w)

Asks == \E p \in Pairs, action \in {"follow", "unfollow"} : Check(p, action)
Sends == \E e \in Events : Publish(e) \/ PublishLost(e) \/ Fallback(e) \/ Echo(e)
Social == Asks \/ Sends \/ \E w \in SocialWorkers : Worker(w)

-----------------------------------------------------------------------------
(* FeedService.ListByFollowing.                                            *)

\* Mutant of Key: accounts share their pages.
BugKeyWithoutAccount(r) == <<CHOOSE x \in Accounts : TRUE, cursor[r]>>

Key(r) == <<viewer[r], cursor[r]>>

To(r, next) == stage' = [stage EXCEPT ![r] = next]

\* Only the stage changes.
Moves(r, from, next) ==
    /\ stage[r] = from
    /\ To(r, next)
    /\ UNCHANGED <<page, lock, viewer, cursor, got, shown, marks, steady>> /\ UNCHANGED social

\* The deferred Unlock, whose script compares the token.
Unlocked(r) == lock' = IF lock[Key(r)] = r THEN [lock EXCEPT ![Key(r)] = None] ELSE lock

\* A cached page is the answer.  A request that knows it has the lock gives it
\* back.
Hit(r, from) ==
    /\ stage[r] = from
    /\ page[Key(r)] # None
    /\ got' = [got EXCEPT ![r] = page[Key(r)]]
    /\ IF from = "recheck" THEN Unlocked(r) ELSE UNCHANGED lock
    /\ To(r, "answer")
    /\ UNCHANGED <<page, viewer, cursor, shown, marks, steady, faults>> /\ UNCHANGED social

Begin(r) == Moves(r, "ready", "get") /\ UNCHANGED faults

Get(r) == Hit(r, "get")
GetMiss(r) == page[Key(r)] = None /\ Moves(r, "get", "lock") /\ UNCHANGED faults

\* An error that is not a miss leads to MySQL.
GetFails(r) == Fault /\ Moves(r, "get", "db")

Lock(r) ==
    /\ stage[r] = "lock"
    /\ lock[Key(r)] = None
    /\ lock' = [lock EXCEPT ![Key(r)] = r]
    /\ To(r, "recheck")
    /\ UNCHANGED <<page, viewer, cursor, got, shown, marks, steady, faults>> /\ UNCHANGED social

LockTaken(r) == lock[Key(r)] # None /\ Moves(r, "lock", "poll") /\ UNCHANGED faults

\* The error of SET NX is dropped; it may have taken effect.
LockFails(r) ==
    /\ stage[r] = "lock"
    /\ Fault
    /\ lock' \in {lock, [lock EXCEPT ![Key(r)] = IF @ = None THEN r ELSE @]}
    /\ To(r, "poll")
    /\ UNCHANGED <<page, viewer, cursor, got, shown, marks, steady>> /\ UNCHANGED social

Recheck(r) == Hit(r, "recheck")
RecheckMiss(r) == page[Key(r)] = None /\ Moves(r, "recheck", "own") /\ UNCHANGED faults
RecheckFails(r) == Fault /\ Moves(r, "recheck", "own")

\* Five polls, 20 ms apart: one finds the page, or the last one does not.
Poll(r) == Hit(r, "poll")

PollsOver(r) == Moves(r, "poll", "db") /\ UNCHANGED faults

\* FeedRepo.ListByFollowing: author_id in the followed ones, create_time before
\* the cursor, the newest ones; SQL leaves the order of equal times open.
Visible(x) == {v \in Videos : <<x, Author[v]>> \in follows}

\* Mutant of Before: the second of the cursor is listed again.
BugInclusive(S, c) == IF c = 0 THEN S ELSE {v \in S : Time[v] <= c * Ticks}

Before(S, c) == IF c = 0 THEN S ELSE {v \in S : Time[v] < c * Ticks}
Newest(S) ==
    {T \in SUBSET S :
        /\ Cardinality(T) = IF Cardinality(S) < Limit THEN Cardinality(S) ELSE Limit
        /\ \A t \in T : \A u \in S \ T : Time[t] >= Time[u]}

Query(r, from, next) ==
    /\ stage[r] = from
    /\ \E T \in Newest(Before(Visible(viewer[r]), cursor[r])) :
          got' = [got EXCEPT ![r] = [list |-> T, visible |-> Visible(viewer[r])]]
    /\ To(r, next)
    /\ UNCHANGED <<page, lock, viewer, cursor, shown, marks, steady, faults>> /\ UNCHANGED social

OwnQuery(r) == Query(r, "own", "store")
DBQuery(r) == Query(r, "db", "write")

Stored(r) == page' = [page EXCEPT ![Key(r)] = got[r]]

\* SETEX under the lock shares the deadline of 50 ms with the commands before
\* the query: after a slow query the page is not stored.
Store(r) ==
    /\ stage[r] = "store"
    /\ Stored(r) \/ UNCHANGED page
    /\ Unlocked(r)
    /\ To(r, "answer")
    /\ UNCHANGED <<viewer, cursor, got, shown, marks, steady, faults>> /\ UNCHANGED social

\* SETEX without the lock has 50 ms of its own.
Write(r) ==
    /\ stage[r] = "write"
    /\ Stored(r)
    /\ To(r, "answer")
    /\ UNCHANGED <<lock, viewer, cursor, got, shown, marks, steady, faults>> /\ UNCHANGED social

WriteFails(r) == Fault /\ Moves(r, "write", "answer")

\* The query, or that for the likes of the page, fails.
QueryFails(r) ==
    /\ stage[r] \in {"own", "db"}
    /\ Fault
    /\ IF stage[r] = "own" THEN Unlocked(r) ELSE UNCHANGED lock
    /\ To(r, "error")
    /\ UNCHANGED <<page, viewer, cursor, got, shown, marks, steady>> /\ UNCHANGED social

HasMore(r) == Cardinality(got[r].list) = Limit

Oldest(S) == CHOOSE t \in {Time[v] : v \in S} : \A v \in S : t <= Time[v]

\* next_time: CreateTime.Unix() of the last video.
NextTime(r) == Sec(Oldest(got[r].list))

Answer(r) ==
    /\ stage[r] = "answer"
    /\ shown' = [shown EXCEPT ![r] = [v \in Videos |-> @[v] + IF v \in got[r].list THEN 1 ELSE 0]]
    /\ steady' = [steady EXCEPT ![r] = @ \cap got[r].visible]
    /\ got' = [got EXCEPT ![r] = Nothing]
    /\ IF HasMore(r)
       THEN /\ cursor' = [cursor EXCEPT ![r] = NextTime(r)]
            /\ marks' = [marks EXCEPT ![r] = @ \cup {NextTime(r)}]
            /\ To(r, "ready")
       ELSE To(r, "end") /\ UNCHANGED <<cursor, marks>>
    /\ UNCHANGED <<page, lock, viewer, faults>> /\ UNCHANGED social

LockExpires(k) ==
    /\ lock[k] # None
    /\ lock' = [lock EXCEPT ![k] = None]
    /\ UNCHANGED <<page, viewer, stage, cursor, got, shown, marks, steady, faults>> /\ UNCHANGED social

PageExpires(k) ==
    /\ page[k] # None
    /\ page' = [page EXCEPT ![k] = None]
    /\ UNCHANGED <<lock, viewer, stage, cursor, got, shown, marks, steady, faults>> /\ UNCHANGED social

Request(r) ==
    \/ Get(r) \/ GetMiss(r) \/ Lock(r) \/ LockTaken(r) \/ Recheck(r) \/ RecheckMiss(r)
    \/ Poll(r) \/ PollsOver(r) \/ OwnQuery(r) \/ DBQuery(r) \/ Store(r) \/ Write(r) \/ Answer(r)

RequestFails(r) ==
    GetFails(r) \/ LockFails(r) \/ RecheckFails(r) \/ WriteFails(r) \/ QueryFails(r)

Clients ==
    \/ \E r \in Reads : Begin(r) \/ Request(r) \/ RequestFails(r)
    \/ \E k \in Keys : LockExpires(k) \/ PageExpires(k)

Next == Social \/ Clients

Spec == Init /\ [][Next]_vars

-----------------------------------------------------------------------------
(* Properties.                                                             *)

\* Events s that are still to be applied will make a of pair p: the last one
\* for p says so, or the table when there is none.
Pending(w) == IF w \in done THEN Tail(buf[w]) ELSE buf[w]
Decides(p, s, a) ==
    \/ \E i \in DOMAIN s :
          /\ s[i] = [pair |-> p, action |-> a]
          /\ \A j \in DOMAIN s : j > i => s[j].pair # p
    \/ /\ \A i \in DOMAIN s : s[i].pair # p
       /\ (p \in follows) = (a = "follow")

\* The last request that the API accepted decides whether the account follows
\* the author, although requests look at a table that lags behind the queue,
\* workers prefetch, and one that dies gives back events whose statement has
\* run.  It may be otherwise only for a pair whose events were at two workers
\* at a time, or of which one was published again by either consumer, lost on
\* its way, dead-lettered, or overtaken by the fallback: a pair without any of
\* this has its events at one worker, and what this worker and the queue still
\* hold makes of the row what the last request asked for.
LastRequestWins ==
    \A p \in Pairs \ shaken : \E w \in SocialWorkers :
        /\ \A v \in SocialWorkers \ {w} : ~Holds(v, p)
        /\ Decides(p, Pending(w) \o queue, last[p])

\* What an account is shown, from the cache too, is by authors whom this
\* account has followed.
OnlyFollowed ==
    \A r \in Reads : \A v \in got[r].list : <<viewer[r], Author[v]>> \in ever

\* No read shows a video twice, and one that has come to the end has shown
\* every video that all its queries could see, but for those of the second in
\* which a page ended: cursors in seconds and pages cached at different times
\* neither overlap nor leave more out.
ScanExact ==
    \A r \in Reads : \A v \in Videos :
        /\ shown[r][v] <= 1
        /\ stage[r] = "end" /\ v \in steady[r] => shown[r][v] = 1 \/ Sec(Time[v]) \in marks[r]

=============================================================================
