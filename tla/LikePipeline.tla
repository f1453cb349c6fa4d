---------------------------- MODULE LikePipeline ----------------------------
(***************************************************************************)
(* Likes of one video, from the HTTP request to the rows of MySQL:         *)
(* LikeService checks the likes table and enqueues an event (or, when      *)
(* RabbitMQ refuses it, writes the tables itself in one transaction);      *)
(* LikeWorker applies the events statement by statement, without a         *)
(* transaction; a failed event is published again to the exchange, and so  *)
(* does the notification consumer that shares the exchange.                *)
(*                                                                         *)
(* Queues are FIFO here: what a user gets depends on the order in which    *)
(* likes and unlikes are applied.  Videos are never deleted, so IsExist    *)
(* holds throughout.  The retry protocol itself is module EventRetry: here *)
(* a republish and the ack that follows it are one step.                   *)
(***************************************************************************)
EXTENDS Integers, Sequences, FiniteSets

CONSTANTS
    Users,
    Requests,       \* bound: HTTP requests to LikeService
    LikeWorkers,    \* worker processes, each with one LikeWorker
    MaxRetryCount,  \* rabbitmq.MaxRetryCount
    Prefetch,       \* WorkerPrefetchCount of cmd/worker
    MaxFallbacks,   \* bound: publishes that RabbitMQ refuses, and that it loses
    MaxFailures,    \* bound: statements that fail in a LikeWorker
    MaxNotifyFailures, \* bound: events that fail in the notification consumer
    MaxCrashes      \* bound: worker processes that die

ASSUME LikeConstants ==
    /\ IsFiniteSet(Users) /\ IsFiniteSet(LikeWorkers)
    /\ MaxRetryCount \in Nat /\ Prefetch \in Nat \ {0}
    /\ MaxFallbacks \in Nat /\ MaxCrashes \in Nat
    /\ MaxFailures \in Nat /\ MaxNotifyFailures \in Nat

VARIABLES
    liked,      \* likes: users with a row for the video
    counter,    \* videos.likes_count and videos.popularity
    open,       \* requests still to come
    checked,    \* requests past the check, with what they ask for
    queue,      \* like.events
    notify,     \* notification.like
    buf,        \* deliveries prefetched by each worker; the first is handled
    stage,      \* the statement each worker runs next
    pool,       \* worker processes that are deployed
    last,       \* history: last action of each user that the API accepted
    partial,    \* history: events abandoned between two statements
    clamps,     \* history: decrements of a counter that was already 0
    bad         \* history: fallbacks, lost publishes, failures and crashes so far

vars == <<liked, counter, open, checked, queue, notify, buf, stage, pool, last, partial, clamps, bad>>

Actions == {"like", "unlike"}
Mishaps == {"fallback", "lost", "failure", "notify", "crash"}
Counters == {"likes_count", "popularity"}
Message == [user : Users, action : Actions, retry : 0 .. MaxRetryCount]
Checked == [request : Requests, user : Users, action : Actions]

TypeOK ==
    /\ liked \subseteq Users
    /\ counter \in [Counters -> Nat]
    /\ open \subseteq Requests /\ checked \subseteq Checked
    /\ queue \in Seq(Message) /\ notify \in Seq(Message)
    /\ buf \in [LikeWorkers -> Seq(Message)]
    /\ stage \in [LikeWorkers -> {"row", "ack"} \cup Counters]
    /\ pool \in (SUBSET LikeWorkers) \ {{}}
    /\ last \in [Users -> Actions]
    /\ partial \in Nat /\ clamps \in Nat
    /\ bad \in [Mishaps -> Nat]

Init ==
    /\ liked = {}
    /\ counter = [x \in Counters |-> 0]
    /\ open = Requests /\ checked = {}
    /\ queue = <<>> /\ notify = <<>>
    /\ buf = [w \in LikeWorkers |-> <<>>]
    /\ stage = [w \in LikeWorkers |-> "row"]
    /\ pool \in (SUBSET LikeWorkers) \ {{}}
    /\ last = [u \in Users |-> "unlike"]
    /\ partial = 0 /\ clamps = 0
    /\ bad = [b \in Mishaps |-> 0]

-----------------------------------------------------------------------------
(* The tables.                                                             *)

Delta(action) == IF action = "like" THEN 1 ELSE -1

\* GREATEST(likes_count + ?, 0); the fallback's WHERE likes_count > 0 has the
\* same effect.
Greatest(n) == IF n < 0 THEN 0 ELSE n

\* The statement would change a row: no duplicate, or RowsAffected > 0.
Effective(m) == (m.action = "like") # (m.user \in liked)

\* Mutant of RowsAfter: the row is toggled.
BugToggle(m) == IF m.user \in liked THEN liked \ {m.user} ELSE liked \cup {m.user}

RowsAfter(m) == IF m.action = "like" THEN liked \cup {m.user} ELSE liked \ {m.user}

Clamped(x, action) == IF counter[x] + Delta(action) < 0 THEN 1 ELSE 0

Bad(kind, max) == bad[kind] < max /\ bad' = [bad EXCEPT ![kind] = @ + 1]

-----------------------------------------------------------------------------
(* LikeService.Like and Unlike.                                            *)

\* The check of IsLiked, on its own: the event is published later.  A request
\* that fails the check returns an error and changes nothing.
Check(r, u, a) ==
    /\ r \in open
    /\ (a = "like") # (u \in liked)
    /\ open' = open \ {r}
    /\ checked' = checked \cup {[request |-> r, user |-> u, action |-> a]}
    /\ UNCHANGED <<liked, counter, queue, notify, buf, stage, last, partial, clamps, bad, pool>>

\* Where the exchange routes an event: like.* and like.like.
Routed(m) ==
    /\ queue' = Append(queue, m)
    /\ notify' = IF m.action = "like" THEN Append(notify, m) ELSE notify

Enqueue(p) ==
    /\ checked' = checked \ {p}
    /\ Routed([user |-> p.user, action |-> p.action, retry |-> 0])
    /\ last' = [last EXCEPT ![p.user] = p.action]
    /\ UNCHANGED <<liked, counter, open, buf, stage, partial, clamps, bad, pool>>

\* The publish returns nil for an event that a dying connection does not
\* deliver: there are no publisher confirms.
EnqueueLost(p) ==
    /\ checked' = checked \ {p}
    /\ Bad("lost", MaxFallbacks)
    /\ last' = [last EXCEPT ![p.user] = p.action]
    /\ UNCHANGED <<liked, counter, open, queue, notify, buf, stage, partial, clamps, pool>>

\* The publish fails: row and counters in one transaction, or an error if the
\* row is (or is not) there already.
Fallback(p) ==
    /\ checked' = checked \ {p}
    /\ Bad("fallback", MaxFallbacks)
    /\ \/ /\ Effective(p)
          /\ liked' = RowsAfter(p)
          /\ counter' = [x \in Counters |-> Greatest(counter[x] + Delta(p.action))]
          /\ clamps' = clamps + Clamped("likes_count", p.action) + Clamped("popularity", p.action)
          /\ last' = [last EXCEPT ![p.user] = p.action]
       \/ /\ ~Effective(p)
          /\ UNCHANGED <<liked, counter, clamps, last>>
    /\ UNCHANGED <<open, queue, notify, buf, stage, partial, pool>>

-----------------------------------------------------------------------------
(* LikeWorker.                                                             *)

Deliver(w) ==
    /\ queue # <<>>
    /\ Len(buf[w]) < Prefetch
    /\ buf' = [buf EXCEPT ![w] = Append(@, Head(queue))]
    /\ queue' = Tail(queue)
    /\ UNCHANGED <<liked, counter, open, checked, notify, stage, last, partial, clamps, bad, pool>>

Busy(w) == buf[w] # <<>>

\* Mutant of AfterRow: the result of the insert or delete is not looked at.
BugCountDuplicates(m) == "likes_count"

\* A duplicate insert, or a delete that finds no row, ends the event.
AfterRow(m) == IF Effective(m) THEN "likes_count" ELSE "ack"

\* LikeIgnoreDuplicate or DeleteByVideoAndAccount.
ApplyRow(w) ==
    /\ Busy(w) /\ stage[w] = "row"
    /\ liked' = RowsAfter(Head(buf[w]))
    /\ stage' = [stage EXCEPT ![w] = AfterRow(Head(buf[w]))]
    /\ UNCHANGED <<counter, open, checked, queue, notify, buf, last, partial, clamps, bad, pool>>

\* ChangeLikesCount, then ChangePopularity.
ChangeCounter(w, x) ==
    /\ Busy(w) /\ stage[w] = x
    /\ counter' = [counter EXCEPT ![x] = Greatest(@ + Delta(Head(buf[w]).action))]
    /\ clamps' = clamps + Clamped(x, Head(buf[w]).action)
    /\ stage' = [stage EXCEPT ![w] = IF x = "likes_count" THEN "popularity" ELSE "ack"]
    /\ UNCHANGED <<liked, open, checked, queue, notify, buf, last, partial, bad, pool>>

\* The first delivery is finished with.
NextDelivery(w) ==
    /\ buf' = [buf EXCEPT ![w] = Tail(@)]
    /\ stage' = [stage EXCEPT ![w] = "row"]

Ack(w) ==
    /\ Busy(w) /\ stage[w] = "ack"
    /\ NextDelivery(w)
    /\ UNCHANGED <<liked, counter, open, checked, queue, notify, last, partial, clamps, bad, pool>>

\* Retried with a higher count while the limit allows it, dead-lettered after.
RetryOrDrop(m) ==
    IF m.retry < MaxRetryCount THEN Routed([m EXCEPT !.retry = @ + 1])
                               ELSE UNCHANGED <<queue, notify>>

\* A statement of the event fails.  Past the first one, the retried event will
\* find its row changed and stop there.
StatementFails(w) ==
    /\ Busy(w) /\ stage[w] # "ack"
    /\ Bad("failure", MaxFailures)
    /\ RetryOrDrop(Head(buf[w]))
    /\ partial' = partial + (IF stage[w] \in Counters THEN 1 ELSE 0)
    /\ NextDelivery(w)
    /\ UNCHANGED <<liked, counter, open, checked, last, clamps, pool>>

\* Unacked deliveries go back in front of the queue.
Returned(w) == buf[w] \o queue

Crash(w) ==
    /\ Busy(w)
    /\ Bad("crash", MaxCrashes)
    /\ queue' = Returned(w)
    /\ buf' = [buf EXCEPT ![w] = <<>>]
    /\ partial' = partial + (IF stage[w] \in Counters THEN 1 ELSE 0)
    /\ stage' = [stage EXCEPT ![w] = "row"]
    /\ UNCHANGED <<liked, counter, open, checked, notify, last, clamps, pool>>

-----------------------------------------------------------------------------
(* The notification consumer, as far as the exchange sees it.              *)

NotifyOK ==
    /\ notify # <<>>
    /\ notify' = Tail(notify)
    /\ UNCHANGED <<liked, counter, open, checked, queue, buf, stage, last, partial, clamps, bad, pool>>

\* Its republish goes to the exchange, and so to LikeWorker's queue as well.
NotifyFails ==
    /\ notify # <<>>
    /\ Bad("notify", MaxNotifyFailures)
    /\ LET m == Head(notify) IN
       IF m.retry < MaxRetryCount
       THEN /\ notify' = Append(Tail(notify), [m EXCEPT !.retry = @ + 1])
            /\ queue' = Append(queue, [m EXCEPT !.retry = @ + 1])
       ELSE notify' = Tail(notify) /\ UNCHANGED queue
    /\ UNCHANGED <<liked, counter, open, checked, buf, stage, last, partial, clamps, pool>>

-----------------------------------------------------------------------------

Api ==
    \/ \E r \in open, u \in Users, a \in Actions : Check(r, u, a)
    \/ \E p \in checked : Enqueue(p) \/ EnqueueLost(p) \/ Fallback(p)

Worker(w) ==
    \/ Deliver(w) \/ ApplyRow(w) \/ Ack(w)
    \/ \E x \in Counters : ChangeCounter(w, x)

Next ==
    \/ Api
    \/ \E w \in pool : Worker(w) \/ StatementFails(w) \/ Crash(w)
    \/ NotifyOK \/ NotifyFails

Spec == Init /\ [][Next]_vars

-----------------------------------------------------------------------------
(* Properties.                                                             *)

\* Changes of counter x that are still to come for a row already changed.
Due(x) == IF x = "likes_count" THEN {"likes_count"} ELSE Counters
Owed(x, a) ==
    Cardinality({w \in LikeWorkers : Busy(w) /\ stage[w] \in Due(x) /\ Head(buf[w]).action = a})
Expected(x) == Cardinality(liked) - Owed(x, "like") + Owed(x, "unlike")

\* Each counter stays within one of the likes table for each event that was
\* abandoned between two statements and each decrement that GREATEST clamped:
\* duplicates, redeliveries, retries and the fallback never move it further.
\* Without those two it is exact.
DriftBounded ==
    \A x \in Counters :
        /\ counter[x] - Expected(x) <= partial + clamps
        /\ Expected(x) - counter[x] <= partial + clamps

Never(kinds) == \A k \in kinds : bad[k] = 0
SoleWriter == Cardinality(pool) = 1 /\ Never({"fallback"})

\* With one LikeWorker and no fallback GREATEST never clamps unless an event
\* was abandoned half-way: no decrement overtakes its increment, not even that
\* of a like which the notification consumer published again.
SoleWriterNeverClamps == SoleWriter /\ partial = 0 => clamps = 0

\* Events s that are still to be applied will make a of user u: the last one of
\* u says so, or the table when there is none.
Unapplied(w) == IF stage[w] = "row" THEN buf[w] ELSE Tail(buf[w])
Decides(u, s, a) ==
    \/ \E i \in DOMAIN s :
          /\ s[i].user = u /\ s[i].action = a
          /\ \A j \in DOMAIN s : j > i => s[j].user # u
    \/ /\ \A i \in DOMAIN s : s[i].user # u
       /\ (u \in liked) = (a = "like")

\* With one LikeWorker, no fallback, no lost publish and nothing published again,
\* the last action of a user that the API accepted is what the tables end up with,
\* whenever the worker crashes and whatever is delivered again.
LastRequestWins ==
    SoleWriter /\ Never({"lost", "failure", "notify"}) =>
        \A w \in pool : \A u \in Users : Decides(u, Unapplied(w) \o queue, last[u])

=============================================================================
