-------------------------------- MODULE Feed --------------------------------
(***************************************************************************)
(* The latest-videos feed: the global timeline in Redis, the TimelineWorker *)
(* that adds to it and trims it, and FeedService.ListLatest, which joins   *)
(* pages of the timeline with pages of MySQL and rebuilds an empty         *)
(* timeline.                                                               *)
(*                                                                         *)
(* A scan is a client that follows next_time from page to page.  Videos    *)
(* are never changed or deleted, so a page is given by its set of videos:  *)
(* their order is that of create_time, and SQL leaves the order of equal   *)
(* times open.  The score of a member is the create_time of its video (the *)
(* outbox row copies it).  Outbox and EventRetry deliver the event of a    *)
(* committed video at least once or give it up.                            *)
(***************************************************************************)
EXTENDS Integers, FiniteSets

CONSTANTS
    Videos,
    Time,       \* Time[v]: create_time of v in milliseconds, at least 1
    Scans,      \* clients, each reading the feed once from the top
    Limit,      \* limit of their requests
    Hot,        \* length of the timeline, 1000
    Workers,    \* TimelineWorkers
    None,       \* no video
    MaxFaults   \* bound: everything that goes wrong

ASSUME FeedConstants ==
    /\ IsFiniteSet(Videos)
    /\ Time \in [Videos -> Nat \ {0}]
    /\ Limit \in Nat \ {0} /\ Hot \in Nat \ {0}
    /\ MaxFaults \in Nat
    /\ None \notin Videos

VARIABLES
    rows,     \* committed videos
    pending,  \* videos with a timeline event on its way (copies are one)
    zset,     \* members of feed:global_timeline
    hand,     \* hand[w]: the video that worker w has added; it has yet to trim
    redis,    \* redis[s]: the process that serves s is connected to Redis
    stage,    \* stage[s]: the next call of the request of s
    cursor,   \* cursor[s]: latest_time of its request, 0 for none
    hot,      \* hot[s]: videos of this page read from the timeline
    cold,     \* cold[s]: videos of this page, or to rebuild from, from MySQL
    known,    \* history: known[s]: rows committed when its request began, and
              \* when the query that it shares was run
    unread,   \* history: unread[s]: known rows this page had to miss
    shown,    \* history: shown[s][v]: how often the scan has shown v
    adrift,   \* history: rows that a flush took from the timeline, or whose
              \* event was given up
    faults    \* history: faults so far

tvars == <<rows, pending, zset, hand, adrift>>
svars == <<stage, cursor, hot, cold, known, unread, shown>>
vars == <<rows, pending, zset, hand, redis, stage, cursor, hot, cold,
          known, unread, shown, adrift, faults>>

Stages == {"ready", "tail", "rebuild", "readd", "range", "load", "stitch", "cold", "answer", "end", "error"}

TypeOK ==
    /\ rows \subseteq Videos /\ pending \subseteq rows /\ zset \subseteq rows
    /\ hand \in [Workers -> Videos \cup {None}]
    /\ redis \in [Scans -> BOOLEAN]
    /\ stage \in [Scans -> Stages]
    /\ cursor \in [Scans -> Nat]
    /\ hot \in [Scans -> SUBSET rows] /\ cold \in [Scans -> SUBSET rows]
    /\ known \in [Scans -> SUBSET rows] /\ unread \in [Scans -> SUBSET rows]
    /\ shown \in [Scans -> [Videos -> Nat]]
    /\ adrift \subseteq rows /\ faults \in 0 .. MaxFaults

Init ==
    /\ rows = {} /\ pending = {} /\ zset = {}
    /\ hand = [w \in Workers |-> None]
    /\ redis \in [Scans -> BOOLEAN]
    /\ stage = [s \in Scans |-> "ready"]
    /\ cursor = [s \in Scans |-> 0]
    /\ hot = [s \in Scans |-> {}] /\ cold = [s \in Scans |-> {}]
    /\ known = [s \in Scans |-> {}] /\ unread = [s \in Scans |-> {}]
    /\ shown = [s \in Scans |-> [v \in Videos |-> 0]]
    /\ adrift = {} /\ faults = 0

-----------------------------------------------------------------------------
(* Queries.                                                                *)

\* ORDER BY create_time DESC LIMIT n on S, in any order of equal times; and
\* likewise the n members of S with the highest scores.
Newest(S, n) ==
    {T \in SUBSET S :
        /\ Cardinality(T) = IF Cardinality(S) < n THEN Cardinality(S) ELSE n
        /\ \A t \in T : \A u \in S \ T : Time[t] >= Time[u]}

\* Mutant of Before: the row at the cursor is listed again.
BugInclusive(S, t) == IF t = 0 THEN S ELSE {v \in S : Time[v] <= t}

\* WHERE create_time < t, without the condition for the zero time; the score
\* range -inf .. t-1 selects the same members.
Before(S, t) == IF t = 0 THEN S ELSE {v \in S : Time[v] < t}

\* create_time of the last video of a page.
Bottom(S) == IF S = {} THEN 0 ELSE CHOOSE t \in {Time[v] : v \in S} : \A v \in S : t <= Time[v]

Fault == faults < MaxFaults /\ faults' = faults + 1

-----------------------------------------------------------------------------
(* Videos and their events (modules Outbox and EventRetry).                *)

Commit(v) ==
    /\ v \notin rows
    /\ rows' = rows \cup {v}
    /\ pending' = pending \cup {v}
    /\ UNCHANGED <<zset, hand, adrift, redis, faults>> /\ UNCHANGED svars

\* The outbox publishes again what it could not mark as published.
PublishAgain(v) ==
    /\ v \in rows \ pending
    /\ Fault
    /\ pending' = pending \cup {v}
    /\ UNCHANGED <<rows, zset, hand, adrift, redis>> /\ UNCHANGED svars

\* The outbox row ends as failed, or the event as a dead letter.
GiveUp(v) ==
    /\ v \in pending
    /\ Fault
    /\ pending' = pending \ {v}
    /\ adrift' = IF v \in zset THEN adrift ELSE adrift \cup {v}
    /\ UNCHANGED <<rows, zset, hand, redis>> /\ UNCHANGED svars

\* Redis restarts without its data.
Flush ==
    /\ zset # {}
    /\ Fault
    /\ zset' = {}
    /\ adrift' = rows
    /\ UNCHANGED <<rows, pending, hand, redis>> /\ UNCHANGED svars

-----------------------------------------------------------------------------
(* TimelineWorker.process.                                                 *)

\* The event is taken from the queue, and ZADD.
Add(w, v) ==
    /\ hand[w] = None /\ v \in pending
    /\ pending' = pending \ {v}
    /\ hand' = [hand EXCEPT ![w] = v]
    /\ zset' = zset \cup {v}
    /\ adrift' = adrift \ {v}
    /\ UNCHANGED <<rows, redis, faults>> /\ UNCHANGED svars

Done(w) == hand' = [hand EXCEPT ![w] = None]

\* Mutant of Trimmed: the rank range 0 .. -Hot.
BugTrimsOneMore == Newest(zset, Hot - 1)

\* ZREMRANGEBYRANK 0 .. -(Hot+1).
Trimmed == Newest(zset, Hot)

Trim(w) ==
    /\ hand[w] # None
    /\ zset' \in Trimmed
    /\ Done(w)
    /\ UNCHANGED <<rows, pending, adrift, redis, faults>> /\ UNCHANGED svars

\* A failed trim is only logged.
TrimFails(w) ==
    /\ hand[w] # None
    /\ Fault
    /\ Done(w)
    /\ UNCHANGED <<rows, pending, zset, adrift, redis>> /\ UNCHANGED svars

\* ZADD took effect and its answer was lost, or the worker is cut off before
\* its ack: the event comes back.
Return(w) ==
    /\ hand[w] # None
    /\ Fault
    /\ pending' = pending \cup {hand[w]}
    /\ Done(w)
    /\ UNCHANGED <<rows, zset, adrift, redis>> /\ UNCHANGED svars

-----------------------------------------------------------------------------
(* One request to ListLatest.                                              *)

To(s, next) == stage' = [stage EXCEPT ![s] = next]

\* The variables of a request end with it.
Over(s) ==
    /\ hot' = [hot EXCEPT ![s] = {}] /\ cold' = [cold EXCEPT ![s] = {}]
    /\ known' = [known EXCEPT ![s] = {}] /\ unread' = [unread EXCEPT ![s] = {}]

Begin(s) ==
    /\ stage[s] = "ready"
    /\ known' = [known EXCEPT ![s] = rows]
    /\ To(s, IF redis[s] THEN "tail" ELSE "cold")
    /\ UNCHANGED <<cursor, hot, cold, unread, shown, redis, faults>> /\ UNCHANGED tvars

\* Where the oldest member of the timeline, the watermark, sends a request.
\* Without a cursor it is compared with the clock, which can still stand at
\* the time of the newest video.
Area(s) ==
    IF cursor[s] # 0 THEN IF cursor[s] <= Bottom(zset) THEN {"cold"} ELSE {"range"}
    ELSE {"range"} \cup {a \in {"cold"} : \A v \in rows : Time[v] <= Bottom(zset)}

ReadTail(s) ==
    /\ stage[s] = "tail"
    /\ \E next \in IF zset = {} THEN {"rebuild"} ELSE Area(s) : To(s, next)
    /\ UNCHANGED <<cursor, hot, cold, known, unread, shown, redis, faults>> /\ UNCHANGED tvars

ColdCursor(s) == IF hot[s] = {} THEN cursor[s] ELSE Bottom(hot[s])

\* singleflight: a request that joins a flight takes the answer that MySQL
\* gave to an earlier one, perhaps before this one began.
Seen(s) == IF redis[s] THEN SUBSET rows ELSE {rows}
Sees(s, seen) == known' = [known EXCEPT ![s] = @ \cap seen]

\* The flight sf:fallback:global_timeline_rebuild: the newest rows of MySQL,
\* or EMPTY_DB.
RebuildQuery(s) ==
    /\ stage[s] = "rebuild"
    /\ \E seen \in Seen(s) :
          /\ cold' \in {[cold EXCEPT ![s] = T] : T \in Newest(seen, Hot)}
          /\ To(s, IF seen = {} THEN "answer" ELSE "readd")
          /\ IF seen = {} THEN Sees(s, seen) ELSE UNCHANGED known
    /\ UNCHANGED <<cursor, hot, unread, shown, redis, faults>> /\ UNCHANGED tvars

\* Mutant of RebuildAdd: the rows are not written.
BugNotWritten(s) ==
    /\ stage[s] = "readd"
    /\ cold' = [cold EXCEPT ![s] = {}]
    /\ To(s, "tail")
    /\ UNCHANGED <<cursor, hot, known, unread, shown, redis, faults>> /\ UNCHANGED tvars

\* ZADD of the rows read, without a trim; then ListLatest calls itself.  The
\* rows that this listing leaves out are older than all of it.
RebuildAdd(s) ==
    /\ stage[s] = "readd"
    /\ zset' = zset \cup cold[s]
    /\ adrift' = {v \in adrift \ cold[s] :
                    \/ Cardinality(cold[s]) < Hot
                    \/ \E u \in cold[s] : Time[u] < Time[v]}
    /\ cold' = [cold EXCEPT ![s] = {}]
    /\ To(s, "tail")
    /\ UNCHANGED <<rows, pending, hand, cursor, hot, known, unread, shown, redis, faults>>

\* The error of that ZADD is dropped.
RebuildAddFails(s) ==
    /\ stage[s] = "readd"
    /\ Fault
    /\ cold' = [cold EXCEPT ![s] = {}]
    /\ To(s, "tail")
    /\ UNCHANGED <<cursor, hot, known, unread, shown, redis>> /\ UNCHANGED tvars

\* Rows that the timeline does not hold, or that can be missing although it
\* holds older ones: a worker or a rebuild that has added and not trimmed
\* leaves more than Hot members, the oldest of them with gaps above.
Missing ==
    {v \in rows \ zset : v \in pending \cup adrift \/ Cardinality(zset) > Hot}

\* ZREVRANGEBYSCORE.  Missing rows newer than the last member read are not
\* read by the continuation from MySQL either.
ReadRange(s) ==
    /\ stage[s] = "range"
    /\ \E T \in Newest(Before(zset, cursor[s]), Limit) :
          /\ hot' = [hot EXCEPT ![s] = T]
          /\ unread' = [unread EXCEPT ![s] =
                {v \in known[s] \cap Missing : T # {} /\ Time[v] > Bottom(T)}]
    /\ To(s, "load")
    /\ UNCHANGED <<cursor, cold, known, shown, redis, faults>> /\ UNCHANGED tvars

\* GetVideosByIDs: local cache, Redis, MySQL.  A page that is not full is
\* continued from MySQL.
Loaded(s, found) ==
    /\ stage[s] = "load"
    /\ hot' = [hot EXCEPT ![s] = found]
    /\ unread' = [unread EXCEPT ![s] =
            {v \in @ \cup (hot[s] \ found) : found # {} /\ Time[v] > Bottom(found)}]
    /\ To(s, IF Cardinality(found) < Limit THEN "stitch" ELSE "answer")
    /\ UNCHANGED <<cursor, cold, known, shown, redis>> /\ UNCHANGED tvars

Load(s) == Loaded(s, hot[s]) /\ UNCHANGED faults

\* Ids in no cache whose query fails are left out of the result.
LoadSome(s) == \E found \in (SUBSET hot[s]) \ {hot[s]} : Loaded(s, found) /\ Fault

\* The flight sf:stitch:listLatest.
Stitch(s) ==
    /\ stage[s] = "stitch"
    /\ \E seen \in Seen(s) :
          /\ cold' \in {[cold EXCEPT ![s] = T] :
                          T \in Newest(Before(seen, ColdCursor(s)), Limit - Cardinality(hot[s]))}
          /\ Sees(s, seen)
    /\ To(s, "answer")
    /\ UNCHANGED <<cursor, hot, unread, shown, redis, faults>> /\ UNCHANGED tvars

\* Its error is dropped: the page stays short.
StitchFails(s) ==
    /\ stage[s] = "stitch"
    /\ Fault
    /\ unread' = [unread EXCEPT ![s] = @ \cup Before(known[s], ColdCursor(s))]
    /\ To(s, "answer")
    /\ UNCHANGED <<cursor, hot, cold, known, shown, redis>> /\ UNCHANGED tvars

\* The flight sf:cold:listLatest, or a process without Redis.
Cold(s) ==
    /\ stage[s] = "cold"
    /\ \E seen \in Seen(s) :
          /\ cold' \in {[cold EXCEPT ![s] = T] : T \in Newest(Before(seen, cursor[s]), Limit)}
          /\ Sees(s, seen)
    /\ To(s, "answer")
    /\ UNCHANGED <<cursor, hot, unread, shown, redis, faults>> /\ UNCHANGED tvars

\* An error of Redis or MySQL that ListLatest returns; the last one is that of
\* the query for the likes of the page.
Error(s) ==
    /\ stage[s] \in {"tail", "rebuild", "range", "cold", "answer"}
    /\ Fault
    /\ To(s, "error")
    /\ Over(s)
    /\ UNCHANGED <<cursor, shown, redis>> /\ UNCHANGED tvars

Page(s) == hot[s] \cup cold[s]

\* Mutant of HasMore: what MySQL added to the page is not counted.
BugBeforeStitch(s) == Cardinality(hot[s]) = Limit

HasMore(s) == Cardinality(hot[s]) + Cardinality(cold[s]) = Limit

\* The answer: next_time is the time of the last video, has_more whether the
\* page is full; the client asks for the next page or stops.
Answer(s) ==
    /\ stage[s] = "answer"
    /\ shown' = [shown EXCEPT ![s] = [v \in Videos |->
                    @[v] + (IF v \in hot[s] THEN 1 ELSE 0) + (IF v \in cold[s] THEN 1 ELSE 0)]]
    /\ cursor' = [cursor EXCEPT ![s] = IF HasMore(s) THEN Bottom(Page(s)) ELSE @]
    /\ To(s, IF HasMore(s) THEN "ready" ELSE "end")
    /\ Over(s)
    /\ UNCHANGED <<redis, faults>> /\ UNCHANGED tvars

Request(s) ==
    \/ ReadTail(s) \/ RebuildQuery(s) \/ RebuildAdd(s) \/ ReadRange(s)
    \/ Load(s) \/ Stitch(s) \/ Cold(s) \/ Answer(s)

Next ==
    \/ \E v \in Videos : Commit(v) \/ PublishAgain(v) \/ GiveUp(v)
    \/ Flush
    \/ \E w \in Workers :
          \/ \E v \in Videos : Add(w, v)
          \/ Trim(w) \/ TrimFails(w) \/ Return(w)
    \/ \E s \in Scans :
          \/ Begin(s) \/ Request(s)
          \/ RebuildAddFails(s) \/ LoadSome(s) \/ StitchFails(s) \/ Error(s)

Spec == Init /\ [][Next]_vars

\* A handler runs to its end; whether clients ask for more, and whether the
\* workers run, is left open.
FairSpec == Spec /\ \A s \in Scans : WF_vars(Request(s))

-----------------------------------------------------------------------------
(* Properties.                                                             *)

\* The timeline holds the newest Hot videos: a committed video that is not in
\* it waits for its event, or was flushed out or given up and not rebuilt
\* since, or Hot videos at least as new are in it.  Late and repeated events,
\* trims between the commands of others and rebuilds from older reads do not
\* push a newer video out for an older one.
NewestListed ==
    \A v \in rows \ (zset \cup pending \cup adrift) :
        Cardinality({u \in zset : Time[u] >= Time[v]}) >= Hot

\* A page leaves out a video that was committed when the request began and
\* its queries ran, and that is before its cursor, only if a later page can have it, if it could
\* not be read (see unread), or if it has the time of the last video of the
\* page or of its hot part.  In particular has_more = false means that all
\* has been shown, but for these.
PageComplete ==
    \A s \in Scans : stage[s] = "answer" =>
        \A v \in Before(known[s], cursor[s]) \ Page(s) :
            \/ HasMore(s) /\ Time[v] < Bottom(Page(s))
            \/ v \in unread[s]
            \/ Time[v] \in {Bottom(Page(s)), Bottom(hot[s])}

\* No scan shows a video twice, although its pages come from two stores that
\* change under it.
ShownOnce == \A s \in Scans : \A v \in Videos : shown[s][v] <= 1

\* Every request is answered: the rebuild does not call ListLatest for ever.
Answered == \A s \in Scans :
    stage[s] = "tail" ~> stage[s] \in {"answer", "error"}

=============================================================================
