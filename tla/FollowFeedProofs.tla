-------------------------- MODULE FollowFeedProofs --------------------------
(***************************************************************************)
(* Proofs about follows and the feed of followed authors, for every set of *)
(* accounts, authors, videos and reads, every page size and every bound on *)
(* requests and faults.                                                    *)
(***************************************************************************)
EXTENDS FollowFeed, FiniteSetTheorems, SequenceTheorems, WellFoundedInduction, TLAPS

\* A page answers key k: it lists the newest videos before the cursor of k among
\* those visible to its query, which are by authors in E that the account has
\* followed.
Answers(pg, k, E) ==
    /\ pg.list \in Newest(Before(pg.visible, k[2]))
    /\ \A v \in pg.visible : <<k[1], Author[v]>> \in E

PageInv ==
    /\ follows \subseteq ever
    /\ \A k \in Keys : page[k] # None => Answers(page[k], k, ever)
    /\ \A r \in Reads :
          IF stage[r] \in {"store", "write", "answer"} THEN Answers(got[r], Key(r), ever)
                                                       ELSE got[r] = Nothing

\* Video v is on a later page of r.
Ahead(r, v) == cursor[r] = 0 \/ Time[v] < cursor[r] * Ticks

\* Until a read has ended, nothing it has shown is still ahead, and what it has
\* not shown is ahead or in the second of a page's end.
Scanned(r, v) ==
    /\ shown[r][v] <= 1
    /\ stage[r] # "end" /\ shown[r][v] = 1 => ~Ahead(r, v)
    /\ v \in steady[r] /\ shown[r][v] = 0 =>
          Sec(Time[v]) \in marks[r] \/ (stage[r] # "end" /\ Ahead(r, v))

ScanInv == \A r \in Reads : \A v \in Videos : Scanned(r, v)

USE FollowFeedConstants

-----------------------------------------------------------------------------
(* Numbers and sets.                                                       *)

\* A set of times that is not empty has an oldest one.
LEMMA LeastTime ==
    ASSUME NEW S \in SUBSET Nat, S # {}
    PROVE  \E t \in S : \A u \in S : t <= u
<1>1. \E t \in S : \A u \in S : ~(<<u, t>> \in OpToRel(<, Nat))
  BY NatLessThanWellFounded, WFMin
<1>2. \A t, u \in Nat : ~(<<u, t>> \in OpToRel(<, Nat)) => t <= u
  BY DEF OpToRel
<1> QED
  BY <1>1, <1>2

\* The second of a time, as CreateTime.Unix() rounds it.
LEMMA SecondOf ==
    ASSUME NEW t \in Nat
    PROVE  /\ Sec(t) \in Nat
           /\ Sec(t) * Ticks <= t /\ t < Sec(t) * Ticks + Ticks
           /\ t >= Ticks => Sec(t) # 0
           /\ \A n \in Nat : n * Ticks <= t /\ t < n * Ticks + Ticks => Sec(t) = n
<1>1. /\ t \div Ticks \in Nat
      /\ (t \div Ticks) * Ticks <= t /\ t < (t \div Ticks) * Ticks + Ticks
  OBVIOUS
<1>2. t >= Ticks => t \div Ticks # 0
  BY <1>1
<1>3. ASSUME NEW n \in Nat, n * Ticks <= t, t < n * Ticks + Ticks
      PROVE  t \div Ticks = n
  BY <1>3
<1> QED
  BY <1>1, <1>2, <1>3 DEF Sec

\* next_time is computed from the time of an oldest video of the page.
LEMMA OldestOf ==
    ASSUME NEW T \in SUBSET Videos, T # {}
    PROVE  /\ \E v \in T : Oldest(T) = Time[v]
           /\ \A v \in T : Oldest(T) <= Time[v]
<1> DEFINE S == {Time[v] : v \in T}
<1>1. S \in SUBSET Nat /\ S # {}
  OBVIOUS
<1>2. \E t \in S : \A u \in S : t <= u
  BY <1>1, LeastTime
<1>3. \E t \in S : \A v \in T : t <= Time[v]
  BY <1>2
<1>4. Oldest(T) \in S /\ \A v \in T : Oldest(T) <= Time[v]
  BY <1>3 DEF Oldest
<1> QED
  BY <1>4

\* A page that is full is not empty; one that is not full has all the videos
\* its query found.
LEMMA PageSize ==
    ASSUME NEW S \in SUBSET Videos, NEW T \in Newest(S)
    PROVE  /\ T \subseteq S
           /\ Cardinality(T) = Limit => T # {}
           /\ Cardinality(T) # Limit => T = S
           /\ \A t \in T : \A u \in S \ T : Time[t] >= Time[u]
<1>1. /\ T \in SUBSET S
      /\ Cardinality(T) = IF Cardinality(S) < Limit THEN Cardinality(S) ELSE Limit
      /\ \A t \in T : \A u \in S \ T : Time[t] >= Time[u]
  BY DEF Newest
<1>2. IsFiniteSet(S) /\ IsFiniteSet(T)
  BY <1>1, FS_Subset
<1>3. Cardinality(T) = Limit => T # {}
  BY FS_EmptySet
<1>4. Cardinality(T) # Limit => T = S
  BY <1>1, <1>2, FS_Subset
<1> QED
  BY <1>1, <1>3, <1>4

-----------------------------------------------------------------------------
(* Types.                                                                  *)

\* The queue with an event behind it, or without its first one.
LEMMA QueueType ==
    ASSUME NEW q \in Seq(Events)
    PROVE  /\ \A e \in Events : Append(q, e) \in Seq(Events) /\ Append(q, e) # <<>>
           /\ q # <<>> => Head(q) \in Events /\ Tail(q) \in Seq(Events)
BY HeadTailProperties, AppendProperties

\* What is given back is in front of the queue.
LEMMA BackType ==
    ASSUME NEW q \in Seq(Events), NEW b \in Seq(Events)
    PROVE  b \o q \in Seq(Events)
BY ConcatProperties

\* The first delivery of a busy worker, and what is left when it is settled.
LEMMA BufType ==
    ASSUME TypeOK, NEW w \in SocialWorkers, Busy(w)
    PROVE  /\ First(w) \in Events /\ First(w).pair \in Pairs
           /\ First(w).action \in {"follow", "unfollow"}
           /\ buf[w] \in Seq(Events) /\ <<First(w)>> \in Seq(Events)
           /\ Settled(w) => /\ buf' \in [SocialWorkers -> Seq(Events)] /\ done' \subseteq SocialWorkers
                            /\ \A v \in done' : buf'[v] # <<>>
<1>1. buf[w] \in Seq(Events) /\ buf[w] # <<>>
  BY DEF TypeOK, Busy
<1>2. First(w) \in Events /\ Tail(buf[w]) \in Seq(Events)
  BY <1>1, QueueType DEF First
<1>3. First(w).pair \in Pairs /\ First(w).action \in {"follow", "unfollow"}
  BY <1>2 DEF Events
<1>4. ASSUME Settled(w)
      PROVE  /\ buf' \in [SocialWorkers -> Seq(Events)] /\ done' \subseteq SocialWorkers
             /\ \A v \in done' : buf'[v] # <<>>
  <2>1. buf' = [buf EXCEPT ![w] = Tail(buf[w])] /\ done' = done \ {w}
    BY <1>4 DEF Settled
  <2> QED
    BY <1>2, <2>1 DEF TypeOK
<1> QED
  BY <1>1, <1>2, <1>3, <1>4

\* An event that the exchange routes.
LEMMA RoutedType ==
    ASSUME TypeOK, NEW e \in Events, Routed(e)
    PROVE  queue' \in Seq(Events) /\ told' \subseteq Pairs
BY QueueType DEF TypeOK, Routed, Events

\* A statement on the table.
LEMMA WrittenType ==
    ASSUME TypeOK, NEW e \in Events, Written(e) \/ UNCHANGED <<follows, ever>>
    PROVE  follows' \subseteq Pairs /\ ever' \subseteq Pairs
BY DEF TypeOK, Written, Events

\* The worker pool keeps the table, the queue and the deliveries within their
\* types.
LEMMA WorkerType ==
    ASSUME TypeOK, NEW w \in SocialWorkers, Worker(w)
    PROVE  TypeOK' /\ UNCHANGED reading
<1>1. CASE Deliver(w)
  <2>1. queue # <<>> /\ queue \in Seq(Events) /\ buf[w] \in Seq(Events)
    BY <1>1 DEF Deliver, TypeOK
  <2>2. Head(queue) \in Events /\ Tail(queue) \in Seq(Events) /\ Head(queue).pair \in Pairs
    BY <2>1, QueueType DEF Events
  <2>3. Append(buf[w], Head(queue)) \in Seq(Events) /\ Append(buf[w], Head(queue)) # <<>>
    BY <2>1, <2>2, QueueType
  <2>4. /\ buf' = [buf EXCEPT ![w] = Append(buf[w], Head(queue))] /\ queue' = Tail(queue)
        /\ shaken' \in {shaken, shaken \cup {Head(queue).pair}}
        /\ UNCHANGED <<follows, asked, done, ever, last, told, requests, faults>> /\ UNCHANGED reading
    BY <1>1 DEF Deliver
  <2>5. /\ buf' \in [SocialWorkers -> Seq(Events)] /\ \A v \in done : buf'[v] # <<>>
        /\ shaken' \subseteq Pairs
    BY <2>2, <2>3, <2>4 DEF TypeOK
  <2> QED
    BY <2>2, <2>4, <2>5 DEF TypeOK, reading
<1>2. CASE Apply(w)
  <2>1. /\ Busy(w) /\ done' = done \cup {w} /\ Written(First(w))
        /\ UNCHANGED <<asked, queue, buf, last, told, shaken, requests, faults>> /\ UNCHANGED reading
    BY <1>2 DEF Apply
  <2>2. follows' \subseteq Pairs /\ ever' \subseteq Pairs
    BY <2>1, BufType, WrittenType
  <2> QED
    BY <2>1, <2>2 DEF TypeOK, reading, Busy
<1>3. CASE Ack(w)
  <2>1. /\ Busy(w) /\ Settled(w)
        /\ UNCHANGED <<follows, asked, queue, ever, last, told, shaken, requests, faults>>
        /\ UNCHANGED reading
    BY <1>3 DEF Ack, TypeOK, Busy
  <2> QED
    BY <2>1, BufType DEF TypeOK, reading
<1>4. ASSUME StatementFails(w)
      PROVE  /\ Busy(w) /\ First(w) \in Events
             /\ follows' \subseteq Pairs /\ ever' \subseteq Pairs /\ shaken' \subseteq Pairs
             /\ faults' \in 0 .. MaxFaults
             /\ UNCHANGED <<asked, last, requests>> /\ UNCHANGED reading
  <2>1. /\ Busy(w) /\ shaken' = shaken \cup {First(w).pair}
        /\ faults < MaxFaults /\ faults' = faults + 1
        /\ Written(First(w)) \/ UNCHANGED <<follows, ever>>
        /\ UNCHANGED <<asked, last, requests>> /\ UNCHANGED reading
    BY <1>4 DEF StatementFails, Fault, Shakes
  <2>2. follows' \subseteq Pairs /\ ever' \subseteq Pairs
    BY <2>1, BufType, WrittenType
  <2> QED
    BY <2>1, <2>2, BufType DEF TypeOK
<1>5. CASE Retry(w)
  <2>1. queue' \in Seq(Events) /\ told' \subseteq Pairs
    BY <1>4, <1>5, RoutedType DEF Retry, TypeOK
  <2>2. done' = done \cup {w} /\ UNCHANGED buf /\ buf[w] # <<>>
    BY <1>4, <1>5 DEF Retry, Busy
  <2> QED
    BY <1>4, <1>5, <2>1, <2>2 DEF Retry, TypeOK, reading
<1>6. CASE Requeue(w) \/ DeadLetter(w)
  <2>1. StatementFails(w) /\ Settled(w) /\ told' = told /\ queue' \in {queue, <<First(w)>> \o queue}
    BY <1>6 DEF Requeue, DeadLetter
  <2>2. queue' \in Seq(Events)
    <3>1. <<First(w)>> \in Seq(Events) /\ queue \in Seq(Events)
      BY <1>4, <2>1, BufType DEF TypeOK
    <3>2. <<First(w)>> \o queue \in Seq(Events)
      BY <3>1, BackType
    <3> QED
      BY <2>1, <3>1, <3>2
  <2> QED
    BY <1>4, <2>1, <2>2, BufType DEF TypeOK, reading
<1>7. CASE Crash(w)
  <2>1. /\ faults < MaxFaults /\ faults' = faults + 1
        /\ queue' = buf[w] \o queue /\ buf' = [buf EXCEPT ![w] = <<>>] /\ done' = done \ {w}
        /\ UNCHANGED <<follows, asked, ever, last, told, shaken, requests>> /\ UNCHANGED reading
    BY <1>7 DEF Crash, Fault
  <2>2. queue' \in Seq(Events)
    BY <2>1, BackType DEF TypeOK
  <2>3. buf' \in [SocialWorkers -> Seq(Events)] /\ \A v \in done' : buf'[v] # <<>>
    BY <2>1, EmptySeq DEF TypeOK
  <2> QED
    BY <2>1, <2>2, <2>3 DEF TypeOK, reading
<1> QED
  BY <1>1, <1>2, <1>3, <1>5, <1>6, <1>7 DEF Worker

\* Following, unfollowing and the workers keep the tables and the queue within
\* their types, and leave the reads alone.
LEMMA SocialType ==
    ASSUME TypeOK, Social
    PROVE  TypeOK' /\ UNCHANGED reading
<1>0. \A e \in Events : e.pair \in Pairs /\ e.action \in {"follow", "unfollow"}
  BY DEF Events
<1>1. ASSUME NEW q \in Pairs, NEW action \in {"follow", "unfollow"}, Check(q, action)
      PROVE  TypeOK' /\ UNCHANGED reading
  <2>1. [pair |-> q, action |-> action] \in Events
    BY DEF Events
  <2>2. asked' \subseteq Events
    BY <1>1, <2>1 DEF Check, TypeOK
  <2> QED
    BY <1>1, <2>2 DEF Check, TypeOK, reading
<1>2. ASSUME NEW e \in Events, Publish(e) PROVE TypeOK' /\ UNCHANGED reading
  <2>1. queue' \in Seq(Events) /\ told' \subseteq Pairs
    BY <1>2, RoutedType DEF Publish
  <2> QED
    BY <1>0, <1>2, <2>1 DEF Publish, Accepted, TypeOK, reading
<1>3. ASSUME NEW e \in Events, PublishLost(e) PROVE TypeOK' /\ UNCHANGED reading
  BY <1>0, <1>3 DEF PublishLost, Accepted, Shakes, Fault, TypeOK, reading
<1>4. ASSUME NEW e \in Events, Fallback(e) PROVE TypeOK' /\ UNCHANGED reading
  <2>1. CASE e.action = "follow" /\ e.pair \in follows
    BY <1>4, <2>1 DEF Fallback, Fault, TypeOK, reading
  <2>2. CASE ~(e.action = "follow" /\ e.pair \in follows)
    <3>1. /\ faults < MaxFaults /\ faults' = faults + 1
          /\ asked' = asked \ {e} /\ last' = [last EXCEPT ![e.pair] = e.action]
          /\ shaken' = shaken \cup {e.pair} /\ Written(e)
          /\ UNCHANGED <<queue, buf, done, told, requests>> /\ UNCHANGED reading
      BY <1>4, <2>2 DEF Fallback, Accepted, Shakes, Fault
    <3>2. follows' \subseteq Pairs /\ ever' \subseteq Pairs
      BY <3>1, WrittenType
    <3> QED
      BY <1>0, <3>1, <3>2 DEF TypeOK, reading
  <2> QED
    BY <2>1, <2>2
<1>5. ASSUME NEW e \in Events, Echo(e) PROVE TypeOK' /\ UNCHANGED reading
  <2>1. queue' \in Seq(Events) /\ told' \subseteq Pairs
    BY <1>5, RoutedType DEF Echo
  <2> QED
    BY <1>0, <1>5, <2>1 DEF Echo, Shakes, Fault, TypeOK, reading
<1> QED
  BY <1>1, <1>2, <1>3, <1>4, <1>5, WorkerType DEF Social, Asks, Sends

\* next_time of a full page is the second of one of its videos.
LEMMA NextKey ==
    ASSUME TypeOK, NEW r \in Reads, got[r].list # {}
    PROVE  /\ NextTime(r) \in Nat
           /\ <<viewer[r], NextTime(r)>> \in Keys
<1>1. got[r].list \in SUBSET Videos
  BY DEF TypeOK, Pages
<1>2. PICK v \in got[r].list : Oldest(got[r].list) = Time[v]
  BY <1>1, OldestOf
<1>3. NextTime(r) = Sec(Time[v]) /\ Time[v] \in Nat
  BY <1>1, <1>2 DEF NextTime
<1>4. Sec(Time[v]) \in Nat
  BY <1>3, SecondOf
<1> QED
  BY <1>1, <1>3, <1>4 DEF Keys, TypeOK

\* A query fills in a page.
LEMMA QueryType ==
    ASSUME TypeOK, NEW r \in Reads, NEW from \in Stages, NEW next \in Stages, Query(r, from, next)
    PROVE  TypeOK'
<1>1. PICK T \in Newest(Before(Visible(viewer[r]), cursor[r])) :
         got' = [got EXCEPT ![r] = [list |-> T, visible |-> Visible(viewer[r])]]
  BY DEF Query
<1>2. [list |-> T, visible |-> Visible(viewer[r])] \in Pages
  BY DEF Newest, Before, Visible, Pages
<1> QED
  BY <1>1, <1>2 DEF Query, To, TypeOK, Stages, social

\* A page that is shown moves the cursor to a key of the cache.
LEMMA AnswerType ==
    ASSUME TypeOK, NEW r \in Reads, Answer(r)
    PROVE  TypeOK'
<1> USE DEF TypeOK, Answer, To, social, Stages
<1>1. shown' \in [Reads -> [Videos -> Nat]]
  OBVIOUS
<1>2. got' \in [Reads -> Pages] /\ steady' \in [Reads -> SUBSET Videos]
  BY DEF Nothing, Pages
<1>3. /\ cursor' \in [Reads -> Nat] /\ marks' \in [Reads -> SUBSET Nat]
      /\ stage' \in [Reads -> Stages]
      /\ \A s \in Reads : <<viewer'[s], cursor'[s]>> \in Keys
  <2>1. CASE HasMore(r)
    <3>1. got[r].list # {}
      BY <2>1, FS_EmptySet DEF HasMore
    <3>2. NextTime(r) \in Nat /\ <<viewer[r], NextTime(r)>> \in Keys
      BY <3>1, NextKey
    <3>3. /\ cursor' = [cursor EXCEPT ![r] = NextTime(r)]
          /\ marks' = [marks EXCEPT ![r] = @ \cup {NextTime(r)}]
          /\ stage' = [stage EXCEPT ![r] = "ready"] /\ viewer' = viewer
      BY <2>1
    <3> HIDE DEF Answer
    <3> QED
      BY <3>2, <3>3
  <2>2. CASE ~HasMore(r)
    BY <2>2
  <2> QED
    BY <2>1, <2>2
<1> QED
  BY <1>1, <1>2, <1>3

\* Follows, pages, locks and reads keep to their types; every read asks for a
\* key whose cursor is zero or the second of a video.
THEOREM TypeCorrect == Spec => []TypeOK
<1>1. Init => TypeOK
  BY DEF Init, TypeOK, Stages, Keys, Nothing, Pages
<1>2. TypeOK /\ [Next]_vars => TypeOK'
  <2> SUFFICES ASSUME TypeOK, [Next]_vars PROVE TypeOK'
    OBVIOUS
  <2>1. CASE Social
    BY <2>1, SocialType
  <2>2. ASSUME NEW r \in Reads, Begin(r) \/ Request(r) \/ RequestFails(r) PROVE TypeOK'
    <3> USE DEF TypeOK, Stages, To, Fault, social, Key, Unlocked
    <3>1. CASE Get(r)
      BY <3>1 DEF Get, Hit
    <3>2. CASE GetMiss(r)
      BY <3>2 DEF GetMiss, Moves
    <3>3. CASE Lock(r)
      BY <3>3 DEF Lock
    <3>4. CASE LockTaken(r)
      BY <3>4 DEF LockTaken, Moves
    <3>5. CASE Recheck(r)
      BY <3>5 DEF Recheck, Hit
    <3>6. CASE RecheckMiss(r)
      BY <3>6 DEF RecheckMiss, Moves
    <3>7. CASE Poll(r)
      BY <3>7 DEF Poll, Hit
    <3>8. CASE PollsOver(r)
      BY <3>8 DEF PollsOver, Moves
    <3>9. CASE OwnQuery(r)
      BY <3>9, QueryType DEF OwnQuery
    <3>10. CASE DBQuery(r)
      BY <3>10, QueryType DEF DBQuery
    <3>11. CASE Store(r)
      BY <3>11 DEF Store, Stored
    <3>12. CASE Write(r)
      BY <3>12 DEF Write, Stored
    <3>13. CASE Answer(r)
      BY <3>13, AnswerType
    <3>14. CASE Begin(r)
      BY <3>14 DEF Begin, Moves
    <3>15. CASE GetFails(r)
      BY <3>15 DEF GetFails, Moves
    <3>16. CASE LockFails(r)
      <4>1. lock' \in {lock, [lock EXCEPT ![Key(r)] = IF lock[Key(r)] = None THEN r ELSE lock[Key(r)]]}
        BY <3>16 DEF LockFails
      <4>2. lock' \in [Keys -> Reads \cup {None}]
        BY <4>1
      <4> QED
        BY <3>16, <4>2 DEF LockFails
    <3>17. CASE RecheckFails(r)
      BY <3>17 DEF RecheckFails, Moves
    <3>18. CASE WriteFails(r)
      BY <3>18 DEF WriteFails, Moves
    <3>19. CASE QueryFails(r)
      <4>1. lock' \in [Keys -> Reads \cup {None}]
        BY <3>19 DEF QueryFails
      <4>2. /\ stage' = [stage EXCEPT ![r] = "error"] /\ faults' \in 0 .. MaxFaults
            /\ UNCHANGED <<page, viewer, cursor, got, shown, marks, steady>> /\ UNCHANGED social
        BY <3>19 DEF QueryFails
      <4> QED
        BY <4>1, <4>2
    <3> QED
      BY <2>2, <3>1, <3>2, <3>3, <3>4, <3>5, <3>6, <3>7, <3>8, <3>9,
         <3>10, <3>11, <3>12, <3>13, <3>14, <3>15, <3>16, <3>17, <3>18, <3>19 DEF Request, RequestFails
  <2>3. ASSUME NEW k \in Keys, LockExpires(k) \/ PageExpires(k) PROVE TypeOK'
    BY <2>3 DEF LockExpires, PageExpires, TypeOK, social
  <2>4. CASE UNCHANGED vars
    BY <2>4 DEF vars, social, reading, TypeOK
  <2> QED
    BY <2>1, <2>2, <2>3, <2>4 DEF Next, Clients
<1> QED
  BY <1>1, <1>2, PTL DEF Spec

-----------------------------------------------------------------------------
(* What the account has followed.                                          *)

\* No pair that was followed once is forgotten, and the table has no other.
LEMMA SocialGrows ==
    ASSUME TypeOK, follows \subseteq ever, Social
    PROVE  ever \subseteq ever' /\ follows' \subseteq ever'
<1>1. ASSUME NEW q \in Pairs, NEW action \in {"follow", "unfollow"}, Check(q, action)
      PROVE  ever \subseteq ever' /\ follows' \subseteq ever'
  BY <1>1 DEF Check
<1>2. ASSUME NEW e \in Events, Publish(e) \/ PublishLost(e) \/ Fallback(e) \/ Echo(e)
      PROVE  ever \subseteq ever' /\ follows' \subseteq ever'
  BY <1>2 DEF Publish, PublishLost, Fallback, Echo, Written
<1>3. ASSUME NEW w \in SocialWorkers, Worker(w)
      PROVE  ever \subseteq ever' /\ follows' \subseteq ever'
  BY <1>3 DEF Worker, Deliver, Apply, Ack, StatementFails, Retry, Requeue, DeadLetter, Crash, Written
<1> QED
  BY <1>1, <1>2, <1>3 DEF Social, Asks, Sends

\* A page still answers its key when more pairs have been followed.
LEMMA AnswersKept ==
    ASSUME NEW pg, NEW k, NEW E, NEW F, Answers(pg, k, E), E \subseteq F
    PROVE  Answers(pg, k, F)
BY DEF Answers

\* A cached page, taken for the answer.
LEMMA HitKeepsPages ==
    ASSUME TypeOK, PageInv, NEW r \in Reads, NEW from, Hit(r, from)
    PROVE  PageInv'
<1>1. Key(r) \in Keys /\ Key(r)' = Key(r)
  BY DEF TypeOK, Key, Hit
<1>2. Answers(page[Key(r)], Key(r), ever)
  BY <1>1 DEF Hit, PageInv
<1>3. got'[r] = page[Key(r)] /\ stage'[r] = "answer"
  BY DEF Hit, To, TypeOK, Stages
<1> QED
  BY <1>1, <1>2, <1>3 DEF PageInv, Hit, To, TypeOK, social, Key

\* The answer of a query is a page for the key of the read.
LEMMA QueryKeepsPages ==
    ASSUME TypeOK, PageInv, NEW r \in Reads, NEW from, NEW next \in {"store", "write"},
           Query(r, from, next)
    PROVE  PageInv'
<1>1. PICK T \in Newest(Before(Visible(viewer[r]), cursor[r])) :
         got' = [got EXCEPT ![r] = [list |-> T, visible |-> Visible(viewer[r])]]
  BY DEF Query
<1>2. got'[r].list = T /\ got'[r].visible = Visible(viewer[r]) /\ stage'[r] = next
  BY <1>1 DEF TypeOK, Query, To
<1>3. Key(r)[1] = viewer[r] /\ Key(r)[2] = cursor[r] /\ Key(r)' = Key(r)
  BY DEF Key, Query
<1>4. \A v \in Visible(viewer[r]) : <<viewer[r], Author[v]>> \in ever
  BY DEF Visible, PageInv
<1>5. Answers(got'[r], Key(r), ever)
  BY <1>1, <1>2, <1>3, <1>4 DEF Answers
<1> QED
  BY <1>1, <1>2, <1>3, <1>5 DEF PageInv, Query, To, TypeOK, social, Key

\* Every page in the cache and in the hand of a read answers its key.
LEMMA PagesAnswer == Spec => []PageInv
<1>1. Init => PageInv
  BY DEF Init, PageInv
<1>2. TypeOK /\ PageInv /\ [Next]_vars => PageInv'
  <2> SUFFICES ASSUME TypeOK, PageInv, [Next]_vars PROVE PageInv'
    OBVIOUS
  <2>1. CASE Social
    <3>1. ever \subseteq ever' /\ follows' \subseteq ever' /\ UNCHANGED reading
      BY <2>1, SocialGrows, SocialType DEF PageInv
    <3> QED
      BY <3>1, AnswersKept DEF PageInv, reading, Key
  <2>2. ASSUME NEW r \in Reads, Begin(r) \/ Request(r) \/ RequestFails(r) PROVE PageInv'
    <3> USE DEF TypeOK, Stages, PageInv, To, Fault, social, Key, Unlocked
    <3>1. CASE Get(r)
      BY <3>1, HitKeepsPages DEF Get
    <3>2. CASE GetMiss(r)
      BY <3>2 DEF GetMiss, Moves
    <3>3. CASE Lock(r)
      BY <3>3 DEF Lock
    <3>4. CASE LockTaken(r)
      BY <3>4 DEF LockTaken, Moves
    <3>5. CASE Recheck(r)
      BY <3>5, HitKeepsPages DEF Recheck
    <3>6. CASE RecheckMiss(r)
      BY <3>6 DEF RecheckMiss, Moves
    <3>7. CASE Poll(r)
      BY <3>7, HitKeepsPages DEF Poll
    <3>8. CASE PollsOver(r)
      BY <3>8 DEF PollsOver, Moves
    <3>9. CASE OwnQuery(r)
      BY <3>9, QueryKeepsPages DEF OwnQuery
    <3>10. CASE DBQuery(r)
      BY <3>10, QueryKeepsPages DEF DBQuery
    <3>11. CASE Store(r)
      BY <3>11 DEF Store, Stored
    <3>12. CASE Write(r)
      BY <3>12 DEF Write, Stored
    <3>13. CASE Answer(r)
      BY <3>13 DEF Answer
    <3>14. CASE Begin(r)
      BY <3>14 DEF Begin, Moves
    <3>15. CASE GetFails(r)
      BY <3>15 DEF GetFails, Moves
    <3>16. CASE LockFails(r)
      BY <3>16 DEF LockFails
    <3>17. CASE RecheckFails(r)
      BY <3>17 DEF RecheckFails, Moves
    <3>18. CASE WriteFails(r)
      BY <3>18 DEF WriteFails, Moves
    <3>19. CASE QueryFails(r)
      BY <3>19 DEF QueryFails
    <3> QED
      BY <2>2, <3>1, <3>2, <3>3, <3>4, <3>5, <3>6, <3>7, <3>8, <3>9,
         <3>10, <3>11, <3>12, <3>13, <3>14, <3>15, <3>16, <3>17, <3>18, <3>19 DEF Request, RequestFails
  <2>3. ASSUME NEW k \in Keys, LockExpires(k) \/ PageExpires(k) PROVE PageInv'
    BY <2>3 DEF LockExpires, PageExpires, TypeOK, social, PageInv, Key
  <2>4. CASE UNCHANGED vars
    BY <2>4 DEF vars, social, reading, PageInv, Key
  <2> QED
    BY <2>1, <2>2, <2>3, <2>4 DEF Next, Clients
<1> QED
  BY <1>1, <1>2, TypeCorrect, PTL DEF Spec

\* What ListByFollowing shows an account, from the cache or from MySQL, is by
\* authors whom this account has followed.
THEOREM ShowsOnlyFollowed == Spec => []OnlyFollowed
<1>1. TypeOK /\ PageInv => OnlyFollowed
  <2> SUFFICES ASSUME TypeOK, PageInv, NEW r \in Reads, NEW v \in got[r].list
               PROVE  <<viewer[r], Author[v]>> \in ever
    BY DEF OnlyFollowed
  <2>1. Answers(got[r], Key(r), ever)
    BY DEF PageInv, Nothing
  <2>2. v \in got[r].visible
    BY <2>1 DEF Answers, Newest, Before
  <2> QED
    BY <2>1, <2>2 DEF Answers, Key
<1> QED
  BY <1>1, TypeCorrect, PagesAnswer, PTL

-----------------------------------------------------------------------------
(* What a read shows.                                                      *)

\* A page shows nothing twice, moves the cursor below all it shows, and leaves
\* behind only videos of the second in which it ends; the last page leaves
\* nothing behind.
LEMMA AnswerScans ==
    ASSUME TypeOK, PageInv, ScanInv, NEW r \in Reads, Answer(r), NEW v \in Videos
    PROVE  Scanned(r, v)'
<1> DEFINE T == got[r].list
           V == got[r].visible
           S == Before(V, cursor[r])
<1>1. T \in Newest(S) /\ S \subseteq V /\ V \in SUBSET Videos
  BY DEF PageInv, Answers, Answer, Key, Before, TypeOK, Pages
<1>2. /\ T \subseteq S
      /\ Cardinality(T) = Limit => T # {}
      /\ Cardinality(T) # Limit => T = S
      /\ \A t \in T : \A u \in S \ T : Time[t] >= Time[u]
  BY <1>1, PageSize
<1>3. \A u \in V : u \in S <=> Ahead(r, u)
  BY DEF Before, Ahead
<1>4. /\ shown'[r][v] = shown[r][v] + IF v \in T THEN 1 ELSE 0
      /\ steady'[r] = steady[r] \cap V
  BY DEF Answer, TypeOK
<1>5. shown[r][v] \in Nat /\ cursor[r] \in Nat /\ Time[v] \in Nat
  BY DEF TypeOK
<1>6. Scanned(r, v) /\ stage[r] = "answer"
  BY DEF ScanInv, Answer
<1>7. v \in T => shown[r][v] = 0
  BY <1>1, <1>2, <1>3, <1>5, <1>6 DEF Scanned
<1>8. shown'[r][v] <= 1
  BY <1>4, <1>5, <1>6, <1>7 DEF Scanned
<1>9. CASE HasMore(r)
  <2>1. T # {} /\ T \in SUBSET Videos
    BY <1>1, <1>2, <1>9 DEF HasMore
  <2> DEFINE o == Oldest(T)
             n == NextTime(r)
  <2>2. PICK w \in T : o = Time[w]
    BY <2>1, OldestOf
  <2>3. o \in Nat /\ o >= Ticks /\ \A u \in T : o <= Time[u]
    BY <2>1, <2>2, OldestOf
  <2>4. n = Sec(o)
    BY DEF NextTime
  <2>5. cursor'[r] = n /\ marks'[r] = marks[r] \cup {n} /\ stage'[r] = "ready"
    BY <1>9 DEF Answer, To, TypeOK
  <2> HIDE DEF n, o, T, V, S
  <2>6. n \in Nat /\ n # 0 /\ n * Ticks <= o /\ o < n * Ticks + Ticks
    BY <2>3, <2>4, SecondOf
  <2>7. cursor[r] # 0 => o < cursor[r] * Ticks
    BY <1>2, <2>2 DEF S, Before
  <2>8. shown'[r][v] = 1 => Time[v] >= n * Ticks
    <3> SUFFICES ASSUME shown'[r][v] = 1 PROVE Time[v] >= n * Ticks
      OBVIOUS
    <3>1. n * Ticks \in Nat /\ cursor[r] * Ticks \in Nat
      BY <1>5, <2>6
    <3>2. CASE v \in T
      BY <1>5, <2>3, <2>6, <3>1, <3>2
    <3>3. CASE v \notin T
      <4>1. shown[r][v] = 1
        BY <1>4, <1>5, <3>3
      <4>2. cursor[r] # 0 /\ Time[v] >= cursor[r] * Ticks
        BY <1>5, <1>6, <3>1, <4>1 DEF Scanned, Ahead
      <4> QED
        BY <1>5, <2>3, <2>6, <2>7, <3>1, <4>2
    <3> QED
      BY <3>2, <3>3
  <2>9. ASSUME v \in steady'[r], shown'[r][v] = 0
        PROVE  Sec(Time[v]) \in marks'[r] \/ Time[v] < n * Ticks
    <3>1. v \in steady[r] /\ v \in V /\ v \notin T /\ shown[r][v] = 0
      BY <1>4, <1>5, <2>9
    <3>2. CASE v \in S
      <4>1. Time[v] <= o
        BY <1>2, <2>2, <3>1, <3>2
      <4>2. CASE Time[v] >= n * Ticks
        <5>1. n * Ticks \in Nat
          BY <2>6
        <5>2. Time[v] < n * Ticks + Ticks
          BY <1>5, <2>3, <2>6, <4>1, <5>1
        <5>3. Sec(Time[v]) = n
          BY <1>5, <2>6, <4>2, <5>2, SecondOf
        <5> QED
          BY <2>5, <5>3
      <4> QED
        BY <1>5, <2>6, <4>2
    <3>3. CASE v \notin S
      BY <1>3, <1>6, <2>5, <3>1, <3>3 DEF Scanned
    <3> QED
      BY <3>2, <3>3
  <2> QED
    BY <1>5, <1>8, <2>5, <2>6, <2>8, <2>9 DEF Scanned, Ahead
<1>10. CASE ~HasMore(r)
  <2>1. T = S
    BY <1>2, <1>10 DEF HasMore
  <2>2. cursor' = cursor /\ marks' = marks /\ stage'[r] = "end"
    BY <1>10 DEF Answer, To, TypeOK
  <2>3. ASSUME v \in steady'[r], shown'[r][v] = 0
        PROVE  Sec(Time[v]) \in marks[r]
    <3>1. v \in steady[r] /\ v \in V /\ v \notin T /\ shown[r][v] = 0
      BY <1>4, <1>5, <2>3
    <3> QED
      BY <1>3, <1>6, <2>1, <3>1 DEF Scanned
  <2> QED
    BY <1>8, <2>2, <2>3 DEF Scanned
<1> QED
  BY <1>9, <1>10

\* Only an answer changes what a read has shown.
LEMMA OthersScanNothing ==
    ASSUME TypeOK, [Next]_vars, NEW r \in Reads, ~Answer(r)
    PROVE  /\ UNCHANGED <<shown[r], marks[r], steady[r], cursor[r]>>
           /\ stage'[r] = "end" <=> stage[r] = "end"
<1> DEFINE Same == /\ UNCHANGED <<shown[r], marks[r], steady[r], cursor[r]>>
                   /\ stage'[r] = "end" <=> stage[r] = "end"
<1>1. CASE Social
  BY <1>1, SocialType DEF reading
<1>2. ASSUME NEW s \in Reads, Answer(s) PROVE Same
  BY <1>2 DEF Answer, To, TypeOK
<1>3. ASSUME NEW s \in Reads, Begin(s) \/ (Request(s) /\ ~Answer(s)) \/ RequestFails(s) PROVE Same
  <2> USE DEF TypeOK, To, Hit, Moves, Query
  <2>1. CASE Begin(s) \/ Get(s) \/ GetMiss(s) \/ Recheck(s) \/ RecheckMiss(s) \/ Poll(s) \/ PollsOver(s)
    BY <2>1 DEF Begin, Get, GetMiss, Recheck, RecheckMiss, Poll, PollsOver
  <2>2. CASE Lock(s) \/ LockTaken(s) \/ OwnQuery(s) \/ DBQuery(s) \/ Store(s) \/ Write(s)
    BY <2>2 DEF Lock, LockTaken, OwnQuery, DBQuery, Store, Write
  <2>3. CASE RequestFails(s)
    BY <2>3 DEF RequestFails, GetFails, LockFails, RecheckFails, WriteFails, QueryFails
  <2> QED
    BY <1>3, <2>1, <2>2, <2>3 DEF Request
<1>4. ASSUME NEW k \in Keys, LockExpires(k) \/ PageExpires(k) PROVE Same
  BY <1>4 DEF LockExpires, PageExpires
<1>5. CASE UNCHANGED vars
  BY <1>5 DEF vars, reading
<1> QED
  BY <1>1, <1>2, <1>3, <1>4, <1>5 DEF Next, Clients, Request

\* Following next_time shows no video twice and, at the end, leaves out none that
\* every query could see, but for those of the seconds in which pages ended.
THEOREM ScansAreExact == Spec => []ScanExact
<1>1. Init => ScanInv
  BY DEF Init, ScanInv, Scanned, Ahead
<1>2. TypeOK /\ PageInv /\ ScanInv /\ [Next]_vars => ScanInv'
  <2> SUFFICES ASSUME TypeOK, PageInv, ScanInv, [Next]_vars, NEW r \in Reads, NEW v \in Videos
               PROVE  Scanned(r, v)'
    BY DEF ScanInv
  <2>1. CASE Answer(r)
    BY <2>1, AnswerScans
  <2>2. CASE ~Answer(r)
    BY <2>2, OthersScanNothing DEF ScanInv, Scanned, Ahead
  <2> QED
    BY <2>1, <2>2
<1>3. TypeOK /\ ScanInv => ScanExact
  <2> SUFFICES ASSUME TypeOK, ScanInv, NEW r \in Reads, NEW v \in Videos
               PROVE  /\ shown[r][v] <= 1
                      /\ stage[r] = "end" /\ v \in steady[r] =>
                            shown[r][v] = 1 \/ Sec(Time[v]) \in marks[r]
    BY DEF ScanExact
  <2>1. Scanned(r, v) /\ shown[r][v] \in Nat
    BY DEF ScanInv, TypeOK
  <2> QED
    BY <2>1 DEF Scanned
<1> QED
  BY <1>1, <1>2, <1>3, TypeCorrect, PagesAnswer, PTL DEF Spec

-----------------------------------------------------------------------------
(* What the last request makes of a pair.                                  *)

\* Queue q has no event for p; its last event for p says a.
NoneFor(q, p) == \A i \in DOMAIN q : q[i].pair # p
LastFor(q, p, a) ==
    \E i \in DOMAIN q :
        /\ q[i] = [pair |-> p, action |-> a]
        /\ \A j \in DOMAIN q : j > i => q[j].pair # p

\* An event behind the queue decides its own pair and no other.
LEMMA Appended ==
    ASSUME NEW q \in Seq(Events), NEW e \in Events
    PROVE  /\ LastFor(Append(q, e), e.pair, e.action)
           /\ \A p, a : p # e.pair =>
                 /\ LastFor(q, p, a) => LastFor(Append(q, e), p, a)
                 /\ NoneFor(q, p) => NoneFor(Append(q, e), p)
<1> DEFINE s == Append(q, e)
<1>1. /\ Len(q) \in Nat /\ DOMAIN q = 1 .. Len(q)
      /\ DOMAIN s = 1 .. Len(q) + 1
      /\ s[Len(q) + 1] = e /\ \A i \in 1 .. Len(q) : s[i] = q[i]
  BY AppendProperties, LenProperties
<1>2. e = [pair |-> e.pair, action |-> e.action]
  BY DEF Events
<1> HIDE DEF s
<1>3. LastFor(s, e.pair, e.action)
  BY <1>1, <1>2 DEF LastFor
<1>4. ASSUME NEW p, NEW a, p # e.pair, LastFor(q, p, a) PROVE LastFor(s, p, a)
  <2>1. PICK i \in 1 .. Len(q) : /\ q[i] = [pair |-> p, action |-> a]
                                /\ \A j \in 1 .. Len(q) : j > i => q[j].pair # p
    BY <1>1, <1>4 DEF LastFor
  <2>2. i \in DOMAIN s /\ s[i] = [pair |-> p, action |-> a]
    BY <1>1, <2>1
  <2>3. ASSUME NEW j \in DOMAIN s, j > i PROVE s[j].pair # p
    <3>1. j \in 1 .. Len(q) \/ j = Len(q) + 1
      BY <1>1
    <3> QED
      BY <1>1, <1>4, <2>1, <2>3, <3>1
  <2> QED
    BY <2>2, <2>3 DEF LastFor
<1>5. ASSUME NEW p, p # e.pair, NoneFor(q, p) PROVE NoneFor(s, p)
  BY <1>1, <1>5 DEF NoneFor
<1> QED
  BY <1>3, <1>4, <1>5 DEF s

\* The first event of a sequence decides its pair only if there is no other.
LEMMA Consumed ==
    ASSUME NEW q \in Seq(Events), q # <<>>
    PROVE  /\ ~NoneFor(q, Head(q).pair)
           /\ \A p : NoneFor(q, p) => NoneFor(Tail(q), p)
           /\ \A p : NoneFor(Tail(q), p) =>
                 IF p = Head(q).pair THEN LastFor(q, p, Head(q).action) ELSE NoneFor(q, p)
           /\ \A p, a : LastFor(Tail(q), p, a) => LastFor(q, p, a)
           /\ \A p, a : LastFor(q, p, a) =>
                 \/ LastFor(Tail(q), p, a)
                 \/ Head(q) = [pair |-> p, action |-> a] /\ NoneFor(Tail(q), p)
<1> DEFINE s == Tail(q)
           n == Len(q)
<1>1. /\ n \in Nat \ {0} /\ DOMAIN q = 1 .. n
      /\ DOMAIN s = 1 .. n - 1
      /\ Head(q) = q[1] /\ \A i \in 1 .. n - 1 : s[i] = q[i + 1]
  BY HeadTailProperties, LenProperties, EmptySeq
<1>2. Head(q) = [pair |-> Head(q).pair, action |-> Head(q).action]
  BY QueueType DEF Events
<1> HIDE DEF s, n
<1>3. \A i \in 2 .. n : i - 1 \in DOMAIN s /\ s[i - 1] = q[i]
  BY <1>1
<1>4. \A i \in DOMAIN s : i + 1 \in 2 .. n /\ s[i] = q[i + 1]
  BY <1>1
<1>5. ~NoneFor(q, Head(q).pair)
  BY <1>1 DEF NoneFor
<1>6. ASSUME NEW p, NoneFor(q, p) PROVE NoneFor(s, p)
  BY <1>1, <1>4, <1>6 DEF NoneFor
<1>7. ASSUME NEW p, NoneFor(s, p)
      PROVE  IF p = Head(q).pair THEN LastFor(q, p, Head(q).action) ELSE NoneFor(q, p)
  <2>1. \A i \in 2 .. n : q[i].pair # p
    BY <1>3, <1>7 DEF NoneFor
  <2>2. \A i \in DOMAIN q : i = 1 \/ i \in 2 .. n
    BY <1>1
  <2>3. CASE p = Head(q).pair
    <3>1. 1 \in DOMAIN q /\ q[1] = [pair |-> p, action |-> Head(q).action]
      BY <1>1, <1>2, <2>3
    <3>2. \A j \in DOMAIN q : j > 1 => q[j].pair # p
      BY <2>1, <2>2
    <3> QED
      BY <2>3, <3>1, <3>2 DEF LastFor
  <2>4. CASE p # Head(q).pair
    BY <1>1, <2>1, <2>2, <2>4 DEF NoneFor
  <2> QED
    BY <2>3, <2>4
<1>8. ASSUME NEW p, NEW a, LastFor(s, p, a) PROVE LastFor(q, p, a)
  <2>1. PICK i \in DOMAIN s : /\ s[i] = [pair |-> p, action |-> a]
                             /\ \A j \in DOMAIN s : j > i => s[j].pair # p
    BY <1>8 DEF LastFor
  <2>2. i + 1 \in DOMAIN q /\ q[i + 1] = [pair |-> p, action |-> a]
    BY <1>1, <1>4, <2>1
  <2>3. ASSUME NEW j \in DOMAIN q, j > i + 1 PROVE q[j].pair # p
    <3>1. j \in 2 .. n /\ j - 1 > i
      BY <1>1, <2>1, <2>3
    <3> QED
      BY <1>3, <2>1, <3>1
  <2> QED
    BY <2>2, <2>3 DEF LastFor
<1>9. ASSUME NEW p, NEW a, LastFor(q, p, a)
      PROVE  LastFor(s, p, a) \/ (Head(q) = [pair |-> p, action |-> a] /\ NoneFor(s, p))
  <2>1. PICK i \in 1 .. n : /\ q[i] = [pair |-> p, action |-> a]
                           /\ \A j \in 1 .. n : j > i => q[j].pair # p
    BY <1>1, <1>9 DEF LastFor
  <2>2. CASE i = 1
    BY <1>1, <1>4, <2>1, <2>2 DEF NoneFor
  <2>3. CASE i # 1
    <3>1. i - 1 \in DOMAIN s /\ s[i - 1] = [pair |-> p, action |-> a]
      BY <1>1, <1>3, <2>1, <2>3
    <3>2. \A j \in DOMAIN s : j > i - 1 => s[j].pair # p
      BY <1>1, <1>4, <2>1, <2>3
    <3> QED
      BY <3>1, <3>2 DEF LastFor
  <2> QED
    BY <2>2, <2>3
<1> QED
  BY <1>5, <1>6, <1>7, <1>8, <1>9 DEF s

\* Deliveries b before a queue q: q decides, or b for a pair that is not in q.
LEMMA Joined ==
    ASSUME NEW b \in Seq(Events), NEW q \in Seq(Events), NEW p
    PROVE  /\ NoneFor(b \o q, p) <=> NoneFor(b, p) /\ NoneFor(q, p)
           /\ \A a : LastFor(b \o q, p, a) <=>
                        LastFor(q, p, a) \/ (NoneFor(q, p) /\ LastFor(b, p, a))
<1> DEFINE s == b \o q
           m == Len(b)
           n == Len(q)
<1>1. /\ m \in Nat /\ n \in Nat /\ DOMAIN b = 1 .. m /\ DOMAIN q = 1 .. n
      /\ DOMAIN s = 1 .. m + n
      /\ \A i \in 1 .. m + n : s[i] = IF i <= m THEN b[i] ELSE q[i - m]
  BY ConcatProperties, LenProperties
<1> HIDE DEF s, m, n
<1>2. \A i \in DOMAIN b : i \in DOMAIN s /\ s[i] = b[i] /\ i <= m
  BY <1>1
<1>3. \A i \in DOMAIN q : m + i \in DOMAIN s /\ s[m + i] = q[i] /\ m + i > m
  BY <1>1
<1>4. \A i \in DOMAIN s : \/ i \in DOMAIN b /\ s[i] = b[i]
                          \/ i > m /\ i - m \in DOMAIN q /\ s[i] = q[i - m]
  BY <1>1
<1>5. NoneFor(s, p) <=> NoneFor(b, p) /\ NoneFor(q, p)
  BY <1>2, <1>3, <1>4 DEF NoneFor
<1>6. ASSUME NEW a, LastFor(q, p, a) PROVE LastFor(s, p, a)
  <2>1. PICK i \in DOMAIN q : /\ q[i] = [pair |-> p, action |-> a]
                             /\ \A j \in DOMAIN q : j > i => q[j].pair # p
    BY <1>6 DEF LastFor
  <2>2. m + i \in DOMAIN s /\ s[m + i] = [pair |-> p, action |-> a]
    BY <1>3, <2>1
  <2>3. ASSUME NEW j \in DOMAIN s, j > m + i PROVE s[j].pair # p
    <3>1. j > m /\ ~(j \in DOMAIN b)
      BY <1>1, <2>1, <2>3
    <3>2. j - m \in DOMAIN q /\ s[j] = q[j - m] /\ j - m > i
      BY <1>1, <1>4, <2>1, <2>3, <3>1
    <3> QED
      BY <2>1, <3>2
  <2> QED
    BY <2>2, <2>3 DEF LastFor
<1>7. ASSUME NEW a, NoneFor(q, p), LastFor(b, p, a) PROVE LastFor(s, p, a)
  <2>1. PICK i \in DOMAIN b : /\ b[i] = [pair |-> p, action |-> a]
                             /\ \A j \in DOMAIN b : j > i => b[j].pair # p
    BY <1>7 DEF LastFor
  <2>2. i \in DOMAIN s /\ s[i] = [pair |-> p, action |-> a]
    BY <1>2, <2>1
  <2>3. ASSUME NEW j \in DOMAIN s, j > i PROVE s[j].pair # p
    BY <1>4, <1>7, <2>1, <2>3 DEF NoneFor
  <2> QED
    BY <2>2, <2>3 DEF LastFor
<1>8. ASSUME NEW a, LastFor(s, p, a)
      PROVE  LastFor(q, p, a) \/ (NoneFor(q, p) /\ LastFor(b, p, a))
  <2>1. PICK i \in DOMAIN s : /\ s[i] = [pair |-> p, action |-> a]
                             /\ \A j \in DOMAIN s : j > i => s[j].pair # p
    BY <1>8 DEF LastFor
  <2>2. CASE i \in DOMAIN b /\ s[i] = b[i]
    <3>1. \A j \in DOMAIN b : j > i => b[j].pair # p
      BY <1>2, <2>1
    <3>2. ASSUME NEW j \in DOMAIN q PROVE q[j].pair # p
      <4>1. m + j > i
        BY <1>1, <2>2
      <4> QED
        BY <1>3, <2>1, <4>1
    <3> QED
      BY <2>1, <2>2, <3>1, <3>2 DEF LastFor, NoneFor
  <2>3. CASE i > m /\ i - m \in DOMAIN q /\ s[i] = q[i - m]
    <3>1. ASSUME NEW j \in DOMAIN q, j > i - m PROVE q[j].pair # p
      <4>1. m + j > i
        BY <1>1, <2>3, <3>1
      <4> QED
        BY <1>3, <2>1, <4>1
    <3> QED
      BY <2>1, <2>3, <3>1 DEF LastFor
  <2> QED
    BY <1>4, <2>1, <2>2, <2>3
<1> QED
  BY <1>5, <1>6, <1>7, <1>8 DEF s

\* Deliveries b, queue q and table L make a of p.
Said(p, b, q, L, a) ==
    \/ LastFor(q, p, a)
    \/ NoneFor(q, p) /\ LastFor(b, p, a)
    \/ NoneFor(q, p) /\ NoneFor(b, p) /\ (p \in L) = (a = "follow")

\* All deliveries for p are at u, they and the queue make of p what the last
\* request asked for, and so has the one that u has handled and not acked.
Keeper(p, u) ==
    /\ \A v \in SocialWorkers \ {u} : NoneFor(buf[v], p)
    /\ Said(p, Pending(u), queue, follows, last[p])
    /\ u \in done /\ First(u).pair = p => (p \in follows) = (First(u).action = "follow")

OrderInv == \A p \in Pairs \ shaken : \E u \in SocialWorkers : Keeper(p, u)

\* The definition of LastRequestWins, in these terms.
LEMMA KeeperDecides ==
    ASSUME TypeOK, OrderInv
    PROVE  LastRequestWins
<1> SUFFICES ASSUME NEW p \in Pairs \ shaken
             PROVE  \E w \in SocialWorkers : /\ \A v \in SocialWorkers \ {w} : ~Holds(v, p)
                                             /\ Decides(p, Pending(w) \o queue, last[p])
  BY DEF LastRequestWins
<1>1. PICK u \in SocialWorkers : Keeper(p, u)
  BY DEF OrderInv
<1>2. \A v \in SocialWorkers \ {u} : ~Holds(v, p)
  BY <1>1 DEF Keeper, NoneFor, Holds
<1>3. Pending(u) \in Seq(Events) /\ queue \in Seq(Events)
  BY QueueType DEF TypeOK, Pending
<1>4. \/ LastFor(Pending(u) \o queue, p, last[p])
      \/ NoneFor(Pending(u) \o queue, p) /\ (p \in follows) = (last[p] = "follow")
  BY <1>1, <1>3, Joined DEF Keeper, Said
<1>5. Decides(p, Pending(u) \o queue, last[p])
  BY <1>4 DEF Decides, LastFor, NoneFor
<1> QED
  BY <1>2, <1>5

\* The deliveries of a worker that are still to be handled are among those it
\* holds.
LEMMA PendingOf ==
    ASSUME TypeOK, NEW v \in SocialWorkers
    PROVE  /\ buf[v] \in Seq(Events) /\ Pending(v) \in Seq(Events)
           /\ v \in done => buf[v] # <<>>
           /\ \A p : NoneFor(buf[v], p) => NoneFor(Pending(v), p)
<1>1. buf[v] \in Seq(Events) /\ (v \in done => buf[v] # <<>>)
  BY DEF TypeOK
<1>2. CASE v \in done
  BY <1>1, <1>2, QueueType, Consumed DEF Pending
<1>3. CASE v \notin done
  BY <1>1, <1>3 DEF Pending
<1> QED
  BY <1>1, <1>2, <1>3

\* A statement makes its own row what the event says, and no other.
LEMMA WrittenDecides ==
    ASSUME TypeOK, NEW e \in Events, Written(e)
    PROVE  /\ (e.pair \in follows') = (e.action = "follow")
           /\ \A p : p # e.pair => (p \in follows') = (p \in follows)
<1>1. e.action \in {"follow", "unfollow"}
  BY DEF Events
<1> QED
  BY <1>1 DEF Written

\* Nobody holds p: any worker is its keeper.
LEMMA AnyKeeper ==
    ASSUME TypeOK, NEW p, NEW u \in SocialWorkers, Keeper(p, u), NoneFor(buf[u], p),
           NEW w \in SocialWorkers
    PROVE  Keeper(p, w)
<1>1. \A v \in SocialWorkers : NoneFor(buf[v], p)
  BY DEF Keeper
<1>2. NoneFor(Pending(u), p) /\ NoneFor(Pending(w), p)
  BY <1>1, PendingOf
<1>3. ~LastFor(Pending(u), p, last[p])
  BY <1>2 DEF NoneFor, LastFor
<1>4. Said(p, Pending(w), queue, follows, last[p])
  BY <1>2, <1>3 DEF Keeper, Said
<1>5. w \in done => First(w).pair # p
  BY <1>1, PendingOf, Consumed DEF First
<1> QED
  BY <1>1, <1>4, <1>5 DEF Keeper

\* A step that leaves the deliveries alone, and the row, the last request and
\* the word of the queue on p.
LEMMA KeptAside ==
    ASSUME NEW p, NEW u \in SocialWorkers, Keeper(p, u), UNCHANGED <<buf, done>>,
           (p \in follows') = (p \in follows), last'[p] = last[p],
           \A a : LastFor(queue, p, a) => LastFor(queue', p, a),
           NoneFor(queue, p) => NoneFor(queue', p)
    PROVE  Keeper(p, u)'
<1>1. Pending(u)' = Pending(u) /\ First(u)' = First(u)
  BY DEF Pending, First
<1>2. Said(p, Pending(u), queue', follows', last'[p])
  BY DEF Keeper, Said
<1> QED
  BY <1>1, <1>2 DEF Keeper

\* An event that goes to a worker: with one of p in it, this worker becomes the
\* keeper of p.
LEMMA DeliverKeeps ==
    ASSUME TypeOK, NEW p, NEW u \in SocialWorkers, Keeper(p, u), NEW w \in SocialWorkers,
           Deliver(w), p \notin shaken'
    PROVE  \E v \in SocialWorkers : Keeper(p, v)'
<1> DEFINE h == Head(queue)
<1>1. /\ queue \in Seq(Events) /\ queue # <<>> /\ h \in Events
      /\ buf[w] \in Seq(Events) /\ Pending(w) \in Seq(Events)
      /\ w \in done => buf[w] # <<>>
  BY PendingOf, QueueType DEF Deliver, TypeOK
<1>2. h = [pair |-> h.pair, action |-> h.action]
  BY <1>1 DEF Events
<1>3. /\ buf'[w] = Append(buf[w], h) /\ \A v \in SocialWorkers \ {w} : buf'[v] = buf[v]
      /\ queue' = Tail(queue) /\ UNCHANGED <<done, follows, last>>
  BY DEF Deliver, TypeOK
<1>4. h.pair = p => \A v \in SocialWorkers \ {w} : NoneFor(buf[v], p)
  BY DEF Deliver, Holds, NoneFor
<1> HIDE DEF h
<1>5. w \in done => First(w)' = First(w) /\ Tail(Append(buf[w], h)) = Append(Tail(buf[w]), h)
  BY <1>1, <1>3 DEF First
<1>6. Pending(w)' = Append(Pending(w), h)
  BY <1>3, <1>5 DEF Pending
<1>7. \A v \in SocialWorkers \ {w} : Pending(v)' = Pending(v) /\ First(v)' = First(v)
  BY <1>3 DEF Pending, First
<1>8. CASE h.pair # p
  <2>1. /\ \A a : LastFor(queue, p, a) => LastFor(queue', p, a)
        /\ NoneFor(queue, p) => NoneFor(queue', p)
    <3>1. \A a : LastFor(queue, p, a) =>
             LastFor(Tail(queue), p, a) \/ Head(queue) = [pair |-> p, action |-> a]
      BY <1>1, Consumed
    <3>2. NoneFor(queue, p) => NoneFor(Tail(queue), p)
      BY <1>1, Consumed
    <3> QED
      BY <1>3, <1>8, <3>1, <3>2 DEF h
  <2>2. /\ NoneFor(buf[w], p) => NoneFor(buf'[w], p)
        /\ NoneFor(Pending(w), p) => NoneFor(Pending(w)', p)
        /\ \A a : LastFor(Pending(w), p, a) => LastFor(Pending(w)', p, a)
    BY <1>1, <1>3, <1>6, <1>8, Appended
  <2>3. \A v \in SocialWorkers \ {u} : NoneFor(buf'[v], p)
    BY <1>3, <2>2 DEF Keeper
  <2>4. Said(p, Pending(u)', queue', follows', last'[p])
    BY <1>3, <1>7, <2>1, <2>2 DEF Keeper, Said
  <2>5. u \in done => First(u)' = First(u)
    BY <1>5, <1>7
  <2>6. Keeper(p, u)'
    BY <1>3, <2>3, <2>4, <2>5 DEF Keeper
  <2> QED
    BY <2>6
<1>9. CASE h.pair = p
  <2>1. Keeper(p, w)
    <3>1. CASE u = w
      BY <3>1
    <3>2. CASE u # w
      BY <1>4, <1>9, <3>2, AnyKeeper
    <3> QED
      BY <3>1, <3>2
  <2>2. LastFor(queue, p, last[p])
    <3>1. ~NoneFor(queue, p)
      BY <1>1, <1>9, Consumed DEF h
    <3> QED
      BY <2>1, <3>1 DEF Keeper, Said
  <2>3. LastFor(queue', p, last[p]) \/ (h.action = last[p] /\ NoneFor(queue', p))
    <3>1. LastFor(Tail(queue), p, last[p])
             \/ (Head(queue) = [pair |-> p, action |-> last[p]] /\ NoneFor(Tail(queue), p))
      BY <1>1, <2>2, Consumed
    <3> QED
      BY <1>3, <3>1 DEF h
  <2>4. LastFor(Pending(w)', p, h.action)
    BY <1>1, <1>6, <1>9, Appended
  <2>5. Said(p, Pending(w)', queue', follows', last'[p])
    BY <1>3, <2>3, <2>4 DEF Said
  <2>6. Keeper(p, w)'
    BY <1>3, <1>5, <2>1, <2>5 DEF Keeper
  <2> QED
    BY <2>6
<1> QED
  BY <1>8, <1>9

\* What the first delivery of a busy worker is to p.
LEMMA FirstFor ==
    ASSUME TypeOK, NEW w \in SocialWorkers, Busy(w), NEW p
    PROVE  /\ First(w) \in Events
           /\ NoneFor(buf[w], p) => First(w).pair # p /\ NoneFor(Tail(buf[w]), p)
           /\ NoneFor(Tail(buf[w]), p) =>
                 IF p = First(w).pair THEN LastFor(buf[w], p, First(w).action) ELSE NoneFor(buf[w], p)
           /\ \A a : LastFor(Tail(buf[w]), p, a) => LastFor(buf[w], p, a)
           /\ \A a : LastFor(buf[w], p, a) =>
                 \/ LastFor(Tail(buf[w]), p, a)
                 \/ First(w).pair = p /\ First(w).action = a /\ NoneFor(Tail(buf[w]), p)
<1>1. buf[w] \in Seq(Events) /\ buf[w] # <<>>
  BY DEF TypeOK, Busy
<1> QED
  BY <1>1, Consumed, QueueType DEF First

\* The keeper applies its first event, or another worker one of another pair.
LEMMA ApplyKeeps ==
    ASSUME TypeOK, NEW p, NEW u \in SocialWorkers, Keeper(p, u), NEW w \in SocialWorkers, Apply(w)
    PROVE  Keeper(p, u)'
<1> DEFINE h == First(w)
<1>1. /\ Busy(w) /\ w \notin done /\ Written(h) /\ done' = done \cup {w}
      /\ UNCHANGED <<buf, queue, last>>
  BY DEF Apply
<1>2. /\ h \in Events
      /\ NoneFor(buf[w], p) => h.pair # p /\ NoneFor(Tail(buf[w]), p)
      /\ \A a : LastFor(buf[w], p, a) =>
            \/ LastFor(Tail(buf[w]), p, a)
            \/ h.pair = p /\ h.action = a /\ NoneFor(Tail(buf[w]), p)
  BY <1>1, FirstFor
<1>3. First(u)' = First(u)
  BY <1>1 DEF First
<1> HIDE DEF h
<1>4. /\ (h.pair \in follows') = (h.action = "follow")
      /\ p # h.pair => (p \in follows') = (p \in follows)
  BY <1>1, <1>2, WrittenDecides
<1>5. CASE w = u
  <2>1. Pending(u) = buf[u] /\ Pending(u)' = Tail(buf[u])
    BY <1>1, <1>5 DEF Pending
  <2>2. Said(p, Tail(buf[u]), queue, follows', last[p])
    BY <1>2, <1>4, <1>5, <2>1 DEF Keeper, Said
  <2>3. First(u) = h
    BY <1>5 DEF h
  <2> QED
    BY <1>1, <1>3, <1>4, <2>1, <2>2, <2>3 DEF Keeper
<1>6. CASE w # u
  <2>1. (p \in follows') = (p \in follows)
    BY <1>2, <1>4, <1>6 DEF Keeper
  <2>2. Pending(u)' = Pending(u) /\ (u \in done' <=> u \in done)
    BY <1>1, <1>6 DEF Pending
  <2>3. Said(p, Pending(u), queue, follows', last[p])
    BY <2>1 DEF Keeper, Said
  <2> QED
    BY <1>1, <1>3, <2>1, <2>2, <2>3 DEF Keeper
<1> QED
  BY <1>5, <1>6

\* An ack removes what has been handled.
LEMMA AckKeeps ==
    ASSUME TypeOK, NEW p, NEW u \in SocialWorkers, Keeper(p, u), NEW w \in SocialWorkers, Ack(w)
    PROVE  Keeper(p, u)'
<1>1. /\ w \in done /\ Busy(w) /\ buf'[w] = Tail(buf[w]) /\ done' = done \ {w}
      /\ \A v \in SocialWorkers \ {w} : buf'[v] = buf[v]
      /\ UNCHANGED <<queue, follows, last>>
  BY DEF Ack, Settled, TypeOK, Busy
<1>2. NoneFor(buf[w], p) => NoneFor(buf'[w], p)
  BY <1>1, FirstFor
<1>3. \A v \in SocialWorkers \ {u} : NoneFor(buf'[v], p)
  BY <1>1, <1>2 DEF Keeper
<1>4. Pending(u)' = Pending(u)
  BY <1>1 DEF Pending
<1>5. u \in done' => u \in done /\ First(u)' = First(u)
  BY <1>1 DEF First
<1> QED
  BY <1>1, <1>3, <1>4, <1>5 DEF Keeper

\* A statement for another pair fails, whatever becomes of its event.
LEMMA FailureKeeps ==
    ASSUME TypeOK, NEW p, NEW u \in SocialWorkers, Keeper(p, u), NEW w \in SocialWorkers,
           Retry(w) \/ Requeue(w) \/ DeadLetter(w), p \notin shaken'
    PROVE  Keeper(p, u)'
<1> DEFINE h == First(w)
<1>1. /\ Busy(w) /\ w \notin done /\ h.pair # p /\ last' = last
      /\ Written(h) \/ follows' = follows
      /\ queue' \in {queue, Append(queue, h), <<h>> \o queue}
      /\ \A v \in SocialWorkers \ {w} : buf'[v] = buf[v] /\ (v \in done' <=> v \in done)
      /\ \/ buf'[w] = Tail(buf[w]) /\ w \notin done'
         \/ buf'[w] = buf[w] /\ w \in done'
  <2>1. StatementFails(w)
    BY DEF Retry, Requeue, DeadLetter
  <2>2. /\ Busy(w) /\ w \notin done /\ h.pair # p /\ last' = last
        /\ Written(h) \/ follows' = follows
    BY <2>1 DEF StatementFails, Shakes
  <2>3. queue' \in {queue, Append(queue, h), <<h>> \o queue}
    BY DEF Retry, Requeue, DeadLetter, Routed
  <2>4. CASE Retry(w)
    BY <2>4, <2>2, <2>3 DEF Retry
  <2>5. CASE Requeue(w) \/ DeadLetter(w)
    <3>1. buf' = [buf EXCEPT ![w] = Tail(buf[w])] /\ done' = done \ {w}
      BY <2>5 DEF Requeue, DeadLetter, Settled
    <3> QED
      BY <2>2, <2>3, <3>1 DEF TypeOK
  <2> QED
    BY <2>4, <2>5
<1>2. /\ h \in Events
      /\ NoneFor(buf[w], p) => NoneFor(Tail(buf[w]), p)
      /\ \A a : LastFor(buf[w], p, a) => LastFor(Tail(buf[w]), p, a)
  BY <1>1, FirstFor
<1>3. First(w)' = h \/ w \notin done'
  BY <1>1 DEF First
<1>4. \A v \in SocialWorkers \ {w} : Pending(v)' = Pending(v) /\ First(v)' = First(v)
  BY <1>1 DEF Pending, First
<1>5. Pending(w) = buf[w] /\ Pending(w)' = Tail(buf[w])
  BY <1>1 DEF Pending
<1> HIDE DEF h
<1>6. (p \in follows') = (p \in follows)
  BY <1>1, <1>2, WrittenDecides
<1>7. /\ \A a : LastFor(queue, p, a) => LastFor(queue', p, a)
      /\ NoneFor(queue, p) => NoneFor(queue', p)
  <2>1. queue \in Seq(Events) /\ <<h>> \in Seq(Events)
    BY <1>2 DEF TypeOK
  <2>2. /\ \A a : LastFor(queue, p, a) => LastFor(Append(queue, h), p, a)
        /\ NoneFor(queue, p) => NoneFor(Append(queue, h), p)
    BY <1>1, <1>2, <2>1, Appended
  <2>3. NoneFor(<<h>>, p)
    BY <1>1 DEF NoneFor
  <2>4. /\ \A a : LastFor(queue, p, a) => LastFor(<<h>> \o queue, p, a)
        /\ NoneFor(queue, p) => NoneFor(<<h>> \o queue, p)
    BY <2>1, <2>3, Joined
  <2> QED
    BY <1>1, <2>2, <2>4
<1>8. \A v \in SocialWorkers \ {u} : NoneFor(buf'[v], p)
  BY <1>1, <1>2 DEF Keeper
<1>9. Said(p, Pending(u)', queue', follows', last'[p])
  <2>1. /\ \A a : LastFor(Pending(u), p, a) => LastFor(Pending(u)', p, a)
        /\ NoneFor(Pending(u), p) => NoneFor(Pending(u)', p)
    BY <1>2, <1>4, <1>5
  <2> QED
    BY <1>1, <1>6, <1>7, <2>1 DEF Keeper, Said
<1>10. u \in done' /\ First(u)'.pair = p => u \in done /\ First(u)' = First(u)
  BY <1>1, <1>3, <1>4
<1> QED
  BY <1>6, <1>8, <1>9, <1>10 DEF Keeper

\* What a lost worker gives back goes in front of the queue; an event that has
\* been handled says again what the row is.
LEMMA CrashKeeps ==
    ASSUME TypeOK, NEW p \in Pairs, NEW u \in SocialWorkers, Keeper(p, u), NEW w \in SocialWorkers,
           Crash(w)
    PROVE  Keeper(p, u)'
<1>1. /\ Busy(w) /\ buf'[w] = <<>> /\ done' = done \ {w} /\ queue' = buf[w] \o queue
      /\ \A v \in SocialWorkers \ {w} : buf'[v] = buf[v]
      /\ UNCHANGED <<follows, last>>
  BY DEF Crash, TypeOK
<1>2. buf[w] \in Seq(Events) /\ queue \in Seq(Events) /\ last[p] \in {"follow", "unfollow"}
  BY DEF TypeOK
<1>3. /\ NoneFor(queue', p) <=> NoneFor(buf[w], p) /\ NoneFor(queue, p)
      /\ \A a : LastFor(queue', p, a) <=>
                   LastFor(queue, p, a) \/ (NoneFor(queue, p) /\ LastFor(buf[w], p, a))
  BY <1>1, <1>2, Joined
<1>4. NoneFor(<<>>, p)
  BY DEF NoneFor
<1>5. \A v \in SocialWorkers \ {u} : NoneFor(buf'[v], p)
  BY <1>1, <1>4 DEF Keeper
<1>6. CASE w # u
  <2>1. NoneFor(buf[w], p)
    BY <1>6 DEF Keeper
  <2>2. Pending(u)' = Pending(u) /\ First(u)' = First(u) /\ (u \in done' <=> u \in done)
    BY <1>1, <1>6 DEF Pending, First
  <2>3. Said(p, Pending(u), queue', follows', last'[p])
    BY <1>1, <1>3, <2>1 DEF Keeper, Said
  <2> QED
    BY <1>1, <1>5, <2>2, <2>3 DEF Keeper
<1>7. CASE w = u
  <2>1. Pending(u)' = <<>> /\ u \notin done'
    BY <1>1, <1>7 DEF Pending
  <2>2. /\ NoneFor(Tail(buf[u]), p) =>
              IF p = First(u).pair THEN LastFor(buf[u], p, First(u).action) ELSE NoneFor(buf[u], p)
        /\ \A a : LastFor(Tail(buf[u]), p, a) => LastFor(buf[u], p, a)
        /\ First(u).action \in {"follow", "unfollow"}
    BY <1>1, <1>7, FirstFor, BufType
  <2>3. Said(p, Pending(u), queue, follows, last[p])
    BY DEF Keeper
  <2>4. Said(p, <<>>, queue', follows, last[p])
    <3>1. CASE u \notin done
      BY <1>3, <1>4, <1>7, <2>3, <3>1 DEF Said, Pending
    <3>2. CASE u \in done
      <4>1. Pending(u) = Tail(buf[u])
        BY <3>2 DEF Pending
      <4>2. CASE LastFor(queue, p, last[p]) \/ (NoneFor(queue, p) /\ LastFor(Tail(buf[u]), p, last[p]))
        BY <1>3, <1>7, <2>2, <4>2 DEF Said
      <4>3. CASE NoneFor(queue, p) /\ NoneFor(Tail(buf[u]), p) /\ (p \in follows) = (last[p] = "follow")
        <5>1. CASE First(u).pair = p
          <6>1. (p \in follows) = (First(u).action = "follow")
            BY <3>2, <5>1 DEF Keeper
          <6>2. First(u).action = last[p]
            BY <1>2, <2>2, <4>3, <6>1
          <6> QED
            BY <1>3, <1>7, <2>2, <4>3, <5>1, <6>2 DEF Said
        <5>2. CASE First(u).pair # p
          BY <1>3, <1>4, <1>7, <2>2, <4>3, <5>2 DEF Said
        <5> QED
          BY <5>1, <5>2
      <4> QED
        BY <2>3, <4>1, <4>2, <4>3 DEF Said
    <3> QED
      BY <3>1, <3>2
  <2> QED
    BY <1>1, <1>5, <2>1, <2>4 DEF Keeper
<1> QED
  BY <1>6, <1>7

\* Requests, the fallback and the notification worker leave the keeper as it is.
LEMMA RequestKeeps ==
    ASSUME TypeOK, NEW p \in Pairs, NEW u \in SocialWorkers, Keeper(p, u), p \notin shaken',
           NEW e \in Events, Publish(e) \/ PublishLost(e) \/ Fallback(e) \/ Echo(e)
    PROVE  Keeper(p, u)'
<1>0. queue \in Seq(Events) /\ last \in [Pairs -> {"follow", "unfollow"}] /\ e.pair \in Pairs
  BY DEF TypeOK, Events
<1>1. /\ \A a : p # e.pair /\ LastFor(queue, p, a) => LastFor(Append(queue, e), p, a)
      /\ p # e.pair /\ NoneFor(queue, p) => NoneFor(Append(queue, e), p)
  BY <1>0, Appended
<1>2. CASE Publish(e)
  <2>1. /\ queue' = Append(queue, e) /\ UNCHANGED <<follows, buf, done>>
        /\ last' = [last EXCEPT ![e.pair] = e.action]
    BY <1>2 DEF Publish, Routed, Accepted
  <2>2. CASE p = e.pair
    <3>1. last'[p] = e.action
      BY <1>0, <2>1, <2>2
    <3>2. LastFor(queue', p, e.action)
      BY <1>0, <2>1, <2>2, Appended
    <3>3. Pending(u)' = Pending(u) /\ First(u)' = First(u)
      BY <2>1 DEF Pending, First
    <3>4. Said(p, Pending(u)', queue', follows', last'[p])
      BY <3>1, <3>2 DEF Said
    <3> QED
      BY <2>1, <3>3, <3>4 DEF Keeper
  <2>3. CASE p # e.pair
    <3>1. last'[p] = last[p]
      BY <1>0, <2>1, <2>3
    <3> QED
      BY <1>1, <2>1, <2>3, <3>1, KeptAside
  <2> QED
    BY <2>2, <2>3
<1>3. CASE PublishLost(e)
  <2>1. /\ p # e.pair /\ UNCHANGED <<follows, queue, buf, done>>
        /\ last' = [last EXCEPT ![e.pair] = e.action]
    BY <1>3 DEF PublishLost, Shakes, Accepted
  <2>2. last'[p] = last[p]
    BY <1>0, <2>1
  <2> QED
    BY <2>1, <2>2, KeptAside
<1>4. CASE Fallback(e)
  <2>1. CASE e.action = "follow" /\ e.pair \in follows
    <3>1. UNCHANGED <<follows, queue, buf, done, last>>
      BY <1>4, <2>1 DEF Fallback
    <3> QED
      BY <3>1, KeptAside
  <2>2. CASE ~(e.action = "follow" /\ e.pair \in follows)
    <3>1. /\ p # e.pair /\ UNCHANGED <<queue, buf, done>> /\ Written(e)
          /\ last' = [last EXCEPT ![e.pair] = e.action]
      BY <1>4, <2>2 DEF Fallback, Shakes, Accepted
    <3>2. last'[p] = last[p] /\ (p \in follows') = (p \in follows)
      BY <1>0, <3>1, WrittenDecides
    <3> QED
      BY <3>1, <3>2, KeptAside
  <2> QED
    BY <2>1, <2>2
<1>5. CASE Echo(e)
  <2>1. p # e.pair /\ queue' = Append(queue, e) /\ UNCHANGED <<follows, buf, done, last>>
    BY <1>5 DEF Echo, Shakes, Routed
  <2> QED
    BY <1>1, <2>1, KeptAside
<1> QED
  BY <1>2, <1>3, <1>4, <1>5

\* No pair is settled again.
LEMMA ShakenStays ==
    ASSUME [Next]_vars
    PROVE  /\ shaken \subseteq shaken'
           /\ Social \/ UNCHANGED social
<1>1. ASSUME NEW r \in Reads, Begin(r) \/ Request(r) PROVE UNCHANGED social
  BY <1>1 DEF Begin, Request, Get, GetMiss, Lock, LockTaken, Recheck, RecheckMiss, Poll,
              PollsOver, OwnQuery, DBQuery, Store, Write, Answer, Hit, Moves, Query
<1>2. ASSUME NEW r \in Reads, RequestFails(r) PROVE UNCHANGED social
  BY <1>2 DEF RequestFails, GetFails, LockFails, RecheckFails, WriteFails, QueryFails, Moves
<1>3. ASSUME NEW k \in Keys, LockExpires(k) \/ PageExpires(k) PROVE UNCHANGED social
  BY <1>3 DEF LockExpires, PageExpires
<1>4. Social \/ UNCHANGED social
  BY <1>1, <1>2, <1>3 DEF Next, Clients, vars
<1>5. CASE UNCHANGED social
  BY <1>5, <1>4 DEF social
<1>6. ASSUME NEW e \in Events, Publish(e) \/ PublishLost(e) \/ Fallback(e) \/ Echo(e)
      PROVE  shaken \subseteq shaken'
  BY <1>6 DEF Publish, PublishLost, Fallback, Echo, Shakes
<1>7. ASSUME NEW w \in SocialWorkers, Worker(w) PROVE shaken \subseteq shaken'
  BY <1>7 DEF Worker, Deliver, Apply, Ack, StatementFails, Shakes, Retry, Requeue, DeadLetter, Crash
<1>8. ASSUME NEW q \in Pairs, NEW action \in {"follow", "unfollow"}, Check(q, action)
      PROVE  shaken \subseteq shaken'
  BY <1>8 DEF Check
<1> QED
  BY <1>4, <1>5, <1>6, <1>7, <1>8 DEF Social, Asks, Sends

\* For any number of workers and any prefetch, the last accepted request for a
\* pair decides what the workers make of it, crashes and redeliveries included,
\* unless its events were at two workers at a time or one of them was published
\* again, lost, given up or overtaken by the fallback.
THEOREM LastRequestDecides == Spec => []LastRequestWins
<1>1. Init => OrderInv
  <2> SUFFICES ASSUME Init, NEW p \in Pairs PROVE \E u \in SocialWorkers : Keeper(p, u)
    BY DEF OrderInv
  <2>1. PICK u \in SocialWorkers : TRUE
    OBVIOUS
  <2>2. NoneFor(<<>>, p)
    BY DEF NoneFor
  <2>3. Said(p, Pending(u), queue, follows, last[p])
    BY <2>2 DEF Init, Pending, Said
  <2>4. Keeper(p, u)
    BY <2>2, <2>3 DEF Init, Keeper
  <2> QED
    BY <2>4
<1>2. TypeOK /\ OrderInv /\ [Next]_vars => OrderInv'
  <2> SUFFICES ASSUME TypeOK, OrderInv, [Next]_vars, NEW p \in Pairs, p \notin shaken'
               PROVE  \E v \in SocialWorkers : Keeper(p, v)'
    BY DEF OrderInv
  <2>1. PICK u \in SocialWorkers : Keeper(p, u)
    BY ShakenStays DEF OrderInv
  <2>2. CASE UNCHANGED social
    BY <2>1, <2>2, KeptAside DEF social
  <2>3. ASSUME NEW q \in Pairs, NEW action \in {"follow", "unfollow"}, Check(q, action)
        PROVE  Keeper(p, u)'
    BY <2>1, <2>3, KeptAside DEF Check
  <2>4. ASSUME NEW e \in Events, Publish(e) \/ PublishLost(e) \/ Fallback(e) \/ Echo(e)
        PROVE  Keeper(p, u)'
    BY <2>1, <2>4, RequestKeeps
  <2>5. ASSUME NEW w \in SocialWorkers, Worker(w)
        PROVE  \E v \in SocialWorkers : Keeper(p, v)'
    BY <2>1, <2>5, DeliverKeeps, ApplyKeeps, AckKeeps, FailureKeeps, CrashKeeps DEF Worker
  <2> QED
    BY <2>2, <2>3, <2>4, <2>5, ShakenStays DEF Social, Asks, Sends
<1> QED
  BY <1>1, <1>2, KeeperDecides, TypeCorrect, PTL DEF Spec

=============================================================================
