--------------------------- MODULE PipelineProofs ---------------------------
(***************************************************************************)
(* Proofs about the likes of a video, for every set of users, requests and *)
(* worker processes and every bound on retries, prefetched deliveries and  *)
(* mishaps; and about its comments, for every set of calls of Publish and  *)
(* every bound on deletions and faults.                                    *)
(***************************************************************************)
EXTENDS LikePipeline, CommentPipeline, FiniteSetTheorems, SequenceTheorems, TLAPS

\* Only the workers of the pool have deliveries, and one without deliveries is
\* at the first statement.
BufInv == \A w \in LikeWorkers :
    /\ w \notin pool => buf[w] = <<>>
    /\ buf[w] = <<>> => stage[w] = "row"

\* The row statement of an event in the middle has taken effect, as long as one
\* worker alone writes.
AppliedInv ==
    SoleWriter /\ Never({"lost", "failure", "notify"}) =>
        \A w \in pool : stage[w] # "row" =>
            (Head(buf[w]).user \in liked) = (Head(buf[w]).action = "like")

USE LikeConstants

-----------------------------------------------------------------------------
(* Types and deliveries.                                                   *)

\* A queue with a message behind it, or without its first one.
LEMMA QueueType ==
    ASSUME NEW q \in Seq(Message)
    PROVE  /\ \A m \in Message : Append(q, m) \in Seq(Message) /\ Append(q, m) # <<>>
           /\ q # <<>> => Head(q) \in Message /\ Tail(q) \in Seq(Message)
BY HeadTailProperties, AppendProperties

\* The exchange routes a message to one queue or to both.
LEMMA RoutedType ==
    ASSUME TypeOK, NEW m \in Message, Routed(m)
    PROVE  queue' \in Seq(Message) /\ notify' \in Seq(Message)
BY QueueType DEF Routed, TypeOK

\* A message that failed goes back through the exchange, or nowhere.
LEMMA RetryType ==
    ASSUME TypeOK, NEW m \in Message, RetryOrDrop(m)
    PROVE  queue' \in Seq(Message) /\ notify' \in Seq(Message)
<1>1. m.retry < MaxRetryCount => [m EXCEPT !.retry = @ + 1] \in Message
  BY DEF Message
<1> QED
  BY <1>1, RoutedType DEF RetryOrDrop, TypeOK

\* The first delivery is done with.
LEMMA NextDeliveryType ==
    ASSUME TypeOK, NEW w \in LikeWorkers, Busy(w), NextDelivery(w)
    PROVE  /\ buf' \in [LikeWorkers -> Seq(Message)]
           /\ stage' \in [LikeWorkers -> {"row", "ack"} \cup Counters]
<1>1. Tail(buf[w]) \in Seq(Message)
  BY QueueType DEF Busy, TypeOK
<1> QED
  BY <1>1 DEF NextDelivery, TypeOK

\* A mishap is counted.
LEMMA BadType ==
    ASSUME TypeOK, NEW kind \in Mishaps, NEW max, Bad(kind, max)
    PROVE  bad' \in [Mishaps -> Nat] /\ bad'[kind] > 0 /\ \A k \in Mishaps : bad'[k] >= bad[k]
BY DEF TypeOK, Bad

\* The requests, the workers and the notification consumer keep tables, queues
\* and deliveries within their types.
THEOREM TypeCorrect == Spec => []TypeOK
<1>1. Init => TypeOK
  BY EmptySeq DEF Init, TypeOK, Counters, Mishaps, Actions
<1>2. TypeOK /\ [Next]_vars => TypeOK'
  <2> SUFFICES ASSUME TypeOK, [Next]_vars PROVE TypeOK'
    OBVIOUS
  <2>0. /\ "fallback" \in Mishaps /\ "failure" \in Mishaps /\ "notify" \in Mishaps
        /\ "crash" \in Mishaps /\ "lost" \in Mishaps
    BY DEF Mishaps
  <2>1. ASSUME NEW r \in open, NEW u \in Users, NEW a \in Actions, Check(r, u, a) PROVE TypeOK'
    BY <2>1 DEF Check, TypeOK, Checked
  <2>2. ASSUME NEW p \in checked, Enqueue(p) PROVE TypeOK'
    <3>1. p.user \in Users /\ p.action \in Actions
      BY DEF TypeOK, Checked
    <3>2. [user |-> p.user, action |-> p.action, retry |-> 0] \in Message
      BY <3>1 DEF Message
    <3>3. queue' \in Seq(Message) /\ notify' \in Seq(Message)
      BY <2>2, <3>2, RoutedType DEF Enqueue
    <3> QED
      BY <2>2, <3>1, <3>3 DEF Enqueue, TypeOK
  <2>3. ASSUME NEW p \in checked, Fallback(p) PROVE TypeOK'
    <3>1. p.user \in Users /\ p.action \in Actions
      BY DEF TypeOK, Checked
    <3>2. bad' \in [Mishaps -> Nat]
      BY <2>0, <2>3, BadType DEF Fallback
    <3>3. counter' \in [Counters -> Nat] /\ clamps' \in Nat /\ liked' \subseteq Users
          /\ last' \in [Users -> Actions]
      <4>1. CASE Effective(p)
        <5>1. /\ counter' = [x \in Counters |-> Greatest(counter[x] + Delta(p.action))]
              /\ clamps' = clamps + Clamped("likes_count", p.action) + Clamped("popularity", p.action)
              /\ liked' = RowsAfter(p) /\ last' = [last EXCEPT ![p.user] = p.action]
          BY <2>3, <4>1 DEF Fallback
        <5>2. \A n \in Int : Greatest(n) \in Nat
          BY DEF Greatest
        <5>3. Delta(p.action) \in Int /\ \A x \in Counters : Clamped(x, p.action) \in Nat
          BY DEF Delta, Clamped
        <5>4. "likes_count" \in Counters /\ "popularity" \in Counters
          BY DEF Counters
        <5>5. counter' \in [Counters -> Nat]
          BY <5>1, <5>2, <5>3 DEF TypeOK
        <5>6. clamps' \in Nat
          BY <5>1, <5>3, <5>4 DEF TypeOK
        <5> QED
          BY <3>1, <5>1, <5>5, <5>6 DEF RowsAfter, TypeOK
      <4>2. CASE ~Effective(p)
        BY <2>3, <4>2 DEF Fallback, TypeOK
      <4> QED
        BY <4>1, <4>2
    <3> QED
      BY <2>3, <3>2, <3>3 DEF Fallback, TypeOK
  <2>4. ASSUME NEW w \in LikeWorkers, Deliver(w) PROVE TypeOK'
    BY <2>4, QueueType DEF Deliver, TypeOK
  <2>5. ASSUME NEW w \in LikeWorkers, ApplyRow(w) PROVE TypeOK'
    <3>1. Head(buf[w]).user \in Users
      BY <2>5, QueueType DEF ApplyRow, Busy, TypeOK, Message
    <3> QED
      BY <2>5, <3>1 DEF ApplyRow, RowsAfter, AfterRow, TypeOK, Counters
  <2>6. ASSUME NEW w \in LikeWorkers, NEW x \in Counters, ChangeCounter(w, x) PROVE TypeOK'
    BY <2>6 DEF ChangeCounter, Greatest, Delta, Clamped, TypeOK, Counters
  <2>7. ASSUME NEW w \in LikeWorkers, Ack(w) PROVE TypeOK'
    BY <2>7, NextDeliveryType DEF Ack, TypeOK
  <2>8. ASSUME NEW w \in LikeWorkers, StatementFails(w) PROVE TypeOK'
    <3>1. Head(buf[w]) \in Message
      BY <2>8, QueueType DEF StatementFails, Busy, TypeOK
    <3>2. queue' \in Seq(Message) /\ notify' \in Seq(Message)
      BY <2>8, <3>1, RetryType DEF StatementFails
    <3>3. bad' \in [Mishaps -> Nat]
      BY <2>0, <2>8, BadType DEF StatementFails
    <3>4. /\ buf' \in [LikeWorkers -> Seq(Message)]
          /\ stage' \in [LikeWorkers -> {"row", "ack"} \cup Counters]
      BY <2>8, NextDeliveryType DEF StatementFails
    <3> QED
      BY <2>8, <3>2, <3>3, <3>4 DEF StatementFails, TypeOK
  <2>9. ASSUME NEW w \in LikeWorkers, Crash(w) PROVE TypeOK'
    <3>1. bad' \in [Mishaps -> Nat]
      BY <2>0, <2>9, BadType DEF Crash
    <3>2. queue' \in Seq(Message)
      BY <2>9, ConcatProperties DEF Crash, Returned, TypeOK
    <3>3. buf' \in [LikeWorkers -> Seq(Message)]
      BY <2>9, EmptySeq DEF Crash, TypeOK
    <3> QED
      BY <2>9, <3>1, <3>2, <3>3 DEF Crash, TypeOK
  <2>10. CASE NotifyOK
    BY <2>10, QueueType DEF NotifyOK, TypeOK
  <2>11. CASE NotifyFails
    <3>1. Head(notify) \in Message /\ Tail(notify) \in Seq(Message)
      BY <2>11, QueueType DEF NotifyFails, TypeOK
    <3>2. Head(notify).retry < MaxRetryCount => [Head(notify) EXCEPT !.retry = @ + 1] \in Message
      BY <3>1 DEF Message
    <3>3. queue' \in Seq(Message) /\ notify' \in Seq(Message)
      BY <2>11, <3>1, <3>2, QueueType DEF NotifyFails, TypeOK
    <3>4. bad' \in [Mishaps -> Nat]
      BY <2>0, <2>11, BadType DEF NotifyFails
    <3> QED
      BY <2>11, <3>3, <3>4 DEF NotifyFails, TypeOK
  <2>12. CASE UNCHANGED vars
    BY <2>12 DEF vars, TypeOK
  <2>13. pool \subseteq LikeWorkers
    BY DEF TypeOK
  <2>14. ASSUME NEW p \in checked, EnqueueLost(p) PROVE TypeOK'
    <3>1. p.user \in Users /\ p.action \in Actions
      BY DEF TypeOK, Checked
    <3>2. bad' \in [Mishaps -> Nat]
      BY <2>0, <2>14, BadType DEF EnqueueLost
    <3> QED
      BY <2>14, <3>1, <3>2 DEF EnqueueLost, TypeOK
  <2> QED
    BY <2>1, <2>2, <2>3, <2>4, <2>5, <2>6, <2>7, <2>8, <2>9, <2>10, <2>11, <2>12, <2>13, <2>14
    DEF Next, Api, Worker
<1> QED
  BY <1>1, <1>2, PTL DEF Spec

\* A worker without deliveries is at the first statement: every step that takes
\* the last delivery away goes back there.
LEMMA Deliveries == Spec => []BufInv
<1>1. Init => BufInv
  BY DEF Init, BufInv
<1>2. TypeOK /\ BufInv /\ [Next]_vars => BufInv'
  <2> SUFFICES ASSUME TypeOK, BufInv, [Next]_vars PROVE BufInv'
    OBVIOUS
  <2>0. pool \subseteq LikeWorkers
    BY DEF TypeOK
  <2>1. CASE Api
    BY <2>1 DEF Api, Check, Enqueue, EnqueueLost, Fallback, BufInv
  <2>2. ASSUME NEW w \in pool, Deliver(w) PROVE BufInv'
    <3>1. Append(buf[w], Head(queue)) # <<>>
      BY <2>0, <2>2, QueueType DEF Deliver, TypeOK
    <3> QED
      BY <2>0, <2>2, <3>1 DEF Deliver, BufInv, TypeOK
  <2>3. ASSUME NEW w \in pool, ApplyRow(w) \/ \E x \in Counters : ChangeCounter(w, x) PROVE BufInv'
    BY <2>0, <2>3 DEF ApplyRow, ChangeCounter, Busy, BufInv, TypeOK
  <2>4. ASSUME NEW w \in pool, Ack(w) \/ StatementFails(w) PROVE BufInv'
    BY <2>0, <2>4 DEF Ack, StatementFails, NextDelivery, BufInv, TypeOK
  <2>5. ASSUME NEW w \in pool, Crash(w) PROVE BufInv'
    BY <2>0, <2>5 DEF Crash, BufInv, TypeOK
  <2>6. CASE NotifyOK \/ NotifyFails \/ UNCHANGED vars
    BY <2>6 DEF NotifyOK, NotifyFails, vars, BufInv
  <2> QED
    BY <2>1, <2>2, <2>3, <2>4, <2>5, <2>6 DEF Next, Worker
<1> QED
  BY <1>1, <1>2, TypeCorrect, PTL DEF Spec

-----------------------------------------------------------------------------
(* The counters and the likes table.                                       *)

\* Worker w has changed the row of its event and not yet counter x.
Owing(w, x) == Busy(w) /\ stage[w] \in Due(x)

\* What w will still add to counter x for it.
Debt(w, x) == IF Owing(w, x) THEN Delta(Head(buf[w]).action) ELSE 0

Debtors(x, a) == {w \in LikeWorkers : Owing(w, x) /\ Head(buf[w]).action = a}

\* Debtors are counted.
LEMMA OwedIsCount ==
    ASSUME NEW x, NEW a
    PROVE  /\ Owed(x, a) = Cardinality(Debtors(x, a)) /\ Owed(x, a) \in Nat
           /\ IsFiniteSet(Debtors(x, a))
<1>1. IsFiniteSet(Debtors(x, a))
  BY FS_Subset DEF Debtors
<1>2. Owed(x, a) = Cardinality(Debtors(x, a))
  BY DEF Owed, Debtors, Owing
<1> QED
  BY <1>1, <1>2, FS_CardinalityType

\* A step of one worker changes the number of debtors by that worker alone.
LEMMA OwedStep ==
    ASSUME NEW w \in LikeWorkers, NEW x, NEW a,
           \A v \in LikeWorkers \ {w} : buf'[v] = buf[v] /\ stage'[v] = stage[v]
    PROVE  Owed(x, a)' = Owed(x, a) - (IF w \in Debtors(x, a) THEN 1 ELSE 0)
                                    + (IF w \in Debtors(x, a)' THEN 1 ELSE 0)
<1>1. \A v \in LikeWorkers \ {w} : v \in Debtors(x, a)' <=> v \in Debtors(x, a)
  BY DEF Debtors, Owing, Busy, Due
<1>2. /\ Owed(x, a) = Cardinality(Debtors(x, a)) /\ Owed(x, a) \in Nat
      /\ IsFiniteSet(Debtors(x, a))
  BY OwedIsCount
<1>3. Owed(x, a)' = Cardinality(Debtors(x, a)')
  BY DEF Owed, Debtors, Owing, Busy
<1>4. Debtors(x, a) \subseteq LikeWorkers /\ Debtors(x, a)' \subseteq LikeWorkers
  BY DEF Debtors
<1> DEFINE D == Debtors(x, a)
           E == Debtors(x, a)'
<1>d. /\ IsFiniteSet(D) /\ Owed(x, a) = Cardinality(D) /\ Cardinality(D) \in Nat
      /\ Owed(x, a)' = Cardinality(E)
  BY <1>2, <1>3
<1> SUFFICES Cardinality(E) = Cardinality(D) - (IF w \in D THEN 1 ELSE 0) + (IF w \in E THEN 1 ELSE 0)
  BY <1>d
<1> HIDE DEF D, E
<1>5. CASE w \in E
  <2>1. E = D \cup {w}
    BY <1>1, <1>4, <1>5 DEF D, E
  <2>2. Cardinality(D \cup {w}) = IF w \in D THEN Cardinality(D) ELSE Cardinality(D) + 1
    BY <1>d, FS_AddElement
  <2> QED
    BY <1>d, <1>5, <2>1, <2>2
<1>6. CASE w \notin E
  <2>1. E = D \ {w}
    BY <1>1, <1>4, <1>6 DEF D, E
  <2>2. Cardinality(D \ {w}) = IF w \in D THEN Cardinality(D) - 1 ELSE Cardinality(D)
    BY <1>d, FS_RemoveElement
  <2> QED
    BY <1>d, <1>6, <2>1, <2>2
<1> QED
  BY <1>5, <1>6

\* So the expected value of a counter changes by the rows and by its debt.
LEMMA ExpectedStep ==
    ASSUME TypeOK, TypeOK', NEW w \in LikeWorkers, NEW x \in Counters,
           \A v \in LikeWorkers \ {w} : buf'[v] = buf[v] /\ stage'[v] = stage[v]
    PROVE  /\ Expected(x) \in Int /\ Expected(x)' \in Int
           /\ Debt(w, x) \in Int /\ Debt(w, x)' \in Int
           /\ Expected(x)' = Expected(x) + Cardinality(liked') - Cardinality(liked)
                              + Debt(w, x) - Debt(w, x)'
<1>1. Cardinality(liked) \in Nat /\ Cardinality(liked') \in Nat
  BY FS_Subset, FS_CardinalityType DEF TypeOK
<1>2. \A a \in Actions : Owed(x, a) \in Nat
  BY OwedIsCount
<1>3. \A a \in Actions :
         Owed(x, a)' = Owed(x, a) - (IF w \in Debtors(x, a) THEN 1 ELSE 0)
                                  + (IF w \in Debtors(x, a)' THEN 1 ELSE 0)
  BY OwedStep
<1>4. Busy(w) => Head(buf[w]).action \in Actions
  BY QueueType DEF Busy, TypeOK, Message
<1>5. Busy(w)' => Head(buf'[w]).action \in Actions
  BY QueueType DEF Busy, TypeOK, Message
<1>6. /\ Debt(w, x) \in Int
      /\ Debt(w, x) = (IF w \in Debtors(x, "like") THEN 1 ELSE 0)
                       - (IF w \in Debtors(x, "unlike") THEN 1 ELSE 0)
  BY <1>4 DEF Debt, Debtors, Owing, Delta, Actions
<1>7. /\ Debt(w, x)' \in Int
      /\ Debt(w, x)' = (IF w \in Debtors(x, "like")' THEN 1 ELSE 0)
                        - (IF w \in Debtors(x, "unlike")' THEN 1 ELSE 0)
  BY <1>5 DEF Debt, Debtors, Owing, Delta, Actions
<1>8. "like" \in Actions /\ "unlike" \in Actions
  BY DEF Actions
<1>9. /\ Expected(x) = Cardinality(liked) - Owed(x, "like") + Owed(x, "unlike")
      /\ Expected(x)' = Cardinality(liked') - Owed(x, "like")' + Owed(x, "unlike")'
  BY DEF Expected
<1>10. Owed(x, "like")' \in Int /\ Owed(x, "unlike")' \in Int
  BY <1>2, <1>3, <1>8
<1>11. Expected(x) \in Int /\ Expected(x)' \in Int
  BY <1>1, <1>2, <1>8, <1>9, <1>10
<1> QED
  BY <1>1, <1>2, <1>3, <1>6, <1>7, <1>8, <1>9, <1>11

\* The statement that changes the row adds or removes as much as it owes.
LEMMA RowsCounted ==
    ASSUME TypeOK, NEW m, m.user \in Users, m.action \in Actions
    PROVE  /\ Effective(m) => Cardinality(RowsAfter(m)) = Cardinality(liked) + Delta(m.action)
           /\ ~Effective(m) => RowsAfter(m) = liked
           /\ Cardinality(liked) \in Nat
<1>1. IsFiniteSet(liked) /\ Cardinality(liked) \in Nat
  BY FS_Subset, FS_CardinalityType DEF TypeOK
<1>2. CASE m.action = "like"
  <2>1. RowsAfter(m) = liked \cup {m.user} /\ Delta(m.action) = 1 /\ Effective(m) = (m.user \notin liked)
    BY <1>2 DEF Effective, RowsAfter, Delta
  <2>2. m.user \notin liked => Cardinality(liked \cup {m.user}) = Cardinality(liked) + 1
    BY <1>1, FS_AddElement
  <2> QED
    BY <1>1, <2>1, <2>2
<1>3. CASE m.action = "unlike"
  <2>1. RowsAfter(m) = liked \ {m.user} /\ Delta(m.action) = -1 /\ Effective(m) = (m.user \in liked)
    BY <1>3 DEF Effective, RowsAfter, Delta
  <2>2. m.user \in liked => Cardinality(liked \ {m.user}) = Cardinality(liked) - 1
    BY <1>1, FS_RemoveElement
  <2> QED
    BY <1>1, <2>1, <2>2
<1> QED
  BY <1>1, <1>2, <1>3 DEF Actions

\* A step that touches no delivery changes the expected value by the rows alone.
LEMMA ExpectedFrame ==
    ASSUME TypeOK, TypeOK', UNCHANGED <<buf, stage>>, NEW x \in Counters
    PROVE  /\ Expected(x) \in Int /\ Expected(x)' \in Int
           /\ Expected(x)' = Expected(x) + Cardinality(liked') - Cardinality(liked)
<1>1. PICK w \in LikeWorkers : TRUE
  BY DEF TypeOK
<1>2. Debt(w, x)' = Debt(w, x)
  BY DEF Debt, Owing, Busy, Due
<1>3. Cardinality(liked) \in Nat /\ Cardinality(liked') \in Nat
  BY FS_Subset, FS_CardinalityType DEF TypeOK
<1>4. /\ Expected(x) \in Int /\ Expected(x)' \in Int
      /\ Debt(w, x) \in Int
      /\ Expected(x)' = Expected(x) + Cardinality(liked') - Cardinality(liked)
                         + Debt(w, x) - Debt(w, x)'
  BY ExpectedStep
<1> QED
  BY <1>2, <1>3, <1>4

\* A worker in the first or the last statement of an event owes nothing.
LEMMA NoDebt ==
    ASSUME NEW w, NEW x \in Counters
    PROVE  /\ Due(x) \subseteq Counters /\ "row" \notin Counters /\ "ack" \notin Counters
           /\ stage[w] \notin Counters => Debt(w, x) = 0
BY DEF Debt, Owing, Due, Counters

\* What a message adds, with and without the clamp of GREATEST.
LEMMA ClampedChange ==
    ASSUME TypeOK, NEW x \in Counters, NEW a \in Actions
    PROVE  /\ Delta(a) \in {-1, 1} /\ Clamped(x, a) \in {0, 1}
           /\ Greatest(counter[x] + Delta(a)) = counter[x] + Delta(a) + Clamped(x, a)
           /\ Clamped(x, a) = 1 => a = "unlike" /\ counter[x] = 0
BY DEF TypeOK, Delta, Clamped, Greatest, Actions

\* No step moves a counter further from the likes table than it counts.
LEMMA DriftStep ==
    ASSUME TypeOK, TypeOK', BufInv, DriftBounded, [Next]_vars, NEW x \in Counters
    PROVE  /\ counter'[x] - Expected(x)' <= partial' + clamps'
           /\ Expected(x)' - counter'[x] <= partial' + clamps'
<1> DEFINE P == /\ counter'[x] - Expected(x)' <= partial' + clamps'
                /\ Expected(x)' - counter'[x] <= partial' + clamps'
           rowsUp == Cardinality(liked') - Cardinality(liked)
<1>1. /\ counter[x] \in Nat /\ counter'[x] \in Nat
      /\ partial \in Nat /\ partial' \in Nat /\ clamps \in Nat /\ clamps' \in Nat
      /\ Cardinality(liked) \in Nat /\ Cardinality(liked') \in Nat
  BY FS_Subset, FS_CardinalityType DEF TypeOK
<1>2. /\ counter[x] - Expected(x) <= partial + clamps
      /\ Expected(x) - counter[x] <= partial + clamps
  BY DEF DriftBounded
<1>3. pool \subseteq LikeWorkers /\ \A p \in checked : p.user \in Users /\ p.action \in Actions
  BY DEF TypeOK, Checked
<1>4. ASSUME UNCHANGED <<buf, stage, liked, counter, partial, clamps>> PROVE P
  <2>1. Expected(x) \in Int /\ Expected(x)' = Expected(x)
    BY <1>1, <1>4, ExpectedFrame
  <2> QED
    BY <1>1, <1>2, <1>4, <2>1
<1>5. ASSUME NEW p \in checked, Fallback(p) PROVE P
  <2>1. CASE Effective(p)
    <3>1. /\ UNCHANGED <<buf, stage, partial>> /\ liked' = RowsAfter(p)
          /\ counter' = [y \in Counters |-> Greatest(counter[y] + Delta(p.action))]
          /\ clamps' = clamps + Clamped("likes_count", p.action) + Clamped("popularity", p.action)
      BY <1>5, <2>1 DEF Fallback
    <3>2. /\ Delta(p.action) \in {-1, 1}
          /\ counter'[x] = counter[x] + Delta(p.action) + Clamped(x, p.action)
          /\ \A y \in Counters : Clamped(y, p.action) \in {0, 1}
      BY <1>3, <3>1, ClampedChange
    <3>3. clamps' >= clamps + Clamped(x, p.action)
      BY <1>1, <3>1, <3>2 DEF Counters
    <3>4. Cardinality(liked') = Cardinality(liked) + Delta(p.action)
      BY <1>3, <2>1, <3>1, RowsCounted
    <3>5. Expected(x) \in Int /\ Expected(x)' = Expected(x) + Delta(p.action)
      BY <1>1, <3>1, <3>2, <3>4, ExpectedFrame
    <3>6. Clamped(x, p.action) \in {0, 1} /\ partial' = partial
      BY <3>1, <3>2
    <3> QED
      BY <1>1, <1>2, <3>2, <3>3, <3>5, <3>6
  <2>2. CASE ~Effective(p)
    BY <1>4, <1>5, <2>2 DEF Fallback
  <2> QED
    BY <2>1, <2>2
<1>6. ASSUME NEW w \in LikeWorkers, UNCHANGED counter, clamps' = clamps,
             partial' >= partial, NEW d \in {-1, 0, 1}, d # 0 => partial' = partial + 1,
             \A v \in LikeWorkers \ {w} : buf'[v] = buf[v] /\ stage'[v] = stage[v],
             rowsUp + Debt(w, x) - Debt(w, x)' = d
      PROVE  P
  <2>1. /\ Expected(x) \in Int
        /\ Debt(w, x) \in Int /\ Debt(w, x)' \in Int
        /\ Expected(x)' = Expected(x) + Cardinality(liked') - Cardinality(liked)
                           + Debt(w, x) - Debt(w, x)'
    BY <1>6, ExpectedStep
  <2>2. Expected(x)' = Expected(x) + d
    BY <1>1, <1>6, <2>1
  <2> QED
    BY <1>1, <1>2, <1>6, <2>1, <2>2
<1>7. ASSUME NEW w \in LikeWorkers, Deliver(w) PROVE P
  <2>1. buf' = [buf EXCEPT ![w] = Append(buf[w], Head(queue))] /\ stage' = stage
    BY <1>7 DEF Deliver
  <2>2. buf[w] \in Seq(Message) /\ buf'[w] = Append(buf[w], Head(queue)) /\ buf'[w] # <<>>
    BY <1>7, <2>1, QueueType DEF Deliver, TypeOK
  <2>3. Debt(w, x)' = Debt(w, x)
    <3>1. CASE buf[w] = <<>>
      <4>1. stage[w] = "row" /\ stage'[w] = "row"
        BY <2>1, <3>1 DEF BufInv
      <4> QED
        BY <4>1, NoDebt DEF Debt, Owing
    <3>2. CASE buf[w] # <<>>
      <4>1. Head(buf'[w]) = Head(buf[w])
        BY <2>2, <3>2, HeadTailAppend
      <4> QED
        BY <2>1, <2>2, <3>2, <4>1 DEF Debt, Owing, Busy, Due
    <3> QED
      BY <3>1, <3>2
  <2>4. Debt(w, x) \in Int
    BY ExpectedStep, <2>1 DEF TypeOK
  <2>5. UNCHANGED <<counter, clamps, partial, liked>>
    BY <1>7 DEF Deliver
  <2>6. rowsUp + Debt(w, x) - Debt(w, x)' = 0
    BY <1>1, <2>3, <2>4, <2>5
  <2> QED
    BY <1>1, <1>6, <2>1, <2>5, <2>6 DEF TypeOK
<1>8. ASSUME NEW w \in LikeWorkers, ApplyRow(w) PROVE P
  <2> DEFINE m == Head(buf[w])
  <2>1. /\ stage[w] = "row" /\ Busy(w) /\ buf' = buf /\ liked' = RowsAfter(m)
        /\ stage' = [stage EXCEPT ![w] = AfterRow(m)]
        /\ UNCHANGED <<counter, clamps, partial>>
    BY <1>8 DEF ApplyRow
  <2>2. m.user \in Users /\ m.action \in Actions
    BY <2>1, QueueType DEF Busy, TypeOK, Message
  <2>3. Debt(w, x) = 0
    BY <2>1, NoDebt
  <2>4. stage'[w] = AfterRow(m) /\ Busy(w)' /\ Head(buf'[w]) = m
    BY <2>1 DEF TypeOK, Busy
  <2>5. Debt(w, x)' = rowsUp
    <3>1. CASE Effective(m)
      <4>1. stage'[w] \in Due(x)
        BY <2>4, <3>1 DEF AfterRow, Due, Counters
      <4>2. Debt(w, x)' = Delta(m.action)
        BY <2>4, <4>1 DEF Debt, Owing, Due
      <4>3. Cardinality(liked') = Cardinality(liked) + Delta(m.action)
        BY <2>1, <2>2, <3>1, RowsCounted
      <4>4. Delta(m.action) \in Int
        BY DEF Delta
      <4> QED
        BY <1>1, <4>2, <4>3, <4>4
    <3>2. CASE ~Effective(m)
      <4>1. stage'[w] \notin Due(x)
        BY <2>4, <3>2, NoDebt DEF AfterRow
      <4>2. Debt(w, x)' = 0
        BY <4>1 DEF Debt, Owing, Due
      <4>3. liked' = liked
        BY <2>1, <2>2, <3>2, RowsCounted
      <4> QED
        BY <1>1, <4>2, <4>3
    <3> QED
      BY <3>1, <3>2
  <2>6. rowsUp + Debt(w, x) - Debt(w, x)' = 0
    BY <1>1, <2>3, <2>5
  <2> QED
    BY <1>1, <1>6, <2>1, <2>6 DEF TypeOK
<1>9. ASSUME NEW w \in LikeWorkers, NEW y \in Counters, ChangeCounter(w, y) PROVE P
  <2> DEFINE a == Head(buf[w]).action
  <2>1. /\ stage[w] = y /\ Busy(w) /\ UNCHANGED <<buf, liked, partial>>
        /\ counter' = [counter EXCEPT ![y] = Greatest(counter[y] + Delta(a))]
        /\ clamps' = clamps + Clamped(y, a)
        /\ stage' = [stage EXCEPT ![w] = IF y = "likes_count" THEN "popularity" ELSE "ack"]
    BY <1>9 DEF ChangeCounter
  <2>2. a \in Actions
    BY <2>1, QueueType DEF Busy, TypeOK, Message
  <2>3. stage'[w] = (IF y = "likes_count" THEN "popularity" ELSE "ack") /\ Busy(w)'
    BY <2>1 DEF TypeOK, Busy
  <2>4. /\ Expected(x) \in Int /\ Debt(w, x) \in Int /\ Debt(w, x)' \in Int
        /\ Expected(x)' = Expected(x) + Cardinality(liked') - Cardinality(liked)
                           + Debt(w, x) - Debt(w, x)'
    BY <2>1, ExpectedStep DEF TypeOK
  <2>5. Delta(a) \in {-1, 1} /\ Clamped(y, a) \in {0, 1}
        /\ Greatest(counter[y] + Delta(a)) = counter[y] + Delta(a) + Clamped(y, a)
    BY <2>2, ClampedChange
  <2>6. CASE x = y
    <3>1. stage[w] \in Due(x) /\ stage'[w] \notin Due(x)
      BY <2>1, <2>3, <2>6 DEF Due, Counters
    <3>2. Debt(w, x) = Delta(a) /\ Debt(w, x)' = 0
      BY <2>1, <2>3, <3>1 DEF Debt, Owing, Due
    <3>3. counter'[x] = counter[x] + Delta(a) + Clamped(y, a)
      BY <2>1, <2>5, <2>6 DEF TypeOK
    <3>4. Expected(x)' = Expected(x) + Delta(a)
      BY <1>1, <2>1, <2>4, <2>5, <3>2
    <3> QED
      BY <1>1, <1>2, <2>1, <2>4, <2>5, <3>3, <3>4
  <2>7. CASE x # y
    <3>1. Debt(w, x)' = Debt(w, x)
      <4>1. stage[w] \in Due(x) <=> stage'[w] \in Due(x)
        BY <2>1, <2>3, <2>7 DEF Due, Counters
      <4> QED
        BY <2>1, <2>3, <4>1 DEF Debt, Owing, Due
    <3>2. counter'[x] = counter[x]
      BY <2>1, <2>7 DEF TypeOK
    <3>3. Expected(x)' = Expected(x)
      BY <1>1, <2>1, <2>4, <3>1
    <3> QED
      BY <1>1, <1>2, <2>1, <2>4, <2>5, <3>2, <3>3
  <2> QED
    BY <2>6, <2>7
<1>10. ASSUME NEW w \in LikeWorkers, Ack(w) \/ StatementFails(w) \/ Crash(w) PROVE P
  <2>1. /\ Busy(w) /\ UNCHANGED <<liked, counter, clamps>>
        /\ stage' = [stage EXCEPT ![w] = "row"]
        /\ \A v \in LikeWorkers \ {w} : buf'[v] = buf[v] /\ stage'[v] = stage[v]
        /\ partial' = partial + (IF stage[w] \in Counters THEN 1 ELSE 0)
    <3>1. CASE Ack(w)
      <4>1. stage[w] \notin Counters
        BY <3>1 DEF Ack, Counters
      <4> QED
        BY <1>1, <3>1, <4>1 DEF Ack, NextDelivery, TypeOK
    <3>2. CASE StatementFails(w)
      BY <3>2 DEF StatementFails, NextDelivery, TypeOK
    <3>3. CASE Crash(w)
      BY <3>3 DEF Crash, TypeOK
    <3> QED
      BY <1>10, <3>1, <3>2, <3>3
  <2>2. stage'[w] = "row"
    BY <2>1 DEF TypeOK
  <2>3. Debt(w, x)' = 0
    BY <2>2, NoDebt DEF Debt, Owing, Due
  <2>4. Head(buf[w]).action \in Actions
    BY <2>1, QueueType DEF Busy, TypeOK, Message
  <2>5. Debt(w, x) \in {-1, 0, 1} /\ (Debt(w, x) # 0 => stage[w] \in Counters)
    BY <2>4, ClampedChange, NoDebt DEF Debt
  <2>6. rowsUp + Debt(w, x) - Debt(w, x)' = Debt(w, x)
    BY <1>1, <2>1, <2>3, <2>5
  <2> QED
    BY <1>1, <1>6, <2>1, <2>5, <2>6
<1>11. CASE NotifyOK \/ NotifyFails \/ UNCHANGED vars
  BY <1>4, <1>11 DEF NotifyOK, NotifyFails, vars
<1>12. ASSUME NEW r \in open, NEW u \in Users, NEW a \in Actions, Check(r, u, a) PROVE P
  BY <1>4, <1>12 DEF Check
<1>13. ASSUME NEW p \in checked, Enqueue(p) \/ EnqueueLost(p) PROVE P
  BY <1>4, <1>13 DEF Enqueue, EnqueueLost
<1> QED
  BY <1>3, <1>5, <1>7, <1>8, <1>9, <1>10, <1>11, <1>12, <1>13 DEF Next, Api, Worker

\* LikeWorker changes the row and the two counters in three statements, without
\* a transaction: each counter stays within one of the likes table for each
\* event abandoned between them and each decrement that GREATEST clamped.
THEOREM CountersDrift == Spec => []DriftBounded
<1>1. Init => DriftBounded
  <2> SUFFICES ASSUME Init, NEW x \in Counters
               PROVE  counter[x] = 0 /\ Expected(x) = 0 /\ partial = 0 /\ clamps = 0
    BY DEF DriftBounded
  <2>1. \A a : Owed(x, a) = 0
    <3>1. \A a : Debtors(x, a) = {}
      BY DEF Init, Debtors, Owing, Busy
    <3> QED
      BY <3>1, OwedIsCount, FS_EmptySet
  <2> QED
    BY <2>1, FS_EmptySet DEF Init, Expected
<1>2. TypeOK /\ TypeOK' /\ BufInv /\ DriftBounded /\ [Next]_vars => DriftBounded'
  BY DriftStep DEF DriftBounded
<1> QED
  BY <1>1, <1>2, TypeCorrect, Deliveries, PTL DEF Spec

-----------------------------------------------------------------------------
(* One writer.                                                             *)

\* Mishaps are never taken back and the pool does not change: who is the sole
\* writer now was so before.
LEMMA StaysSole ==
    ASSUME TypeOK, [Next]_vars
    PROVE  /\ pool' = pool
           /\ \A k \in Mishaps : bad'[k] = 0 => bad[k] = 0
           /\ SoleWriter' => SoleWriter
           /\ Never({"lost", "failure", "notify"})' => Never({"lost", "failure", "notify"})
<1>1. pool' = pool
  BY DEF Next, vars, Api, Check, Enqueue, EnqueueLost, Fallback, Worker, Deliver, ApplyRow, ChangeCounter, Ack,
         StatementFails, Crash, NotifyOK, NotifyFails
<1>2. bad' = bad \/ \E k \in Mishaps : \E max : Bad(k, max)
  BY DEF Next, vars, Api, Check, Enqueue, EnqueueLost, Fallback, Worker, Deliver, ApplyRow, ChangeCounter, Ack,
         StatementFails, Crash, NotifyOK, NotifyFails, Mishaps
<1>3. \A k \in Mishaps : bad[k] \in Nat
  BY DEF TypeOK
<1>4. ASSUME NEW k \in Mishaps, bad'[k] = 0 PROVE bad[k] = 0
  <2>1. CASE bad' = bad
    BY <1>4, <2>1
  <2>2. ASSUME NEW j \in Mishaps, NEW max, Bad(j, max) PROVE bad[k] = 0
    BY <1>3, <1>4, <2>2 DEF Bad, TypeOK
  <2> QED
    BY <1>2, <2>1, <2>2
<1>5. /\ "fallback" \in Mishaps /\ "failure" \in Mishaps
      /\ "notify" \in Mishaps /\ "lost" \in Mishaps
  BY DEF Mishaps
<1> QED
  BY <1>1, <1>4, <1>5 DEF SoleWriter, Never

\* The pool of a sole writer is that worker.
LEMMA SolePool ==
    ASSUME TypeOK, SoleWriter, NEW w \in pool
    PROVE  pool = {w}
<1>1. IsFiniteSet(pool)
  BY FS_Subset DEF TypeOK
<1>2. \E v : pool = {v}
  BY <1>1, FS_Singleton DEF SoleWriter
<1> QED
  BY <1>2

\* The row that a sole writer has just removed was counted before.
LEMMA EnoughToTake ==
    ASSUME TypeOK, BufInv, DriftBounded, SoleWriter, partial = 0, clamps = 0,
           NEW w \in pool, NEW x \in Counters, Busy(w), stage[w] = x,
           Head(buf[w]).action = "unlike"
    PROVE  counter[x] > 0
<1>1. w \in LikeWorkers /\ counter[x] \in Nat /\ Cardinality(liked) \in Nat
  BY FS_Subset, FS_CardinalityType DEF TypeOK
<1>2. \A a : Debtors(x, a) \subseteq {w}
  BY SolePool DEF Debtors, Owing, Busy, BufInv
<1>3. stage[w] \in Due(x)
  BY DEF Due, Counters
<1>4. Debtors(x, "like") = {} /\ Debtors(x, "unlike") = {w}
  BY <1>1, <1>2, <1>3 DEF Debtors, Owing
<1>5. Owed(x, "like") = 0 /\ Owed(x, "unlike") = 1
  BY <1>4, OwedIsCount, FS_EmptySet, FS_Singleton
<1>6. counter[x] - Expected(x) <= 0 /\ Expected(x) - counter[x] <= 0
  BY DEF DriftBounded
<1>7. Expected(x) = Cardinality(liked) + 1
  BY <1>1, <1>5 DEF Expected
<1> QED
  BY <1>1, <1>6, <1>7

\* With one LikeWorker and no fallback GREATEST never clamps, unless an event was
\* abandoned between its statements.
THEOREM SoleWriterClampsNothing == Spec => []SoleWriterNeverClamps
<1>1. Init => SoleWriterNeverClamps
  BY DEF Init, SoleWriterNeverClamps
<1>2. TypeOK /\ BufInv /\ DriftBounded /\ SoleWriterNeverClamps /\ [Next]_vars
         => SoleWriterNeverClamps'
  <2> SUFFICES ASSUME TypeOK, BufInv, DriftBounded, SoleWriterNeverClamps, [Next]_vars,
                      SoleWriter', partial' = 0
               PROVE  clamps' = 0
    BY DEF SoleWriterNeverClamps
  <2>1. SoleWriter /\ pool \subseteq LikeWorkers
    BY StaysSole DEF TypeOK
  <2>2. clamps' = clamps => clamps' = 0
    <3> SUFFICES ASSUME clamps' = clamps PROVE partial = 0
      BY <2>1 DEF SoleWriterNeverClamps
    <3>1. partial' = partial \/ \E w \in pool : StatementFails(w) \/ Crash(w)
      BY DEF Next, vars, Api, Check, Enqueue, EnqueueLost, Fallback, Worker, Deliver, ApplyRow, ChangeCounter,
             Ack, NotifyOK, NotifyFails
    <3>2. partial \in Nat
      BY DEF TypeOK
    <3> QED
      BY <3>1, <3>2 DEF StatementFails, Crash
  <2>3. ASSUME NEW p \in checked, Fallback(p) PROVE FALSE
    <3>1. "fallback" \in Mishaps
      BY DEF Mishaps
    <3>2. bad'["fallback"] > 0
      BY <2>3, <3>1, BadType DEF Fallback
    <3> QED
      BY <3>2 DEF SoleWriter, Never
  <2>4. ASSUME NEW w \in pool, NEW x \in Counters, ChangeCounter(w, x) PROVE clamps' = clamps
    <3> DEFINE a == Head(buf[w]).action
    <3>1. /\ Busy(w) /\ stage[w] = x /\ clamps' = clamps + Clamped(x, a) /\ partial = 0
      BY <2>4 DEF ChangeCounter
    <3>2. a \in Actions
      BY <2>1, <3>1, QueueType DEF Busy, TypeOK, Message
    <3>3. clamps = 0
      BY <2>1, <3>1 DEF SoleWriterNeverClamps
    <3>4. /\ Clamped(x, a) \in {0, 1}
          /\ Clamped(x, a) = 1 => a = "unlike" /\ counter[x] = 0
      BY <3>2, ClampedChange
    <3>5. a = "unlike" => counter[x] > 0
      BY <2>1, <3>1, <3>3, EnoughToTake
    <3> QED
      BY <3>1, <3>3, <3>4, <3>5
  <2>5. clamps' = clamps
    BY <2>3, <2>4 DEF Next, vars, Api, Check, Enqueue, EnqueueLost, Worker, Deliver, ApplyRow, Ack,
                      StatementFails, Crash, NotifyOK, NotifyFails
  <2> QED
    BY <2>2, <2>5
<1> QED
  BY <1>1, <1>2, TypeCorrect, Deliveries, CountersDrift, PTL DEF Spec

-----------------------------------------------------------------------------
(* The order of events.                                                    *)

\* Decides, for any table L of users.
NoneOf(s, u) == \A i \in DOMAIN s : s[i].user # u
LastOf(s, u, a) ==
    \E i \in DOMAIN s :
        /\ s[i].user = u /\ s[i].action = a
        /\ \A j \in DOMAIN s : j > i => s[j].user # u
Decided(s, L, u, a) == LastOf(s, u, a) \/ (NoneOf(s, u) /\ (u \in L) = (a = "like"))

Rest(w) == Unapplied(w) \o queue
RestInv == \A w \in pool : Rest(w) \in Seq(Message)

\* An event behind the others decides its own user and no other.
LEMMA DecidedAppend ==
    ASSUME NEW s \in Seq(Message), NEW m \in Message, NEW L
    PROVE  /\ Decided(Append(s, m), L, m.user, m.action)
           /\ \A u, a : u # m.user /\ Decided(s, L, u, a) => Decided(Append(s, m), L, u, a)
<1> DEFINE t == Append(s, m)
<1>1. /\ Len(s) \in Nat /\ DOMAIN s = 1 .. Len(s)
      /\ DOMAIN t = 1 .. Len(s) + 1
      /\ t[Len(s) + 1] = m /\ \A i \in 1 .. Len(s) : t[i] = s[i]
  BY AppendProperties, LenProperties
<1> HIDE DEF t
<1>2. LastOf(t, m.user, m.action)
  BY <1>1 DEF LastOf
<1>3. ASSUME NEW u, NEW a, u # m.user, LastOf(s, u, a) PROVE LastOf(t, u, a)
  <2>1. PICK i \in 1 .. Len(s) : /\ s[i].user = u /\ s[i].action = a
                                /\ \A j \in 1 .. Len(s) : j > i => s[j].user # u
    BY <1>1, <1>3 DEF LastOf
  <2>2. i \in DOMAIN t /\ t[i].user = u /\ t[i].action = a
    BY <1>1, <2>1
  <2>3. \A j \in DOMAIN t : j > i => t[j].user # u
    BY <1>1, <1>3, <2>1
  <2> QED
    BY <2>2, <2>3 DEF LastOf
<1>4. ASSUME NEW u, u # m.user, NoneOf(s, u) PROVE NoneOf(t, u)
  BY <1>1, <1>4 DEF NoneOf
<1> QED
  BY <1>2, <1>3, <1>4 DEF Decided, t

\* An event in front of the others decides its user only if there is no other.
LEMMA FirstOf ==
    ASSUME NEW s \in Seq(Message), s # <<>>
    PROVE  /\ ~NoneOf(s, Head(s).user)
           /\ \A u : NoneOf(s, u) => NoneOf(Tail(s), u)
           /\ \A u : NoneOf(Tail(s), u) =>
                 IF u = Head(s).user THEN LastOf(s, u, Head(s).action) ELSE NoneOf(s, u)
           /\ \A u, a : LastOf(Tail(s), u, a) => LastOf(s, u, a)
           /\ \A u, a : LastOf(s, u, a) =>
                 \/ LastOf(Tail(s), u, a)
                 \/ Head(s).user = u /\ Head(s).action = a /\ NoneOf(Tail(s), u)
<1> DEFINE t == Tail(s)
           n == Len(s)
<1>1. /\ n \in Nat \ {0} /\ DOMAIN s = 1 .. n
      /\ DOMAIN t = 1 .. n - 1
      /\ Head(s) = s[1] /\ \A i \in 1 .. n - 1 : t[i] = s[i + 1]
  BY HeadTailProperties, LenProperties, EmptySeq
<1> HIDE DEF t, n
<1>2. \A i \in 2 .. n : i - 1 \in DOMAIN t /\ t[i - 1] = s[i]
  BY <1>1
<1>3. \A i \in DOMAIN t : i + 1 \in 2 .. n /\ t[i] = s[i + 1]
  BY <1>1
<1>4. ~NoneOf(s, Head(s).user)
  BY <1>1 DEF NoneOf
<1>5. ASSUME NEW u, NoneOf(s, u) PROVE NoneOf(t, u)
  BY <1>1, <1>3, <1>5 DEF NoneOf
<1>6. ASSUME NEW u, NoneOf(t, u)
      PROVE  IF u = Head(s).user THEN LastOf(s, u, Head(s).action) ELSE NoneOf(s, u)
  <2>1. \A i \in 2 .. n : s[i].user # u
    BY <1>2, <1>6 DEF NoneOf
  <2>2. \A i \in DOMAIN s : i = 1 \/ i \in 2 .. n
    BY <1>1
  <2> QED
    BY <1>1, <2>1, <2>2 DEF NoneOf, LastOf
<1>7. ASSUME NEW u, NEW a, LastOf(t, u, a) PROVE LastOf(s, u, a)
  <2>1. PICK i \in DOMAIN t : /\ t[i].user = u /\ t[i].action = a
                             /\ \A j \in DOMAIN t : j > i => t[j].user # u
    BY <1>7 DEF LastOf
  <2>2. i + 1 \in DOMAIN s /\ s[i + 1].user = u /\ s[i + 1].action = a
    BY <1>1, <1>3, <2>1
  <2>3. ASSUME NEW j \in DOMAIN s, j > i + 1 PROVE s[j].user # u
    <3>1. j \in 2 .. n /\ j - 1 > i
      BY <1>1, <2>1, <2>3
    <3> QED
      BY <1>2, <2>1, <3>1
  <2> QED
    BY <2>2, <2>3 DEF LastOf
<1>8. ASSUME NEW u, NEW a, LastOf(s, u, a)
      PROVE  \/ LastOf(t, u, a)
             \/ Head(s).user = u /\ Head(s).action = a /\ NoneOf(t, u)
  <2>1. PICK i \in 1 .. n : /\ s[i].user = u /\ s[i].action = a
                           /\ \A j \in 1 .. n : j > i => s[j].user # u
    BY <1>1, <1>8 DEF LastOf
  <2>2. CASE i = 1
    BY <1>1, <1>3, <2>1, <2>2 DEF NoneOf
  <2>3. CASE i # 1
    <3>1. i - 1 \in DOMAIN t /\ t[i - 1].user = u /\ t[i - 1].action = a
      BY <1>1, <1>2, <2>1, <2>3
    <3>2. \A j \in DOMAIN t : j > i - 1 => t[j].user # u
      BY <1>1, <1>3, <2>1, <2>3
    <3> QED
      BY <3>1, <3>2 DEF LastOf
  <2> QED
    BY <2>2, <2>3
<1> QED
  BY <1>4, <1>5, <1>6, <1>7, <1>8 DEF t

\* Applying the first event to the table leaves every decision as it was ...
LEMMA DecidedConsume ==
    ASSUME NEW s \in Seq(Message), s # <<>>, NEW L, NEW K,
           (Head(s).user \in K) = (Head(s).action = "like"),
           \A v : v # Head(s).user => (v \in K) = (v \in L),
           NEW u, NEW a, Decided(s, L, u, a)
    PROVE  Decided(Tail(s), K, u, a)
<1>1. CASE LastOf(s, u, a)
  BY <1>1, FirstOf DEF Decided
<1>2. CASE NoneOf(s, u) /\ (u \in L) = (a = "like")
  BY <1>2, FirstOf DEF Decided
<1> QED
  BY <1>1, <1>2 DEF Decided

\* ... and so does delivering again an event that the table shows already.
LEMMA DecidedRestore ==
    ASSUME NEW s \in Seq(Message), s # <<>>, NEW L,
           (Head(s).user \in L) = (Head(s).action = "like"), Head(s).action \in Actions,
           NEW u, NEW a \in Actions, Decided(Tail(s), L, u, a)
    PROVE  Decided(s, L, u, a)
<1>1. CASE LastOf(Tail(s), u, a)
  BY <1>1, FirstOf DEF Decided
<1>2. CASE NoneOf(Tail(s), u) /\ (u \in L) = (a = "like")
  <2>1. CASE u = Head(s).user
    <3>1. a = Head(s).action
      BY <1>2, <2>1 DEF Actions
    <3> QED
      BY <1>2, <2>1, <3>1, FirstOf DEF Decided
  <2>2. CASE u # Head(s).user
    BY <1>2, <2>2, FirstOf DEF Decided
  <2> QED
    BY <2>1, <2>2
<1> QED
  BY <1>1, <1>2 DEF Decided

\* Deliveries before the queue: adding behind, taking in front, moving over.
LEMMA Concats ==
    ASSUME NEW b \in Seq(Message), NEW q \in Seq(Message)
    PROVE  /\ b \o q \in Seq(Message) /\ <<>> \o q = q
           /\ \A m \in Message : b \o Append(q, m) = Append(b \o q, m)
           /\ b # <<>> => b \o q # <<>> /\ Head(b \o q) = Head(b) /\ Tail(b \o q) = Tail(b) \o q
           /\ q # <<>> => Append(b, Head(q)) \o Tail(q) = b \o q
<1>1. b \o q \in Seq(Message) /\ <<>> \o q = q
  BY ConcatProperties, ConcatEmptySeq
<1>2. ASSUME NEW m \in Message PROVE b \o Append(q, m) = Append(b \o q, m)
  <2>1. Append(q, m) = q \o <<m>> /\ Append(b \o q, m) = (b \o q) \o <<m>> /\ <<m>> \in Seq(Message)
    BY <1>1, AppendIsConcat
  <2> QED
    BY <2>1, ConcatAssociative
<1>3. ASSUME b # <<>>
      PROVE  b \o q # <<>> /\ Head(b \o q) = Head(b) /\ Tail(b \o q) = Tail(b) \o q
  <2>0. Len(b) \in Nat \ {0} /\ Len(q) \in Nat
    BY <1>3, EmptySeq, LenProperties
  <2>1. b \o q # <<>>
    BY <1>3, ConcatEqualIffEmpty
  <2>2. /\ Tail(b) \in Seq(Message) /\ Len(Tail(b)) = Len(b) - 1
        /\ \A i \in 1 .. Len(b) - 1 : Tail(b)[i] = b[i + 1]
    BY <1>3, HeadTailProperties
  <2>3. /\ Len(b \o q) = Len(b) + Len(q)
        /\ \A i \in 1 .. Len(b) + Len(q) : (b \o q)[i] = IF i <= Len(b) THEN b[i] ELSE q[i - Len(b)]
    BY ConcatProperties
  <2>4. /\ Tail(b \o q) \in Seq(Message) /\ Len(Tail(b \o q)) = Len(b) + Len(q) - 1
        /\ \A i \in 1 .. Len(b) + Len(q) - 1 : Tail(b \o q)[i] = (b \o q)[i + 1]
    BY <1>1, <2>1, <2>3, HeadTailProperties
  <2>5. /\ Tail(b) \o q \in Seq(Message) /\ Len(Tail(b) \o q) = Len(b) + Len(q) - 1
        /\ \A i \in 1 .. Len(b) + Len(q) - 1 :
              (Tail(b) \o q)[i] = IF i <= Len(b) - 1 THEN Tail(b)[i] ELSE q[i - (Len(b) - 1)]
    <3>1. /\ Tail(b) \o q \in Seq(Message) /\ Len(Tail(b) \o q) = Len(Tail(b)) + Len(q)
          /\ \A i \in 1 .. Len(Tail(b)) + Len(q) :
                (Tail(b) \o q)[i] = IF i <= Len(Tail(b)) THEN Tail(b)[i] ELSE q[i - Len(Tail(b))]
      BY <2>2, ConcatProperties
    <3>2. Len(Tail(b)) + Len(q) = Len(b) + Len(q) - 1
      BY <2>0, <2>2
    <3> QED
      BY <2>2, <3>1, <3>2
  <2>6. ASSUME NEW i \in 1 .. Len(b) + Len(q) - 1 PROVE Tail(b \o q)[i] = (Tail(b) \o q)[i]
    <3>1. CASE i <= Len(b) - 1
      BY <2>0, <2>2, <2>3, <2>4, <2>5, <3>1
    <3>2. CASE ~(i <= Len(b) - 1)
      <4>1. i + 1 - Len(b) = i - (Len(b) - 1) /\ ~(i + 1 <= Len(b)) /\ i + 1 \in 1 .. Len(b) + Len(q)
        BY <2>0, <3>2
      <4> QED
        BY <2>3, <2>4, <2>5, <3>2, <4>1
    <3> QED
      BY <3>1, <3>2
  <2>7. Tail(b \o q) = Tail(b) \o q
    BY <2>4, <2>5, <2>6, SeqEqual
  <2>8. Head(b \o q) = Head(b)
    BY <2>0, <2>3
  <2> QED
    BY <2>1, <2>7, <2>8
<1>4. ASSUME q # <<>> PROVE Append(b, Head(q)) \o Tail(q) = b \o q
  <2>1. Head(q) \in Message /\ Tail(q) \in Seq(Message) /\ <<Head(q)>> \in Seq(Message)
    BY <1>4, QueueType
  <2>2. Append(b, Head(q)) = b \o <<Head(q)>>
    BY <2>1, AppendIsConcat
  <2>3. (b \o <<Head(q)>>) \o Tail(q) = b \o (<<Head(q)>> \o Tail(q))
    BY <2>1, ConcatAssociative
  <2>4. <<Head(q)>> \o Tail(q) = q
    BY <1>4
  <2> QED
    BY <2>2, <2>3, <2>4
<1> QED
  BY <1>1, <1>2, <1>3, <1>4

\* What a step does to the events still to be applied, as long as one worker
\* alone writes and nothing is published again: nothing, or it adds the event of
\* a request, or applies the first one, or brings back one already applied.
Settled == SoleWriter /\ Never({"lost", "failure", "notify"})
Same(w) == Rest(w)' = Rest(w) /\ UNCHANGED <<liked, last>>
Added(w) ==
    \E m \in Message :
        /\ Rest(w)' = Append(Rest(w), m) /\ liked' = liked
        /\ last' = [last EXCEPT ![m.user] = m.action]
Applied(w) ==
    /\ Rest(w) # <<>> /\ Rest(w)' = Tail(Rest(w)) /\ last' = last
    /\ (Head(Rest(w)).user \in liked') = (Head(Rest(w)).action = "like")
    /\ \A v : v # Head(Rest(w)).user => (v \in liked') = (v \in liked)
Redelivered(w) ==
    /\ Rest(w)' # <<>> /\ Tail(Rest(w)') = Rest(w) /\ UNCHANGED <<liked, last>>
    /\ (Head(Rest(w)').user \in liked) = (Head(Rest(w)').action = "like")

\* No mishap of those kinds happens in a step that ends settled.
LEMMA NoMishap ==
    ASSUME TypeOK, Settled'
    PROVE  /\ \A p \in checked : ~Fallback(p) /\ ~EnqueueLost(p)
           /\ \A w \in LikeWorkers : ~StatementFails(w)
           /\ ~NotifyFails
<1>1. /\ "fallback" \in Mishaps /\ "failure" \in Mishaps
      /\ "notify" \in Mishaps /\ "lost" \in Mishaps
  BY DEF Mishaps
<1>2. bad'["fallback"] = 0 /\ bad'["failure"] = 0 /\ bad'["notify"] = 0 /\ bad'["lost"] = 0
  BY DEF Settled, SoleWriter, Never
<1>3. \A p \in checked : Fallback(p) => bad'["fallback"] > 0
  BY <1>1, BadType DEF Fallback
<1>4. \A w \in LikeWorkers : StatementFails(w) => bad'["failure"] > 0
  BY <1>1, BadType DEF StatementFails
<1>5. NotifyFails => bad'["notify"] > 0
  BY <1>1, BadType DEF NotifyFails
<1>6. \A p \in checked : EnqueueLost(p) => bad'["lost"] > 0
  BY <1>1, BadType DEF EnqueueLost
<1> QED
  BY <1>2, <1>3, <1>4, <1>5, <1>6

\* The deliveries of a worker of the pool and the queue are queues of messages.
LEMMA RestType ==
    ASSUME TypeOK, BufInv, NEW w \in pool
    PROVE  /\ w \in LikeWorkers /\ buf[w] \in Seq(Message) /\ queue \in Seq(Message)
           /\ stage[w] # "row" => buf[w] # <<>>
           /\ Unapplied(w) \in Seq(Message) /\ Rest(w) \in Seq(Message)
<1>1. /\ w \in LikeWorkers /\ buf[w] \in Seq(Message) /\ queue \in Seq(Message)
      /\ stage[w] # "row" => buf[w] # <<>>
  BY DEF TypeOK, BufInv
<1>2. Unapplied(w) \in Seq(Message)
  BY <1>1, QueueType DEF Unapplied
<1> QED
  BY <1>1, <1>2, Concats DEF Rest

LEMMA RestStep ==
    ASSUME TypeOK, BufInv, AppliedInv, [Next]_vars, Settled', NEW w \in pool
    PROVE  Same(w) \/ Added(w) \/ Applied(w) \/ Redelivered(w)
<1>1. Settled
  BY StaysSole DEF Settled
<1>2. pool = {w}
  BY <1>1, SolePool DEF Settled
<1>3. /\ w \in LikeWorkers /\ buf[w] \in Seq(Message) /\ queue \in Seq(Message)
      /\ stage[w] # "row" => buf[w] # <<>>
      /\ Unapplied(w) \in Seq(Message) /\ Rest(w) \in Seq(Message)
  BY RestType
<1>4. UNCHANGED <<liked, last, queue, buf, stage>> => Same(w)
  BY DEF Same, Rest, Unapplied
<1>5. ASSUME NEW r \in open, NEW u \in Users, NEW a \in Actions, Check(r, u, a) PROVE Same(w)
  BY <1>4, <1>5 DEF Check
<1>6. ASSUME NEW p \in checked, Enqueue(p) PROVE Added(w)
  <2> DEFINE m == [user |-> p.user, action |-> p.action, retry |-> 0]
  <2>1. m \in Message
    BY DEF TypeOK, Checked, Message
  <2>2. queue' = Append(queue, m) /\ Unapplied(w)' = Unapplied(w)
    BY <1>6 DEF Enqueue, Routed, Unapplied
  <2>3. Rest(w)' = Append(Rest(w), m)
    BY <1>3, <2>1, <2>2, Concats DEF Rest
  <2>4. liked' = liked /\ last' = [last EXCEPT ![m.user] = m.action]
    BY <1>6 DEF Enqueue
  <2> QED
    BY <2>1, <2>3, <2>4 DEF Added
<1>7. CASE Deliver(w)
  <2>1. /\ queue # <<>> /\ buf'[w] = Append(buf[w], Head(queue)) /\ queue' = Tail(queue)
        /\ UNCHANGED <<stage, liked, last>>
    BY <1>3, <1>7 DEF Deliver, TypeOK
  <2>2. Head(queue) \in Message
    BY <1>3, <2>1, QueueType
  <2>3. Unapplied(w)' = Append(Unapplied(w), Head(queue))
    <3>1. CASE stage[w] = "row"
      BY <2>1, <3>1 DEF Unapplied
    <3>2. CASE stage[w] # "row"
      <4>1. Tail(buf[w]) \in Seq(Message) /\ <<Head(queue)>> \in Seq(Message)
        BY <1>3, <2>2, <3>2, QueueType
      <4>2. Append(buf[w], Head(queue)) = buf[w] \o <<Head(queue)>>
            /\ Append(Tail(buf[w]), Head(queue)) = Tail(buf[w]) \o <<Head(queue)>>
        BY <1>3, <2>2, <4>1, AppendIsConcat
      <4>3. Tail(buf[w] \o <<Head(queue)>>) = Tail(buf[w]) \o <<Head(queue)>>
        BY <1>3, <3>2, <4>1, Concats
      <4> QED
        BY <2>1, <3>2, <4>2, <4>3 DEF Unapplied
    <3> QED
      BY <3>1, <3>2
  <2>4. Append(Unapplied(w), Head(queue)) \o Tail(queue) = Unapplied(w) \o queue
    BY <1>3, <2>1, Concats
  <2> QED
    BY <2>1, <2>3, <2>4 DEF Same, Rest
<1>8. CASE ApplyRow(w)
  <2>1. /\ buf[w] # <<>> /\ stage[w] = "row" /\ stage'[w] # "row"
        /\ liked' = RowsAfter(Head(buf[w])) /\ UNCHANGED <<buf, queue, last>>
    BY <1>3, <1>8 DEF ApplyRow, Busy, AfterRow, TypeOK
  <2>2. Rest(w) = buf[w] \o queue /\ Rest(w)' = Tail(buf[w]) \o queue
    BY <2>1 DEF Rest, Unapplied
  <2>3. Rest(w) # <<>> /\ Head(Rest(w)) = Head(buf[w]) /\ Rest(w)' = Tail(Rest(w))
    <3>1. /\ buf[w] \o queue # <<>> /\ Head(buf[w] \o queue) = Head(buf[w])
          /\ Tail(buf[w] \o queue) = Tail(buf[w]) \o queue
      BY <1>3, <2>1, Concats
    <3> QED
      BY <2>2, <3>1
  <2>4. /\ (Head(buf[w]).user \in liked') = (Head(buf[w]).action = "like")
        /\ \A v : v # Head(buf[w]).user => (v \in liked') = (v \in liked)
    BY <2>1 DEF RowsAfter
  <2> QED
    BY <2>1, <2>3, <2>4 DEF Applied
<1>9. ASSUME NEW x \in Counters, ChangeCounter(w, x) PROVE Same(w)
  <2>1. stage[w] # "row" /\ stage'[w] # "row" /\ UNCHANGED <<buf, queue, liked, last>>
    BY <1>3, <1>9 DEF ChangeCounter, Counters, TypeOK
  <2> QED
    BY <2>1 DEF Same, Rest, Unapplied
<1>10. CASE Ack(w)
  <2>1. /\ stage[w] = "ack" /\ stage'[w] = "row" /\ buf'[w] = Tail(buf[w])
        /\ UNCHANGED <<queue, liked, last>>
    BY <1>3, <1>10 DEF Ack, NextDelivery, TypeOK
  <2> QED
    BY <2>1 DEF Same, Rest, Unapplied
<1>11. CASE Crash(w)
  <2>1. /\ buf[w] # <<>> /\ queue' = buf[w] \o queue /\ buf'[w] = <<>> /\ stage'[w] = "row"
        /\ UNCHANGED <<liked, last>>
    BY <1>3, <1>11 DEF Crash, Busy, Returned, TypeOK
  <2>2. buf[w] \o queue \in Seq(Message)
    BY <1>3, Concats
  <2>3. Rest(w)' = buf[w] \o queue
    <3>1. \A q \in Seq(Message) : <<>> \o q = q
      BY EmptySeq, Concats
    <3> QED
      BY <2>1, <2>2, <3>1 DEF Rest, Unapplied
  <2>4. CASE stage[w] = "row"
    BY <2>1, <2>3, <2>4 DEF Same, Rest, Unapplied
  <2>5. CASE stage[w] # "row"
    <3>1. Rest(w) = Tail(buf[w]) \o queue
      BY <2>5 DEF Rest, Unapplied
    <3>2. buf[w] \o queue # <<>> /\ Head(buf[w] \o queue) = Head(buf[w])
          /\ Tail(buf[w] \o queue) = Tail(buf[w]) \o queue
      BY <1>3, <2>1, Concats
    <3>3. (Head(buf[w]).user \in liked) = (Head(buf[w]).action = "like")
      BY <1>1, <2>5 DEF AppliedInv, Settled
    <3> QED
      BY <2>1, <2>3, <3>1, <3>2, <3>3 DEF Redelivered
  <2> QED
    BY <2>4, <2>5
<1>12. CASE NotifyOK \/ UNCHANGED vars
  BY <1>4, <1>12 DEF NotifyOK, vars
<1> QED
  BY <1>2, <1>3, <1>5, <1>6, <1>7, <1>8, <1>9, <1>10, <1>11, <1>12, NoMishap DEF Next, Api, Worker

\* The row of the event that a sole writer has in the middle is as it left it.
LEMMA RowsApplied == Spec => []AppliedInv
<1>1. Init => AppliedInv
  BY DEF Init, AppliedInv, TypeOK
<1>2. TypeOK /\ BufInv /\ AppliedInv /\ [Next]_vars => AppliedInv'
  <2> SUFFICES ASSUME TypeOK, BufInv, AppliedInv, [Next]_vars, Settled', NEW w \in pool', stage'[w] # "row"
               PROVE  (Head(buf'[w]).user \in liked') = (Head(buf'[w]).action = "like")
    BY DEF AppliedInv, Settled
  <2>1. Settled /\ w \in pool /\ pool = {w}
    BY StaysSole, SolePool DEF Settled
  <2>2. /\ w \in LikeWorkers /\ buf[w] \in Seq(Message) /\ queue \in Seq(Message)
        /\ stage[w] # "row" => buf[w] # <<>>
    BY <2>1, RestType
  <2> DEFINE P == (Head(buf'[w]).user \in liked') = (Head(buf'[w]).action = "like")
  <2>3. stage[w] # "row" /\ liked' = liked /\ Head(buf'[w]) = Head(buf[w]) => P
    BY <2>1 DEF AppliedInv, Settled
  <2> SUFFICES P
    OBVIOUS
  <2> HIDE DEF P
  <2>4. UNCHANGED <<stage, liked, buf>> => P
    BY <2>3
  <2>5. ASSUME NEW r \in open, NEW u \in Users, NEW a \in Actions, Check(r, u, a) PROVE P
    BY <2>4, <2>5 DEF Check
  <2>6. ASSUME NEW p \in checked, Enqueue(p) PROVE P
    BY <2>4, <2>6 DEF Enqueue
  <2>7. CASE Deliver(w)
    <3>1. /\ queue # <<>> /\ buf'[w] = Append(buf[w], Head(queue)) /\ UNCHANGED <<stage, liked>>
      BY <2>2, <2>7 DEF Deliver, TypeOK
    <3>2. Head(queue) \in Message /\ buf[w] # <<>>
      BY <2>2, <3>1, QueueType
    <3>3. Head(Append(buf[w], Head(queue))) = Head(buf[w])
      <4>1. <<Head(queue)>> \in Seq(Message)
        BY <3>2
      <4>2. Append(buf[w], Head(queue)) = buf[w] \o <<Head(queue)>>
        BY <2>2, <3>2, AppendIsConcat
      <4> QED
        BY <2>2, <3>2, <4>1, <4>2, Concats
    <3> QED
      BY <2>3, <3>1, <3>3
  <2>8. CASE ApplyRow(w)
    BY <2>8 DEF ApplyRow, RowsAfter, P
  <2>9. ASSUME NEW x \in Counters, ChangeCounter(w, x) PROVE P
    BY <2>3, <2>9 DEF ChangeCounter, Counters
  <2>10. CASE Ack(w) \/ Crash(w)
    BY <2>2, <2>10 DEF Ack, NextDelivery, Crash, TypeOK
  <2>11. CASE NotifyOK \/ UNCHANGED vars
    BY <2>4, <2>11 DEF NotifyOK, vars
  <2> QED
    BY <2>1, <2>2, <2>5, <2>6, <2>7, <2>8, <2>9, <2>10, <2>11, NoMishap DEF Next, Api, Worker
<1> QED
  BY <1>1, <1>2, TypeCorrect, Deliveries, PTL DEF Spec

\* Likes and unlikes are published one by one and applied in the order of the
\* queue: with one LikeWorker, no fallback, no lost publish and nothing published
\* again, the last action of a user that LikeService accepted is what the tables
\* end up with, crashes and redeliveries included.
THEOREM LastRequestDecides == Spec => []LastRequestWins
<1>0. LastRequestWins <=>
        (Settled => \A w \in pool : \A u \in Users : Decided(Rest(w), liked, u, last[u]))
  BY DEF LastRequestWins, Settled, Rest, Decides, Decided, LastOf, NoneOf
<1>1. Init => LastRequestWins
  <2> SUFFICES ASSUME Init, NEW w \in pool, NEW u \in Users PROVE Decided(Rest(w), liked, u, last[u])
    BY <1>0
  <2>1. Rest(w) = <<>>
    BY EmptySeq, Concats DEF Init, Rest, Unapplied
  <2>2. NoneOf(<<>>, u)
    BY DEF NoneOf
  <2> QED
    BY <2>1, <2>2 DEF Init, Decided
<1>2. TypeOK /\ BufInv /\ RestInv /\ RestInv' /\ AppliedInv /\ LastRequestWins /\ [Next]_vars
         => LastRequestWins'
  <2> SUFFICES ASSUME TypeOK, BufInv, RestInv, RestInv', AppliedInv, LastRequestWins, [Next]_vars,
                      Settled', NEW w \in pool', NEW u \in Users
               PROVE  Decided(Rest(w)', liked', u, last'[u])
    BY DEF LastRequestWins, Settled, Rest, Decides, Decided, LastOf, NoneOf
  <2>2. Settled /\ w \in pool
    BY StaysSole DEF Settled
  <2>3. /\ Decided(Rest(w), liked, u, last[u])
        /\ last \in [Users -> Actions]
    BY <1>0, <2>2 DEF TypeOK
  <2>4. Rest(w) \in Seq(Message) /\ Rest(w)' \in Seq(Message)
    BY <2>2 DEF RestInv
  <2>5. CASE Same(w)
    BY <2>3, <2>5 DEF Same
  <2>6. CASE Added(w)
    <3>1. PICK m \in Message : /\ Rest(w)' = Append(Rest(w), m) /\ liked' = liked
                              /\ last' = [last EXCEPT ![m.user] = m.action]
      BY <2>6 DEF Added
    <3>2. m.user \in Users
      BY DEF Message
    <3>3. /\ Decided(Append(Rest(w), m), liked, m.user, m.action)
          /\ \A v, a : v # m.user /\ Decided(Rest(w), liked, v, a) => Decided(Append(Rest(w), m), liked, v, a)
      BY <2>4, DecidedAppend
    <3>4. CASE u = m.user
      BY <2>3, <3>1, <3>2, <3>3, <3>4
    <3>5. CASE u # m.user
      BY <2>3, <3>1, <3>2, <3>3, <3>5
    <3> QED
      BY <3>4, <3>5
  <2>7. CASE Applied(w)
    <3>1. Decided(Tail(Rest(w)), liked', u, last[u])
      BY <2>3, <2>4, <2>7, DecidedConsume DEF Applied
    <3> QED
      BY <2>7, <3>1 DEF Applied
  <2>8. CASE Redelivered(w)
    <3>1. Head(Rest(w)').action \in Actions
      <4>1. Head(Rest(w)') \in Message
        BY <2>4, <2>8, QueueType DEF Redelivered
      <4> QED
        BY <4>1 DEF Message
    <3>2. Decided(Rest(w)', liked, u, last[u])
      BY <2>3, <2>4, <2>8, <3>1, DecidedRestore DEF Redelivered
    <3> QED
      BY <2>8, <3>2 DEF Redelivered
  <2> QED
    BY <2>2, <2>5, <2>6, <2>7, <2>8, RestStep
<1>3. TypeOK /\ BufInv => RestInv
  BY RestType DEF RestInv
<1> QED
  BY <1>1, <1>2, <1>3, TypeCorrect, Deliveries, RowsApplied, PTL DEF Spec

-----------------------------------------------------------------------------
(* Comments.                                                               *)

\* What the call of Publish, the queue and the worker hold: a call has its event
\* in the queue or its fallback before it, a deletion in the queue was accepted,
\* the worker counts a row of the first event.
FlowInv ==
    /\ work = "count" => /\ events # << >> /\ Head(events).action = "publish"
                         /\ made[Head(events).comment] > 0
    /\ \A i \in DOMAIN events : IF events[i].action = "publish" THEN events[i].comment \in sent
                                ELSE events[i] \in deleted
    /\ \A c \in Comments :
          /\ "comment" \in todo[c] => "row" \notin todo[c]
          /\ "heat" \in todo[c] => "window" \notin todo[c]
          /\ "comment" \in todo[c] \/ "row" \in todo[c] \/ c \in failed => c \notin sent /\ made[c] = 0
          /\ c \in failed => todo[c] = {}

\* A row that is gone was deleted.  Without a copy of its event a comment is in the
\* queue once, and not any more after the row but while that is counted.  A second
\* row comes from a copy, after the first was deleted.
Has(s, c, i) == i \in DOMAIN s /\ s[i] = Event(c)
Gone(c) == rows[c] = 0 /\ made[c] > 0 => \E d \in deleted : d.comment = c /\ d.id = made[c]
Lone(c) == c \notin copied =>
    /\ made[c] <= 1
    /\ \A i, j \in DOMAIN events : Has(events, c, i) /\ Has(events, c, j) => i = j
    /\ \A i \in DOMAIN events : Has(events, c, i) /\ made[c] # 0 => i = 1 /\ work = "count"
Second(c) == made[c] > 1 => c \in copied /\ \E d \in deleted : d.comment = c /\ d.id < made[c]
SingleInv == \A c \in Comments : Gone(c) /\ Lone(c) /\ Second(c)

\* What the column and the windows will get if nothing more goes wrong: at most
\* one unit for each event in the queue, and at least one for each comment that
\* has an event and no row yet.
OwesRow  == {c \in Comments : "comment" \in todo[c] \/ "row" \in todo[c]}
OwesHeat == {c \in Comments : "heat" \in todo[c] \/ "window" \in todo[c]}
EventsIn(s) == {i \in DOMAIN s : s[i].action = "publish"}
Unmade == {c \in Comments : made[c] = 0 /\ \E i \in DOMAIN events : Has(events, c, i)}
HeatDue == heat + heatq + Cardinality(OwesHeat)
AgreeInv ==
    /\ popularity + Cardinality(OwesRow) + Cardinality(EventsIn(events)) <= HeatDue + faults
    /\ HeatDue <= popularity + Counting + Cardinality(OwesRow) + Cardinality(Unmade) + faults
CommentBase == CommentTypeOK /\ FlowInv

-----------------------------------------------------------------------------
(* The queue and the steps of a call.                                      *)

Entries == Publishing \cup Deletions

LEMMA EntryKinds ==
    /\ \A e \in Publishing : e.action = "publish" /\ e.comment \in Comments /\ e = Event(e.comment)
    /\ \A e \in Deletions : e.action = "delete" /\ e.comment \in Comments /\ e.id \in Nat
    /\ \A c \in Comments : Event(c) \in Publishing /\ Event(c).action = "publish" /\ Event(c).comment = c
<1>1. \A e \in Publishing : e.action = "publish" /\ e.comment \in Comments /\ e = Event(e.comment)
  BY DEF Publishing, Event
<1>2. \A e \in Deletions : e.action = "delete" /\ e.comment \in Comments /\ e.id \in Nat
  BY DEF Deletions
<1>3. \A c \in Comments : Event(c) \in Publishing /\ Event(c).action = "publish" /\ Event(c).comment = c
  BY DEF Publishing, Event
<1> QED
  BY <1>1, <1>2, <1>3

\* How the queue moves.
Appends(s, e, t) == t = Append(s, e)
Drops(s, t) == s # << >> /\ t = Tail(s)
Rotates(s, t) == s # << >> /\ t = Append(Tail(s), Head(s))

LEMMA Appended ==
    ASSUME NEW s \in Seq(Entries), NEW e \in Entries, NEW t, Appends(s, e, t)
    PROVE  /\ t \in Seq(Entries) /\ DOMAIN t = 1 .. Len(s) + 1 /\ DOMAIN s = 1 .. Len(s) /\ Len(s) \in Nat
           /\ \A i \in DOMAIN s : t[i] = s[i] /\ i \in DOMAIN t /\ i # Len(s) + 1
           /\ \A i \in DOMAIN t : i \in DOMAIN s \/ i = Len(s) + 1
           /\ t[Len(s) + 1] = e /\ t # << >> /\ (s # << >> => Head(t) = Head(s))
BY DEF Appends

LEMMA Dropped ==
    ASSUME NEW s \in Seq(Entries), NEW t, Drops(s, t)
    PROVE  /\ t \in Seq(Entries) /\ DOMAIN s = 1 .. Len(s) /\ DOMAIN t = 1 .. Len(s) - 1
           /\ Len(s) \in Nat /\ 1 \in DOMAIN s /\ Head(s) = s[1] /\ s[1] \in Entries
           /\ \A i \in DOMAIN t : t[i] = s[i + 1] /\ i + 1 \in DOMAIN s /\ i + 1 # 1
           /\ \A i \in DOMAIN s : i # 1 => i - 1 \in DOMAIN t /\ t[i - 1] = s[i]
BY DEF Drops

LEMMA Rotated ==
    ASSUME NEW s \in Seq(Entries), NEW t, Rotates(s, t)
    PROVE  /\ t \in Seq(Entries) /\ DOMAIN s = 1 .. Len(s) /\ DOMAIN t = 1 .. Len(s) /\ t # << >>
           /\ Len(s) \in Nat /\ 1 \in DOMAIN s /\ Head(s) = s[1] /\ s[1] \in Entries
           /\ Len(s) \in DOMAIN t /\ t[Len(s)] = s[1]
           /\ \A i \in DOMAIN t : i # Len(s) => t[i] = s[i + 1] /\ i + 1 \in DOMAIN s /\ i + 1 # 1
           /\ \A i \in DOMAIN s : i # 1 => i - 1 \in DOMAIN t /\ t[i - 1] = s[i]
<1>1. Drops(s, Tail(s))
  BY DEF Drops, Rotates
<1> DEFINE u == Tail(s)
<1>2. /\ u \in Seq(Entries) /\ DOMAIN s = 1 .. Len(s) /\ DOMAIN u = 1 .. Len(s) - 1
      /\ Len(s) \in Nat /\ 1 \in DOMAIN s /\ Head(s) = s[1] /\ s[1] \in Entries
      /\ \A i \in DOMAIN u : u[i] = s[i + 1] /\ i + 1 \in DOMAIN s /\ i + 1 # 1
      /\ \A i \in DOMAIN s : i # 1 => i - 1 \in DOMAIN u /\ u[i - 1] = s[i]
  BY <1>1, Dropped
<1>3. Appends(u, s[1], t)
  BY <1>2 DEF Appends, Rotates
<1> HIDE DEF u
<1>4. /\ t \in Seq(Entries) /\ DOMAIN t = 1 .. Len(u) + 1 /\ DOMAIN u = 1 .. Len(u) /\ Len(u) \in Nat
      /\ \A i \in DOMAIN u : t[i] = u[i] /\ i \in DOMAIN t
      /\ t[Len(u) + 1] = s[1] /\ t # << >>
  <2>1. u \in Seq(Entries) /\ s[1] \in Entries
    BY <1>2
  <2>2. /\ t \in Seq(Entries) /\ DOMAIN t = 1 .. Len(u) + 1 /\ DOMAIN u = 1 .. Len(u) /\ Len(u) \in Nat
        /\ t[Len(u) + 1] = s[1] /\ t # << >>
    BY ONLY <1>3, <2>1, Appended
  <2>3. \A i \in DOMAIN u : t[i] = u[i] /\ i \in DOMAIN t
    BY ONLY <1>3, <2>1, Appended
  <2> QED
    BY <2>2, <2>3
<1>5. Len(u) = Len(s) - 1 /\ Len(s) >= 1
  BY <1>2, <1>4 DEF u
<1> QED
  BY <1>2, <1>4, <1>5

\* The steps of a call come in order.
LEMMA Order ==
    ASSUME NEW c \in Comments
    PROVE  /\ Doing(c, "comment") => "comment" \in todo[c]
           /\ Doing(c, "heat") => "heat" \in todo[c] /\ "comment" \notin todo[c]
           /\ Doing(c, "row") => "row" \in todo[c] /\ "comment" \notin todo[c] /\ "heat" \notin todo[c]
           /\ Doing(c, "window") => "window" \in todo[c] /\ "comment" \notin todo[c]
                                    /\ "heat" \notin todo[c] /\ "row" \notin todo[c]
<1>1. /\ Steps[1] = "comment" /\ Steps[2] = "heat" /\ Steps[3] = "row" /\ Steps[4] = "window"
      /\ DOMAIN Steps = 1 .. 4
  BY DEF Steps
<1>2. 1 \in DOMAIN Steps /\ 2 \in DOMAIN Steps /\ 3 \in DOMAIN Steps /\ 4 \in DOMAIN Steps
  BY <1>1
<1> QED
  BY <1>1, <1>2 DEF Doing

\* A step of a call changes its own steps only.
LEMMA Stepped ==
    ASSUME CommentTypeOK, NEW c \in Comments, NEW step, NEW more \in SUBSET {"comment", "heat", "row", "window"},
           Then(c, step, more)
    PROVE  /\ todo' \in [Comments -> SUBSET {"comment", "heat", "row", "window"}]
           /\ todo'[c] = (todo[c] \ {step}) \cup more
           /\ \A d \in Comments \ {c} : todo'[d] = todo[d]
BY DEF CommentTypeOK, Then

\* What a step does to the rows.
LEMMA RowInserted ==
    ASSUME CommentTypeOK, NEW c \in Comments, Inserted(c)
    PROVE  /\ made' \in [Comments -> Nat] /\ rows' \in [Comments -> Nat]
           /\ made'[c] = made[c] + 1 /\ rows'[c] = made[c] + 1 /\ made[c] \in Nat
           /\ \A d \in Comments \ {c} : made'[d] = made[d] /\ rows'[d] = rows[d]
BY DEF CommentTypeOK, Inserted

LEMMA RowGone ==
    ASSUME CommentTypeOK, NEW d \in Deletions, RowDeleted(d)
    PROVE  /\ rows' \in [Comments -> Nat] /\ d.comment \in Comments
           /\ rows'[d.comment] \in {0, rows[d.comment]}
           /\ rows'[d.comment] # rows[d.comment] => rows[d.comment] = d.id
           /\ \A c \in Comments \ {d.comment} : rows'[c] = rows[c]
<1>1. d.comment \in Comments
  BY EntryKinds
<1> QED
  BY <1>1 DEF CommentTypeOK, RowDeleted

LEMMA Faulty ==
    ASSUME CommentTypeOK
    PROVE  /\ Fault => faults' \in 0 .. MaxFaults /\ faults' = faults + 1
           /\ NoFault => faults' \in 0 .. MaxFaults /\ faults' = faults
           /\ faults \in Nat
BY CommentConstants DEF CommentTypeOK, Fault, NoFault

\* The steps of Publish that do not touch the rows.
LEMMA CallStep ==
    ASSUME CommentBase, NEW c \in Comments,
           SendComment(c) \/ SendCommentFails(c) \/ SendHeat(c) \/ SendHeatFails(c) \/ UpdateCache(c)
    PROVE  CommentBase'
<1>0. CommentTypeOK
  BY DEF CommentBase
<1>1. PICK step \in {"comment", "heat", "window"}, more \in SUBSET {"row", "window"} :
        /\ Doing(c, step) /\ Then(c, step, more)
        /\ step = "comment" => more \subseteq {"row"}
        /\ step = "heat" => more \subseteq {"window"}
        /\ step = "window" => more = {}
        /\ \/ events' = events /\ sent' = sent
           \/ /\ step = "comment" /\ more = {} /\ Appends(events, Event(c), events')
              /\ sent' = sent \cup {c}
  BY DEF SendComment, SendCommentFails, SendHeat, SendHeatFails, UpdateCache, Appends
<1>2. UNCHANGED <<failed, asked, rows, made, work, popularity, deletes, deleted, given, copied>>
  BY DEF SendComment, SendCommentFails, SendHeat, SendHeatFails, UpdateCache
<1>3. faults' \in 0 .. MaxFaults /\ heatq' \in Nat /\ heat' \in Nat
  <2>1. Fault \/ NoFault
    BY DEF SendComment, SendCommentFails, SendHeat, SendHeatFails, UpdateCache
  <2>2. heatq' \in {heatq, heatq + 1} /\ heat' \in {heat, heat + 1}
    BY DEF SendComment, SendCommentFails, SendHeat, SendHeatFails, UpdateCache
  <2> QED
    BY <1>0, <2>1, <2>2, Faulty DEF CommentTypeOK
<1>4. /\ todo' \in [Comments -> SUBSET {"comment", "heat", "row", "window"}]
      /\ todo'[c] = (todo[c] \ {step}) \cup more
      /\ \A d \in Comments \ {c} : todo'[d] = todo[d]
  BY <1>0, <1>1, Stepped
<1>5. step \in todo[c] /\ (step # "comment" => "comment" \notin todo[c])
  BY <1>1, Order
<1>6. /\ events' \in Seq(Entries) /\ sent' \subseteq Comments /\ sent \subseteq sent'
      /\ events # << >> => events' # << >> /\ Head(events') = Head(events)
      /\ \A i \in DOMAIN events' : \/ i \in DOMAIN events /\ events'[i] = events[i]
                                   \/ events'[i] = Event(c) /\ c \in sent'
  <2>1. events \in Seq(Entries) /\ sent \subseteq Comments
    BY <1>0 DEF CommentTypeOK, Entries
  <2>2. CASE events' = events /\ sent' = sent
    BY <2>1, <2>2
  <2>3. CASE Appends(events, Event(c), events') /\ sent' = sent \cup {c}
    <3>1. Event(c) \in Entries
      BY EntryKinds DEF Entries
    <3>2. /\ events' \in Seq(Entries)
          /\ events # << >> => events' # << >> /\ Head(events') = Head(events)
      BY ONLY <2>1, <2>3, <3>1, Appended
    <3>3. \A i \in DOMAIN events' : \/ i \in DOMAIN events /\ events'[i] = events[i]
                                    \/ events'[i] = Event(c)
      BY ONLY <2>1, <2>3, <3>1, Appended
    <3> QED
      BY <2>1, <2>3, <3>2, <3>3
  <2> QED
    BY <1>1, <2>2, <2>3
<1>7. CommentTypeOK'
  BY <1>0, <1>2, <1>3, <1>4, <1>6 DEF CommentTypeOK, Entries
<1>8. FlowInv'
  <2>1. work' = "count" => /\ events' # << >> /\ Head(events').action = "publish"
                           /\ made'[Head(events').comment] > 0
    BY <1>2, <1>6 DEF CommentBase, FlowInv
  <2>2. \A i \in DOMAIN events' : IF events'[i].action = "publish" THEN events'[i].comment \in sent'
                                  ELSE events'[i] \in deleted'
    BY <1>2, <1>6, EntryKinds DEF CommentBase, FlowInv
  <2>3. ASSUME NEW d \in Comments
        PROVE  /\ "comment" \in todo'[d] => "row" \notin todo'[d]
               /\ "heat" \in todo'[d] => "window" \notin todo'[d]
               /\ "comment" \in todo'[d] \/ "row" \in todo'[d] \/ d \in failed' => d \notin sent' /\ made'[d] = 0
               /\ d \in failed' => todo'[d] = {}
    <3>1. CASE d # c
      BY <1>1, <1>2, <1>4, <3>1 DEF CommentBase, FlowInv
    <3>2. CASE d = c
      <4>1. /\ "comment" \in todo[c] => "row" \notin todo[c]
            /\ "heat" \in todo[c] => "window" \notin todo[c]
            /\ "comment" \in todo[c] \/ "row" \in todo[c] \/ c \in failed => c \notin sent /\ made[c] = 0
            /\ c \in failed => todo[c] = {}
        BY DEF CommentBase, FlowInv
      <4>2. c \notin failed' /\ made' = made
        BY <1>2, <1>5, <4>1
      <4>3. CASE step = "comment"
        BY <1>1, <1>4, <1>5, <3>2, <4>1, <4>2, <4>3
      <4>4. CASE step = "heat"
        BY <1>1, <1>4, <1>5, <3>2, <4>1, <4>2, <4>4
      <4>5. CASE step = "window"
        BY <1>1, <1>4, <1>5, <3>2, <4>1, <4>2, <4>5
      <4> QED
        BY <4>3, <4>4, <4>5
    <3> QED
      BY <3>1, <3>2
  <2> QED
    BY <2>1, <2>2, <2>3 DEF FlowInv
<1> QED
  BY <1>7, <1>8 DEF CommentBase

\* What the invariant says of one call, of the entry e and of the worker.
CallOK(todoc, c, s, m, f) ==
    /\ "comment" \in todoc => "row" \notin todoc
    /\ "heat" \in todoc => "window" \notin todoc
    /\ "comment" \in todoc \/ "row" \in todoc \/ c \in f => c \notin s /\ m = 0
    /\ c \in f => todoc = {}

LEMMA FlowParts ==
    ASSUME CommentBase
    PROVE  /\ \A c \in Comments : CallOK(todo[c], c, sent, made[c], failed)
           /\ \A c \in Comments : made[c] \in Nat /\ rows[c] \in {0, made[c]} /\ rows[c] \in Nat
           /\ events \in Seq(Entries) /\ DOMAIN events = 1 .. Len(events) /\ Len(events) \in Nat
           /\ \A i \in DOMAIN events : events[i] \in Entries
           /\ events # << >> => 1 \in DOMAIN events /\ Head(events) = events[1] /\ Head(events) \in Entries
<1>1. \A c \in Comments : CallOK(todo[c], c, sent, made[c], failed)
  BY DEF CommentBase, FlowInv, CallOK
<1>2. \A c \in Comments : made[c] \in Nat /\ rows[c] \in {0, made[c]} /\ rows[c] \in Nat
  BY DEF CommentBase, CommentTypeOK
<1>3. events \in Seq(Entries)
  BY DEF CommentBase, CommentTypeOK, Entries
<1>4. /\ DOMAIN events = 1 .. Len(events) /\ Len(events) \in Nat
      /\ \A i \in DOMAIN events : events[i] \in Entries
      /\ events # << >> => 1 \in DOMAIN events /\ Head(events) = events[1] /\ Head(events) \in Entries
  BY ONLY <1>3
<1> QED
  BY <1>1, <1>2, <1>3, <1>4

\* The first entry: an event that was sent, or an accepted deletion.
LEMMA FirstEntry ==
    ASSUME CommentBase, events # << >>
    PROVE  /\ Head(events).action \in {"publish", "delete"} /\ Head(events).comment \in Comments
           /\ Head(events).action = "publish" => /\ Head(events) = Event(Head(events).comment)
                                                 /\ Head(events).comment \in sent
           /\ Head(events).action = "delete" => Head(events) \in Deletions /\ Head(events) \in deleted
<1>1. 1 \in DOMAIN events /\ Head(events) = events[1] /\ Head(events) \in Entries
  BY FlowParts
<1>2. Head(events) \in Publishing \/ Head(events) \in Deletions
  BY <1>1 DEF Entries
<1> QED
  BY <1>1, <1>2, EntryKinds DEF CommentBase, FlowInv

\* The rows keep to their types and only grow in number.
RowsOK ==
    /\ made' \in [Comments -> Nat] /\ rows' \in [Comments -> Nat]
    /\ \A c \in Comments : rows'[c] \in {0, made'[c]} /\ made[c] <= made'[c]

LEMMA RowsAre ==
    ASSUME CommentBase,
           \/ UNCHANGED <<rows, made>>
           \/ \E c \in Comments : Inserted(c)
           \/ made' = made /\ \E d \in Deletions : RowDeleted(d)
    PROVE  RowsOK
<1>0. CommentTypeOK /\ \A c \in Comments : made[c] \in Nat /\ rows[c] \in {0, made[c]} /\ rows[c] \in Nat
  BY FlowParts DEF CommentBase
<1>1. CASE UNCHANGED <<rows, made>>
  BY <1>0, <1>1 DEF CommentTypeOK, RowsOK
<1>2. ASSUME NEW c \in Comments, Inserted(c) PROVE RowsOK
  <2>1. /\ made' \in [Comments -> Nat] /\ rows' \in [Comments -> Nat]
        /\ made'[c] = made[c] + 1 /\ rows'[c] = made[c] + 1
    BY <1>0, <1>2, RowInserted
  <2>2. \A d \in Comments \ {c} : made'[d] = made[d] /\ rows'[d] = rows[d]
    BY <1>0, <1>2, RowInserted
  <2> QED
    BY <1>0, <2>1, <2>2 DEF RowsOK
<1>3. ASSUME made' = made, NEW d \in Deletions, RowDeleted(d) PROVE RowsOK
  <2>1. rows' \in [Comments -> Nat] /\ rows'[d.comment] \in {0, rows[d.comment]}
    BY <1>0, <1>3, RowGone
  <2>2. \A c \in Comments \ {d.comment} : rows'[c] = rows[c]
    BY <1>0, <1>3, RowGone
  <2>3. made' \in [Comments -> Nat]
    BY <1>0, <1>3 DEF CommentTypeOK
  <2> QED
    BY <1>0, <1>3, <2>1, <2>2, <2>3 DEF RowsOK
<1> QED
  BY <1>1, <1>2, <1>3

\* Entries of the next queue were in the queue, or are accounted for.
QueueOK ==
    /\ events' \in Seq(Entries)
    /\ \A i \in DOMAIN events' : \/ \E j \in DOMAIN events : events'[i] = events[j]
                                 \/ events'[i] \in deleted' \cap Deletions
                                 \/ \E c \in sent : events'[i] = Event(c) /\ c \in Comments

LEMMA QueueIs ==
    ASSUME CommentBase,
           \/ events' = events \/ Drops(events, events') \/ Rotates(events, events')
           \/ \E e \in Entries : /\ Appends(events, e, events')
                                 /\ e \in deleted' \cap Deletions \/ \E c \in sent : e = Event(c) /\ c \in Comments
    PROVE  QueueOK
<1>0. events \in Seq(Entries)
  BY FlowParts
<1>1. CASE events' = events
  BY <1>0, <1>1 DEF QueueOK
<1>2. CASE Drops(events, events')
  <2>1. events' \in Seq(Entries) /\ \A i \in DOMAIN events' : events'[i] = events[i + 1] /\ i + 1 \in DOMAIN events
    BY ONLY <1>0, <1>2, Dropped
  <2> QED
    BY <2>1 DEF QueueOK
<1>3. CASE Rotates(events, events')
  <2>1. events' \in Seq(Entries) /\ 1 \in DOMAIN events /\ events'[Len(events)] = events[1]
    BY ONLY <1>0, <1>3, Rotated
  <2>2. \A i \in DOMAIN events' : i # Len(events) => events'[i] = events[i + 1] /\ i + 1 \in DOMAIN events
    BY ONLY <1>0, <1>3, Rotated
  <2> QED
    BY <2>1, <2>2 DEF QueueOK
<1>4. ASSUME NEW e \in Entries, Appends(events, e, events'),
             e \in deleted' \cap Deletions \/ \E c \in sent : e = Event(c) /\ c \in Comments
      PROVE  QueueOK
  <2>1. events' \in Seq(Entries) /\ events'[Len(events) + 1] = e
    BY ONLY <1>0, <1>4, Appended
  <2>2. \A i \in DOMAIN events : events'[i] = events[i]
    BY ONLY <1>0, <1>4, Appended
  <2>3. \A i \in DOMAIN events' : i \in DOMAIN events \/ i = Len(events) + 1
    BY ONLY <1>0, <1>4, Appended
  <2> QED
    BY <1>4, <2>1, <2>2, <2>3 DEF QueueOK
<1> QED
  BY <1>1, <1>2, <1>3, <1>4

\* A step that touches neither the calls nor what was sent.
LEMMA BaseFrom ==
    ASSUME CommentBase, UNCHANGED <<todo, failed, sent>>, RowsOK, QueueOK,
           \A c \in Comments : made'[c] # made[c] => c \in sent,
           asked' \subseteq Deletions, deleted' \subseteq Deletions, given' \subseteq Deletions,
           deleted \subseteq deleted', copied' \subseteq sent,
           popularity' \in Nat, heatq' \in Nat, heat' \in Nat,
           deletes' \in 0 .. MaxDeletes, faults' \in 0 .. MaxFaults,
           \/ work' = "idle"
           \/ work' = "count" /\ events' # << >> /\ Head(events').action = "publish"
              /\ Head(events').comment \in Comments /\ made'[Head(events').comment] > 0
    PROVE  CommentBase'
<1>1. CommentTypeOK'
  BY DEF CommentBase, CommentTypeOK, RowsOK, QueueOK, Entries
<1>2. work' = "count" => /\ events' # << >> /\ Head(events').action = "publish"
                         /\ made'[Head(events').comment] > 0
  OBVIOUS
<1>3. \A i \in DOMAIN events' : IF events'[i].action = "publish" THEN events'[i].comment \in sent'
                                ELSE events'[i] \in deleted'
  <2>1. \A j \in DOMAIN events : IF events[j].action = "publish" THEN events[j].comment \in sent
                                 ELSE events[j] \in deleted
    BY DEF CommentBase, FlowInv
  <2> QED
    BY <2>1, EntryKinds DEF QueueOK
<1>4. ASSUME NEW c \in Comments PROVE CallOK(todo'[c], c, sent', made'[c], failed')
  <2>1. CallOK(todo[c], c, sent, made[c], failed) /\ made[c] \in Nat
    BY FlowParts
  <2>2. c \notin sent => made'[c] = made[c]
    OBVIOUS
  <2> QED
    BY <2>1, <2>2 DEF CallOK
<1>5. FlowInv'
  BY <1>2, <1>3, <1>4 DEF FlowInv, CallOK
<1> QED
  BY <1>1, <1>5 DEF CommentBase

LEMMA CommentStep == CommentBase /\ [CommentNext]_commentVars => CommentBase'
<1> SUFFICES ASSUME CommentBase, [CommentNext]_commentVars PROVE CommentBase'
  OBVIOUS
<1>0. /\ CommentTypeOK /\ asked \subseteq Deletions /\ deleted \subseteq Deletions /\ given \subseteq Deletions
      /\ sent \subseteq Comments /\ copied \subseteq sent /\ popularity \in Nat /\ heatq \in Nat /\ heat \in Nat
      /\ deletes \in 0 .. MaxDeletes /\ faults \in 0 .. MaxFaults /\ work \in {"idle", "count"}
  BY DEF CommentBase, CommentTypeOK
<1>w. work = "count" => /\ events # << >> /\ Head(events).action = "publish"
                        /\ Head(events).comment \in Comments /\ made[Head(events).comment] > 0
  BY FirstEntry DEF CommentBase, FlowInv
<1>1. ASSUME NEW c \in Comments,
             SendComment(c) \/ SendCommentFails(c) \/ SendHeat(c) \/ SendHeatFails(c) \/ UpdateCache(c)
      PROVE  CommentBase'
  BY <1>1, CallStep
<1>2. ASSUME NEW c \in Comments, Transaction(c) \/ TransactionFails(c) PROVE CommentBase'
  <2>1. /\ "row" \in todo[c] /\ "comment" \notin todo[c] /\ "heat" \notin todo[c]
        /\ UNCHANGED <<asked, events, work, heatq, heat, deletes, deleted, given, sent, copied>>
    BY <1>2, Order DEF Transaction, TransactionFails
  <2>2. CallOK(todo[c], c, sent, made[c], failed) /\ made[c] \in Nat
    BY FlowParts
  <2>3. /\ todo' \in [Comments -> SUBSET {"comment", "heat", "row", "window"}]
        /\ \A d \in Comments \ {c} : todo'[d] = todo[d]
        /\ todo'[c] \subseteq todo[c] \ {"row"}
        /\ failed' \subseteq failed \cup {c} /\ (c \in failed' => todo'[c] = {} /\ made' = made)
        /\ failed \subseteq failed'
    <3>1. CASE Transaction(c)
      <4>1. Then(c, "row", {}) /\ failed' = failed
        BY <3>1 DEF Transaction
      <4>2. /\ todo' \in [Comments -> SUBSET {"comment", "heat", "row", "window"}]
            /\ todo'[c] = (todo[c] \ {"row"}) \cup {}
            /\ \A d \in Comments \ {c} : todo'[d] = todo[d]
        BY <1>0, <4>1, Stepped
      <4>3. c \notin failed
        BY <2>1, <2>2 DEF CallOK
      <4> QED
        BY <4>1, <4>2, <4>3
    <3>2. CASE TransactionFails(c)
      BY <1>0, <3>2 DEF TransactionFails, CommentTypeOK
    <3> QED
      BY <1>2, <3>1, <3>2
  <2>4. RowsOK
    BY <1>2, RowsAre DEF Transaction, TransactionFails
  <2>5. \A d \in Comments \ {c} : made'[d] = made[d]
    BY <1>0, <1>2, RowInserted DEF Transaction, TransactionFails
  <2>6. faults' \in 0 .. MaxFaults /\ popularity' \in Nat
    BY <1>0, <1>2, Faulty DEF Transaction, TransactionFails
  <2>7. CommentTypeOK'
    BY <1>0, <2>1, <2>3, <2>4, <2>6 DEF CommentTypeOK, RowsOK
  <2>8. ASSUME NEW d \in Comments PROVE CallOK(todo'[d], d, sent', made'[d], failed')
    <3>1. CallOK(todo[d], d, sent, made[d], failed)
      BY FlowParts
    <3>2. CASE d # c
      BY <2>1, <2>3, <2>5, <3>1, <3>2 DEF CallOK
    <3>3. CASE d = c
      BY <2>1, <2>2, <2>3, <3>3 DEF CallOK
    <3> QED
      BY <3>2, <3>3
  <2>9. work' = "count" => /\ events' # << >> /\ Head(events').action = "publish"
                           /\ made'[Head(events').comment] > 0
    <3>1. \A d \in Comments : made[d] \in Nat /\ made'[d] \in Nat /\ made[d] <= made'[d]
      BY <2>4, FlowParts DEF RowsOK
    <3> QED
      BY <1>w, <2>1, <3>1
  <2>10. FlowInv'
    BY <2>1, <2>8, <2>9 DEF CommentBase, FlowInv, CallOK
  <2> QED
    BY <2>7, <2>10 DEF CommentBase
<1>3. ASSUME NEW c \in Comments, FindForDelete(c) PROVE CommentBase'
  <2>1. UNCHANGED <<todo, failed, events, rows, made, work, popularity, heatq, heat, deleted, given, sent, copied, faults>>
    BY <1>3 DEF FindForDelete
  <2>2. [action |-> "delete", comment |-> c, id |-> rows[c]] \in Deletions
    BY FlowParts DEF Deletions
  <2>3. asked' \subseteq Deletions /\ deletes' \in 0 .. MaxDeletes
    BY <1>0, <1>3, <2>2, CommentConstants DEF FindForDelete
  <2>4. RowsOK /\ QueueOK
    BY <2>1, RowsAre, QueueIs
  <2> QED
    BY <1>0, <1>w, <2>1, <2>3, <2>4, BaseFrom
<1>4. ASSUME NEW d \in asked, SendDelete(d) \/ DeleteFallback(d) PROVE CommentBase'
  <2>1. /\ UNCHANGED <<todo, failed, made, work, popularity, heatq, heat, deletes, sent, copied>>
        /\ asked' = asked \ {d} /\ deleted' = deleted \cup {d} /\ d \in Deletions
    BY <1>0, <1>4 DEF SendDelete, DeleteFallback, Accepted
  <2>2. faults' \in 0 .. MaxFaults /\ given' \subseteq Deletions
    BY <1>0, <1>4, <2>1, Faulty DEF SendDelete, DeleteFallback
  <2>3. RowsOK
    BY <1>4, <2>1, RowsAre DEF SendDelete, DeleteFallback
  <2>4. QueueOK
    <3>1. d \in Entries /\ d \in deleted' \cap Deletions
      BY <2>1 DEF Entries
    <3>2. events' = events \/ Appends(events, d, events')
      BY <1>4 DEF SendDelete, DeleteFallback, Appends
    <3> QED
      BY <3>1, <3>2, QueueIs
  <2>5. \/ work' = "idle"
        \/ work' = "count" /\ events' # << >> /\ Head(events').action = "publish"
           /\ Head(events').comment \in Comments /\ made'[Head(events').comment] > 0
    <3>1. events # << >> => events' # << >> /\ Head(events') = Head(events)
      <4>1. d \in Entries /\ events \in Seq(Entries)
        BY <2>1, FlowParts DEF Entries
      <4>2. events' = events \/ Appends(events, d, events')
        BY <1>4 DEF SendDelete, DeleteFallback, Appends
      <4> QED
        BY ONLY <4>1, <4>2, Appended
    <3> QED
      BY <1>0, <1>w, <2>1, <3>1
  <2>6. asked' \subseteq Deletions /\ deleted' \subseteq Deletions /\ deleted \subseteq deleted'
    BY <1>0, <2>1
  <2> QED
    BY <1>0, <2>1, <2>2, <2>3, <2>4, <2>5, <2>6, BaseFrom
<1>5. ASSUME Create PROVE CommentBase'
  <2>1. /\ UNCHANGED <<todo, failed, asked, popularity, heatq, heat, deletes, deleted, given, sent, copied, faults>>
        /\ events # << >> /\ Head(events).action = "publish" /\ work = "idle"
    BY <1>5 DEF Create, First
  <2> DEFINE c == Head(events).comment
  <2>2. c \in sent /\ c \in Comments
    BY <2>1, FirstEntry
  <2>3. \/ Inserted(c) /\ work' = "count" /\ events' = events
        \/ UNCHANGED <<rows, made>> /\ work' = "idle" /\ Drops(events, events')
    BY <1>5, <2>1 DEF Create, Drops
  <2> HIDE DEF c
  <2>4. RowsOK /\ QueueOK
    BY <2>2, <2>3, RowsAre, QueueIs
  <2>5. \A d \in Comments : made'[d] # made[d] => d \in sent
    BY <1>0, <2>2, <2>3, RowInserted
  <2>6. Inserted(c) => made'[c] > 0
    BY <1>0, <2>2, RowInserted
  <2>7. \/ work' = "idle"
        \/ work' = "count" /\ events' # << >> /\ Head(events').action = "publish"
           /\ Head(events').comment \in Comments /\ made'[Head(events').comment] > 0
    BY <2>1, <2>2, <2>3, <2>6 DEF c
  <2> QED
    BY <1>0, <2>1, <2>4, <2>5, <2>7, BaseFrom
<1>6. ASSUME Count PROVE CommentBase'
  <2>1. /\ UNCHANGED <<todo, failed, asked, rows, made, heatq, heat, deletes, deleted, given, sent, copied, faults>>
        /\ work = "count" /\ work' = "idle" /\ popularity' \in Nat /\ events' = Tail(events)
    BY <1>0, <1>6 DEF Count
  <2>2. RowsOK /\ QueueOK
    BY <1>w, <2>1, RowsAre, QueueIs DEF Drops
  <2> QED
    BY <1>0, <2>1, <2>2, BaseFrom
<1>7. ASSUME ApplyDelete PROVE CommentBase'
  <2>1. /\ UNCHANGED <<todo, failed, asked, made, work, popularity, heatq, heat, deletes, deleted, given, sent, copied, faults>>
        /\ work = "idle" /\ Drops(events, events') /\ RowDeleted(Head(events)) /\ Head(events) \in Deletions
    BY <1>7, FirstEntry DEF ApplyDelete, First, Drops
  <2>2. RowsOK /\ QueueOK
    BY <2>1, RowsAre, QueueIs
  <2> QED
    BY <1>0, <2>1, <2>2, BaseFrom
<1>8. ASSUME Retry \/ Redeliver \/ DeadLetter PROVE CommentBase'
  <2>1. /\ UNCHANGED <<todo, failed, asked, heatq, heat, deletes, deleted, sent>>
        /\ events # << >> /\ work' = "idle" /\ popularity' \in {popularity, popularity + 1}
        /\ events' = events \/ Drops(events, events') \/ Rotates(events, events')
    BY <1>8 DEF Retry, Redeliver, DeadLetter, Drops, Rotates
  <2>2. faults' \in 0 .. MaxFaults /\ popularity' \in Nat
    BY <1>0, <1>8, <2>1, Faulty DEF Retry, Redeliver, DeadLetter
  <2>3. Copied \subseteq sent
    BY <1>0, <2>1, FirstEntry DEF Copied
  <2>4. copied' \subseteq sent
    BY <1>0, <1>8, <2>3 DEF Retry, Redeliver, DeadLetter
  <2>5. given' \subseteq Deletions
    BY <1>0, <1>8, <2>1, FirstEntry DEF Retry, Redeliver, DeadLetter
  <2> DEFINE c == Head(events).comment
  <2>6. UNCHANGED <<rows, made>> \/ (Head(events).action = "publish" /\ Inserted(c))
    BY <1>8 DEF Retry, Redeliver, DeadLetter, First
  <2>7. c \in Comments /\ (Head(events).action = "publish" => c \in sent)
    BY <2>1, FirstEntry
  <2> HIDE DEF c
  <2>8. RowsOK /\ QueueOK
    BY <2>1, <2>6, <2>7, RowsAre, QueueIs
  <2>9. \A d \in Comments : made'[d] # made[d] => d \in sent
    BY <1>0, <2>6, <2>7, RowInserted
  <2> QED
    BY <1>0, <2>1, <2>2, <2>4, <2>5, <2>8, <2>9, BaseFrom
<1>9. ASSUME NEW c \in Comments, Echo(c) PROVE CommentBase'
  <2>1. /\ UNCHANGED <<todo, failed, asked, rows, made, work, popularity, heatq, heat, deletes, deleted, given, sent>>
        /\ c \in sent /\ copied' \subseteq sent /\ Appends(events, Event(c), events') /\ Event(c) \in Entries
        /\ events \in Seq(Entries)
    BY <1>0, <1>9, EntryKinds, FlowParts DEF Echo, Appends, Entries
  <2>2. faults' \in 0 .. MaxFaults
    BY <1>0, <1>9, Faulty DEF Echo
  <2>3. RowsOK /\ QueueOK
    BY <2>1, RowsAre, QueueIs
  <2>4. events # << >> => events' # << >> /\ Head(events') = Head(events)
    BY ONLY <2>1, Appended
  <2>5. \/ work' = "idle"
        \/ work' = "count" /\ events' # << >> /\ Head(events').action = "publish"
           /\ Head(events').comment \in Comments /\ made'[Head(events').comment] > 0
    BY <1>0, <1>w, <2>1, <2>4
  <2> QED
    BY <1>0, <2>1, <2>2, <2>3, <2>5, BaseFrom
<1>10. ASSUME ApplyHeat \/ ApplyHeatUnacked \/ UNCHANGED commentVars PROVE CommentBase'
  <2>1. /\ UNCHANGED <<todo, failed, asked, events, rows, made, work, popularity, deletes, deleted, given, sent, copied>>
        /\ heatq' \in Nat /\ heat' \in Nat
    BY <1>0, <1>10 DEF ApplyHeat, ApplyHeatUnacked, commentVars
  <2>2. faults' \in 0 .. MaxFaults
    BY <1>0, <1>10, Faulty DEF ApplyHeat, ApplyHeatUnacked, commentVars
  <2>3. RowsOK /\ QueueOK
    BY <2>1, RowsAre, QueueIs
  <2> QED
    BY <1>0, <1>w, <2>1, <2>2, <2>3, BaseFrom
<1> QED
  BY <1>1, <1>2, <1>3, <1>4, <1>5, <1>6, <1>7, <1>8, <1>9, <1>10 DEF CommentNext, CommentWorker

-----------------------------------------------------------------------------
(* Rows and their count.                                                   *)

TallyInv == IsFiniteSet(Inserts) /\ CountedOnce

LEMMA InsertsGrow ==
    ASSUME CommentTypeOK, NEW c \in Comments, Inserted(c), IsFiniteSet(Inserts)
    PROVE  IsFiniteSet(Inserts') /\ Cardinality(Inserts') = Cardinality(Inserts) + 1
<1>1. made'[c] = made[c] + 1 /\ made[c] \in Nat /\ \A d \in Comments \ {c} : made'[d] = made[d]
  BY RowInserted
<1> DEFINE x == <<c, made[c] + 1>>
<1>2. \A d \in Comments : \A i : i \in 1 .. made'[d] <=> i \in 1 .. made[d] \/ (d = c /\ i = made[c] + 1)
  <2>1. \A i : i \in 1 .. made[c] + 1 <=> i \in 1 .. made[c] \/ i = made[c] + 1
    BY <1>1
  <2> QED
    BY <1>1, <2>1
<1>3. Inserts' = Inserts \cup {x}
  <2>1. \A y : y \in Inserts <=> \E d \in Comments : \E i \in 1 .. made[d] : y = <<d, i>>
    BY DEF Inserts
  <2>2. \A y : y \in Inserts' <=> \E d \in Comments : \E i \in 1 .. made'[d] : y = <<d, i>>
    BY DEF Inserts
  <2>3. \A y : y \in Inserts' <=> y \in Inserts \/ y = x
    BY <1>2, <2>1, <2>2
  <2> QED
    BY <2>3
<1>4. x \notin Inserts
  <2>1. ~(made[c] + 1 \in 1 .. made[c])
    BY <1>1
  <2> QED
    BY <2>1 DEF Inserts
<1> HIDE DEF x
<1> QED
  BY <1>3, <1>4, FS_AddElement

LEMMA TallyStep == CommentBase /\ TallyInv /\ [CommentNext]_commentVars => TallyInv'
<1> SUFFICES ASSUME CommentBase, TallyInv, [CommentNext]_commentVars PROVE TallyInv'
  OBVIOUS
<1>0. /\ CommentTypeOK /\ popularity \in Nat /\ faults \in Nat /\ IsFiniteSet(Inserts)
      /\ Cardinality(Inserts) \in Nat /\ work \in {"idle", "count"}
      /\ popularity + Counting <= Cardinality(Inserts)
      /\ Cardinality(Inserts) <= popularity + Counting + faults
  BY FS_CardinalityType, Faulty DEF CommentBase, CommentTypeOK, TallyInv, CountedOnce
<1>i. UNCHANGED made => Inserts' = Inserts
  BY DEF Inserts
<1>f. (Fault => faults' = faults + 1) /\ (NoFault => faults' = faults)
  BY <1>0, Faulty
<1>1. ASSUME NEW c \in Comments,
             SendComment(c) \/ SendCommentFails(c) \/ SendHeat(c) \/ SendHeatFails(c) \/ UpdateCache(c)
             \/ TransactionFails(c) \/ FindForDelete(c) \/ Echo(c)
      PROVE  TallyInv'
  <2>1. UNCHANGED <<made, work, popularity>> /\ (Fault \/ faults' = faults)
    BY <1>1 DEF SendComment, SendCommentFails, SendHeat, SendHeatFails, UpdateCache, TransactionFails,
                FindForDelete, Echo, NoFault
  <2> QED
    BY <1>0, <1>i, <1>f, <2>1 DEF TallyInv, CountedOnce, Counting
<1>2. ASSUME NEW c \in Comments, Transaction(c) PROVE TallyInv'
  <2>1. Inserted(c) /\ popularity' = popularity + 1 /\ UNCHANGED <<work, faults>>
    BY <1>2 DEF Transaction
  <2>2. IsFiniteSet(Inserts') /\ Cardinality(Inserts') = Cardinality(Inserts) + 1
    BY <1>0, <2>1, InsertsGrow
  <2> QED
    BY <1>0, <2>1, <2>2 DEF TallyInv, CountedOnce, Counting
<1>3. ASSUME NEW d \in asked, SendDelete(d) \/ DeleteFallback(d) PROVE TallyInv'
  <2>1. UNCHANGED <<made, work, popularity>> /\ (Fault \/ NoFault)
    BY <1>3 DEF SendDelete, DeleteFallback
  <2> QED
    BY <1>0, <1>i, <1>f, <2>1 DEF TallyInv, CountedOnce, Counting
<1>4. ASSUME Create PROVE TallyInv'
  <2>1. events # << >> /\ work = "idle" /\ UNCHANGED <<popularity, faults>>
    BY <1>4 DEF Create, First
  <2>2. Head(events).comment \in Comments
    BY <2>1, FirstEntry
  <2>3. CASE Inserted(Head(events).comment) /\ work' = "count"
    <3>1. IsFiniteSet(Inserts') /\ Cardinality(Inserts') = Cardinality(Inserts) + 1
      BY <1>0, <2>2, <2>3, InsertsGrow
    <3> QED
      BY <1>0, <2>1, <2>3, <3>1 DEF TallyInv, CountedOnce, Counting
  <2>4. CASE UNCHANGED <<made, work>>
    BY <1>0, <1>i, <2>1, <2>4 DEF TallyInv, CountedOnce, Counting
  <2> QED
    BY <1>4, <2>3, <2>4 DEF Create
<1>5. ASSUME Count PROVE TallyInv'
  BY <1>0, <1>i, <1>5 DEF Count, TallyInv, CountedOnce, Counting
<1>6. ASSUME ApplyDelete \/ ApplyHeat \/ ApplyHeatUnacked \/ UNCHANGED commentVars PROVE TallyInv'
  <2>1. UNCHANGED <<made, work, popularity>> /\ (Fault \/ faults' = faults)
    BY <1>6 DEF ApplyDelete, ApplyHeat, ApplyHeatUnacked, commentVars, NoFault
  <2> QED
    BY <1>0, <1>i, <1>f, <2>1 DEF TallyInv, CountedOnce, Counting
<1>7. ASSUME Retry \/ Redeliver \/ DeadLetter PROVE TallyInv'
  <2>1. events # << >> /\ work' = "idle" /\ faults' = faults + 1
    BY <1>7, <1>f DEF Retry, Redeliver, DeadLetter
  <2>2. CASE UNCHANGED made /\ (popularity' = popularity \/ (work = "count" /\ popularity' = popularity + 1))
    BY <1>0, <1>i, <2>1, <2>2 DEF TallyInv, CountedOnce, Counting
  <2>3. CASE work = "idle" /\ Inserted(Head(events).comment) /\ UNCHANGED popularity
    <3>1. Head(events).comment \in Comments
      BY <2>1, FirstEntry
    <3>2. IsFiniteSet(Inserts') /\ Cardinality(Inserts') = Cardinality(Inserts) + 1
      BY <1>0, <2>3, <3>1, InsertsGrow
    <3> QED
      BY <1>0, <2>1, <2>3, <3>2 DEF TallyInv, CountedOnce, Counting
  <2> QED
    BY <1>7, <2>2, <2>3 DEF Retry, Redeliver, DeadLetter, First
<1> QED
  BY <1>1, <1>2, <1>3, <1>4, <1>5, <1>6, <1>7 DEF CommentNext, CommentWorker

-----------------------------------------------------------------------------
(* One row for a call.                                                     *)

\* Which steps insert a row, and for whom.
Creates(c) ==
    /\ Inserted(c) /\ rows[c] = 0 /\ work = "idle" /\ events # << >> /\ Head(events) = Event(c)
    /\ Create \/ Retry
RowStep ==
    \/ UNCHANGED <<rows, made>>
    \/ \E c \in Comments : Inserted(c) /\ made[c] = 0 /\ Transaction(c)
    \/ \E c \in Comments : Creates(c)
    \/ UNCHANGED made /\ \E d \in Deletions \cap deleted' : RowDeleted(d)

LEMMA Histories ==
    ASSUME CommentBase, [CommentNext]_commentVars
    PROVE  RowStep /\ deleted \subseteq deleted' /\ copied \subseteq copied'
<1>1. ASSUME NEW c \in Comments,
             SendComment(c) \/ SendCommentFails(c) \/ SendHeat(c) \/ SendHeatFails(c) \/ UpdateCache(c)
             \/ TransactionFails(c) \/ FindForDelete(c) \/ Echo(c)
      PROVE  UNCHANGED <<rows, made>> /\ deleted \subseteq deleted' /\ copied \subseteq copied'
  BY <1>1 DEF SendComment, SendCommentFails, SendHeat, SendHeatFails, UpdateCache, TransactionFails,
              FindForDelete, Echo
<1>2. ASSUME NEW c \in Comments, Transaction(c)
      PROVE  Inserted(c) /\ made[c] = 0 /\ deleted \subseteq deleted' /\ copied \subseteq copied'
  BY <1>2, FlowParts, Order DEF Transaction, CallOK
<1>3. ASSUME NEW d \in asked, SendDelete(d) \/ DeleteFallback(d)
      PROVE  RowStep /\ deleted \subseteq deleted' /\ copied \subseteq copied'
  <2>1. d \in Deletions
    BY DEF CommentBase, CommentTypeOK
  <2> QED
    BY <1>3, <2>1 DEF SendDelete, DeleteFallback, Accepted, RowStep
<1>4. ASSUME Create \/ Retry PROVE RowStep /\ deleted \subseteq deleted' /\ copied \subseteq copied'
  <2>1. deleted \subseteq deleted' /\ copied \subseteq copied' /\ events # << >>
    BY <1>4 DEF Create, Retry, Copied, First
  <2>2. UNCHANGED <<rows, made>>
        \/ (First("publish") /\ rows[Head(events).comment] = 0 /\ Inserted(Head(events).comment))
    BY <1>4 DEF Create, Retry
  <2>3. First("publish") => work = "idle" /\ Head(events) = Event(Head(events).comment)
                            /\ Head(events).comment \in Comments
    BY <2>1, FirstEntry DEF First
  <2> QED
    BY <1>4, <2>1, <2>2, <2>3 DEF RowStep, Creates
<1>5. ASSUME ApplyDelete PROVE RowStep /\ deleted \subseteq deleted' /\ copied \subseteq copied'
  BY <1>5, FirstEntry DEF ApplyDelete, First, RowStep
<1>6. ASSUME Count \/ Redeliver \/ DeadLetter \/ ApplyHeat \/ ApplyHeatUnacked \/ UNCHANGED commentVars
      PROVE  UNCHANGED <<rows, made>> /\ deleted \subseteq deleted' /\ copied \subseteq copied'
  BY <1>6 DEF Count, Redeliver, DeadLetter, ApplyHeat, ApplyHeatUnacked, commentVars, Copied
<1> QED
  BY <1>1, <1>2, <1>3, <1>4, <1>5, <1>6 DEF CommentNext, CommentWorker, RowStep

LEMMA GoneStep ==
    ASSUME CommentBase, SingleInv, [CommentNext]_commentVars, NEW c \in Comments
    PROVE  Gone(c)'
<1>0. CommentTypeOK /\ deleted \subseteq deleted' /\ RowStep /\ Gone(c)
  BY Histories DEF CommentBase, SingleInv
<1>1. CASE UNCHANGED <<rows, made>>
  BY <1>0, <1>1 DEF Gone
<1>2. ASSUME NEW d \in Comments, Inserted(d) PROVE Gone(c)'
  <2>1. rows'[d] = made[d] + 1 /\ made[d] \in Nat
    BY <1>0, <1>2, RowInserted
  <2>2. c # d => made'[c] = made[c] /\ rows'[c] = rows[c]
    BY <1>0, <1>2, RowInserted
  <2> QED
    BY <1>0, <2>1, <2>2 DEF Gone
<1>3. ASSUME UNCHANGED made, NEW d \in Deletions \cap deleted', RowDeleted(d) PROVE Gone(c)'
  <2>1. c # d.comment => rows'[c] = rows[c]
    BY <1>0, <1>3, RowGone
  <2>2. rows'[d.comment] # rows[d.comment] => rows[d.comment] = d.id
    BY <1>0, <1>3, RowGone
  <2>3. rows[c] \in {0, made[c]}
    BY FlowParts
  <2> QED
    BY <1>0, <1>3, <2>1, <2>2, <2>3 DEF Gone
<1> QED
  BY <1>0, <1>1, <1>2, <1>3 DEF RowStep, Creates

LEMMA SecondStep ==
    ASSUME CommentBase, SingleInv, [CommentNext]_commentVars, NEW c \in Comments
    PROVE  Second(c)'
<1>0. /\ CommentTypeOK /\ deleted \subseteq deleted' /\ copied \subseteq copied' /\ RowStep
      /\ Gone(c) /\ Lone(c) /\ Second(c)
  BY Histories DEF CommentBase, SingleInv
<1>1. CASE made'[c] = made[c]
  BY <1>0, <1>1 DEF Second
<1>2. ASSUME NEW d \in Comments, Inserted(d) PROVE c # d => made'[c] = made[c]
  BY <1>0, <1>2, RowInserted
<1>3. ASSUME Inserted(c), made[c] = 0 PROVE Second(c)'
  <2>1. made'[c] = 1
    BY <1>0, <1>3, RowInserted
  <2> QED
    BY <2>1 DEF Second
<1>4. ASSUME Creates(c), made[c] # 0 PROVE Second(c)'
  <2>1. made'[c] = made[c] + 1 /\ made[c] \in Nat
    BY <1>0, <1>4, RowInserted DEF Creates
  <2>2. PICK d \in deleted : d.comment = c /\ d.id = made[c]
    BY <1>0, <1>4, <2>1 DEF Creates, Gone
  <2>3. 1 \in DOMAIN events /\ Has(events, c, 1) /\ work # "count"
    BY <1>4, FlowParts DEF Creates, Has
  <2>4. c \in copied
    BY <1>0, <1>4, <2>3 DEF Lone
  <2> QED
    BY <1>0, <2>1, <2>2, <2>4 DEF Second
<1>5. UNCHANGED made => made'[c] = made[c]
  OBVIOUS
<1> QED
  BY <1>0, <1>1, <1>2, <1>3, <1>4, <1>5 DEF RowStep, Creates

\* Where the event of a comment was before the queue moved.
LEMMA HasAppended ==
    ASSUME NEW s \in Seq(Entries), NEW e \in Entries, NEW t, Appends(s, e, t), NEW c, e # Event(c), NEW i, Has(t, c, i)
    PROVE  Has(s, c, i)
<1>1. \A k \in DOMAIN s : t[k] = s[k]
  BY Appended
<1>2. \A k \in DOMAIN t : k \in DOMAIN s \/ k = Len(s) + 1
  BY Appended
<1>3. t[Len(s) + 1] = e
  BY Appended
<1> QED
  BY <1>1, <1>2, <1>3 DEF Has

LEMMA HasDropped ==
    ASSUME NEW s \in Seq(Entries), NEW t, Drops(s, t), NEW c, NEW i, Has(t, c, i)
    PROVE  Has(s, c, i + 1) /\ i + 1 # 1 /\ i \in Nat
<1>1. \A k \in DOMAIN t : t[k] = s[k + 1] /\ k + 1 \in DOMAIN s /\ k + 1 # 1
  BY Dropped
<1>2. DOMAIN t = 1 .. Len(s) - 1 /\ Len(s) \in Nat
  BY Dropped
<1> QED
  BY <1>1, <1>2 DEF Has

LEMMA HasRotated ==
    ASSUME NEW s \in Seq(Entries), NEW t, Rotates(s, t), NEW c, Head(s) # Event(c), NEW i, Has(t, c, i)
    PROVE  Has(s, c, i + 1) /\ i + 1 # 1 /\ i \in Nat
<1>1. \A k \in DOMAIN t : k # Len(s) => t[k] = s[k + 1] /\ k + 1 \in DOMAIN s /\ k + 1 # 1
  BY Rotated
<1>2. DOMAIN t = 1 .. Len(s) /\ Len(s) \in Nat /\ t[Len(s)] = s[1] /\ Head(s) = s[1]
  BY Rotated
<1> QED
  BY <1>1, <1>2 DEF Has

LEMMA LoneStep ==
    ASSUME CommentBase, SingleInv, [CommentNext]_commentVars, NEW c \in Comments
    PROVE  Lone(c)'
<1>0. /\ CommentTypeOK /\ copied \subseteq copied' /\ Lone(c) /\ events \in Seq(Entries) /\ made[c] \in Nat
      /\ work \in {"idle", "count"}
  BY Histories, FlowParts DEF CommentBase, CommentTypeOK, SingleInv
<1> SUFFICES ASSUME c \notin copied'
             PROVE  /\ made'[c] <= 1
                    /\ \A i, j \in DOMAIN events' : Has(events', c, i) /\ Has(events', c, j) => i = j
                    /\ \A i \in DOMAIN events' : Has(events', c, i) /\ made'[c] # 0 => i = 1 /\ work' = "count"
  BY DEF Lone, Has
<1> DEFINE Goal == /\ made'[c] <= 1
                   /\ \A i, j \in DOMAIN events' : Has(events', c, i) /\ Has(events', c, j) => i = j
                   /\ \A i \in DOMAIN events' : Has(events', c, i) /\ made'[c] # 0 => i = 1 /\ work' = "count"
<1>l. /\ c \notin copied /\ made[c] <= 1
      /\ \A i, j : Has(events, c, i) /\ Has(events, c, j) => i = j
      /\ \A i : Has(events, c, i) /\ made[c] # 0 => i = 1 /\ work = "count"
  BY <1>0 DEF Lone, Has
\* No event of c while it has not been sent.
<1>n. c \notin sent => \A i : ~Has(events, c, i)
  BY EntryKinds DEF CommentBase, FlowInv, Has
\* Nothing about c changes.
<1>a. ASSUME made'[c] = made[c], work' = work, \A i : Has(events', c, i) => Has(events, c, i) PROVE Goal
  BY <1>l, <1>a
\* The queue moves on: no event of c was first, or it is gone.
<1>b. ASSUME made'[c] = made[c],
             \A i : Has(events', c, i) => Has(events, c, i + 1) /\ i + 1 # 1 /\ i \in Nat
      PROVE  Goal
  <2>1. \A i : Has(events', c, i) => made[c] = 0
    BY <1>l, <1>b
  <2>2. \A i, j : Has(events', c, i) /\ Has(events', c, j) => i = j
    <3> SUFFICES ASSUME NEW i, NEW j, Has(events', c, i), Has(events', c, j) PROVE i = j
      OBVIOUS
    <3>1. i + 1 = j + 1 /\ i \in Nat /\ j \in Nat
      BY <1>l, <1>b
    <3> QED
      BY <3>1
  <2> QED
    BY <1>l, <1>b, <2>1, <2>2
<1>1. ASSUME NEW d \in Comments, SendComment(d) PROVE Goal
  <2>1. UNCHANGED <<made, work>> /\ "comment" \in todo[d]
    BY <1>1, Order DEF SendComment
  <2>2. CASE events' = events
    BY <1>a, <2>1, <2>2
  <2>3. CASE Appends(events, Event(d), events')
    <3>1. Event(d) \in Entries /\ Event(d).comment = d
      BY EntryKinds DEF Entries
    <3>2. CASE c # d
      <4>1. Event(d) # Event(c)
        BY <3>2, EntryKinds
      <4>2. \A i : Has(events', c, i) => Has(events, c, i)
        BY ONLY <1>0, <2>3, <3>1, <4>1, HasAppended
      <4> QED
        BY <1>a, <2>1, <4>2
    <3>3. CASE c = d
      <4>1. c \notin sent /\ made[c] = 0
        BY <2>1, <3>3, FlowParts DEF CallOK
      <4>2. \A i \in DOMAIN events : events'[i] = events[i]
        BY ONLY <1>0, <2>3, <3>1, Appended
      <4>3. \A i \in DOMAIN events' : i \in DOMAIN events \/ i = Len(events) + 1
        BY ONLY <1>0, <2>3, <3>1, Appended
      <4>4. \A i : Has(events', c, i) => i = Len(events) + 1
        BY <1>n, <4>1, <4>2, <4>3 DEF Has
      <4> QED
        BY <2>1, <4>1, <4>4
    <3> QED
      BY <3>2, <3>3
  <2> QED
    BY <1>1, <2>2, <2>3 DEF SendComment, Appends
<1>2. ASSUME NEW d \in Comments, Transaction(d) PROVE Goal
  <2>1. UNCHANGED <<events, work>> /\ Inserted(d) /\ "row" \in todo[d]
    BY <1>2, Order DEF Transaction
  <2>2. CASE c # d
    <3>1. made'[c] = made[c]
      BY <1>0, <2>1, <2>2, RowInserted
    <3> QED
      BY <1>a, <2>1, <3>1
  <2>3. CASE c = d
    <3>1. c \notin sent /\ made[c] = 0
      BY <2>1, <2>3, FlowParts DEF CallOK
    <3>2. made'[c] = 1
      BY <1>0, <2>1, <2>3, <3>1, RowInserted
    <3> QED
      BY <1>n, <2>1, <3>1, <3>2
  <2> QED
    BY <2>2, <2>3
<1>3. ASSUME NEW d \in asked, SendDelete(d) PROVE Goal
  <2>1. UNCHANGED <<made, work>> /\ (events' = events \/ Appends(events, d, events')) /\ d \in Deletions
    BY <1>0, <1>3 DEF SendDelete, Appends, CommentTypeOK
  <2>2. d \in Entries /\ d # Event(c)
    BY <2>1, EntryKinds DEF Entries
  <2>3. \A i : Has(events', c, i) => Has(events, c, i)
    BY ONLY <1>0, <2>1, <2>2, HasAppended
  <2> QED
    BY <1>a, <2>1, <2>3
<1>4. ASSUME NEW d \in Comments, Echo(d) PROVE Goal
  <2>1. UNCHANGED <<made, work>> /\ Appends(events, Event(d), events') /\ copied' = copied \cup {d}
    BY <1>4 DEF Echo, Appends
  <2>2. Event(d) \in Entries /\ Event(d) # Event(c)
    BY <2>1, EntryKinds DEF Entries
  <2>3. \A i : Has(events', c, i) => Has(events, c, i)
    BY ONLY <1>0, <2>1, <2>2, HasAppended
  <2> QED
    BY <1>a, <2>1, <2>3
<1>5. ASSUME Create PROVE Goal
  <2>1. events # << >> /\ work = "idle" /\ Head(events).action = "publish"
    BY <1>5 DEF Create, First
  <2>2. CASE Inserted(Head(events).comment) /\ work' = "count" /\ events' = events
    <3>1. Head(events).comment \in Comments /\ Head(events) = Event(Head(events).comment)
      BY <2>1, FirstEntry
    <3>2. CASE c # Head(events).comment
      <4>1. made'[c] = made[c]
        BY <1>0, <2>2, <3>1, <3>2, RowInserted
      <4> QED
        BY <1>l, <2>1, <2>2, <4>1
    <3>3. CASE c = Head(events).comment
      <4>1. Has(events, c, 1)
        BY <2>1, <3>1, <3>3, FlowParts DEF Has
      <4>2. made[c] = 0
        BY <1>l, <2>1, <4>1
      <4>3. made'[c] = 1
        BY <1>0, <2>2, <3>1, <3>3, <4>2, RowInserted
      <4> QED
        BY <1>l, <2>2, <4>1, <4>3
    <3> QED
      BY <3>2, <3>3
  <2>3. CASE UNCHANGED <<rows, made, work>> /\ Drops(events, events')
    <3>1. \A i : Has(events', c, i) => Has(events, c, i + 1) /\ i + 1 # 1 /\ i \in Nat
      BY ONLY <1>0, <2>3, HasDropped
    <3> QED
      BY <1>b, <2>3, <3>1
  <2> QED
    BY <1>5, <2>1, <2>2, <2>3 DEF Create, Drops
<1>6. ASSUME Count \/ ApplyDelete \/ DeadLetter PROVE Goal
  <2>1. events # << >>
    BY <1>6 DEF Count, ApplyDelete, DeadLetter, First, CommentBase, FlowInv
  <2>2. Drops(events, events') /\ made' = made
    BY <1>6, <2>1 DEF Count, ApplyDelete, DeadLetter, Drops
  <2>3. \A i : Has(events', c, i) => Has(events, c, i + 1) /\ i + 1 # 1 /\ i \in Nat
    BY ONLY <1>0, <2>2, HasDropped
  <2> QED
    BY <1>b, <2>2, <2>3
<1>7. ASSUME Retry \/ Redeliver PROVE Goal
  <2>1. events # << >> /\ copied' = Copied
    BY <1>7 DEF Retry, Redeliver
  <2>2. Head(events) # Event(c)
    BY <2>1, EntryKinds DEF Copied
  <2>3. CASE Retry
    <3>1. Rotates(events, events')
      BY <2>3 DEF Retry, Rotates
    <3>2. \A i : Has(events', c, i) => Has(events, c, i + 1) /\ i + 1 # 1 /\ i \in Nat
      BY ONLY <1>0, <2>2, <3>1, HasRotated
    <3>3. made'[c] = made[c]
      <4>1. UNCHANGED made \/ (First("publish") /\ Inserted(Head(events).comment))
        BY <2>3 DEF Retry
      <4>2. First("publish") => Head(events).comment \in Comments /\ Head(events).comment # c
        BY <2>1, <2>2, FirstEntry DEF First
      <4> QED
        BY <1>0, <4>1, <4>2, RowInserted
    <3> QED
      BY <1>b, <3>2, <3>3
  <2>4. CASE Redeliver
    <3>1. UNCHANGED <<events, made>>
      BY <2>4 DEF Redeliver
    <3>2. ~Has(events, c, 1)
      BY <2>1, <2>2, FlowParts DEF Has
    <3> QED
      BY <1>l, <3>1, <3>2
  <2> QED
    BY <1>7, <2>3, <2>4
<1>8. ASSUME \/ \E d \in Comments : SendCommentFails(d) \/ SendHeat(d) \/ SendHeatFails(d) \/ UpdateCache(d)
                                    \/ TransactionFails(d) \/ FindForDelete(d)
             \/ \E d \in asked : DeleteFallback(d)
             \/ ApplyHeat \/ ApplyHeatUnacked \/ UNCHANGED commentVars
      PROVE  Goal
  <2>1. UNCHANGED <<events, made, work>>
    BY <1>8 DEF SendCommentFails, SendHeat, SendHeatFails, UpdateCache, TransactionFails, FindForDelete,
                DeleteFallback, ApplyHeat, ApplyHeatUnacked, commentVars
  <2> QED
    BY <1>a, <2>1
<1> HIDE DEF Goal
<1>9. Goal
  BY <1>1, <1>2, <1>3, <1>4, <1>5, <1>6, <1>7, <1>8 DEF CommentNext, CommentWorker
<1> QED
  BY <1>9 DEF Goal

-----------------------------------------------------------------------------
(* The two counters.                                                       *)

LEMMA Subsets ==
    ASSUME NEW S \in SUBSET Comments, NEW T \in SUBSET Comments
    PROVE  /\ IsFiniteSet(S) /\ Cardinality(S) \in Nat /\ Cardinality(T) \in Nat
           /\ S \subseteq T => Cardinality(S) <= Cardinality(T)
           /\ \A c : S \ {c} \subseteq T => Cardinality(S) <= Cardinality(T) + 1
           /\ \A c \in S : T = S \ {c} => Cardinality(T) = Cardinality(S) - 1
           /\ \A c : T = S \cup {c} /\ c \notin S => Cardinality(T) = Cardinality(S) + 1
<1>1. IsFiniteSet(S) /\ IsFiniteSet(T)
  BY CommentConstants, FS_Subset
<1>2. Cardinality(S) \in Nat /\ Cardinality(T) \in Nat
  BY <1>1, FS_CardinalityType
<1>3. S \subseteq T => Cardinality(S) <= Cardinality(T)
  BY <1>1, FS_Subset
<1>4. ASSUME NEW c PROVE Cardinality(S \ {c}) = IF c \in S THEN Cardinality(S) - 1 ELSE Cardinality(S)
  BY <1>1, FS_RemoveElement
<1>5. ASSUME NEW c PROVE S \ {c} \subseteq T => Cardinality(S \ {c}) <= Cardinality(T)
  BY <1>1, FS_Subset
<1>6. ASSUME NEW c PROVE Cardinality(S \cup {c}) = IF c \in S THEN Cardinality(S) ELSE Cardinality(S) + 1
  BY <1>1, FS_AddElement
<1>7. ASSUME NEW c PROVE S \ {c} \subseteq T => Cardinality(S) <= Cardinality(T) + 1
  <2> SUFFICES ASSUME S \ {c} \subseteq T PROVE Cardinality(S) <= Cardinality(T) + 1
    OBVIOUS
  <2> DEFINE k == Cardinality(S \ {c})
  <2>1. k <= Cardinality(T)
    BY <1>5
  <2>2. k = Cardinality(S) - 1 \/ k = Cardinality(S)
    BY <1>4
  <2> HIDE DEF k
  <2> QED
    BY ONLY <1>2, <2>1, <2>2
<1> QED
  BY <1>1, <1>2, <1>3, <1>4, <1>6, <1>7

\* The events in a queue that moves.
LEMMA EventsFinite ==
    ASSUME NEW s \in Seq(Entries)
    PROVE  IsFiniteSet(EventsIn(s)) /\ Cardinality(EventsIn(s)) \in Nat
<1>1. EventsIn(s) \subseteq 1 .. Len(s) /\ Len(s) \in Int
  BY DEF EventsIn
<1>2. IsFiniteSet(1 .. Len(s))
  BY <1>1, FS_Interval
<1>3. IsFiniteSet(EventsIn(s))
  BY <1>1, <1>2, FS_Subset
<1> QED
  BY <1>3, FS_CardinalityType

LEMMA EventsAppended ==
    ASSUME NEW s \in Seq(Entries), NEW e \in Entries, NEW t, Appends(s, e, t)
    PROVE  Cardinality(EventsIn(t)) <= Cardinality(EventsIn(s)) + IF e.action = "publish" THEN 1 ELSE 0
<1>1. IsFiniteSet(EventsIn(s)) /\ Cardinality(EventsIn(s)) \in Nat
  BY EventsFinite
<1>2. \A i \in DOMAIN s : t[i] = s[i]
  BY Appended
<1>3. \A i \in DOMAIN t : i \in DOMAIN s \/ i = Len(s) + 1
  BY Appended
<1>4. t[Len(s) + 1] = e
  BY Appended
<1>5. CASE e.action = "publish"
  <2>1. EventsIn(t) \subseteq EventsIn(s) \cup {Len(s) + 1}
    BY <1>2, <1>3 DEF EventsIn
  <2>2. IsFiniteSet(EventsIn(s) \cup {Len(s) + 1})
        /\ Cardinality(EventsIn(s) \cup {Len(s) + 1}) \in {Cardinality(EventsIn(s)), Cardinality(EventsIn(s)) + 1}
    BY <1>1, FS_AddElement
  <2>3. Cardinality(EventsIn(t)) <= Cardinality(EventsIn(s) \cup {Len(s) + 1}) /\ IsFiniteSet(EventsIn(t))
    BY <2>1, <2>2, FS_Subset
  <2>4. Cardinality(EventsIn(t)) \in Nat
    BY <2>3, FS_CardinalityType
  <2> QED
    BY <1>1, <1>5, <2>2, <2>3, <2>4
<1>6. CASE e.action # "publish"
  <2>1. EventsIn(t) \subseteq EventsIn(s)
    BY <1>2, <1>3, <1>4, <1>6 DEF EventsIn
  <2>2. Cardinality(EventsIn(t)) <= Cardinality(EventsIn(s)) /\ IsFiniteSet(EventsIn(t))
    BY <1>1, <2>1, FS_Subset
  <2>3. Cardinality(EventsIn(t)) \in Nat
    BY <2>2, FS_CardinalityType
  <2> QED
    BY <1>1, <1>6, <2>2, <2>3
<1> QED
  BY <1>5, <1>6

LEMMA EventsDropped ==
    ASSUME NEW s \in Seq(Entries), NEW t, Drops(s, t)
    PROVE  Cardinality(EventsIn(t)) <= Cardinality(EventsIn(s)) - IF Head(s).action = "publish" THEN 1 ELSE 0
<1>1. IsFiniteSet(EventsIn(s)) /\ Cardinality(EventsIn(s)) \in Nat
  BY EventsFinite
<1>2. DOMAIN t = 1 .. Len(s) - 1 /\ Len(s) \in Nat /\ 1 \in DOMAIN s /\ Head(s) = s[1]
  BY Dropped
<1>3. \A i \in DOMAIN t : t[i] = s[i + 1] /\ i + 1 \in DOMAIN s /\ i + 1 # 1
  BY Dropped
<1> DEFINE f == [i \in EventsIn(t) |-> i + 1]
           R == EventsIn(s) \ {1}
<1>4. f \in Injection(EventsIn(t), R)
  <2>1. \A i \in EventsIn(t) : i + 1 \in R /\ i \in Nat
    BY <1>2, <1>3 DEF EventsIn
  <2>2. f \in [EventsIn(t) -> R]
    BY <2>1
  <2>3. \A i, j \in EventsIn(t) : f[i] = f[j] => i = j
    BY <2>1
  <2> HIDE DEF f, R
  <2> QED
    BY <2>2, <2>3 DEF Injection, IsInjective
<1>5. /\ IsFiniteSet(R)
      /\ Cardinality(R) = IF 1 \in EventsIn(s) THEN Cardinality(EventsIn(s)) - 1 ELSE Cardinality(EventsIn(s))
  BY <1>1, FS_RemoveElement
<1> HIDE DEF f, R
<1>6. Cardinality(EventsIn(t)) <= Cardinality(R) /\ IsFiniteSet(EventsIn(t))
  BY <1>4, <1>5, FS_Injection
<1>7. Cardinality(EventsIn(t)) \in Nat
  BY <1>6, FS_CardinalityType
<1>8. 1 \in EventsIn(s) <=> Head(s).action = "publish"
  BY <1>2 DEF EventsIn
<1> QED
  BY <1>1, <1>5, <1>6, <1>7, <1>8

LEMMA EventsRotated ==
    ASSUME NEW s \in Seq(Entries), NEW t, Rotates(s, t)
    PROVE  Cardinality(EventsIn(t)) <= Cardinality(EventsIn(s))
<1> DEFINE u == Tail(s)
<1>1. Drops(s, u) /\ Appends(u, Head(s), t)
  BY DEF Rotates, Drops, Appends
<1> HIDE DEF u
<1>2. u \in Seq(Entries) /\ Head(s) = s[1] /\ s[1] \in Entries
  BY <1>1, Dropped
<1>3. Cardinality(EventsIn(u)) <= Cardinality(EventsIn(s)) - IF Head(s).action = "publish" THEN 1 ELSE 0
  BY <1>1, EventsDropped
<1>4. Cardinality(EventsIn(t)) <= Cardinality(EventsIn(u)) + IF Head(s).action = "publish" THEN 1 ELSE 0
  <2>1. Head(s) \in Entries
    BY <1>2
  <2> QED
    BY ONLY <1>1, <1>2, <2>1, EventsAppended
<1>5. t \in Seq(Entries)
  BY Rotated
<1>6. Cardinality(EventsIn(t)) \in Nat /\ Cardinality(EventsIn(u)) \in Nat /\ Cardinality(EventsIn(s)) \in Nat
  BY <1>2, <1>5, EventsFinite
<1> QED
  BY <1>3, <1>4, <1>6

\* The debts of the calls, when c has moved.
LEMMA Debts ==
    ASSUME CommentTypeOK, NEW c \in Comments, \A d \in Comments \ {c} : todo'[d] = todo[d]
    PROVE  /\ c \in OwesRow /\ c \notin OwesRow' => Cardinality(OwesRow') = Cardinality(OwesRow) - 1
           /\ c \in OwesHeat /\ c \notin OwesHeat' => Cardinality(OwesHeat') = Cardinality(OwesHeat) - 1
           /\ (c \in OwesRow <=> c \in OwesRow') => OwesRow' = OwesRow
           /\ (c \in OwesHeat <=> c \in OwesHeat') => OwesHeat' = OwesHeat
<1>1. OwesRow \in SUBSET Comments /\ OwesRow' \in SUBSET Comments
  BY DEF OwesRow
<1>2. OwesHeat \in SUBSET Comments /\ OwesHeat' \in SUBSET Comments
  BY DEF OwesHeat
<1>3. \A d \in Comments \ {c} : d \in OwesRow <=> d \in OwesRow'
  BY DEF OwesRow
<1>4. \A d \in Comments \ {c} : d \in OwesHeat <=> d \in OwesHeat'
  BY DEF OwesHeat
<1>5. c \in OwesRow /\ c \notin OwesRow' => OwesRow' = OwesRow \ {c}
  BY <1>1, <1>3
<1>6. c \in OwesHeat /\ c \notin OwesHeat' => OwesHeat' = OwesHeat \ {c}
  BY <1>2, <1>4
<1>7. c \in OwesRow /\ c \notin OwesRow' => Cardinality(OwesRow') = Cardinality(OwesRow) - 1
  BY ONLY <1>1, <1>5, Subsets
<1>8. c \in OwesHeat /\ c \notin OwesHeat' => Cardinality(OwesHeat') = Cardinality(OwesHeat) - 1
  BY ONLY <1>2, <1>6, Subsets
<1>9. (c \in OwesRow <=> c \in OwesRow') => OwesRow' = OwesRow
  BY <1>1, <1>3
<1>10. (c \in OwesHeat <=> c \in OwesHeat') => OwesHeat' = OwesHeat
  BY <1>2, <1>4
<1> QED
  BY <1>7, <1>8, <1>9, <1>10

LEMMA Numbers ==
    ASSUME CommentBase
    PROVE  /\ Cardinality(OwesRow) \in Nat /\ Cardinality(OwesHeat) \in Nat /\ Cardinality(Unmade) \in Nat
           /\ Cardinality(EventsIn(events)) \in Nat /\ Counting \in Nat
           /\ popularity \in Nat /\ heat \in Nat /\ heatq \in Nat /\ faults \in Nat
<1>1. OwesRow \in SUBSET Comments /\ OwesHeat \in SUBSET Comments /\ Unmade \in SUBSET Comments
  BY DEF OwesRow, OwesHeat, Unmade
<1>2. Cardinality(OwesRow) \in Nat /\ Cardinality(OwesHeat) \in Nat /\ Cardinality(Unmade) \in Nat
  BY <1>1, Subsets
<1>3. Cardinality(EventsIn(events)) \in Nat
  BY FlowParts, EventsFinite
<1> QED
  BY <1>2, <1>3, Faulty DEF CommentBase, CommentTypeOK, Counting

\* The comments that wait for their row, when the queue or the rows have changed.
LEMMA Waiting ==
    /\ Unmade \subseteq Unmade' => Cardinality(Unmade) <= Cardinality(Unmade')
    /\ \A c : Unmade \ {c} \subseteq Unmade' => Cardinality(Unmade) <= Cardinality(Unmade') + 1
<1>1. Unmade \in SUBSET Comments /\ Unmade' \in SUBSET Comments
  BY DEF Unmade
<1>2. Unmade \subseteq Unmade' => Cardinality(Unmade) <= Cardinality(Unmade')
  BY ONLY <1>1, Subsets
<1>3. \A c : Unmade \ {c} \subseteq Unmade' => Cardinality(Unmade) <= Cardinality(Unmade') + 1
  BY ONLY <1>1, Subsets
<1> QED
  BY <1>2, <1>3

\* Where an event is after the queue has moved.
LEMMA HasStays ==
    ASSUME NEW s \in Seq(Entries), NEW t, NEW c, NEW i, Has(s, c, i)
    PROVE  /\ \A e \in Entries : Appends(s, e, t) => \E j \in DOMAIN t : Has(t, c, j)
           /\ Drops(s, t) /\ Head(s) # Event(c) => \E j \in DOMAIN t : Has(t, c, j)
           /\ Rotates(s, t) => \E j \in DOMAIN t : Has(t, c, j)
<1>1. ASSUME NEW e \in Entries, Appends(s, e, t) PROVE \E j \in DOMAIN t : Has(t, c, j)
  <2>1. \A k \in DOMAIN s : t[k] = s[k] /\ k \in DOMAIN t
    BY <1>1, Appended
  <2> QED
    BY <2>1 DEF Has
<1>2. ASSUME Drops(s, t), Head(s) # Event(c) PROVE \E j \in DOMAIN t : Has(t, c, j)
  <2>1. \A k \in DOMAIN s : k # 1 => k - 1 \in DOMAIN t /\ t[k - 1] = s[k]
    BY <1>2, Dropped
  <2>2. Head(s) = s[1]
    BY <1>2, Dropped
  <2> QED
    BY <1>2, <2>1, <2>2 DEF Has
<1>3. ASSUME Rotates(s, t) PROVE \E j \in DOMAIN t : Has(t, c, j)
  <2>1. \A k \in DOMAIN s : k # 1 => k - 1 \in DOMAIN t /\ t[k - 1] = s[k]
    BY <1>3, Rotated
  <2>2. Len(s) \in DOMAIN t /\ t[Len(s)] = s[1]
    BY <1>3, Rotated
  <2> QED
    BY <2>1, <2>2 DEF Has
<1> QED
  BY <1>1, <1>2, <1>3

\* Who still waits for a row after a step: everyone but those in S.
LEMMA StillWaiting ==
    ASSUME CommentBase, NEW S, \A d \in Comments \ S : made'[d] = made[d],
           \/ events' = events \/ Rotates(events, events') \/ \E e \in Entries : Appends(events, e, events')
           \/ Drops(events, events') /\ \A d \in Comments \ S : Head(events) # Event(d)
    PROVE  Unmade \ S \subseteq Unmade'
<1> SUFFICES ASSUME NEW d \in Unmade, d \notin S PROVE d \in Unmade'
  OBVIOUS
<1>1. events \in Seq(Entries)
  BY FlowParts
<1>2. d \in Comments /\ made[d] = 0 /\ made'[d] = 0
  BY DEF Unmade
<1>3. PICK i \in DOMAIN events : Has(events, d, i)
  BY DEF Unmade
<1>4. CASE events' = events
  BY <1>2, <1>3, <1>4 DEF Unmade, Has
<1>5. CASE events' # events
  <2>1. \/ Rotates(events, events') \/ \E e \in Entries : Appends(events, e, events')
        \/ Drops(events, events') /\ Head(events) # Event(d)
    BY <1>2, <1>5
  <2>2. \E j \in DOMAIN events' : Has(events', d, j)
    BY ONLY <1>1, <1>3, <2>1, HasStays
  <2> QED
    BY <1>2, <2>2 DEF Unmade, Has
<1> QED
  BY <1>4, <1>5

LEMMA AgreeStep == CommentBase /\ CommentBase' /\ AgreeInv /\ [CommentNext]_commentVars => AgreeInv'
<1> SUFFICES ASSUME CommentBase, CommentBase', AgreeInv, [CommentNext]_commentVars PROVE AgreeInv'
  OBVIOUS
<1> DEFINE o == Cardinality(OwesRow)
           h == Cardinality(OwesHeat)
           q == Cardinality(EventsIn(events))
           u == Cardinality(Unmade)
           e == heat + heatq
<1>0. /\ CommentTypeOK /\ events \in Seq(Entries) /\ work \in {"idle", "count"}
      /\ \A c \in Comments : made[c] \in Nat /\ rows[c] \in {0, made[c]}
  BY FlowParts DEF CommentBase, CommentTypeOK
<1>1. /\ o \in Nat /\ h \in Nat /\ q \in Nat /\ u \in Nat /\ e \in Nat /\ Counting \in Nat
      /\ popularity \in Nat /\ heat \in Nat /\ heatq \in Nat /\ faults \in Nat
  BY Numbers
<1>2. /\ o' \in Nat /\ h' \in Nat /\ q' \in Nat /\ u' \in Nat /\ e' \in Nat /\ Counting' \in Nat
      /\ popularity' \in Nat /\ heat' \in Nat /\ heatq' \in Nat /\ faults' \in Nat
  <2>1. OwesRow' \in SUBSET Comments /\ OwesHeat' \in SUBSET Comments /\ Unmade' \in SUBSET Comments
    BY DEF OwesRow, OwesHeat, Unmade
  <2>2. events' \in Seq(Entries)
    BY DEF CommentBase, CommentTypeOK, Entries
  <2>3. o' \in Nat /\ h' \in Nat /\ q' \in Nat /\ u' \in Nat
    BY <2>1, <2>2, Subsets, EventsFinite
  <2>4. popularity' \in Nat /\ heat' \in Nat /\ heatq' \in Nat /\ faults' \in Nat
    BY CommentConstants DEF CommentBase, CommentTypeOK
  <2>5. Counting' \in Nat
    BY DEF Counting
  <2>6. \A a, b \in Nat : a + b \in Nat
    OBVIOUS
  <2>7. e' \in Nat
    BY <2>4, <2>6
  <2> HIDE DEF o, h, q, u, e
  <2> QED
    BY <2>3, <2>4, <2>5, <2>7
<1>3. /\ popularity + o + q <= e + h + faults
      /\ e + h <= popularity + Counting + o + u + faults
  BY DEF AgreeInv, HeatDue
<1> SUFFICES ASSUME NEW p1 \in Nat, NEW o1 \in Nat, NEW q1 \in Nat, NEW e1 \in Nat,
                    NEW h1 \in Nat, NEW k1 \in Nat, NEW u1 \in Nat, NEW f1 \in Nat,
                    p1 = popularity', o1 = o', q1 = q', e1 = e', h1 = h', k1 = Counting', u1 = u', f1 = faults'
             PROVE  p1 + o1 + q1 <= e1 + h1 + f1 /\ e1 + h1 <= p1 + k1 + o1 + u1 + f1
  <2>1. AgreeInv' <=> /\ popularity' + o' + q' <= e' + h' + faults'
                      /\ e' + h' <= popularity' + Counting' + o' + u' + faults'
    BY DEF AgreeInv, HeatDue
  <2> HIDE DEF o, h, q, u, e
  <2> QED
    BY <1>2, <2>1
<1> DEFINE Goal == p1 + o1 + q1 <= e1 + h1 + f1 /\ e1 + h1 <= p1 + k1 + o1 + u1 + f1
<1>c. /\ k1 = IF work' = "count" THEN 1 ELSE 0
      /\ Counting = IF work = "count" THEN 1 ELSE 0
  BY DEF Counting
<1>f. (Fault => f1 = faults + 1) /\ (NoFault => f1 = faults) /\ (faults' = faults => f1 = faults)
  BY <1>0, Faulty
<1>e. (heat' = heat /\ heatq' = heatq => e1 = e) /\ (popularity' = popularity => p1 = popularity)
  OBVIOUS
\* What depends on what.
<1>t. todo' = todo => o1 = o /\ h1 = h
  BY DEF OwesRow, OwesHeat
<1>q. events' = events => q1 = q
  BY DEF EventsIn
<1>a. (\E d \in Entries : d.action = "publish" /\ Appends(events, d, events')) => q1 <= q + 1
  <2> SUFFICES ASSUME NEW d \in Entries, d.action = "publish", Appends(events, d, events') PROVE q1 <= q + 1
    OBVIOUS
  <2>1. Cardinality(EventsIn(events')) <= Cardinality(EventsIn(events)) + 1
    BY <1>0, EventsAppended
  <2> QED
    BY <2>1 DEF EventsIn
<1>b. (\E d \in Entries : d.action # "publish" /\ Appends(events, d, events')) => q1 <= q
  <2> SUFFICES ASSUME NEW d \in Entries, d.action # "publish", Appends(events, d, events') PROVE q1 <= q
    OBVIOUS
  <2>1. Cardinality(EventsIn(events')) <= Cardinality(EventsIn(events)) + 0
    BY <1>0, EventsAppended
  <2>2. q1 = Cardinality(EventsIn(events'))
    BY DEF EventsIn
  <2> HIDE DEF q
  <2> QED
    BY <1>1, <2>1, <2>2 DEF q
<1>d. Drops(events, events') => q1 <= q /\ (Head(events).action = "publish" => q1 + 1 <= q)
  <2> SUFFICES ASSUME Drops(events, events') PROVE q1 <= q /\ (Head(events).action = "publish" => q1 + 1 <= q)
    OBVIOUS
  <2>1. Cardinality(EventsIn(events')) <= Cardinality(EventsIn(events)) - IF Head(events).action = "publish" THEN 1 ELSE 0
    BY <1>0, EventsDropped
  <2>2. q1 <= q - IF Head(events).action = "publish" THEN 1 ELSE 0
    BY <2>1 DEF EventsIn
  <2> HIDE DEF q
  <2>3. CASE Head(events).action = "publish"
    <3>1. q1 <= q - 1
      BY <2>2, <2>3
    <3> QED
      BY ONLY <1>1, <3>1
  <2>4. CASE Head(events).action # "publish"
    <3>1. q1 <= q - 0
      BY <2>2, <2>4
    <3> QED
      BY ONLY <1>1, <2>4, <3>1
  <2> QED
    BY <2>3, <2>4
<1>r. Rotates(events, events') => q1 <= q
  <2> SUFFICES ASSUME Rotates(events, events') PROVE q1 <= q
    OBVIOUS
  <2>1. Cardinality(EventsIn(events')) <= Cardinality(EventsIn(events))
    BY <1>0, EventsRotated
  <2> QED
    BY <2>1 DEF EventsIn
<1>u. (events' = events /\ made' = made => u1 = u) /\ (Unmade \subseteq Unmade' => u <= u1)
      /\ \A c : Unmade \ {c} \subseteq Unmade' => u <= u1 + 1
  <2>1. events' = events /\ made' = made => u1 = u
    BY DEF Unmade
  <2> QED
    BY <2>1, Waiting
<1>w. ASSUME made' = made, \/ Rotates(events, events') \/ \E d \in Entries : Appends(events, d, events')
                           \/ Drops(events, events') /\ \A d \in Comments \ {} : Head(events) # Event(d)
      PROVE  u <= u1
  <2>1. Unmade \ {} \subseteq Unmade'
    BY <1>w, StillWaiting
  <2> QED
    BY <1>u, <2>1
<1>m. \A c \in Unmade : c \in Comments /\ made[c] = 0 /\ c \in sent
  BY EntryKinds DEF Unmade, Has, CommentBase, FlowInv
<1>n. ASSUME NEW c \in Comments PROVE Event(c) \in Entries /\ Event(c).action = "publish" /\ Event(c).comment = c
  BY EntryKinds DEF Entries
<1> HIDE DEF o, h, q, u, e, Goal
\* Publish.
<1>4. ASSUME NEW c \in Comments, SendComment(c) PROVE Goal
  <2>1. /\ UNCHANGED <<rows, made, work, popularity, heat, heatq>> /\ Then(c, "comment", {})
        /\ "comment" \in todo[c] /\ "row" \notin todo[c] /\ c \notin sent /\ made[c] = 0
    BY <1>4, Order, FlowParts DEF SendComment, CallOK
  <2>2. \A d \in Comments \ {c} : todo'[d] = todo[d]
    BY <1>0, <2>1, Stepped
  <2>3. todo'[c] = (todo[c] \ {"comment"}) \cup {}
    BY <1>0, <2>1, Stepped
  <2>4. o1 = o - 1 /\ h1 = h
    <3>1. c \in OwesRow /\ c \notin OwesRow' /\ (c \in OwesHeat <=> c \in OwesHeat')
      BY <2>1, <2>3 DEF OwesRow, OwesHeat
    <3>2. Cardinality(OwesRow') = Cardinality(OwesRow) - 1 /\ OwesHeat' = OwesHeat
      BY <1>0, <2>2, <3>1, Debts
    <3> QED
      BY <3>2 DEF o, h
  <2>5. p1 = popularity /\ e1 = e /\ k1 = Counting
    BY <1>c, <1>e, <2>1
  <2>6. CASE Appends(events, Event(c), events') /\ NoFault
    <3>1. q1 <= q + 1 /\ f1 = faults
      BY <1>a, <1>f, <1>n, <2>6
    <3>2. u1 = u + 1
      <4>1. c \notin Unmade
        BY <1>m, <2>1
      <4>2. Unmade \ {} \subseteq Unmade'
        BY <1>n, <2>1, <2>6, StillWaiting
      <4>3. c \in Unmade'
        <5>1. events'[Len(events) + 1] = Event(c) /\ Len(events) + 1 \in DOMAIN events'
          <6>1. Event(c) \in Entries
            BY <1>n
          <6>2. events'[Len(events) + 1] = Event(c) /\ DOMAIN events' = 1 .. Len(events) + 1 /\ Len(events) \in Nat
            BY ONLY <1>0, <2>6, <6>1, Appended
          <6> QED
            BY <6>2
        <5> QED
          BY <2>1, <5>1 DEF Unmade, Has
      <4>4. \A d \in Unmade' : d \in Unmade \/ d = c
        <5> SUFFICES ASSUME NEW d \in Unmade', d # c PROVE d \in Unmade
          OBVIOUS
        <5>1. d \in Comments /\ made[d] = 0 /\ \E i \in DOMAIN events' : Has(events', d, i)
          BY <2>1 DEF Unmade, Has
        <5>2. PICK i \in DOMAIN events' : Has(events', d, i)
          BY <5>1
        <5>3. Event(c) # Event(d) /\ Event(c) \in Entries
          BY <1>n, <5>1
        <5>4. Has(events, d, i)
          BY ONLY <1>0, <2>6, <5>2, <5>3, HasAppended
        <5> QED
          BY <5>1, <5>4 DEF Unmade, Has
      <4>5. Unmade \in SUBSET Comments /\ Unmade' \in SUBSET Comments /\ Unmade' = Unmade \cup {c}
        BY <4>2, <4>3, <4>4 DEF Unmade
      <4>6. Cardinality(Unmade') = Cardinality(Unmade) + 1
        BY ONLY <4>1, <4>5, Subsets
      <4> QED
        BY <4>6 DEF u
    <3> QED
      BY ONLY <1>1, <1>3, <2>4, <2>5, <3>1, <3>2 DEF Goal
  <2>7. CASE events' = events /\ Fault
    <3>1. q1 = q /\ f1 = faults + 1 /\ u1 = u
      BY <1>f, <1>q, <1>u, <2>1, <2>7
    <3> QED
      BY ONLY <1>1, <1>3, <2>4, <2>5, <3>1 DEF Goal
  <2> QED
    BY <1>4, <2>6, <2>7 DEF SendComment, Appends
<1>5. ASSUME NEW c \in Comments, SendCommentFails(c) \/ SendHeatFails(c) PROVE Goal
  <2>1. UNCHANGED <<events, rows, made, work, popularity, heat, heatq>> /\ Fault
    BY <1>5 DEF SendCommentFails, SendHeatFails
  <2>2. /\ \A d \in Comments \ {c} : todo'[d] = todo[d]
        /\ c \in OwesRow <=> c \in OwesRow'
        /\ c \in OwesHeat <=> c \in OwesHeat'
    <3>1. CASE SendCommentFails(c)
      <4>1. Then(c, "comment", {"row"}) /\ "comment" \in todo[c]
        BY <3>1, Order DEF SendCommentFails
      <4>2. todo'[c] = (todo[c] \ {"comment"}) \cup {"row"} /\ \A d \in Comments \ {c} : todo'[d] = todo[d]
        BY <1>0, <4>1, Stepped
      <4> QED
        BY <4>1, <4>2 DEF OwesRow, OwesHeat
    <3>2. CASE SendHeatFails(c)
      <4>1. Then(c, "heat", {"window"}) /\ "heat" \in todo[c]
        BY <3>2, Order DEF SendHeatFails
      <4>2. todo'[c] = (todo[c] \ {"heat"}) \cup {"window"} /\ \A d \in Comments \ {c} : todo'[d] = todo[d]
        BY <1>0, <4>1, Stepped
      <4> QED
        BY <4>1, <4>2 DEF OwesRow, OwesHeat
    <3> QED
      BY <1>5, <3>1, <3>2
  <2>3. OwesRow' = OwesRow /\ OwesHeat' = OwesHeat
    BY <1>0, <2>2, Debts
  <2>4. o1 = o /\ h1 = h
    BY <2>3 DEF o, h
  <2>5. p1 = popularity /\ e1 = e /\ k1 = Counting /\ q1 = q /\ u1 = u /\ f1 = faults + 1
    BY <1>c, <1>e, <1>f, <1>q, <1>u, <2>1
  <2> QED
    BY ONLY <1>1, <1>3, <2>4, <2>5 DEF Goal
<1>6. ASSUME NEW c \in Comments, SendHeat(c) \/ UpdateCache(c) PROVE Goal
  <2>1. /\ UNCHANGED <<events, rows, made, work, popularity>>
        /\ \/ heat' + heatq' = heat + heatq + 1 /\ NoFault
           \/ UNCHANGED <<heat, heatq>> /\ Fault
    BY <1>1, <1>6 DEF SendHeat, UpdateCache
  <2>2. /\ \A d \in Comments \ {c} : todo'[d] = todo[d]
        /\ c \in OwesRow <=> c \in OwesRow'
        /\ c \in OwesHeat /\ c \notin OwesHeat'
    <3>1. CASE SendHeat(c)
      <4>1. Then(c, "heat", {}) /\ "heat" \in todo[c] /\ "window" \notin todo[c]
        BY <3>1, Order, FlowParts DEF SendHeat, CallOK
      <4>2. todo'[c] = (todo[c] \ {"heat"}) \cup {} /\ \A d \in Comments \ {c} : todo'[d] = todo[d]
        BY <1>0, <4>1, Stepped
      <4> QED
        BY <4>1, <4>2 DEF OwesRow, OwesHeat
    <3>2. CASE UpdateCache(c)
      <4>1. Then(c, "window", {}) /\ "window" \in todo[c] /\ "heat" \notin todo[c]
        BY <3>2, Order DEF UpdateCache
      <4>2. todo'[c] = (todo[c] \ {"window"}) \cup {} /\ \A d \in Comments \ {c} : todo'[d] = todo[d]
        BY <1>0, <4>1, Stepped
      <4> QED
        BY <4>1, <4>2 DEF OwesRow, OwesHeat
    <3> QED
      BY <1>6, <3>1, <3>2
  <2>3. OwesRow' = OwesRow /\ Cardinality(OwesHeat') = Cardinality(OwesHeat) - 1
    BY <1>0, <2>2, Debts
  <2>4. o1 = o /\ h1 = h - 1
    BY <2>3 DEF o, h
  <2>5. /\ p1 = popularity /\ q1 = q /\ u1 = u /\ k1 = Counting
        /\ (e1 = e + 1 /\ f1 = faults) \/ (e1 = e /\ f1 = faults + 1)
    BY <1>1, <1>c, <1>e, <1>f, <1>q, <1>u, <2>1 DEF e
  <2> QED
    BY ONLY <1>1, <1>3, <2>4, <2>5 DEF Goal
<1>7. ASSUME NEW c \in Comments, Transaction(c) \/ TransactionFails(c) PROVE Goal
  <2>1. /\ UNCHANGED <<events, work, heat, heatq>> /\ "row" \in todo[c]
        /\ "comment" \notin todo[c] /\ "heat" \notin todo[c] /\ c \notin sent
    BY <1>7, Order, FlowParts DEF Transaction, TransactionFails, CallOK
  <2>2. e1 = e /\ k1 = Counting /\ q1 = q
    BY <1>c, <1>e, <1>q, <2>1
  <2>3. CASE Transaction(c)
    <3>1. Then(c, "row", {}) /\ Inserted(c) /\ popularity' = popularity + 1 /\ faults' = faults
      BY <2>3 DEF Transaction
    <3>2. todo'[c] = (todo[c] \ {"row"}) \cup {} /\ \A d \in Comments \ {c} : todo'[d] = todo[d]
      BY <1>0, <3>1, Stepped
    <3>3. c \in OwesRow /\ c \notin OwesRow' /\ (c \in OwesHeat <=> c \in OwesHeat')
      BY <2>1, <3>2 DEF OwesRow, OwesHeat
    <3>4. Cardinality(OwesRow') = Cardinality(OwesRow) - 1 /\ OwesHeat' = OwesHeat
      BY <1>0, <3>2, <3>3, Debts
    <3>5. o1 = o - 1 /\ h1 = h
      BY <3>4 DEF o, h
    <3>6. \A d \in Comments \ {c} : made'[d] = made[d]
      BY <1>0, <3>1, RowInserted
    <3>7. Unmade \ {c} \subseteq Unmade'
      BY <2>1, <3>6, StillWaiting
    <3>8. u <= u1 /\ p1 = popularity + 1 /\ f1 = faults
      BY <1>f, <1>m, <1>u, <2>1, <3>1, <3>7
    <3> QED
      BY ONLY <1>1, <1>3, <2>2, <3>5, <3>8 DEF Goal
  <2>4. CASE TransactionFails(c)
    <3>1. todo' = [todo EXCEPT ![c] = {}] /\ Fault /\ UNCHANGED <<made, popularity>>
      BY <2>4 DEF TransactionFails
    <3>2. todo'[c] = {} /\ \A d \in Comments \ {c} : todo'[d] = todo[d]
      BY <1>0, <3>1 DEF CommentTypeOK
    <3>3. c \in OwesRow /\ c \notin OwesRow' /\ c \notin OwesHeat'
      BY <2>1, <3>2 DEF OwesRow, OwesHeat
    <3>4. Cardinality(OwesRow') = Cardinality(OwesRow) - 1
      BY <1>0, <3>2, <3>3, Debts
    <3>5. OwesHeat' = OwesHeat \/ Cardinality(OwesHeat') = Cardinality(OwesHeat) - 1
      BY <1>0, <3>2, <3>3, Debts
    <3>6. o1 = o - 1 /\ (h1 = h \/ h1 = h - 1)
      BY <3>4, <3>5 DEF o, h
    <3>7. u1 = u /\ p1 = popularity /\ f1 = faults + 1
      BY <1>e, <1>f, <1>u, <2>1, <3>1
    <3> QED
      BY ONLY <1>1, <1>3, <2>2, <3>6, <3>7 DEF Goal
  <2> QED
    BY <1>7, <2>3, <2>4
\* Delete, and the steps that touch neither counter.
<1>8. ASSUME \/ \E c \in Comments : FindForDelete(c)
             \/ \E d \in asked : DeleteFallback(d)
             \/ UNCHANGED commentVars
      PROVE Goal
  <2>1. UNCHANGED <<todo, events, made, work, popularity, heat, heatq>> /\ (Fault \/ faults' = faults)
    BY <1>8 DEF FindForDelete, DeleteFallback, commentVars
  <2>2. /\ p1 = popularity /\ e1 = e /\ k1 = Counting /\ q1 = q /\ u1 = u /\ o1 = o /\ h1 = h
        /\ f1 = faults \/ f1 = faults + 1
    BY <1>c, <1>e, <1>f, <1>q, <1>t, <1>u, <2>1
  <2> QED
    BY ONLY <1>1, <1>3, <2>2 DEF Goal
<1>9. ASSUME NEW d \in asked, SendDelete(d) PROVE Goal
  <2>1. /\ UNCHANGED <<todo, made, work, popularity, heat, heatq>> /\ (Fault \/ NoFault) /\ d \in Deletions
        /\ events' = events \/ Appends(events, d, events')
    BY <1>0, <1>9 DEF SendDelete, Appends, CommentTypeOK
  <2>2. d \in Entries /\ d.action # "publish"
    BY <2>1, EntryKinds DEF Entries
  <2>3. q1 <= q /\ u <= u1
    <3>1. CASE events' = events
      BY <1>1, <1>q, <1>u, <2>1, <3>1
    <3>2. CASE Appends(events, d, events')
      <4>1. u <= u1
        BY <1>w, <2>1, <2>2, <3>2
      <4> QED
        BY <1>b, <2>2, <3>2, <4>1
    <3> QED
      BY <2>1, <3>1, <3>2
  <2>4. /\ p1 = popularity /\ e1 = e /\ k1 = Counting /\ o1 = o /\ h1 = h
        /\ f1 = faults \/ f1 = faults + 1
    BY <1>c, <1>e, <1>f, <1>t, <2>1
  <2> QED
    BY ONLY <1>1, <1>3, <2>3, <2>4 DEF Goal
\* The worker.
<1>10. ASSUME Create PROVE Goal
  <2>1. events # << >> /\ work = "idle" /\ Head(events).action = "publish"
    BY <1>10 DEF Create, First
  <2>2. UNCHANGED <<todo, popularity, heat, heatq, faults>>
    BY <1>10 DEF Create
  <2>3. p1 = popularity /\ e1 = e /\ o1 = o /\ h1 = h /\ f1 = faults /\ Counting = 0
    BY <1>c, <1>e, <1>f, <1>t, <2>1, <2>2
  <2>4. PICK c \in Comments : c = Head(events).comment /\ Head(events) = Event(c)
    BY <2>1, FirstEntry
  <2>5. CASE Inserted(c) /\ work' = "count" /\ events' = events
    <3>1. \A d \in Comments \ {c} : made'[d] = made[d]
      BY <1>0, <2>5, RowInserted
    <3>2. Unmade \ {c} \subseteq Unmade'
      BY <2>5, <3>1, StillWaiting
    <3>3. u <= u1 + 1 /\ k1 = 1 /\ q1 = q
      BY <1>c, <1>q, <1>u, <2>5, <3>2
    <3> QED
      BY ONLY <1>1, <1>3, <2>3, <3>3 DEF Goal
  <2>6. CASE rows[c] # 0 /\ UNCHANGED <<rows, made, work>> /\ Drops(events, events')
    <3>1. c \notin Unmade
      BY <1>0, <1>m, <2>6
    <3>2. \A d \in Comments \ {c} : Head(events) # Event(d)
      BY <1>n, <2>4
    <3>3. Unmade \ {c} \subseteq Unmade'
      BY <2>6, <3>2, StillWaiting
    <3>4. u <= u1
      BY <1>u, <3>1, <3>3
    <3>5. q1 <= q /\ k1 = 0
      BY <1>c, <1>d, <2>1, <2>6
    <3> QED
      BY ONLY <1>1, <1>3, <2>3, <3>4, <3>5 DEF Goal
  <2> QED
    BY <1>10, <2>1, <2>4, <2>5, <2>6 DEF Create, Drops
<1>11. ASSUME Count PROVE Goal
  <2>1. events # << >> /\ work = "count" /\ Head(events).action = "publish" /\ made[Head(events).comment] > 0
    BY <1>11 DEF Count, CommentBase, FlowInv
  <2>2. /\ UNCHANGED <<todo, made, heat, heatq, faults>> /\ popularity' = popularity + 1 /\ work' = "idle"
        /\ Drops(events, events')
    BY <1>11, <2>1 DEF Count, Drops
  <2>3. /\ p1 = popularity + 1 /\ e1 = e /\ o1 = o /\ h1 = h /\ f1 = faults
        /\ Counting = 1 /\ k1 = 0
    BY <1>c, <1>e, <1>f, <1>t, <2>1, <2>2
  <2>4. PICK c \in Comments : c = Head(events).comment /\ Head(events) = Event(c)
    BY <2>1, FirstEntry
  <2>5. c \notin Unmade
    BY <1>0, <1>m, <2>1, <2>4
  <2>6. \A d \in Comments \ {c} : Head(events) # Event(d)
    BY <1>n, <2>4
  <2>7. Unmade \ {c} \subseteq Unmade'
    BY <2>2, <2>6, StillWaiting
  <2>8. u <= u1 /\ q1 + 1 <= q
    BY <1>d, <1>u, <2>1, <2>2, <2>5, <2>7
  <2> QED
    BY ONLY <1>1, <1>3, <2>3, <2>8 DEF Goal
<1>12. ASSUME ApplyDelete PROVE Goal
  <2>1. /\ UNCHANGED <<todo, made, work, popularity, heat, heatq, faults>> /\ Drops(events, events')
        /\ Head(events).action = "delete"
    BY <1>12 DEF ApplyDelete, First, Drops
  <2>2. \A d \in Comments \ {} : Head(events) # Event(d)
    BY <1>n, <2>1
  <2>3. u <= u1
    BY <1>w, <2>1, <2>2
  <2>4. /\ p1 = popularity /\ e1 = e /\ o1 = o /\ h1 = h /\ f1 = faults
        /\ k1 = Counting /\ q1 <= q
    BY <1>c, <1>d, <1>e, <1>f, <1>t, <2>1
  <2> QED
    BY ONLY <1>1, <1>3, <2>3, <2>4 DEF Goal
<1>13. ASSUME Retry PROVE Goal
  <2>1. UNCHANGED <<todo, heat, heatq>> /\ Fault /\ work' = "idle" /\ Rotates(events, events')
    BY <1>13 DEF Retry, Rotates
  <2>2. e1 = e /\ o1 = o /\ h1 = h /\ f1 = faults + 1 /\ k1 = 0 /\ q1 <= q
    BY <1>c, <1>e, <1>f, <1>r, <1>t, <2>1
  <2>3. CASE made' = made /\ (popularity' = popularity \/ (work = "count" /\ popularity' = popularity + 1))
    <3>1. u <= u1
      BY <1>w, <2>1, <2>3
    <3>2. (p1 = popularity /\ Counting \in {0, 1}) \/ (p1 = popularity + 1 /\ Counting = 1)
      BY <1>c, <1>e, <2>3
    <3> QED
      BY ONLY <1>1, <1>3, <2>2, <3>1, <3>2 DEF Goal
  <2>4. CASE First("publish") /\ Inserted(Head(events).comment) /\ popularity' = popularity
    <3>1. PICK c \in Comments : c = Head(events).comment
      BY <2>4, FirstEntry DEF First
    <3>2. \A d \in Comments \ {c} : made'[d] = made[d]
      BY <1>0, <2>4, <3>1, RowInserted
    <3>3. Unmade \ {c} \subseteq Unmade'
      BY <2>1, <3>2, StillWaiting
    <3>4. u <= u1 + 1 /\ p1 = popularity /\ Counting = 0
      BY <1>c, <1>e, <1>u, <2>4, <3>3 DEF First
    <3> QED
      BY ONLY <1>1, <1>3, <2>2, <3>4 DEF Goal
  <2> QED
    BY <1>13, <2>3, <2>4 DEF Retry
<1>14. ASSUME Redeliver PROVE Goal
  <2>1. /\ UNCHANGED <<todo, events, made, heat, heatq>> /\ Fault /\ work' = "idle"
        /\ popularity' = popularity \/ (work = "count" /\ popularity' = popularity + 1)
    BY <1>14 DEF Redeliver
  <2>2. e1 = e /\ o1 = o /\ h1 = h /\ f1 = faults + 1 /\ k1 = 0 /\ q1 = q /\ u1 = u
    BY <1>c, <1>e, <1>f, <1>q, <1>t, <1>u, <2>1
  <2>3. (p1 = popularity /\ Counting \in {0, 1}) \/ (p1 = popularity + 1 /\ Counting = 1)
    BY <1>c, <1>e, <2>1
  <2> QED
    BY ONLY <1>1, <1>3, <2>2, <2>3 DEF Goal
<1>15. ASSUME DeadLetter PROVE Goal
  <2>1. UNCHANGED <<todo, made, popularity, heat, heatq>> /\ Fault /\ work' = "idle" /\ Drops(events, events')
    BY <1>15 DEF DeadLetter, Drops
  <2>2. p1 = popularity /\ e1 = e /\ o1 = o /\ h1 = h /\ f1 = faults + 1 /\ k1 = 0 /\ q1 <= q
    BY <1>c, <1>d, <1>e, <1>f, <1>t, <2>1
  <2>3. (Counting = 0 /\ u <= u1 + 1) \/ (Counting = 1 /\ u <= u1)
    <3>1. CASE Head(events).action = "publish"
      <4>1. PICK c \in Comments : c = Head(events).comment /\ Head(events) = Event(c)
        BY <2>1, <3>1, FirstEntry DEF Drops
      <4>2. \A d \in Comments \ {c} : Head(events) # Event(d)
        BY <1>n, <4>1
      <4>3. Unmade \ {c} \subseteq Unmade'
        BY <2>1, <4>2, StillWaiting
      <4>4. CASE work = "count"
        <5>1. made[c] > 0
          BY <4>1, <4>4 DEF CommentBase, FlowInv
        <5> QED
          BY <1>0, <1>c, <1>m, <1>u, <4>3, <4>4, <5>1
      <4>5. CASE work # "count"
        BY <1>c, <1>u, <4>3, <4>5
      <4> QED
        BY <4>4, <4>5
    <3>2. CASE Head(events).action # "publish"
      <4>1. \A d \in Comments \ {} : Head(events) # Event(d)
        BY <1>n, <3>2
      <4>2. u <= u1
        BY <1>w, <2>1, <4>1
      <4>3. u <= u1 + 1
        BY ONLY <1>1, <4>2
      <4>4. Counting = 0
        BY <1>c, <3>2 DEF CommentBase, FlowInv
      <4> QED
        BY <4>3, <4>4
    <3> QED
      BY <3>1, <3>2
  <2> QED
    BY ONLY <1>1, <1>3, <2>2, <2>3 DEF Goal
<1>16. ASSUME NEW c \in Comments, Echo(c) PROVE Goal
  <2>1. UNCHANGED <<todo, made, work, popularity, heat, heatq>> /\ Fault /\ Appends(events, Event(c), events')
    BY <1>16 DEF Echo, Appends
  <2>2. u <= u1
    BY <1>n, <1>w, <2>1
  <2>3. /\ p1 = popularity /\ e1 = e /\ o1 = o /\ h1 = h /\ f1 = faults + 1
        /\ k1 = Counting /\ q1 <= q + 1
    BY <1>a, <1>c, <1>e, <1>f, <1>n, <1>t, <2>1
  <2> QED
    BY ONLY <1>1, <1>3, <2>2, <2>3 DEF Goal
\* The windows.
<1>17. ASSUME ApplyHeat \/ ApplyHeatUnacked PROVE Goal
  <2>1. /\ UNCHANGED <<todo, events, made, work, popularity>>
        /\ \/ heat' = heat + 1 /\ heatq' = heatq - 1 /\ NoFault
           \/ heat' = heat /\ heatq' = heatq - 1 /\ Fault
           \/ heat' = heat + 1 /\ heatq' = heatq /\ Fault
    BY <1>17 DEF ApplyHeat, ApplyHeatUnacked
  <2>2. \/ e1 = e /\ f1 = faults
        \/ e1 = e - 1 /\ f1 = faults + 1
        \/ e1 = e + 1 /\ f1 = faults + 1
    BY <1>1, <1>f, <2>1 DEF e
  <2>3. p1 = popularity /\ o1 = o /\ h1 = h /\ k1 = Counting /\ q1 = q /\ u1 = u
    BY <1>c, <1>e, <1>q, <1>t, <1>u, <2>1
  <2> QED
    BY ONLY <1>1, <1>3, <2>2, <2>3 DEF Goal
<1>18. Goal
  BY <1>4, <1>5, <1>6, <1>7, <1>8, <1>9, <1>10, <1>11, <1>12, <1>13, <1>14, <1>15, <1>16, <1>17
     DEF CommentNext, CommentWorker
<1> QED
  BY <1>18 DEF Goal

-----------------------------------------------------------------------------
(* The theorems.                                                           *)

LEMMA CommentStarts == CommentInit => CommentBase /\ TallyInv /\ SingleInv /\ AgreeInv
<1> SUFFICES ASSUME CommentInit PROVE CommentBase /\ TallyInv /\ SingleInv /\ AgreeInv
  OBVIOUS
<1>1. /\ \A c \in Comments : todo[c] = {"comment", "heat"} /\ rows[c] = 0 /\ made[c] = 0
      /\ events = << >> /\ work = "idle" /\ popularity = 0 /\ heatq = 0 /\ heat = 0 /\ faults = 0
      /\ failed = {} /\ sent = {} /\ copied = {} /\ deleted = {} /\ DOMAIN events = {}
  BY DEF CommentInit
<1>2. CommentTypeOK
  <2>1. todo \in [Comments -> SUBSET {"comment", "heat", "row", "window"}]
    BY DEF CommentInit
  <2>2. made \in [Comments -> Nat] /\ rows \in [Comments -> Nat]
    BY DEF CommentInit
  <2>3. events \in Seq(Publishing \cup Deletions)
    BY <1>1
  <2> QED
    BY <1>1, <2>1, <2>2, <2>3, CommentConstants DEF CommentInit, CommentTypeOK
<1>3. FlowInv
  BY <1>1 DEF FlowInv
<1>4. TallyInv
  <2>1. \A c \in Comments : {c} \X (1 .. made[c]) = {}
    BY <1>1
  <2>2. Inserts = {}
    BY <2>1 DEF Inserts
  <2>3. IsFiniteSet(Inserts) /\ Cardinality(Inserts) = 0
    BY <2>2, FS_EmptySet
  <2> QED
    BY <1>1, <2>3 DEF TallyInv, CountedOnce, Counting
<1>5. SingleInv
  BY <1>1 DEF SingleInv, Gone, Lone, Second, Has
<1>6. AgreeInv
  <2>1. OwesRow = Comments /\ OwesHeat = Comments /\ Unmade = {} /\ EventsIn(events) = {}
    BY <1>1 DEF OwesRow, OwesHeat, Unmade, EventsIn
  <2>2. Cardinality(Comments) \in Nat
    BY CommentConstants, FS_CardinalityType
  <2>3. Cardinality(EventsIn(events)) = 0 /\ Cardinality(Unmade) = 0
    BY <2>1, FS_EmptySet
  <2>4. Cardinality(OwesRow) = Cardinality(Comments) /\ Cardinality(OwesHeat) = Cardinality(Comments) /\ Counting = 0
    BY <1>1, <2>1 DEF Counting
  <2> QED
    BY <1>1, <2>2, <2>3, <2>4 DEF AgreeInv, HeatDue
<1> QED
  BY <1>2, <1>3, <1>4, <1>5, <1>6 DEF CommentBase

\* The types of the variables of a comment's way: what Publish still has to do, the
\* queue, rows, counters and histories.
THEOREM CommentTypeCorrect == CommentSpec => []CommentTypeOK
<1>1. CommentInit => CommentBase
  BY CommentStarts
<1>2. CommentBase /\ [CommentNext]_commentVars => CommentBase'
  BY CommentStep
<1>3. CommentBase => CommentTypeOK
  BY DEF CommentBase
<1> QED
  BY <1>1, <1>2, <1>3, PTL DEF CommentSpec

LEMMA CommentBaseHolds == CommentSpec => []CommentBase
<1>1. CommentInit => CommentBase
  BY CommentStarts
<1>2. CommentBase /\ [CommentNext]_commentVars => CommentBase'
  BY CommentStep
<1> QED
  BY <1>1, <1>2, PTL DEF CommentSpec

\* Every row of a comment is counted once in the popularity column, by the worker's
\* second statement or the fallback's transaction; a fault loses at most one count.
THEOREM RowsCountedOnce == CommentSpec => []CountedOnce
<1>1. CommentInit => TallyInv
  BY CommentStarts
<1>2. CommentBase /\ TallyInv /\ [CommentNext]_commentVars => TallyInv'
  BY TallyStep
<1>3. TallyInv => CountedOnce
  BY DEF TallyInv
<1> QED
  BY <1>1, <1>2, <1>3, CommentBaseHolds, PTL DEF CommentSpec

\* A call of Publish makes a second row only from a copy of its event and after the
\* first row was deleted; a call that returned an error makes none.
THEOREM OneRowPerCall == CommentSpec => []OneRow
<1>1. CommentInit => SingleInv
  BY CommentStarts
<1>2. CommentBase /\ SingleInv /\ [CommentNext]_commentVars => SingleInv'
  <2> SUFFICES ASSUME CommentBase, SingleInv, [CommentNext]_commentVars, NEW c \in Comments
               PROVE  Gone(c)' /\ Lone(c)' /\ Second(c)'
    BY DEF SingleInv
  <2> QED
    BY GoneStep, LoneStep, SecondStep
<1>3. CommentBase /\ SingleInv => OneRow
  BY DEF CommentBase, FlowInv, SingleInv, Second, OneRow
<1> QED
  BY <1>1, <1>2, <1>3, CommentBaseHolds, PTL DEF CommentSpec

\* At rest the column and the windows' score of the video differ by no more than
\* the number of faults, whichever event was lost, repeated or dead-lettered.
THEOREM CountersStayClose == CommentSpec => []CountersAgree
<1>1. CommentInit => AgreeInv
  BY CommentStarts
<1>2. CommentBase /\ CommentBase' /\ AgreeInv /\ [CommentNext]_commentVars => AgreeInv'
  BY AgreeStep
<1>3. CommentBase /\ AgreeInv => CountersAgree
  <2> SUFFICES ASSUME CommentBase, AgreeInv, events = << >>, heatq = 0, \A c \in Comments : todo[c] = {}
               PROVE  popularity - heat \in -faults .. faults
    BY DEF CountersAgree
  <2>1. OwesRow = {} /\ OwesHeat = {} /\ Unmade = {} /\ EventsIn(events) = {}
    BY DEF OwesRow, OwesHeat, Unmade, EventsIn
  <2>2. Cardinality(OwesRow) = 0 /\ Cardinality(OwesHeat) = 0 /\ Cardinality(Unmade) = 0
        /\ Cardinality(EventsIn(events)) = 0
    BY <2>1, FS_EmptySet
  <2>3. Counting = 0
    BY DEF Counting, CommentBase, FlowInv
  <2>4. popularity \in Nat /\ heat \in Nat /\ faults \in Nat
    BY Numbers
  <2>5. popularity <= heat + faults /\ heat <= popularity + faults
    BY <2>2, <2>3, <2>4 DEF AgreeInv, HeatDue
  <2> QED
    BY <2>4, <2>5
<1> QED
  BY <1>1, <1>2, <1>3, CommentBaseHolds, PTL DEF CommentSpec

-----------------------------------------------------------------------------
(* Accepted deletions.                                                     *)

\* The id of a deletion, asked for or accepted, is that of a row the comment has
\* had: no later row gets it.
IdsInv == \A d \in asked \cup deleted : d.id # 0 /\ d.id <= made[d.comment]

\* A deletion that Delete has answered with success is in the queue until its row
\* is gone, or was lost or dead-lettered.
Queued(s, d) == \E i \in DOMAIN s : s[i] = d
Pursued(d) == rows[d.comment] # d.id \/ d \in given \/ Queued(events, d)
NoDeletionForgotten == \A d \in deleted : Pursued(d)

LEMMA IdsStep == CommentBase /\ IdsInv /\ [CommentNext]_commentVars => IdsInv'
<1> SUFFICES ASSUME CommentBase, IdsInv, [CommentNext]_commentVars PROVE IdsInv'
  OBVIOUS
<1>0. /\ CommentTypeOK /\ RowStep /\ asked \subseteq Deletions /\ deleted \subseteq Deletions
      /\ \A d \in Deletions : d.comment \in Comments /\ d.id \in Nat
      /\ \A c \in Comments : made[c] \in Nat /\ rows[c] \in {0, made[c]}
  BY Histories, EntryKinds, FlowParts DEF CommentBase, CommentTypeOK
<1>1. \A c \in Comments : made'[c] \in Nat /\ made[c] <= made'[c]
  <2>1. ASSUME NEW c \in Comments, Inserted(c) PROVE \A b \in Comments : made'[b] \in Nat /\ made[b] <= made'[b]
    <3>1. made'[c] = made[c] + 1 /\ \A b \in Comments \ {c} : made'[b] = made[b]
      BY <1>0, <2>1, RowInserted
    <3> QED BY <1>0, <3>1
  <2> QED BY <1>0, <2>1 DEF RowStep, Creates
<1>2. ASSUME asked' \cup deleted' \subseteq asked \cup deleted PROVE IdsInv'
  BY <1>0, <1>1, <1>2 DEF IdsInv
<1>3. ASSUME NEW c \in Comments, FindForDelete(c) PROVE IdsInv'
  <2> DEFINE e == [action |-> "delete", comment |-> c, id |-> rows[c]]
  <2>1. asked' = asked \cup {e} /\ deleted' = deleted /\ rows[c] # 0 /\ made' = made
    BY <1>3 DEF FindForDelete
  <2>2. e.comment = c /\ e.id = rows[c] /\ rows[c] = made[c]
    BY <1>0, <2>1
  <2> HIDE DEF e
  <2> QED BY <1>0, <2>1, <2>2 DEF IdsInv
<1>4. ASSUME NEW d \in asked, SendDelete(d) \/ DeleteFallback(d) PROVE IdsInv'
  BY <1>2, <1>4 DEF SendDelete, DeleteFallback, Accepted
<1>5. ASSUME NEW c \in Comments,
             SendComment(c) \/ SendCommentFails(c) \/ SendHeat(c) \/ SendHeatFails(c) \/ UpdateCache(c)
             \/ Transaction(c) \/ TransactionFails(c) \/ Echo(c)
      PROVE  UNCHANGED <<asked, deleted>>
  BY <1>5 DEF SendComment, SendCommentFails, SendHeat, SendHeatFails, UpdateCache, Transaction,
              TransactionFails, Echo
<1>6. ASSUME Create \/ Count \/ ApplyDelete \/ Retry \/ Redeliver \/ DeadLetter \/ ApplyHeat \/ ApplyHeatUnacked
             \/ UNCHANGED commentVars
      PROVE  UNCHANGED <<asked, deleted>>
  BY <1>6 DEF Create, Count, ApplyDelete, Retry, Redeliver, DeadLetter, ApplyHeat, ApplyHeatUnacked, commentVars
<1> QED
  BY <1>2, <1>3, <1>4, <1>5, <1>6 DEF CommentNext, CommentWorker

\* A row with the id of an accepted deletion does not come back.
LEMMA StaysGone ==
    ASSUME CommentBase, IdsInv, [CommentNext]_commentVars, NEW d \in asked \cup deleted, rows[d.comment] # d.id
    PROVE  rows'[d.comment] # d.id
<1>0. /\ CommentTypeOK /\ RowStep /\ d.comment \in Comments /\ d.id \in Nat /\ d.id # 0 /\ d.id <= made[d.comment]
      /\ made[d.comment] \in Nat
  BY Histories, EntryKinds, FlowParts DEF CommentBase, CommentTypeOK, IdsInv
<1>1. ASSUME NEW c \in Comments, Inserted(c) PROVE rows'[d.comment] # d.id
  <2>1. rows'[c] = made[c] + 1 /\ (c # d.comment => rows'[d.comment] = rows[d.comment])
    BY <1>0, <1>1, RowInserted
  <2> QED BY <1>0, <2>1
<1>2. ASSUME NEW e \in Deletions, RowDeleted(e) PROVE rows'[d.comment] # d.id
  BY <1>0, <1>2, RowGone
<1> QED
  BY <1>0, <1>1, <1>2 DEF RowStep, Creates

\* A queue that loses its first entry at most loses no other.
LEMMA QueueKeeps ==
    ASSUME NEW s \in Seq(Entries), NEW t, NEW d, Queued(s, d),
           \/ t = s
           \/ Rotates(s, t)
           \/ Drops(s, t) /\ Head(s) # d
           \/ \E e \in Entries : Appends(s, e, t)
    PROVE  Queued(t, d)
<1>1. PICK i \in DOMAIN s : s[i] = d
  BY DEF Queued
<1>2. CASE Rotates(s, t)
  <2>1. /\ Len(s) \in DOMAIN t /\ t[Len(s)] = s[1]
        /\ \A k \in DOMAIN s : k # 1 => k - 1 \in DOMAIN t /\ t[k - 1] = s[k]
    BY ONLY <1>2, s \in Seq(Entries), Rotated
  <2> QED BY <1>1, <2>1 DEF Queued
<1>3. CASE Drops(s, t) /\ Head(s) # d
  <2>1. Head(s) = s[1] /\ \A k \in DOMAIN s : k # 1 => k - 1 \in DOMAIN t /\ t[k - 1] = s[k]
    BY ONLY <1>3, s \in Seq(Entries), Dropped
  <2> QED BY <1>1, <1>3, <2>1 DEF Queued
<1>4. ASSUME NEW e \in Entries, Appends(s, e, t) PROVE Queued(t, d)
  <2>1. \A k \in DOMAIN s : t[k] = s[k] /\ k \in DOMAIN t
    BY ONLY <1>4, s \in Seq(Entries), Appended
  <2> QED BY <1>1, <2>1 DEF Queued
<1> QED
  BY <1>2, <1>3, <1>4

\* The row of a deletion that is applied is gone.
LEMMA RowIsGone ==
    ASSUME CommentBase, NEW d \in Deletions, d.id # 0, RowDeleted(d)
    PROVE  rows'[d.comment] # d.id
<1>1. d.comment \in Comments /\ rows \in [Comments -> Nat]
  BY EntryKinds DEF CommentBase, CommentTypeOK
<1> QED
  BY <1>1 DEF RowDeleted

LEMMA PursuedStep ==
    CommentBase /\ IdsInv /\ NoDeletionForgotten /\ [CommentNext]_commentVars => NoDeletionForgotten'
<1> SUFFICES ASSUME CommentBase, IdsInv, NoDeletionForgotten, [CommentNext]_commentVars,
                    NEW d \in deleted'
             PROVE  Pursued(d)'
  BY DEF NoDeletionForgotten
<1>0. /\ asked \subseteq Deletions /\ deleted \subseteq Deletions /\ events \in Seq(Entries)
      /\ \A e \in Deletions : e.action = "delete" /\ e \in Entries
      /\ \A e \in asked \cup deleted : e.id # 0
      /\ events # << >> => Head(events).action \in {"publish", "delete"}
  BY FlowParts, EntryKinds, FirstEntry DEF CommentBase, CommentTypeOK, IdsInv, Entries
<1>p. d \in deleted => Pursued(d)
  BY DEF NoDeletionForgotten
<1>g. ASSUME d \in deleted, given \subseteq given', Queued(events, d) => Queued(events', d) \/ d \in given' \/ rows'[d.comment] # d.id
      PROVE  Pursued(d)'
  <2>1. rows[d.comment] # d.id => rows'[d.comment] # d.id
    BY <1>g, StaysGone
  <2> QED BY <1>p, <1>g, <2>1 DEF Pursued
<1>k. ASSUME d \in deleted, given \subseteq given',
             \/ events' = events
             \/ Rotates(events, events')
             \/ Drops(events, events') /\ Head(events) # d
             \/ \E e \in Entries : Appends(events, e, events')
      PROVE  Pursued(d)'
  <2>1. Queued(events, d) => Queued(events', d)
    BY <1>0, <1>k, QueueKeeps
  <2> QED BY <1>g, <1>k, <2>1
<1>1. ASSUME NEW c \in Comments,
             SendComment(c) \/ SendCommentFails(c) \/ SendHeat(c) \/ SendHeatFails(c) \/ UpdateCache(c)
             \/ Transaction(c) \/ TransactionFails(c) \/ FindForDelete(c) \/ Echo(c)
      PROVE  Pursued(d)'
  <2>1. UNCHANGED <<deleted, given>> /\ (events' = events \/ Appends(events, Event(c), events'))
    BY <1>1 DEF SendComment, SendCommentFails, SendHeat, SendHeatFails, UpdateCache, Transaction,
              TransactionFails, FindForDelete, Echo, Appends
  <2>2. Event(c) \in Entries
    BY EntryKinds DEF Entries
  <2> QED BY <1>k, <2>1, <2>2
<1>2. ASSUME NEW x \in asked, SendDelete(x) PROVE Pursued(d)'
  <2>1. deleted' = deleted \cup {x} /\ given \subseteq given'
        /\ (Appends(events, x, events') \/ (events' = events /\ x \in given'))
    BY <1>2 DEF SendDelete, Accepted, Appends
  <2>2. x \in Entries
    BY <1>0
  <2>3. CASE d \in deleted
    BY <1>k, <2>1, <2>2, <2>3
  <2>4. CASE d = x
    <3>1. ASSUME Appends(events, x, events') PROVE Queued(events', x)
      <4>1. DOMAIN events' = 1 .. Len(events) + 1 /\ Len(events) \in Nat /\ events'[Len(events) + 1] = x
        BY ONLY <1>0, <2>2, <3>1, Appended
      <4> QED BY <4>1 DEF Queued
    <3> QED BY <2>1, <2>4, <3>1 DEF Pursued
  <2> QED BY <2>1, <2>3, <2>4
<1>3. ASSUME NEW x \in asked, DeleteFallback(x) PROVE Pursued(d)'
  <2>1. deleted' = deleted \cup {x} /\ given' = given /\ events' = events /\ RowDeleted(x)
    BY <1>3 DEF DeleteFallback, Accepted
  <2>2. rows'[x.comment] # x.id
    BY <1>0, <2>1, RowIsGone
  <2> QED BY <1>k, <2>1, <2>2 DEF Pursued
<1>4. ASSUME Create \/ Count PROVE Pursued(d)'
  <2>1. UNCHANGED <<deleted, given>> /\ events # << >> /\ Head(events).action = "publish"
        /\ (events' = events \/ Drops(events, events'))
    BY <1>4 DEF Create, Count, First, Drops, CommentBase, FlowInv
  <2>2. Head(events) # d
    BY <1>0, <2>1
  <2> QED BY <1>k, <2>1, <2>2
<1>5. ASSUME ApplyDelete PROVE Pursued(d)'
  <2>1. UNCHANGED <<deleted, given>> /\ Drops(events, events') /\ RowDeleted(Head(events))
    BY <1>5 DEF ApplyDelete, First, Drops
  <2>2. CASE Head(events) = d
    BY <1>0, <2>1, <2>2, RowIsGone DEF Pursued
  <2> QED BY <1>k, <2>1, <2>2
<1>6. ASSUME Retry \/ Redeliver PROVE Pursued(d)'
  <2>1. UNCHANGED <<deleted, given>> /\ (events' = events \/ Rotates(events, events'))
    BY <1>6 DEF Retry, Redeliver, Rotates
  <2> QED BY <1>k, <2>1
<1>7. ASSUME DeadLetter PROVE Pursued(d)'
  <2>1. /\ deleted' = deleted /\ given \subseteq given' /\ Drops(events, events')
        /\ Head(events).action = "delete" => Head(events) \in given'
    BY <1>7 DEF DeadLetter, Drops
  <2>2. CASE Head(events) = d
    BY <1>0, <2>1, <2>2 DEF Pursued
  <2> QED BY <1>k, <2>1, <2>2
<1>8. ASSUME ApplyHeat \/ ApplyHeatUnacked \/ UNCHANGED commentVars PROVE Pursued(d)'
  <2>1. UNCHANGED <<deleted, given, events>>
    BY <1>8 DEF ApplyHeat, ApplyHeatUnacked, commentVars
  <2> QED BY <1>k, <2>1
<1> QED
  BY <1>1, <1>2, <1>3, <1>4, <1>5, <1>6, <1>7, <1>8 DEF CommentNext, CommentWorker

\* CommentService.Delete answers before the row is gone.  No retry, redelivery,
\* fallback or copy of another event drops the deletion on its way, and the id of
\* the row is never used again; so DeletionsHappen rests on the worker alone.
THEOREM DeletionsPursued == CommentSpec => []NoDeletionForgotten
<1>1. CommentInit => IdsInv /\ NoDeletionForgotten
  BY DEF CommentInit, IdsInv, NoDeletionForgotten
<1> QED
  BY <1>1, IdsStep, PursuedStep, CommentBaseHolds, PTL DEF CommentSpec

=============================================================================
