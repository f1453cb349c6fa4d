-------------------------- MODULE EventRetryProofs --------------------------
(* Proofs about EventRetry for every topology, number of consumers, retry  *)
(* limit and number of faults.                                             *)
EXTENDS EventRetry, FiniteSetTheorems, WellFoundedInduction, NaturalsInduction, TLAPS

-----------------------------------------------------------------------------
(* The inductive invariant.                                                *)

\* A consumer holds a delivery exactly while it is in handleMainDelivery; it
\* republishes only below the limit.
HandInv ==
    \A c \in Consumers :
        /\ stage[c] \in InHand => hand[c] \in Delivery
        /\ stage[c] = "republish" => hand[c].retry < MaxRetryCount

\* x-retry-count r on a copy of e witnesses r failed process calls for e; a
\* consumer past its own failure has seen one more.
CountInv ==
    /\ \A q \in Queues, e \in Events, r \in Retries :
          ready[q][e][r] > 0 => failed[e] >= r
    /\ \A c \in Consumers :
          /\ stage[c] \in InHand => failed[hand[c].event] >= hand[c].retry
          /\ stage[c] = "republish" => failed[hand[c].event] >= hand[c].retry + 1
          /\ stage[c] = "reject" => failed[hand[c].event] > MaxRetryCount

\* NoLoss without the deliveries that only wait for their ack: their event is
\* already handled, or republished.
Answerable(q, e) ==
    \/ \E r \in Retries : ready[q][e][r] > 0
    \/ \E c \in Consumers :
          Source[c] = q /\ stage[c] \in InHand \ {"ack"} /\ hand[c].event = e
LossInv ==
    \A q \in Queues : \A e \in Bound[q] \cap published :
        Answerable(q, e) \/ e \in handled[q] \/ e \in dlx[q]

TypeInv == TypeOK /\ HandInv
EarnedInv == CountInv /\ DeadLetterEarned

-----------------------------------------------------------------------------

\* The initial state satisfies the invariant.
LEMMA InitInv == Init => TypeInv /\ EarnedInv /\ LossInv
<1> SUFFICES ASSUME Init PROVE TypeInv /\ EarnedInv /\ LossInv
  OBVIOUS
<1> USE RetryConstants DEF Init
<1>1. TypeOK
  BY DEF TypeOK, Retries, Stage
<1>2. HandInv /\ CountInv /\ DeadLetterEarned
  BY DEF HandInv, CountInv, DeadLetterEarned, InHand
<1>3. LossInv
  BY DEF LossInv
<1> QED BY <1>1, <1>2, <1>3 DEF TypeInv, EarnedInv

\* Routing adds one copy in the queues that the event is bound to.
LEMMA RoutedType ==
  ASSUME TypeOK, NEW e \in Events, NEW n \in Retries
  PROVE  /\ Routed(e, n) \in [Queues -> [Events -> [Retries -> Nat]]]
         /\ \A q \in Queues, f \in Events, r \in Retries :
               Routed(e, n)[q][f][r] =
                 IF e \in Bound[q] /\ f = e /\ r = n THEN ready[q][f][r] + 1 ELSE ready[q][f][r]
<1> USE RetryConstants DEF Routed, TypeOK
<1>1. ASSUME NEW q \in Queues
      PROVE  /\ Routed(e, n)[q] \in [Events -> [Retries -> Nat]]
             /\ \A f \in Events, r \in Retries :
                   Routed(e, n)[q][f][r] =
                     IF e \in Bound[q] /\ f = e /\ r = n THEN ready[q][f][r] + 1 ELSE ready[q][f][r]
  <2>1. ready[q] \in [Events -> [Retries -> Nat]] /\ ready[q][e] \in [Retries -> Nat]
    OBVIOUS
  <2>2. [ready[q] EXCEPT ![e][n] = @ + 1] \in [Events -> [Retries -> Nat]]
    BY <2>1
  <2> QED BY <2>1, <2>2
<1> QED BY <1>1

\* Requeueing adds one copy of the delivery in the consumer's own queue.
LEMMA ReturnedType ==
  ASSUME TypeOK, NEW c \in Consumers, hand[c] \in Delivery
  PROVE  /\ Returned(c) \in [Queues -> [Events -> [Retries -> Nat]]]
         /\ \A q \in Queues, f \in Events, r \in Retries :
               Returned(c)[q][f][r] =
                 IF q = Source[c] /\ f = hand[c].event /\ r = hand[c].retry
                 THEN ready[q][f][r] + 1 ELSE ready[q][f][r]
<1> DEFINE s == Source[c]  e == hand[c].event  n == hand[c].retry
<1>1. s \in Queues /\ e \in Events /\ n \in Retries
  BY RetryConstants DEF Delivery
<1>2. ready[s] \in [Events -> [Retries -> Nat]] /\ ready[s][e] \in [Retries -> Nat]
  BY <1>1 DEF TypeOK
<1>3. Returned(c) = [ready EXCEPT ![s] = [ready[s] EXCEPT ![e] = [ready[s][e] EXCEPT ![n] = @ + 1]]]
  BY DEF Returned, TypeOK
<1> HIDE DEF s, e, n
<1>4. [ready[s][e] EXCEPT ![n] = @ + 1] \in [Retries -> Nat]
  BY <1>1, <1>2
<1>5. [ready[s] EXCEPT ![e] = [ready[s][e] EXCEPT ![n] = @ + 1]] \in [Events -> [Retries -> Nat]]
  BY <1>1, <1>2, <1>4
<1>6. Returned(c) \in [Queues -> [Events -> [Retries -> Nat]]]
  BY <1>1, <1>3, <1>5 DEF TypeOK
<1>7. \A q \in Queues, f \in Events, r \in Retries :
        Returned(c)[q][f][r] = IF q = s /\ f = e /\ r = n THEN ready[q][f][r] + 1 ELSE ready[q][f][r]
  BY <1>1, <1>2, <1>3, <1>4, <1>5 DEF TypeOK
<1> QED BY <1>6, <1>7 DEF s, e, n

-----------------------------------------------------------------------------
(* Each action preserves the types and what is known of a hand.            *)

LEMMA TypeStep == TypeInv /\ [Next]_vars => TypeInv'
<1> SUFFICES ASSUME TypeInv, [Next]_vars PROVE TypeInv'
  OBVIOUS
<1> USE RetryConstants DEF TypeInv, InHand, Stage
<1>0. ASSUME NEW c \in Consumers, Released(c) PROVE /\ hand' \in [Consumers -> Delivery \cup {Nothing}]
                                                    /\ stage' \in [Consumers -> Stage]
                                                    /\ HandInv'
  BY <1>0 DEF Released, TypeOK, HandInv
<1>1. ASSUME NEW e \in Events, Publish(e) PROVE TypeInv'
  <2>1. 0 \in Retries
    BY DEF Retries
  <2>2. ready' \in [Queues -> [Events -> [Retries -> Nat]]]
    BY <1>1, <2>1, RoutedType DEF Publish
  <2>3. TypeOK'
    BY <1>1, <2>2 DEF Publish, TypeOK
  <2> QED BY <1>1, <2>3 DEF Publish, HandInv
<1>2. ASSUME NEW c \in Consumers, NEW e \in Events, NEW r \in Retries, Deliver(c, e, r)
      PROVE  TypeInv'
  <2> DEFINE s == Source[c]
  <2>1. s \in Queues /\ ready[s][e][r] \in Nat /\ ready[s][e][r] - 1 \in Nat
    BY <1>2 DEF Deliver, TypeOK
  <2>2. ready' \in [Queues -> [Events -> [Retries -> Nat]]]
    <3>1. ready' = [ready EXCEPT ![s] = [ready[s] EXCEPT ![e] = [ready[s][e] EXCEPT ![r] = @ - 1]]]
      BY <1>2 DEF Deliver, TypeOK
    <3>2. [ready[s][e] EXCEPT ![r] = @ - 1] \in [Retries -> Nat]
      BY <2>1 DEF TypeOK
    <3>3. [ready[s] EXCEPT ![e] = [ready[s][e] EXCEPT ![r] = @ - 1]] \in [Events -> [Retries -> Nat]]
      BY <2>1, <3>2 DEF TypeOK
    <3> QED BY <2>1, <3>1, <3>3 DEF TypeOK
  <2>3. runs' \in [Queues -> [Events -> Nat]]
    <3>1. runs[s] \in [Events -> Nat] /\ [runs[s] EXCEPT ![e] = @ + 1] \in [Events -> Nat]
      BY <2>1 DEF TypeOK
    <3>2. runs' = [runs EXCEPT ![s] = [runs[s] EXCEPT ![e] = @ + 1]]
      BY <1>2 DEF Deliver, TypeOK
    <3> QED BY <2>1, <3>1, <3>2 DEF TypeOK
  <2>4. [event |-> e, retry |-> r] \in Delivery
    BY DEF Delivery
  <2>5. TypeOK'
    BY <1>2, <2>2, <2>3, <2>4 DEF Deliver, TypeOK
  <2>6. HandInv'
    BY <1>2, <2>4 DEF Deliver, TypeOK, HandInv
  <2> QED BY <2>5, <2>6
<1>3. ASSUME NEW c \in Consumers, ProcessOK(c) PROVE TypeInv'
  <2>1. hand[c].event \in Events /\ Source[c] \in Queues
    BY <1>3 DEF ProcessOK, HandInv, Delivery
  <2>2. TypeOK'
    BY <1>3, <2>1 DEF ProcessOK, TypeOK
  <2> QED BY <1>3, <2>2 DEF ProcessOK, TypeOK, HandInv
<1>4. ASSUME NEW c \in Consumers, ProcessFails(c) PROVE TypeInv'
  <2>1. hand[c].event \in Events /\ hand[c].retry \in Nat
    BY <1>4 DEF ProcessFails, HandInv, Delivery, Retries
  <2>2. TypeOK'
    BY <1>4, <2>1 DEF ProcessFails, AfterFailure, TypeOK
  <2> QED BY <1>4, <2>1, <2>2 DEF ProcessFails, AfterFailure, TypeOK, HandInv
<1>5. ASSUME NEW c \in Consumers, Republish(c) PROVE TypeInv'
  <2>1. hand[c].event \in Events /\ hand[c].retry + 1 \in Retries
    BY <1>5 DEF Republish, HandInv, Delivery, Retries
  <2>2. ready' \in [Queues -> [Events -> [Retries -> Nat]]]
    BY <1>5, <2>1, RoutedType DEF Republish
  <2>3. TypeOK'
    BY <1>5, <2>2 DEF Republish, TypeOK
  <2> QED BY <1>5, <2>3 DEF Republish, TypeOK, HandInv
<1>6. ASSUME NEW c \in Consumers, RepublishFails(c) PROVE TypeInv'
  <2>1. ready' \in [Queues -> [Events -> [Retries -> Nat]]]
    BY <1>6, ReturnedType DEF RepublishFails, HandInv
  <2>2. Released(c)
    BY <1>6 DEF RepublishFails
  <2>3. TypeOK'
    BY <1>0, <1>6, <2>1, <2>2 DEF RepublishFails, Fault, TypeOK
  <2> QED BY <1>0, <2>2, <2>3
<1>7. ASSUME NEW c \in Consumers, Ack(c) PROVE TypeInv'
  BY <1>0, <1>7 DEF Ack, TypeOK
<1>8. ASSUME NEW c \in Consumers, Reject(c) PROVE TypeInv'
  <2>1. hand[c].event \in Events /\ Source[c] \in Queues
    BY <1>8 DEF Reject, HandInv, Delivery
  <2>2. Released(c)
    BY <1>8 DEF Reject
  <2>3. TypeOK'
    BY <1>0, <1>8, <2>1, <2>2 DEF Reject, DeadLettered, TypeOK
  <2> QED BY <1>0, <2>2, <2>3
<1>9. ASSUME NEW c \in Consumers, ChannelLost(c) PROVE TypeInv'
  <2>1. ready' \in [Queues -> [Events -> [Retries -> Nat]]]
    BY <1>9, ReturnedType DEF ChannelLost, HandInv, TypeOK
  <2>2. TypeOK'
    BY <1>9, <2>1 DEF ChannelLost, Fault, TypeOK
  <2> QED BY <1>9, <2>2 DEF ChannelLost, TypeOK, HandInv
<1>10. ASSUME NEW c \in Consumers, Restart(c) PROVE TypeInv'
  BY <1>10 DEF Restart, TypeOK, HandInv
<1>11. ASSUME UNCHANGED vars PROVE TypeInv'
  BY <1>11 DEF vars, TypeOK, HandInv
<1> QED BY <1>1, <1>2, <1>3, <1>4, <1>5, <1>6, <1>7, <1>8, <1>9, <1>10, <1>11
        DEF Next, ConsumerStep

-----------------------------------------------------------------------------
(* Each action preserves the account of failures.                          *)

\* When failed does not shrink, no copy is new and no hand changes but to be
\* emptied, the account is kept.
LEMMA EarnedKept ==
  ASSUME TypeInv, TypeInv', EarnedInv,
         UNCHANGED failed,
         \A q \in Queues, e \in Events, r \in Retries : ready'[q][e][r] > 0 => failed[e] >= r,
         \A c \in Consumers : \/ stage'[c] \notin InHand
                              \/ stage'[c] \in {stage[c], "ack"} /\ hand'[c] = hand[c] /\ stage[c] \in InHand,
         \A q \in Queues : \A e \in dlx'[q] : e \in dlx[q] \/ failed[e] > MaxRetryCount
  PROVE  EarnedInv'
BY DEF EarnedInv, CountInv, DeadLetterEarned, TypeInv, TypeOK, HandInv, InHand, Delivery, Retries

\* A copy whose count its event has earned may be routed, and a delivery may
\* be returned.
LEMMA CoveredRouted ==
  ASSUME TypeInv, EarnedInv, NEW e \in Events, NEW n \in Retries, failed[e] >= n
  PROVE  \A q \in Queues, f \in Events, r \in Retries : Routed(e, n)[q][f][r] > 0 => failed[f] >= r
<1>1. \A q \in Queues, f \in Events, r \in Retries :
         Routed(e, n)[q][f][r] =
            IF e \in Bound[q] /\ f = e /\ r = n THEN ready[q][f][r] + 1 ELSE ready[q][f][r]
  BY RoutedType DEF TypeInv
<1>2. \A q \in Queues, f \in Events, r \in Retries : ready[q][f][r] > 0 => failed[f] >= r
  BY DEF EarnedInv, CountInv
<1> QED BY <1>1, <1>2

LEMMA CoveredReturned ==
  ASSUME TypeInv, EarnedInv, NEW c \in Consumers, stage[c] \in InHand
  PROVE  \A q \in Queues, f \in Events, r \in Retries : Returned(c)[q][f][r] > 0 => failed[f] >= r
<1>1. hand[c] \in Delivery /\ failed[hand[c].event] >= hand[c].retry
  BY DEF TypeInv, HandInv, EarnedInv, CountInv
<1>2. \A q \in Queues, f \in Events, r \in Retries :
         Returned(c)[q][f][r] =
            IF q = Source[c] /\ f = hand[c].event /\ r = hand[c].retry
            THEN ready[q][f][r] + 1 ELSE ready[q][f][r]
  BY <1>1, ReturnedType DEF TypeInv
<1>3. \A q \in Queues, f \in Events, r \in Retries : ready[q][f][r] > 0 => failed[f] >= r
  BY DEF EarnedInv, CountInv
<1> QED BY <1>1, <1>2, <1>3

LEMMA EarnedStep == TypeInv /\ TypeInv' /\ EarnedInv /\ [Next]_vars => EarnedInv'
<1> SUFFICES ASSUME TypeInv, TypeInv', EarnedInv, [Next]_vars PROVE EarnedInv'
  OBVIOUS
<1> USE RetryConstants DEF InHand
<1>0. /\ \A q \in Queues, e \in Events, r \in Retries : ready[q][e][r] > 0 => failed[e] >= r
      /\ failed \in [Events -> Nat]
      /\ stage \in [Consumers -> Stage] /\ hand \in [Consumers -> Delivery \cup {Nothing}]
      /\ ready \in [Queues -> [Events -> [Retries -> Nat]]]
  BY DEF EarnedInv, CountInv, TypeInv, TypeOK
<1>h. ASSUME NEW c \in Consumers, stage[c] \in InHand
      PROVE  /\ hand[c] \in Delivery /\ hand[c].event \in Events /\ hand[c].retry \in Retries
             /\ failed[hand[c].event] >= hand[c].retry
  BY <1>h DEF TypeInv, HandInv, Delivery, EarnedInv, CountInv
<1>1. ASSUME NEW e \in Events, Publish(e) PROVE EarnedInv'
  <2>1. 0 \in Retries /\ ready' = Routed(e, 0) /\ failed[e] >= 0
    BY <1>0, <1>1 DEF Publish, Retries
  <2>2. \A q \in Queues, f \in Events, r \in Retries : ready'[q][f][r] > 0 => failed[f] >= r
    BY <2>1, CoveredRouted
  <2> QED BY <1>0, <1>1, <2>2, EarnedKept DEF Publish
<1>2. ASSUME NEW c \in Consumers, NEW e \in Events, NEW r \in Retries, Deliver(c, e, r)
      PROVE  EarnedInv'
  <2>1. Source[c] \in Queues /\ failed[e] >= r
    BY <1>0, <1>2 DEF Deliver
  <2>2. \A q \in Queues, f \in Events, k \in Retries : ready'[q][f][k] > 0 => ready[q][f][k] > 0
    BY <1>0, <1>2, <2>1 DEF Deliver
  <2>3. \A d \in Consumers : stage'[d] = (IF d = c THEN "process" ELSE stage[d])
                          /\ hand'[d] = (IF d = c THEN [event |-> e, retry |-> r] ELSE hand[d])
    BY <1>0, <1>2 DEF Deliver
  <2> QED BY <1>0, <1>2, <2>1, <2>2, <2>3 DEF Deliver, EarnedInv, CountInv, DeadLetterEarned
<1>3. ASSUME NEW c \in Consumers, ProcessOK(c) PROVE EarnedInv'
  BY <1>0, <1>3, EarnedKept DEF ProcessOK, EarnedInv, CountInv
<1>4. ASSUME NEW c \in Consumers, ProcessFails(c) PROVE EarnedInv'
  <2> DEFINE e == hand[c].event
  <2>1. e \in Events /\ hand[c].retry \in 0 .. MaxRetryCount /\ failed[e] >= hand[c].retry
    BY <1>4, <1>h DEF ProcessFails, Retries
  <2>2. \A f \in Events : failed'[f] \in Nat /\ failed'[f] >= failed[f] /\ failed[f] \in Nat
    BY <1>0, <1>4, <2>1 DEF ProcessFails
  <2>3. failed'[e] = failed[e] + 1
    BY <1>0, <1>4, <2>1 DEF ProcessFails
  <2>4. \A d \in Consumers : /\ stage'[d] = (IF d = c THEN AfterFailure(hand[c].retry) ELSE stage[d])
                             /\ hand'[d] = hand[d]
    BY <1>0, <1>4 DEF ProcessFails
  <2>5. \A d \in Consumers : stage[d] \in InHand => hand[d].event \in Events /\ hand[d].retry \in Nat
    BY <1>h DEF Retries
  <2>6. CountInv'
    <3>1. \A q \in Queues, f \in Events, r \in Retries : ready'[q][f][r] > 0 => failed'[f] >= r
      BY <1>0, <1>4, <2>2 DEF ProcessFails, Retries
    <3>2. ASSUME NEW d \in Consumers
          PROVE /\ stage'[d] \in InHand => failed'[hand'[d].event] >= hand'[d].retry
                /\ stage'[d] = "republish" => failed'[hand'[d].event] >= hand'[d].retry + 1
                /\ stage'[d] = "reject" => failed'[hand'[d].event] > MaxRetryCount
      <4>1. CASE d = c
        BY <2>1, <2>2, <2>3, <2>4, <4>1 DEF AfterFailure, Retries
      <4>2. CASE d # c
        BY <2>2, <2>4, <2>5, <4>2 DEF EarnedInv, CountInv
      <4> QED BY <4>1, <4>2
    <3> QED BY <3>1, <3>2 DEF CountInv
  <2>7. DeadLetterEarned'
    BY <1>4, <2>2 DEF ProcessFails, EarnedInv, DeadLetterEarned, TypeInv, TypeOK
  <2> QED BY <2>6, <2>7 DEF EarnedInv
<1>5. ASSUME NEW c \in Consumers, Republish(c) PROVE EarnedInv'
  <2>1. /\ hand[c].event \in Events /\ hand[c].retry + 1 \in Retries
        /\ failed[hand[c].event] >= hand[c].retry + 1
    BY <1>5, <1>h DEF Republish, TypeInv, HandInv, EarnedInv, CountInv, Retries
  <2>2. \A q \in Queues, f \in Events, r \in Retries : ready'[q][f][r] > 0 => failed[f] >= r
    BY <1>5, <2>1, CoveredRouted DEF Republish
  <2> QED BY <1>0, <1>5, <2>2, EarnedKept DEF Republish
<1>6. ASSUME NEW c \in Consumers, RepublishFails(c) PROVE EarnedInv'
  <2>1. stage[c] \in InHand /\ ready' = Returned(c)
    BY <1>6 DEF RepublishFails
  <2>2. \A q \in Queues, f \in Events, r \in Retries : ready'[q][f][r] > 0 => failed[f] >= r
    BY <2>1, CoveredReturned
  <2> QED BY <1>0, <1>6, <2>2, EarnedKept DEF RepublishFails, Released
<1>7. ASSUME NEW c \in Consumers, Ack(c) PROVE EarnedInv'
  BY <1>0, <1>7, EarnedKept DEF Ack, Released
<1>8. ASSUME NEW c \in Consumers, Reject(c) PROVE EarnedInv'
  <2>1. failed[hand[c].event] > MaxRetryCount
    BY <1>8 DEF Reject, EarnedInv, CountInv
  <2>2. \A q \in Queues : \A e \in dlx'[q] : e \in dlx[q] \/ failed[e] > MaxRetryCount
    BY <1>8, <2>1 DEF Reject, DeadLettered
  <2> QED BY <1>0, <1>8, <2>2, EarnedKept DEF Reject, Released
<1>9. ASSUME NEW c \in Consumers, ChannelLost(c) PROVE EarnedInv'
  <2>1. \A q \in Queues, f \in Events, r \in Retries : ready'[q][f][r] > 0 => failed[f] >= r
    <3>1. CASE stage[c] \in InHand
      BY <1>9, <3>1, CoveredReturned DEF ChannelLost
    <3>2. CASE stage[c] \notin InHand
      BY <1>0, <1>9, <3>2 DEF ChannelLost
    <3> QED BY <3>1, <3>2
  <2> QED BY <1>0, <1>9, <2>1, EarnedKept DEF ChannelLost
<1>10. ASSUME NEW c \in Consumers, Restart(c) PROVE EarnedInv'
  BY <1>0, <1>10, EarnedKept DEF Restart
<1>11. ASSUME UNCHANGED vars PROVE EarnedInv'
  BY <1>11 DEF vars, EarnedInv, CountInv, DeadLetterEarned
<1> QED BY <1>1, <1>2, <1>3, <1>4, <1>5, <1>6, <1>7, <1>8, <1>9, <1>10, <1>11
        DEF Next, ConsumerStep

-----------------------------------------------------------------------------
(* Each action preserves the account of events.                            *)

\* Nothing that answers for an event goes away.
LEMMA LossKept ==
  ASSUME TypeInv, LossInv,
         published' = published,
         \A q \in Queues : handled[q] \subseteq handled'[q] /\ dlx[q] \subseteq dlx'[q],
         \A q \in Queues, e \in Events, r \in Retries : ready[q][e][r] > 0 => ready'[q][e][r] > 0,
         \A c \in Consumers, e \in Events :
            stage[c] \in InHand \ {"ack"} /\ hand[c].event = e /\ e \in Bound[Source[c]] =>
              \/ stage'[c] \in InHand \ {"ack"} /\ hand'[c] = hand[c]
              \/ e \in handled'[Source[c]] \/ e \in dlx'[Source[c]]
              \/ \E r \in Retries : ready'[Source[c]][e][r] > 0
  PROVE  LossInv'
<1> SUFFICES ASSUME NEW q \in Queues, NEW e \in Bound[q], e \in published
             PROVE  Answerable(q, e)' \/ e \in handled'[q] \/ e \in dlx'[q]
  BY DEF LossInv
<1>0. e \in Events
  BY RetryConstants
<1>1. CASE \E r \in Retries : ready[q][e][r] > 0
  BY <1>0, <1>1 DEF Answerable
<1>2. CASE \E c \in Consumers : Source[c] = q /\ stage[c] \in InHand \ {"ack"} /\ hand[c].event = e
  BY <1>0, <1>2 DEF Answerable
<1>3. CASE e \in handled[q] \/ e \in dlx[q]
  BY <1>3
<1> QED BY <1>1, <1>2, <1>3 DEF LossInv, Answerable

LEMMA LossStep == TypeInv /\ LossInv /\ [Next]_vars => LossInv'
<1> SUFFICES ASSUME TypeInv, LossInv, [Next]_vars PROVE LossInv'
  OBVIOUS
<1> USE RetryConstants DEF InHand
<1>0. /\ stage \in [Consumers -> Stage] /\ hand \in [Consumers -> Delivery \cup {Nothing}]
      /\ ready \in [Queues -> [Events -> [Retries -> Nat]]]
      /\ handled \in [Queues -> SUBSET Events] /\ dlx \in [Queues -> SUBSET Events]
  BY DEF TypeInv, TypeOK
<1>h. ASSUME NEW c \in Consumers, stage[c] \in InHand
      PROVE  hand[c] \in Delivery /\ hand[c].event \in Events /\ hand[c].retry \in Retries
  BY <1>h DEF TypeInv, HandInv, Delivery
\* What Routed and Returned add, and that they take nothing away.
<1>r. ASSUME NEW e \in Events, NEW n \in Retries
      PROVE  /\ \A q \in Queues, f \in Events, r \in Retries :
                   ready[q][f][r] > 0 => Routed(e, n)[q][f][r] > 0
             /\ \A q \in Queues : e \in Bound[q] => Routed(e, n)[q][e][n] > 0
  <2>1. \A q \in Queues, f \in Events, r \in Retries :
           Routed(e, n)[q][f][r] =
              IF e \in Bound[q] /\ f = e /\ r = n THEN ready[q][f][r] + 1 ELSE ready[q][f][r]
    BY RoutedType DEF TypeInv
  <2>2. \A q \in Queues, f \in Events, r \in Retries : ready[q][f][r] \in Nat
    BY <1>0
  <2> QED BY <2>1, <2>2
<1>t. ASSUME NEW c \in Consumers, stage[c] \in InHand
      PROVE  /\ \A q \in Queues, f \in Events, r \in Retries :
                   ready[q][f][r] > 0 => Returned(c)[q][f][r] > 0
             /\ Returned(c)[Source[c]][hand[c].event][hand[c].retry] > 0
  <2>1. \A q \in Queues, f \in Events, r \in Retries :
           Returned(c)[q][f][r] =
              IF q = Source[c] /\ f = hand[c].event /\ r = hand[c].retry
              THEN ready[q][f][r] + 1 ELSE ready[q][f][r]
    BY <1>h, <1>t, ReturnedType DEF TypeInv
  <2>2. \A q \in Queues, f \in Events, r \in Retries : ready[q][f][r] \in Nat
    BY <1>0
  <2>3. \A q \in Queues, f \in Events, r \in Retries : ready[q][f][r] > 0 => Returned(c)[q][f][r] > 0
    BY ONLY <2>1, <2>2
  <2>4. Source[c] \in Queues /\ hand[c].event \in Events /\ hand[c].retry \in Retries
    BY <1>h, <1>t
  <2>5. Returned(c)[Source[c]][hand[c].event][hand[c].retry] =
          ready[Source[c]][hand[c].event][hand[c].retry] + 1
    BY ONLY <2>1, <2>4
  <2>6. Returned(c)[Source[c]][hand[c].event][hand[c].retry] > 0
    BY ONLY <2>2, <2>4, <2>5
  <2> QED BY ONLY <2>3, <2>6
<1>1. ASSUME NEW e \in Events, Publish(e) PROVE LossInv'
  <2>1. 0 \in Retries /\ ready' = Routed(e, 0)
    BY <1>1 DEF Publish, Retries
  <2>2. /\ \A q \in Queues, f \in Events, r \in Retries : ready[q][f][r] > 0 => ready'[q][f][r] > 0
        /\ \A q \in Queues : e \in Bound[q] => ready'[q][e][0] > 0
    BY <1>r, <2>1
  <2>3. \A q \in Queues : Bound[q] \subseteq Events
    OBVIOUS
  <2> QED BY <1>1, <2>1, <2>2, <2>3 DEF Publish, LossInv, Answerable
<1>2. ASSUME NEW c \in Consumers, NEW e \in Events, NEW n \in Retries, Deliver(c, e, n)
      PROVE  LossInv'
  <2>1. \A q \in Queues, f \in Events, r \in Retries :
          ready[q][f][r] > 0 => ready'[q][f][r] > 0 \/ (q = Source[c] /\ f = e)
    BY <1>0, <1>2 DEF Deliver
  <2>2. /\ stage'[c] = "process" /\ hand'[c].event = e
        /\ \A d \in Consumers : d # c => stage'[d] = stage[d] /\ hand'[d] = hand[d]
        /\ stage[c] = "idle"
    BY <1>0, <1>2 DEF Deliver
  <2> SUFFICES ASSUME NEW q \in Queues, NEW f \in Bound[q], f \in published
               PROVE  Answerable(q, f)' \/ f \in handled'[q] \/ f \in dlx'[q]
    BY <1>2 DEF LossInv, Deliver
  <2>3. f \in Events
    OBVIOUS
  <2>4. CASE q = Source[c] /\ f = e
    BY <2>2, <2>4 DEF Answerable
  <2>5. CASE ~(q = Source[c] /\ f = e)
    <3>1. (\E r \in Retries : ready[q][f][r] > 0) => \E r \in Retries : ready'[q][f][r] > 0
      BY <2>1, <2>3, <2>5
    <3>2. \A d \in Consumers : stage[d] \in InHand \ {"ack"} => d # c
      BY <2>2
    <3> QED BY <1>2, <2>2, <3>1, <3>2 DEF Deliver, LossInv, Answerable
  <2> QED BY <2>4, <2>5
<1>3. ASSUME NEW c \in Consumers, ProcessOK(c) PROVE LossInv'
  BY <1>0, <1>3, LossKept DEF ProcessOK
<1>4. ASSUME NEW c \in Consumers, ProcessFails(c) PROVE LossInv'
  BY <1>0, <1>4, LossKept DEF ProcessFails, AfterFailure
<1>5. ASSUME NEW c \in Consumers, Republish(c) PROVE LossInv'
  <2>1. hand[c].event \in Events /\ hand[c].retry + 1 \in Retries
    BY <1>5, <1>h DEF Republish, TypeInv, HandInv, Retries
  <2>2. /\ \A q \in Queues, f \in Events, r \in Retries : ready[q][f][r] > 0 => ready'[q][f][r] > 0
        /\ hand[c].event \in Bound[Source[c]] =>
             ready'[Source[c]][hand[c].event][hand[c].retry + 1] > 0
    BY <1>5, <1>r, <2>1 DEF Republish
  <2> QED BY <1>0, <1>5, <2>1, <2>2, LossKept DEF Republish
<1>6. ASSUME NEW c \in Consumers, RepublishFails(c) PROVE LossInv'
  <2>1. stage[c] \in InHand /\ ready' = Returned(c)
    BY <1>6 DEF RepublishFails
  <2>2. /\ \A q \in Queues, f \in Events, r \in Retries : ready[q][f][r] > 0 => ready'[q][f][r] > 0
        /\ hand[c].retry \in Retries
        /\ ready'[Source[c]][hand[c].event][hand[c].retry] > 0
    BY <1>h, <1>t, <2>1
  <2> QED BY <1>0, <1>6, <2>2, LossKept DEF RepublishFails, Released
<1>7. ASSUME NEW c \in Consumers, Ack(c) PROVE LossInv'
  BY <1>0, <1>7, LossKept DEF Ack, Released
<1>8. ASSUME NEW c \in Consumers, Reject(c) PROVE LossInv'
  <2>1. /\ \A q \in Queues : dlx[q] \subseteq dlx'[q]
        /\ hand[c].event \in Bound[Source[c]] => hand[c].event \in dlx'[Source[c]]
    BY <1>8 DEF Reject, DeadLettered
  <2> QED BY <1>0, <1>8, <2>1, LossKept DEF Reject, Released
<1>9. ASSUME NEW c \in Consumers, ChannelLost(c) PROVE LossInv'
  <2>1. CASE stage[c] \in InHand
    <3>1. /\ \A q \in Queues, f \in Events, r \in Retries : ready[q][f][r] > 0 => ready'[q][f][r] > 0
          /\ hand[c].retry \in Retries
          /\ ready'[Source[c]][hand[c].event][hand[c].retry] > 0
      BY <1>9, <1>h, <1>t, <2>1 DEF ChannelLost
    <3> QED BY <1>0, <1>9, <3>1, LossKept DEF ChannelLost
  <2>2. CASE stage[c] \notin InHand
    BY <1>0, <1>9, <2>2, LossKept DEF ChannelLost
  <2> QED BY <2>1, <2>2
<1>10. ASSUME NEW c \in Consumers, Restart(c) PROVE LossInv'
  BY <1>0, <1>10, LossKept DEF Restart
<1>11. ASSUME UNCHANGED vars PROVE LossInv'
  BY <1>11 DEF vars, LossInv, Answerable
<1> QED BY <1>1, <1>2, <1>3, <1>4, <1>5, <1>6, <1>7, <1>8, <1>9, <1>10, <1>11
        DEF Next, ConsumerStep

-----------------------------------------------------------------------------
(* Induction.  The library's induction schemes take a predicate, which the *)
(* provers do not instantiate; its least-element principle for             *)
(* well-founded relations takes a set, and gives induction over sets of    *)
(* numbers, enough to find out what the recursive function Calls computes. *)

\* Every nonempty set of natural numbers has a least element.
LEMMA Least ==
    ASSUME NEW T, T \subseteq Nat, T # {}
    PROVE  \E x \in T : \A y \in T : x <= y
<1> DEFINE R == OpToRel(<, Nat)
<1>1. \A x, y \in Nat : x < y => <<x, y>> \in R
  BY DEF OpToRel
<1>2. IsWellFoundedOn(R, Nat)
  BY NatLessThanWellFounded
<1> HIDE DEF R
<1>3. PICK x \in T : \A y \in T : ~(<<y, x>> \in R)
  BY <1>2, WFMin
<1>4. \A y \in T : y \in Nat /\ x \in Nat /\ ~(y < x)
  BY <1>1, <1>3
<1>5. \A y \in T : x <= y
  BY <1>4
<1> QED BY <1>5

\* Induction over the natural numbers, as a fact about a set of them.
LEMMA Induction ==
    ASSUME NEW S, 0 \in S, \A k \in Nat : k \in S => k + 1 \in S
    PROVE  Nat \subseteq S
<1> SUFFICES ASSUME Nat \ S # {} PROVE FALSE
  OBVIOUS
<1>1. PICK x \in Nat \ S : \A y \in Nat \ S : x <= y
  BY Least
<1>2. x # 0 /\ x - 1 \in Nat
  BY <1>1
<1>3. x - 1 \in S
  BY <1>1, <1>2
<1>4. (x - 1) + 1 = x
  BY <1>1
<1> QED BY <1>1, <1>2, <1>3, <1>4

\* Calls(n) satisfies its recursive equations: there are functions on every
\* initial segment that do, each extends the one before, and so their diagonal
\* does on all of Nat.
LEMMA CallsDef ==
    ASSUME NEW n \in Nat
    PROVE  /\ Calls(n) \in [Nat -> Nat]
           /\ Calls(n)[0] = 1
           /\ \A k \in Nat : Calls(n)[k + 1] = 1 + n * Calls(n)[k]
<1> DEFINE Fits(g, m) == g[0] = 1 /\ \A k \in 0 .. m - 1 : g[k + 1] = 1 + n * g[k]
           S == {m \in Nat : \E g \in [0 .. m -> Nat] : Fits(g, m)}
           best == [m \in Nat |-> CHOOSE g \in [0 .. m -> Nat] : Fits(g, m)]
           f == [m \in Nat |-> best[m][m]]
<1>0. \A x \in Nat : 1 + n * x \in Nat
  OBVIOUS
<1>1. 0 \in S
  <2>1. [k \in 0 .. 0 |-> 1] \in [0 .. 0 -> Nat] /\ Fits([k \in 0 .. 0 |-> 1], 0)
    OBVIOUS
  <2> QED BY <2>1
<1>2. ASSUME NEW m \in Nat, m \in S PROVE m + 1 \in S
  <2>1. PICK g \in [0 .. m -> Nat] : Fits(g, m)
    BY <1>2
  <2>2. g[m] \in Nat
    BY <2>1
  <2> DEFINE h == [k \in 0 .. m + 1 |-> IF k = m + 1 THEN 1 + n * g[m] ELSE g[k]]
  <2>3. h \in [0 .. m + 1 -> Nat]
    BY <1>0, <2>1, <2>2
  <2>4. h[0] = 1
    BY <2>1
  <2>5. ASSUME NEW k \in 0 .. m + 1 - 1 PROVE h[k + 1] = 1 + n * h[k]
    <3>1. CASE k = m
      BY <3>1
    <3>2. CASE k # m
      <4>1. k \in 0 .. m - 1 /\ k + 1 # m + 1 /\ k # m + 1 /\ k + 1 \in 0 .. m + 1
        BY <3>2
      <4>2. g[k + 1] = 1 + n * g[k]
        BY <2>1, <4>1
      <4> QED BY <4>1, <4>2
    <3> QED BY <3>1, <3>2
  <2> HIDE DEF h
  <2>6. Fits(h, m + 1)
    BY <2>4, <2>5
  <2> HIDE DEF Fits
  <2> QED BY <2>3, <2>6
<1>3. Nat \subseteq S
  <2> HIDE DEF S
  <2> QED BY <1>1, <1>2, Induction
<1>4. \A m \in Nat : best[m] \in [0 .. m -> Nat] /\ Fits(best[m], m)
  <2>1. \A m \in Nat : \E g \in [0 .. m -> Nat] : Fits(g, m)
    BY <1>3
  <2> HIDE DEF Fits
  <2> QED BY <2>1
<1> HIDE DEF best
\* Two that fit agree as far as both go.
<1>5. ASSUME NEW m \in Nat PROVE \A k \in 0 .. m : best[m + 1][k] = best[m][k]
  <2> DEFINE a == best[m + 1]
             b == best[m]
             E == {k \in Nat : k <= m => a[k] = b[k]}
  <2>1. /\ a[0] = 1 /\ b[0] = 1
        /\ \A k \in 0 .. m - 1 : a[k + 1] = 1 + n * a[k] /\ b[k + 1] = 1 + n * b[k]
    <3>1. Fits(a, m + 1) /\ Fits(b, m)
      <4>1. m + 1 \in Nat
        OBVIOUS
      <4> HIDE DEF Fits
      <4> QED BY <1>4, <4>1
    <3> QED BY <3>1
  <2> HIDE DEF a, b
  <2>2. 0 \in E
    BY <2>1
  <2>3. ASSUME NEW k \in Nat, k \in E PROVE k + 1 \in E
    <3>1. CASE k + 1 <= m
      <4>1. k \in 0 .. m - 1 /\ a[k] = b[k]
        BY <2>3, <3>1
      <4> QED BY <2>1, <4>1
    <3>2. CASE ~(k + 1 <= m)
      BY <3>2
    <3> QED BY <3>1, <3>2
  <2> HIDE DEF E
  <2>4. Nat \subseteq E
    BY <2>2, <2>3, Induction
  <2> QED BY <2>4 DEF E, a, b
<1>6. f[0] = 1
  BY <1>4
<1>7. ASSUME NEW k \in Nat PROVE f[k + 1] = 1 + n * f[k]
  <2>1. best[k + 1][k + 1] = 1 + n * best[k + 1][k]
    BY <1>4
  <2>2. best[k + 1][k] = best[k][k]
    BY <1>5
  <2> QED BY <2>1, <2>2
<1>8. f \in [Nat -> Nat]
  BY <1>4
<1> HIDE DEF f
<1>9. f = [k \in Nat |-> IF k = 0 THEN 1 ELSE 1 + n * f[k - 1]]
  <2>1. ASSUME NEW k \in Nat PROVE f[k] = IF k = 0 THEN 1 ELSE 1 + n * f[k - 1]
    <3>1. CASE k # 0
      <4>1. k - 1 \in Nat /\ (k - 1) + 1 = k
        BY <3>1
      <4> QED BY <1>7, <3>1, <4>1
    <3> QED BY <1>6, <3>1
  <2> QED BY <1>8, <2>1
<1>10. Calls(n) = [k \in Nat |-> IF k = 0 THEN 1 ELSE 1 + n * Calls(n)[k - 1]]
  BY <1>9 DEF Calls
<1>11. Calls(n)[0] = 1 /\ \A k \in Nat : Calls(n)[k + 1] = 1 + n * Calls(n)[k]
  <2> DEFINE c == Calls(n)
  <2>1. c = [k \in Nat |-> IF k = 0 THEN 1 ELSE 1 + n * c[k - 1]]
    BY <1>10
  <2> HIDE DEF c
  <2>2. c[0] = 1
    BY <2>1
  <2>3. ASSUME NEW k \in Nat PROVE c[k + 1] = 1 + n * c[k]
    <3>1. k + 1 \in Nat /\ k + 1 # 0 /\ (k + 1) - 1 = k
      OBVIOUS
    <3> QED BY <2>1, <3>1
  <2> QED BY <2>2, <2>3 DEF c
<1>12. Calls(n) \in [Nat -> Nat]
  <2> DEFINE E == {k \in Nat : Calls(n)[k] \in Nat}
  <2>1. 0 \in E /\ \A k \in Nat : k \in E => k + 1 \in E
    BY <1>0, <1>11
  <2> HIDE DEF E
  <2>2. Nat \subseteq E
    BY <2>1, Induction
  <2>3. \A k \in Nat : Calls(n)[k] \in Nat
    BY <2>2 DEF E
  <2>4. ASSUME NEW c, c = [k \in Nat |-> IF k = 0 THEN 1 ELSE 1 + n * c[k - 1]], \A k \in Nat : c[k] \in Nat
        PROVE  c \in [Nat -> Nat]
    BY <2>4
  <2> QED BY ONLY <1>10, <2>3, <2>4
<1> QED BY <1>11, <1>12

-----------------------------------------------------------------------------
(* How many process calls one copy can still cause.                        *)

\* The calls in each queue that a copy with count r can lead to after it has
\* been processed once.
Onward(n, r) == IF r < MaxRetryCount THEN Calls(n)[MaxRetryCount - 1 - r] ELSE 0

\* With at least one queue, more retries mean more calls.
LEMMA CallsGrow ==
    ASSUME NEW n \in Nat, n >= 1, NEW j \in Nat, NEW k \in Nat, j <= k
    PROVE  Calls(n)[j] <= Calls(n)[k]
<1> DEFINE c == Calls(n)
<1>1. c \in [Nat -> Nat] /\ \A i \in Nat : c[i + 1] = 1 + n * c[i]
  BY CallsDef
<1> HIDE DEF c
<1>2. \A x \in Nat : x <= 1 + n * x
  OBVIOUS
<1> DEFINE S == {d \in Nat : c[j] <= c[j + d]}
<1>3. 0 \in S
  BY <1>1
<1>4. ASSUME NEW d \in Nat, d \in S PROVE d + 1 \in S
  <2>1. j + d \in Nat /\ j + (d + 1) = (j + d) + 1 /\ c[j] \in Nat /\ c[j + d] \in Nat
    BY <1>1
  <2>2. c[j + (d + 1)] = 1 + n * c[j + d]
    BY <1>1, <2>1
  <2>3. c[j + d] <= c[j + (d + 1)] /\ c[j + (d + 1)] \in Nat
    <3>1. ASSUME NEW x \in Nat, NEW y, y = 1 + n * x PROVE x <= y /\ y \in Nat
      BY <1>2, <3>1
    <3> QED BY ONLY <2>1, <2>2, <3>1
  <2>4. c[j] <= c[j + d]
    BY <1>4
  <2>5. c[j] <= c[j + (d + 1)]
    BY <2>1, <2>3, <2>4
  <2> QED BY <2>5
<1> HIDE DEF S
<1>5. Nat \subseteq S
  BY <1>3, <1>4, Induction
<1>6. k - j \in Nat /\ j + (k - j) = k
  OBVIOUS
<1>7. c[j] <= c[j + (k - j)]
  BY <1>5, <1>6 DEF S
<1> QED BY <1>6, <1>7 DEF c

\* A copy pays for the copies its republish makes, and Cost pays for one
\* publication, or for one copy that comes back.
LEMMA OnwardFacts ==
    ASSUME NEW n \in Nat
    PROVE  /\ Cost(n) \in Nat
           /\ \A r \in Retries : Onward(n, r) \in Nat
           /\ 1 + n * Onward(n, 0) = Cost(n)
           /\ \A r \in Retries : r < MaxRetryCount => Onward(n, r) = 1 + n * Onward(n, r + 1)
           /\ n >= 1 => \A r \in Retries : Onward(n, r) + 1 <= Cost(n)
<1> USE RetryConstants
<1> DEFINE c == Calls(n)  K == MaxRetryCount
<1>1. c \in [Nat -> Nat] /\ c[0] = 1 /\ \A i \in Nat : c[i + 1] = 1 + n * c[i]
  BY CallsDef
<1>2. \A r \in Nat : Onward(n, r) = IF r < K THEN c[K - 1 - r] ELSE 0
  BY DEF Onward
<1>3. Cost(n) = c[K] /\ K \in Nat
  BY DEF Cost
<1>4. n >= 1 => \A j, k \in Nat : j <= k => c[j] <= c[k]
  BY CallsGrow
<1> HIDE DEF c, K
<1>5. Cost(n) \in Nat
  BY <1>1, <1>3
<1>6. ASSUME NEW r \in Retries
      PROVE  r \in Nat /\ Onward(n, r) \in Nat
  <2>1. r \in Nat
    BY DEF Retries
  <2>2. CASE r < K
    <3>1. K - 1 - r \in Nat
      BY <1>3, <2>1, <2>2
    <3> QED BY <1>1, <1>2, <2>1, <2>2, <3>1
  <2>3. CASE ~(r < K)
    BY <1>2, <2>1, <2>3
  <2> QED BY <2>1, <2>2, <2>3
<1>7. 1 + n * Onward(n, 0) = Cost(n)
  <2>1. CASE K = 0
    <3>1. Onward(n, 0) = 0
      BY <1>2, <2>1
    <3>2. n * 0 = 0
      OBVIOUS
    <3> QED BY <1>1, <1>3, <2>1, <3>1, <3>2
  <2>2. CASE K # 0
    <3>1. K - 1 \in Nat /\ (K - 1) + 1 = K /\ K - 1 - 0 = K - 1 /\ 0 < K
      BY <1>3, <2>2
    <3>2. Onward(n, 0) = c[K - 1]
      BY <1>2, <3>1
    <3>3. c[K] = 1 + n * c[K - 1]
      BY <1>1, <3>1
    <3> QED BY <1>3, <3>2, <3>3
  <2> QED BY <2>1, <2>2
<1>8. ASSUME NEW r \in Retries, r < K PROVE Onward(n, r) = 1 + n * Onward(n, r + 1)
  <2>1. r \in Nat /\ r + 1 \in Nat
    BY <1>6
  <2>2. CASE r + 1 < K
    <3>1. K - 1 - (r + 1) \in Nat /\ (K - 1 - (r + 1)) + 1 = K - 1 - r
      BY <1>3, <2>1, <2>2
    <3>2. Onward(n, r) = c[K - 1 - r] /\ Onward(n, r + 1) = c[K - 1 - (r + 1)]
      BY <1>2, <1>8, <2>1, <2>2
    <3>3. c[K - 1 - r] = 1 + n * c[K - 1 - (r + 1)]
      BY <1>1, <3>1
    <3> QED BY <3>2, <3>3
  <2>3. CASE ~(r + 1 < K)
    <3>1. K - 1 - r = 0
      BY <1>3, <1>8, <2>1, <2>3
    <3>2. Onward(n, r) = c[0] /\ Onward(n, r + 1) = 0
      BY <1>2, <1>8, <2>1, <2>3, <3>1
    <3>3. n * 0 = 0
      OBVIOUS
    <3> QED BY <1>1, <3>2, <3>3
  <2> QED BY <2>2, <2>3
<1>9. ASSUME n >= 1, NEW r \in Retries PROVE Onward(n, r) + 1 <= Cost(n)
  <2>1. \A x \in Nat : x + 1 <= 1 + n * x
    BY <1>9
  <2>2. Onward(n, r) <= Onward(n, 0) /\ Onward(n, 0) \in Nat
    <3>1. 0 \in Retries
      BY DEF Retries
    <3>2. CASE r < K
      <4>1. K - 1 - r \in Nat /\ K - 1 - 0 \in Nat /\ K - 1 - r <= K - 1 - 0 /\ 0 < K
        BY <1>3, <1>6, <3>2
      <4>2. c[K - 1 - r] <= c[K - 1 - 0]
        BY <1>4, <1>9, <4>1
      <4> QED BY <1>2, <1>6, <3>1, <3>2, <4>1, <4>2
    <3>3. CASE ~(r < K)
      BY <1>2, <1>6, <3>1, <3>3
    <3> QED BY <3>2, <3>3
  <2>3. Onward(n, 0) + 1 <= Cost(n)
    BY <1>7, <2>1, <2>2
  <2> QED BY <1>5, <1>6, <2>2, <2>3
<1> QED BY <1>5, <1>6, <1>7, <1>8, <1>9 DEF K

-----------------------------------------------------------------------------
(* A total over a finite set, as a number of units.                        *)

Units(I, f) == {u \in I \X Nat : 1 <= u[2] /\ u[2] <= f[u[1]]}
Total(I, f) == Cardinality(Units(I, f))

\* Totals of natural numbers over a finite set are natural numbers.
LEMMA TotalType ==
    ASSUME NEW I, IsFiniteSet(I), NEW f \in [I -> Nat]
    PROVE  IsFiniteSet(Units(I, f)) /\ Total(I, f) \in Nat
<1> DEFINE column == [i \in I |-> {i} \X (1 .. f[i])]
           columns == {column[i] : i \in I}
<1>1. column \in Surjection(I, columns)
  BY DEF Surjection
<1>2. IsFiniteSet(columns)
  <2> HIDE DEF column, columns
  <2> QED BY <1>1, FS_Surjection
<1>3. ASSUME NEW i \in I PROVE IsFiniteSet(column[i])
  <2>1. f[i] \in Int /\ 1 \in Int
    OBVIOUS
  <2>2. IsFiniteSet(1 .. f[i])
    BY <2>1, FS_Interval
  <2>3. IsFiniteSet({i})
    BY FS_Singleton
  <2>4. IsFiniteSet({i} \X (1 .. f[i]))
    BY <2>2, <2>3, FS_Product
  <2> QED BY <2>4
<1>4. IsFiniteSet(UNION columns)
  <2>1. \A T \in columns : IsFiniteSet(T)
    BY <1>3
  <2> HIDE DEF columns
  <2> QED BY <1>2, <2>1, FS_UNION
<1>5. Units(I, f) \subseteq UNION columns
  <2> SUFFICES ASSUME NEW u \in Units(I, f) PROVE u \in UNION columns
    OBVIOUS
  <2>1. u \in I \X Nat /\ 1 <= u[2] /\ u[2] <= f[u[1]]
    BY DEF Units
  <2>2. PICK i \in I, k \in Nat : u = <<i, k>>
    BY <2>1
  <2>3. k \in 1 .. f[i] /\ f[i] \in Nat
    BY <2>1, <2>2
  <2>4. u \in column[i]
    BY <2>2, <2>3
  <2> QED BY <2>4
<1>6. IsFiniteSet(Units(I, f))
  <2> HIDE DEF columns
  <2> QED BY <1>4, <1>5, FS_Subset
<1> QED BY <1>6, FS_CardinalityType DEF Total

\* The total of a sum is the sum of the totals.
LEMMA TotalAdd ==
    ASSUME NEW I, IsFiniteSet(I), NEW f \in [I -> Nat], NEW d \in [I -> Nat], NEW g \in [I -> Nat],
           \A i \in I : g[i] = f[i] + d[i]
    PROVE  Total(I, g) = Total(I, f) + Total(I, d)
<1> DEFINE A == Units(I, f)
           D == Units(I, d)
           G == Units(I, g)
           B == G \ A
           shift == [u \in D |-> <<u[1], f[u[1]] + u[2]>>]
<1>0. IsFiniteSet(A) /\ IsFiniteSet(D) /\ IsFiniteSet(G)
  BY TotalType
<1>m. \A i \in I, k \in Nat : /\ <<i, k>> \in A <=> 1 <= k /\ k <= f[i]
                              /\ <<i, k>> \in D <=> 1 <= k /\ k <= d[i]
                              /\ <<i, k>> \in G <=> 1 <= k /\ k <= f[i] + d[i]
  BY DEF Units
<1>p. /\ \A u \in A : \E i \in I, k \in Nat : u = <<i, k>>
      /\ \A u \in D : \E i \in I, k \in Nat : u = <<i, k>>
      /\ \A u \in G : \E i \in I, k \in Nat : u = <<i, k>>
  BY DEF Units
<1>t. \A i \in I : f[i] \in Nat /\ d[i] \in Nat
  OBVIOUS
<1> HIDE DEF A, D, G
<1>1. A \subseteq G
  BY <1>m, <1>p, <1>t
<1>2. shift \in [D -> B]
  <2> SUFFICES ASSUME NEW u \in D PROVE <<u[1], f[u[1]] + u[2]>> \in B
    OBVIOUS
  <2>1. PICK i \in I, k \in Nat : u = <<i, k>>
    BY <1>p
  <2>2. 1 <= k /\ k <= d[i]
    BY <1>m, <2>1
  <2>3. f[i] + k \in Nat /\ 1 <= f[i] + k /\ f[i] + k <= f[i] + d[i] /\ ~(f[i] + k <= f[i])
    BY <1>t, <2>2
  <2>4. <<i, f[i] + k>> \in G /\ <<i, f[i] + k>> \notin A
    BY <1>m, <2>3
  <2> QED BY <2>1, <2>4
<1>3. ASSUME NEW u \in D, NEW v \in D, shift[u] = shift[v] PROVE u = v
  <2>1. PICK i \in I, k \in Nat : u = <<i, k>>
    BY <1>p
  <2>2. PICK j \in I, l \in Nat : v = <<j, l>>
    BY <1>p
  <2>3. <<i, f[i] + k>> = <<j, f[j] + l>>
    BY <1>3, <2>1, <2>2
  <2>4. i = j /\ f[i] + k = f[i] + l
    BY <2>3
  <2>5. k = l
    BY <1>t, <2>4
  <2> QED BY <2>1, <2>2, <2>4, <2>5
<1>4. ASSUME NEW b \in B PROVE \E u \in D : shift[u] = b
  <2>1. PICK i \in I, k \in Nat : b = <<i, k>>
    BY <1>p
  <2>2. 1 <= k /\ k <= f[i] + d[i] /\ ~(k <= f[i])
    BY <1>m, <2>1
  <2>3. k - f[i] \in Nat /\ 1 <= k - f[i] /\ k - f[i] <= d[i] /\ f[i] + (k - f[i]) = k
    BY <1>t, <2>2
  <2>4. <<i, k - f[i]>> \in D
    BY <1>m, <2>3
  <2> QED BY <2>1, <2>3, <2>4
<1>5. shift \in Bijection(D, B)
  <2> HIDE DEF shift, B
  <2>1. shift \in Injection(D, B)
    BY <1>2, <1>3 DEF Injection, IsInjective
  <2>2. shift \in Surjection(D, B)
    BY <1>2, <1>4 DEF Surjection
  <2> QED BY <2>1, <2>2 DEF Bijection
<1>6. Cardinality(B) = Cardinality(D)
  <2> HIDE DEF shift, B
  <2> QED BY <1>0, <1>5, FS_Bijection DEF ExistsBijection
<1>7. Cardinality(B) = Cardinality(G) - Cardinality(A)
  <2>1. G \cap A = A
    BY <1>1
  <2>2. Cardinality(G \ A) = Cardinality(G) - Cardinality(G \cap A)
    BY ONLY <1>0, FS_Difference
  <2> QED BY <2>1, <2>2
<1>8. Cardinality(A) \in Nat /\ Cardinality(D) \in Nat /\ Cardinality(G) \in Nat
  BY <1>0, FS_CardinalityType
<1> HIDE DEF B
<1> QED BY <1>6, <1>7, <1>8 DEF Total, A, D, G

\* The same value on every element of a subset.
LEMMA TotalBlock ==
    ASSUME NEW I, IsFiniteSet(I), NEW S \in SUBSET I, NEW v \in Nat, NEW f \in [I -> Nat],
           \A i \in I : f[i] = IF i \in S THEN v ELSE 0
    PROVE  Total(I, f) = Cardinality(S) * v
<1>1. Units(I, f) = S \X (1 .. v)
  BY DEF Units
<1>2. IsFiniteSet(S) /\ IsFiniteSet(1 .. v) /\ Cardinality(1 .. v) = v
  BY FS_Subset, FS_Interval
<1> QED BY <1>1, <1>2, FS_Product DEF Total

\* Two weightings that differ at one element.
LEMMA TotalChange ==
    ASSUME NEW I, IsFiniteSet(I), NEW f \in [I -> Nat], NEW g \in [I -> Nat], NEW x \in I,
           \A i \in I : i # x => g[i] = f[i]
    PROVE  Total(I, g) + f[x] = Total(I, f) + g[x]
<1> DEFINE df == [i \in I |-> IF i \in {x} THEN f[x] ELSE 0]
           dg == [i \in I |-> IF i \in {x} THEN g[x] ELSE 0]
           rest == [i \in I |-> IF i \in {x} THEN 0 ELSE f[i]]
<1>0. f[x] \in Nat /\ g[x] \in Nat /\ Cardinality({x}) = 1 /\ {x} \in SUBSET I
  BY FS_Singleton
<1>1. df \in [I -> Nat] /\ dg \in [I -> Nat] /\ rest \in [I -> Nat]
  BY <1>0
<1>2. (\A i \in I : f[i] = rest[i] + df[i]) /\ (\A i \in I : g[i] = rest[i] + dg[i])
  BY <1>0
<1>b. /\ \A i \in I : df[i] = IF i \in {x} THEN f[x] ELSE 0
      /\ \A i \in I : dg[i] = IF i \in {x} THEN g[x] ELSE 0
  OBVIOUS
<1> HIDE DEF df, dg, rest
<1>3. Total(I, f) = Total(I, rest) + Total(I, df)
  BY <1>1, <1>2, TotalAdd
<1>4. Total(I, g) = Total(I, rest) + Total(I, dg)
  BY <1>1, <1>2, TotalAdd
<1>5. Total(I, df) = Cardinality({x}) * f[x]
  BY ONLY IsFiniteSet(I), <1>0, <1>1, <1>b, TotalBlock
<1>6. Total(I, dg) = Cardinality({x}) * g[x]
  BY ONLY IsFiniteSet(I), <1>0, <1>1, <1>b, TotalBlock
<1>7. Total(I, rest) \in Nat
  BY <1>1, TotalType
<1> QED BY <1>0, <1>3, <1>4, <1>5, <1>6, <1>7

-----------------------------------------------------------------------------
(* What the copies of an event are worth, when a copy at each place has a  *)
(* weight.                                                                 *)

Place == Queues \X Retries
Copies == [Queues -> [Events -> [Retries -> Nat]]]
Hands == [Consumers -> Delivery \cup {Nothing}]

Weighed(rd, e, wt) == [i \in Place |-> rd[i[1]][e][i[2]] * wt[i]]

\* Where a message is routed to, and what its copies are worth there.
Landing(e, n) == {q \in Queues : e \in Bound[q]} \X {n}
Added(e, n, wt) == [i \in Place |-> IF i \in Landing(e, n) THEN wt[i] ELSE 0]

\* There are finitely many places for a copy and finitely many hands.
LEMMA FiniteIndex == IsFiniteSet(Place) /\ IsFiniteSet(Consumers)
<1>1. IsFiniteSet(Retries)
  BY RetryConstants, FS_Interval DEF Retries
<1>2. IsFiniteSet(Queues) /\ IsFiniteSet(Consumers)
  BY RetryConstants
<1> QED BY <1>1, <1>2, FS_Product DEF Place

\* The copies are worth a natural number at every place.
LEMMA WeighedType ==
    ASSUME NEW rd \in Copies, NEW e \in Events, NEW wt \in [Place -> Nat]
    PROVE  /\ Weighed(rd, e, wt) \in [Place -> Nat]
           /\ Total(Place, Weighed(rd, e, wt)) \in Nat
           /\ \A p \in Queues, r \in Retries :
                 Weighed(rd, e, wt)[<<p, r>>] = rd[p][e][r] * wt[<<p, r>>]
<1>1. \A x, y \in Nat : x * y \in Nat
  OBVIOUS
<1>2. ASSUME NEW i \in Place PROVE rd[i[1]][e][i[2]] * wt[i] \in Nat
  <2>1. i[1] \in Queues /\ i[2] \in Retries
    BY DEF Place
  <2>2. rd[i[1]][e][i[2]] \in Nat /\ wt[i] \in Nat
    BY <2>1 DEF Copies
  <2> QED BY ONLY <1>1, <2>2
<1>3. Weighed(rd, e, wt) \in [Place -> Nat]
  BY <1>2 DEF Weighed
<1>4. Total(Place, Weighed(rd, e, wt)) \in Nat
  BY <1>3, FiniteIndex, TotalType
<1>5. \A p \in Queues, r \in Retries : Weighed(rd, e, wt)[<<p, r>>] = rd[p][e][r] * wt[<<p, r>>]
  BY DEF Weighed, Place
<1> QED BY <1>3, <1>4, <1>5

\* Copies of other events do not count.
LEMMA WeighedSame ==
    ASSUME NEW rd \in Copies, NEW rx \in Copies, NEW e \in Events, NEW wt \in [Place -> Nat],
           \A p \in Queues, r \in Retries : rx[p][e][r] = rd[p][e][r]
    PROVE  Weighed(rx, e, wt) = Weighed(rd, e, wt)
<1>1. \A i \in Place : rx[i[1]][e][i[2]] = rd[i[1]][e][i[2]]
  BY DEF Place
<1> QED BY <1>1 DEF Weighed

\* One copy more in one queue.
LEMMA WeighedOneMore ==
    ASSUME NEW rd \in Copies, NEW rx \in Copies, NEW e \in Events, NEW wt \in [Place -> Nat],
           NEW s \in Queues, NEW n \in Retries,
           \A p \in Queues, r \in Retries :
              rx[p][e][r] = IF p = s /\ r = n THEN rd[p][e][r] + 1 ELSE rd[p][e][r]
    PROVE  Total(Place, Weighed(rx, e, wt)) = Total(Place, Weighed(rd, e, wt)) + wt[<<s, n>>]
<1> DEFINE f == Weighed(rd, e, wt)
           g == Weighed(rx, e, wt)
           x == <<s, n>>
<1>1. f \in [Place -> Nat] /\ g \in [Place -> Nat] /\ x \in Place
  BY WeighedType DEF Place
<1>2. wt[x] \in Nat
  BY <1>1
<1>3. \A i \in Place : i # x => g[i] = f[i]
  <2> SUFFICES ASSUME NEW p \in Queues, NEW r \in Retries, <<p, r>> # x PROVE g[<<p, r>>] = f[<<p, r>>]
    BY DEF Place
  <2>1. rx[p][e][r] = rd[p][e][r]
    OBVIOUS
  <2> QED BY <2>1, WeighedType
<1>4. g[x] = f[x] + wt[x]
  <2>1. g[x] = rx[s][e][n] * wt[x] /\ f[x] = rd[s][e][n] * wt[x]
    BY WeighedType
  <2>2. rx[s][e][n] = rd[s][e][n] + 1 /\ rd[s][e][n] \in Nat
    BY DEF Copies
  <2>3. \A a, b \in Nat : (a + 1) * b = a * b + b
    OBVIOUS
  <2> QED BY ONLY <1>2, <2>1, <2>2, <2>3
<1>5. IsFiniteSet(Place)
  BY FiniteIndex
<1>6. Total(Place, f) \in Nat /\ Total(Place, g) \in Nat
  BY WeighedType
<1> HIDE DEF f, g, x
<1>7. Total(Place, g) + f[x] = Total(Place, f) + g[x]
  BY ONLY <1>1, <1>3, <1>5, TotalChange
<1>8. f[x] \in Nat /\ g[x] \in Nat
  BY <1>1
<1>9. Total(Place, g) = Total(Place, f) + wt[x]
  BY ONLY <1>2, <1>4, <1>6, <1>7, <1>8
<1> QED BY <1>9 DEF f, g, x

\* One copy more in every queue that the event is routed to.
LEMMA WeighedRouted ==
    ASSUME NEW rd \in Copies, NEW rx \in Copies, NEW e \in Events, NEW n \in Retries,
           NEW wt \in [Place -> Nat],
           \A p \in Queues, r \in Retries :
              rx[p][e][r] = IF e \in Bound[p] /\ r = n THEN rd[p][e][r] + 1 ELSE rd[p][e][r]
    PROVE  Total(Place, Weighed(rx, e, wt)) =
             Total(Place, Weighed(rd, e, wt)) + Total(Place, Added(e, n, wt))
<1> DEFINE f == Weighed(rd, e, wt)
           g == Weighed(rx, e, wt)
           d == Added(e, n, wt)
<1>1. f \in [Place -> Nat] /\ g \in [Place -> Nat] /\ IsFiniteSet(Place)
  BY WeighedType, FiniteIndex
<1>2. d \in [Place -> Nat]
  BY DEF Added
<1>3. \A i \in Place : g[i] = f[i] + d[i]
  <2> SUFFICES ASSUME NEW p \in Queues, NEW r \in Retries
               PROVE  g[<<p, r>>] = f[<<p, r>>] + d[<<p, r>>]
    <3> HIDE DEF f, g, d
    <3> QED BY DEF Place
  <2> DEFINE k == rd[p][e][r]
             w == wt[<<p, r>>]
  <2>1. g[<<p, r>>] = rx[p][e][r] * w /\ f[<<p, r>>] = k * w
    BY WeighedType
  <2>2. <<p, r>> \in Place
    BY DEF Place
  <2>3. k \in Nat /\ w \in Nat
    BY <2>2 DEF Copies
  <2>4. CASE e \in Bound[p] /\ r = n
    <3>1. rx[p][e][r] = k + 1
      BY <2>4
    <3>2. d[<<p, r>>] = w
      BY <2>2, <2>4 DEF Added, Landing
    <3>3. \A a, b \in Nat : (a + 1) * b = a * b + b
      OBVIOUS
    <3> HIDE DEF k, w, f, g, d
    <3> QED BY ONLY <2>1, <2>3, <3>1, <3>2, <3>3
  <2>5. CASE ~(e \in Bound[p] /\ r = n)
    <3>1. rx[p][e][r] = k
      BY <2>5
    <3>2. d[<<p, r>>] = 0
      BY <2>2, <2>5 DEF Added, Landing
    <3>3. \A a, b \in Nat : a * b = a * b + 0
      OBVIOUS
    <3> HIDE DEF k, w, f, g, d
    <3> QED BY ONLY <2>1, <2>3, <3>1, <3>2, <3>3
  <2> QED BY <2>4, <2>5
<1> HIDE DEF f, g, d
<1>4. Total(Place, g) = Total(Place, f) + Total(Place, d)
  BY ONLY <1>1, <1>2, <1>3, TotalAdd
<1> QED BY <1>4 DEF f, g, d

\* What a routed message adds, seen from one event.
LEMMA RoutedTotal ==
    ASSUME TypeOK, NEW e \in Events, NEW x \in Events, NEW n \in Retries, NEW wt \in [Place -> Nat]
    PROVE  /\ Routed(x, n) \in Copies
           /\ e # x => Total(Place, Weighed(Routed(x, n), e, wt)) = Total(Place, Weighed(ready, e, wt))
           /\ e = x => Total(Place, Weighed(Routed(x, n), e, wt)) =
                         Total(Place, Weighed(ready, e, wt)) + Total(Place, Added(e, n, wt))
<1> DEFINE rx == Routed(x, n)
<1>1. ready \in Copies /\ rx \in Copies
  BY RoutedType DEF TypeOK, Copies
<1>2. \A p \in Queues, f \in Events, r \in Retries :
         rx[p][f][r] = IF x \in Bound[p] /\ f = x /\ r = n THEN ready[p][f][r] + 1 ELSE ready[p][f][r]
  BY RoutedType
<1> HIDE DEF rx
<1>3. CASE e # x
  <2>1. \A p \in Queues, r \in Retries : rx[p][e][r] = ready[p][e][r]
    BY <1>2, <1>3
  <2>2. Weighed(rx, e, wt) = Weighed(ready, e, wt)
    BY ONLY <1>1, <2>1, e \in Events, wt \in [Place -> Nat], WeighedSame
  <2> QED BY <1>1, <1>3, <2>2 DEF rx
<1>4. CASE e = x
  <2>1. \A p \in Queues, r \in Retries :
           rx[p][e][r] = IF e \in Bound[p] /\ r = n THEN ready[p][e][r] + 1 ELSE ready[p][e][r]
    BY <1>2, <1>4
  <2>2. Total(Place, Weighed(rx, e, wt)) =
          Total(Place, Weighed(ready, e, wt)) + Total(Place, Added(e, n, wt))
    BY ONLY <1>1, <2>1, e \in Events, n \in Retries, wt \in [Place -> Nat], WeighedRouted
  <2> QED BY <1>1, <1>4, <2>2 DEF rx
<1> QED BY <1>3, <1>4

\* What a returned delivery adds, seen from one event.
LEMMA ReturnedTotal ==
    ASSUME TypeOK, NEW e \in Events, NEW c \in Consumers, hand[c] \in Delivery, NEW wt \in [Place -> Nat]
    PROVE  /\ Returned(c) \in Copies
           /\ e # hand[c].event =>
                Total(Place, Weighed(Returned(c), e, wt)) = Total(Place, Weighed(ready, e, wt))
           /\ e = hand[c].event =>
                Total(Place, Weighed(Returned(c), e, wt)) =
                  Total(Place, Weighed(ready, e, wt)) + wt[<<Source[c], hand[c].retry>>]
<1> DEFINE rx == Returned(c)
           s == Source[c]
           n == hand[c].retry
<1>1. ready \in Copies /\ rx \in Copies /\ s \in Queues /\ n \in Retries
  BY ReturnedType, RetryConstants DEF TypeOK, Copies, Delivery
<1>2. \A p \in Queues, f \in Events, r \in Retries :
         rx[p][f][r] = IF p = s /\ f = hand[c].event /\ r = n THEN ready[p][f][r] + 1 ELSE ready[p][f][r]
  BY ReturnedType
<1> HIDE DEF rx, s, n
<1>3. CASE e # hand[c].event
  <2>1. \A p \in Queues, r \in Retries : rx[p][e][r] = ready[p][e][r]
    BY <1>2, <1>3
  <2>2. Weighed(rx, e, wt) = Weighed(ready, e, wt)
    BY ONLY <1>1, <2>1, e \in Events, wt \in [Place -> Nat], WeighedSame
  <2> QED BY <1>1, <1>3, <2>2 DEF rx
<1>4. CASE e = hand[c].event
  <2>1. \A p \in Queues, r \in Retries :
           rx[p][e][r] = IF p = s /\ r = n THEN ready[p][e][r] + 1 ELSE ready[p][e][r]
    BY <1>2, <1>4
  <2>2. Total(Place, Weighed(rx, e, wt)) = Total(Place, Weighed(ready, e, wt)) + wt[<<s, n>>]
    BY ONLY <1>1, <2>1, e \in Events, wt \in [Place -> Nat], WeighedOneMore
  <2> QED BY <1>1, <1>4, <2>2 DEF rx, s, n
<1> QED BY <1>3, <1>4

\* What one delivery takes away from its queue, seen from one event.
LEMMA DeliveredTotal ==
    ASSUME TypeOK, TypeOK', NEW e \in Events, NEW c \in Consumers, NEW x \in Events, NEW r \in Retries,
           Deliver(c, x, r), NEW wt \in [Place -> Nat]
    PROVE  /\ e # x => Total(Place, Weighed(ready', e, wt)) = Total(Place, Weighed(ready, e, wt))
           /\ e = x => Total(Place, Weighed(ready, e, wt)) =
                         Total(Place, Weighed(ready', e, wt)) + wt[<<Source[c], r>>]
<1> DEFINE s == Source[c]
<1>0. ready \in Copies /\ ready' \in Copies
  BY DEF TypeOK, Copies
<1>1. s \in Queues /\ ready[s][x][r] > 0 /\ ready[s][x][r] \in Nat
  BY <1>0, RetryConstants DEF Deliver, Copies
<1>2. \A p \in Queues, f \in Events, k \in Retries :
         ready'[p][f][k] = IF p = s /\ f = x /\ k = r THEN ready[p][f][k] - 1 ELSE ready[p][f][k]
  BY <1>0, <1>1 DEF Deliver, Copies
<1> HIDE DEF s
<1>3. CASE e = x
  <2>1. \A p \in Queues, k \in Retries :
           ready[p][e][k] = IF p = s /\ k = r THEN ready'[p][e][k] + 1 ELSE ready'[p][e][k]
    BY <1>0, <1>1, <1>2, <1>3 DEF Copies
  <2>2. Total(Place, Weighed(ready, e, wt)) = Total(Place, Weighed(ready', e, wt)) + wt[<<s, r>>]
    BY ONLY <1>0, <1>1, <2>1, e \in Events, r \in Retries, wt \in [Place -> Nat], WeighedOneMore
  <2> QED BY <1>3, <2>2 DEF s
<1>4. CASE e # x
  <2>1. \A p \in Queues, k \in Retries : ready'[p][e][k] = ready[p][e][k]
    BY <1>2, <1>4
  <2>2. Weighed(ready', e, wt) = Weighed(ready, e, wt)
    BY ONLY <1>0, <2>1, e \in Events, wt \in [Place -> Nat], WeighedSame
  <2> QED BY <1>4, <2>2
<1> QED BY <1>3, <1>4

-----------------------------------------------------------------------------
(* The account of process calls.                                           *)

\* What the copies that wait in the queues may still cost queue q, and what
\* the deliveries in hand may: one that waits in q itself has its own call
\* ahead of it, one in hand has had it.
Own(p, q) == IF p = q THEN 1 ELSE 0
CallWeight(q, e) == [i \in Place |-> Onward(Fan(e), i[2]) + Own(i[1], q)]
Waiting(rd, q, e) == Weighed(rd, e, CallWeight(q, e))
Share(st, hd, e) ==
    IF st \in {"process", "republish"} /\ hd.event = e THEN Onward(Fan(e), hd.retry) ELSE 0
Held(st, hd, e) == [c \in Consumers |-> Share(st[c], hd[c], e)]

\* A publication and every fault are worth Cost calls in each queue, and the
\* calls made and still to come stay within that.
Granted(e) == IF e \in published THEN 1 + faults ELSE 0
Potential(q, e) ==
    runs[q][e] + Total(Place, Waiting(ready, q, e)) + Total(Consumers, Held(stage, hand, e))
CallInv == \A q \in Queues, e \in Events : Potential(q, e) <= Granted(e) * Cost(Fan(e))

\* Copies are only in queues that the exchange routes their event to.
RouteInv ==
    /\ \A q \in Queues, e \in Events, r \in Retries :
          ready[q][e][r] > 0 => e \in Bound[q] /\ e \in published
    /\ \A c \in Consumers :
          stage[c] \in InHand => hand[c].event \in Bound[Source[c]] /\ hand[c].event \in published

\* Fan counts the queues of an event, and one that has a queue counts.
LEMMA FanFacts ==
    ASSUME NEW e \in Events
    PROVE  /\ Fan(e) \in Nat
           /\ IsFiniteSet({q \in Queues : e \in Bound[q]})
           /\ \A q \in Queues : e \in Bound[q] => Fan(e) >= 1
<1> DEFINE B == {q \in Queues : e \in Bound[q]}
<1>1. B \in SUBSET Queues /\ IsFiniteSet(Queues)
  BY RetryConstants
<1>2. IsFiniteSet(B)
  BY ONLY <1>1, FS_Subset
<1>3. Cardinality(B) \in Nat
  BY ONLY <1>2, FS_CardinalityType
<1>4. Cardinality(B) = 0 <=> B = {}
  BY ONLY <1>2, FS_EmptySet
<1>5. \A q \in Queues : e \in Bound[q] => B # {}
  OBVIOUS
<1>6. Fan(e) = Cardinality(B)
  BY DEF Fan
<1> HIDE DEF B
<1>7. B # {} => Cardinality(B) >= 1
  BY <1>3, <1>4
<1> QED BY <1>2, <1>3, <1>5, <1>6, <1>7 DEF B

\* OnwardFacts for the number of queues of an event.
LEMMA FanOnward ==
    ASSUME NEW e \in Events
    PROVE  /\ Cost(Fan(e)) \in Nat
           /\ \A r \in Retries : Onward(Fan(e), r) \in Nat
           /\ 1 + Fan(e) * Onward(Fan(e), 0) = Cost(Fan(e))
           /\ \A r \in Retries :
                 r < MaxRetryCount => Onward(Fan(e), r) = 1 + Fan(e) * Onward(Fan(e), r + 1)
           /\ \A q \in Queues, r \in Retries :
                 e \in Bound[q] => Onward(Fan(e), r) + 1 <= Cost(Fan(e))
<1>1. Fan(e) \in Nat /\ \A q \in Queues : e \in Bound[q] => Fan(e) >= 1
  BY FanFacts
<1> QED BY ONLY <1>1, OnwardFacts

\* The weights of the account.
LEMMA CallWeightType ==
    ASSUME NEW q \in Queues, NEW e \in Events
    PROVE  /\ CallWeight(q, e) \in [Place -> Nat]
           /\ \A p \in Queues, r \in Retries :
                 CallWeight(q, e)[<<p, r>>] = Onward(Fan(e), r) + Own(p, q)
<1>1. ASSUME NEW i \in Place PROVE Onward(Fan(e), i[2]) + Own(i[1], q) \in Nat
  <2>1. Onward(Fan(e), i[2]) \in Nat
    BY FanOnward DEF Place
  <2>2. Own(i[1], q) \in Nat
    BY DEF Own
  <2> QED BY <2>1, <2>2
<1>2. CallWeight(q, e) \in [Place -> Nat]
  BY <1>1 DEF CallWeight
<1>3. \A p \in Queues, r \in Retries : CallWeight(q, e)[<<p, r>>] = Onward(Fan(e), r) + Own(p, q)
  BY DEF CallWeight, Place
<1> QED BY <1>2, <1>3

\* The same weight wherever an event lands.
LEMMA LandingTotal ==
    ASSUME NEW e \in Events, NEW n \in Retries, NEW v \in Nat, NEW f \in [Place -> Nat],
           \A i \in Place : f[i] = IF i \in Landing(e, n) THEN v ELSE 0
    PROVE  Total(Place, f) = Fan(e) * v
<1> DEFINE B == {q \in Queues : e \in Bound[q]}
           S == Landing(e, n)
<1>1. IsFiniteSet(B) /\ Fan(e) = Cardinality(B) /\ Fan(e) \in Nat /\ S = B \X {n}
  BY FanFacts DEF Fan, Landing
<1>2. S \in SUBSET Place /\ IsFiniteSet(Place)
  BY FiniteIndex DEF Place, Landing
<1>3. IsFiniteSet({n}) /\ Cardinality({n}) = 1
  BY FS_Singleton
<1> HIDE DEF B, S
<1>4. Cardinality(B \X {n}) = Cardinality(B) * Cardinality({n})
  BY ONLY <1>1, <1>3, FS_Product
<1>5. Cardinality(S) = Fan(e)
  BY ONLY <1>1, <1>3, <1>4
<1>6. \A i \in Place : f[i] = IF i \in S THEN v ELSE 0
  BY DEF S
<1>7. Total(Place, f) = Cardinality(S) * v
  BY ONLY <1>2, <1>6, v \in Nat, f \in [Place -> Nat], TotalBlock
<1> QED BY ONLY <1>5, <1>7

\* A routed message costs what its copies may lead to in every bound queue,
\* and one call in q.
LEMMA CallsRouted ==
    ASSUME NEW q \in Queues, NEW e \in Events, NEW n \in Retries
    PROVE  /\ Total(Place, Added(e, n, CallWeight(q, e))) \in Nat
           /\ Total(Place, Added(e, n, CallWeight(q, e))) <= 1 + Fan(e) * Onward(Fan(e), n)
<1> DEFINE o == Onward(Fan(e), n)
           S == Landing(e, n)
           T == S \cap {<<q, n>>}
           d == Added(e, n, CallWeight(q, e))
           all == [i \in Place |-> IF i \in S THEN o ELSE 0]
           own == [i \in Place |-> IF i \in T THEN 1 ELSE 0]
<1>0. o \in Nat /\ Fan(e) \in Nat /\ IsFiniteSet(Place)
  BY FanFacts, FanOnward, FiniteIndex
<1>1. d \in [Place -> Nat]
  BY CallWeightType DEF Added
<1>2. all \in [Place -> Nat] /\ own \in [Place -> Nat]
  <2>1. all \in [Place -> Nat]
    BY <1>0
  <2>2. own \in [Place -> Nat]
    OBVIOUS
  <2> QED BY <2>1, <2>2
<1>3. T \in SUBSET Place
  BY DEF Place, Landing
<1>4. \A i \in Place : d[i] = all[i] + own[i]
  <2> SUFFICES ASSUME NEW p \in Queues, NEW r \in Retries
               PROVE  d[<<p, r>>] = all[<<p, r>>] + own[<<p, r>>]
    <3> HIDE DEF d, all, own
    <3> QED BY DEF Place
  <2>1. <<p, r>> \in Place
    BY DEF Place
  <2>2. CASE <<p, r>> \in S
    <3>1. r = n /\ (<<p, r>> \in T <=> p = q)
      BY <2>2 DEF Landing
    <3>2. all[<<p, r>>] = o /\ own[<<p, r>>] = Own(p, q)
      BY <2>1, <2>2, <3>1 DEF Own
    <3>3. d[<<p, r>>] = o + Own(p, q)
      BY <2>1, <2>2, <3>1, CallWeightType DEF Added
    <3> QED BY ONLY <3>2, <3>3
  <2>3. CASE <<p, r>> \notin S
    BY <2>1, <2>3 DEF Added
  <2> QED BY <2>2, <2>3
<1>5. Cardinality(T) \in Nat /\ Cardinality(T) <= 1
  <2> HIDE DEF S
  <2>1. IsFiniteSet({<<q, n>>}) /\ Cardinality({<<q, n>>}) = 1 /\ T \in SUBSET {<<q, n>>}
    BY FS_Singleton
  <2>2. IsFiniteSet(T) /\ Cardinality(T) <= 1
    BY ONLY <2>1, FS_Subset
  <2> QED BY ONLY <2>2, FS_CardinalityType
<1>b. /\ \A i \in Place : all[i] = IF i \in S THEN o ELSE 0
      /\ \A i \in Place : own[i] = IF i \in T THEN 1 ELSE 0
  OBVIOUS
<1> HIDE DEF all, own, d, T, o
<1>6. Total(Place, d) = Total(Place, all) + Total(Place, own)
  BY ONLY <1>0, <1>1, <1>2, <1>4, TotalAdd
<1>7. Total(Place, all) = Fan(e) * o
  BY ONLY <1>0, <1>2, <1>b, e \in Events, n \in Retries, LandingTotal
<1>8. Total(Place, own) = Cardinality(T) * 1
  BY ONLY <1>0, <1>2, <1>3, <1>b, 1 \in Nat, TotalBlock
<1>9. Fan(e) * o \in Nat
  BY ONLY <1>0
<1>10. Total(Place, d) \in Nat /\ Total(Place, d) <= 1 + Fan(e) * o
  BY ONLY <1>5, <1>6, <1>7, <1>8, <1>9
<1> QED BY <1>10 DEF d, o

\* What is in hand is worth a natural number too.
LEMMA HeldType ==
    ASSUME NEW st \in [Consumers -> Stage], NEW hd \in Hands, NEW e \in Events,
           \A c \in Consumers : st[c] \in InHand => hd[c] \in Delivery
    PROVE  /\ Held(st, hd, e) \in [Consumers -> Nat]
           /\ Total(Consumers, Held(st, hd, e)) \in Nat
           /\ \A c \in Consumers : Held(st, hd, e)[c] = Share(st[c], hd[c], e)
<1>1. \A r \in Retries : Onward(Fan(e), r) \in Nat
  BY FanOnward
<1>2. \A c \in Consumers : Share(st[c], hd[c], e) \in Nat
  BY <1>1 DEF Share, InHand, Delivery
<1>3. Held(st, hd, e) \in [Consumers -> Nat]
  BY <1>2 DEF Held
<1>4. Total(Consumers, Held(st, hd, e)) \in Nat
  BY <1>3, FiniteIndex, TotalType
<1> QED BY <1>3, <1>4 DEF Held

\* One consumer moves.
LEMMA HeldOneChange ==
    ASSUME NEW st \in [Consumers -> Stage], NEW hd \in Hands,
           NEW sx \in [Consumers -> Stage], NEW hx \in Hands, NEW e \in Events,
           \A c \in Consumers : st[c] \in InHand => hd[c] \in Delivery,
           \A c \in Consumers : sx[c] \in InHand => hx[c] \in Delivery,
           NEW c \in Consumers, \A b \in Consumers : b # c => sx[b] = st[b] /\ hx[b] = hd[b]
    PROVE  Total(Consumers, Held(sx, hx, e)) + Share(st[c], hd[c], e) =
             Total(Consumers, Held(st, hd, e)) + Share(sx[c], hx[c], e)
<1> DEFINE f == Held(st, hd, e)
           g == Held(sx, hx, e)
<1>1. f \in [Consumers -> Nat] /\ \A b \in Consumers : f[b] = Share(st[b], hd[b], e)
  BY HeldType
<1>2. g \in [Consumers -> Nat] /\ \A b \in Consumers : g[b] = Share(sx[b], hx[b], e)
  BY HeldType
<1>3. \A b \in Consumers : b # c => g[b] = f[b]
  BY <1>1, <1>2
<1>4. IsFiniteSet(Consumers)
  BY FiniteIndex
<1> HIDE DEF f, g
<1>5. Total(Consumers, g) + f[c] = Total(Consumers, f) + g[c]
  BY ONLY <1>1, <1>2, <1>3, <1>4, c \in Consumers, TotalChange
<1> QED BY <1>1, <1>2, <1>5 DEF f, g

-----------------------------------------------------------------------------
(* Each action keeps copies where they are routed, and the account.        *)

\* Only the exchange and the return to its own queue place a copy.
LEMMA RouteStep == TypeInv /\ RouteInv /\ [Next]_vars => RouteInv'
<1> SUFFICES ASSUME TypeInv, RouteInv, [Next]_vars PROVE RouteInv'
  OBVIOUS
<1> USE RetryConstants DEF InHand
<1>0. /\ stage \in [Consumers -> Stage] /\ hand \in [Consumers -> Delivery \cup {Nothing}]
      /\ ready \in [Queues -> [Events -> [Retries -> Nat]]]
  BY DEF TypeInv, TypeOK
<1>h. ASSUME NEW c \in Consumers, stage[c] \in InHand
      PROVE  /\ hand[c] \in Delivery /\ hand[c].event \in Events /\ hand[c].retry \in Retries
             /\ hand[c].event \in Bound[Source[c]] /\ hand[c].event \in published
  BY <1>h DEF TypeInv, HandInv, Delivery, RouteInv
<1>a. \A q \in Queues, e \in Events, r \in Retries : ready[q][e][r] > 0 => e \in Bound[q] /\ e \in published
  BY DEF RouteInv
\* A hand that only moves on, or is emptied.
<1>k. ASSUME \A q \in Queues, e \in Events, r \in Retries :
                 ready'[q][e][r] > 0 => e \in Bound[q] /\ e \in published',
             \A c \in Consumers : stage'[c] \in InHand => stage[c] \in InHand /\ hand'[c] = hand[c],
             published \subseteq published'
      PROVE  RouteInv'
  BY <1>h, <1>k DEF RouteInv
<1>r. ASSUME NEW x \in Events, NEW n \in Retries,
             NEW q \in Queues, NEW e \in Events, NEW r \in Retries, Routed(x, n)[q][e][r] > 0
      PROVE  e \in Bound[q] /\ (e = x \/ e \in published)
  <2>1. Routed(x, n)[q][e][r] =
          IF x \in Bound[q] /\ e = x /\ r = n THEN ready[q][e][r] + 1 ELSE ready[q][e][r]
    BY RoutedType DEF TypeInv
  <2> QED BY <1>a, <1>r, <2>1
<1>t. ASSUME NEW c \in Consumers, stage[c] \in InHand,
             NEW q \in Queues, NEW e \in Events, NEW r \in Retries, Returned(c)[q][e][r] > 0
      PROVE  e \in Bound[q] /\ e \in published
  <2>1. Returned(c)[q][e][r] = IF q = Source[c] /\ e = hand[c].event /\ r = hand[c].retry
                               THEN ready[q][e][r] + 1 ELSE ready[q][e][r]
    BY <1>h, <1>t, ReturnedType DEF TypeInv
  <2> QED BY <1>a, <1>h, <1>t, <2>1
<1>1. ASSUME NEW x \in Events, Publish(x) PROVE RouteInv'
  <2>1. 0 \in Retries /\ ready' = Routed(x, 0) /\ published' = published \cup {x}
    BY <1>1 DEF Publish, Retries
  <2>2. \A q \in Queues, e \in Events, r \in Retries : ready'[q][e][r] > 0 => e \in Bound[q] /\ e \in published'
    BY <1>r, <2>1
  <2> QED BY <1>1, <1>k, <2>1, <2>2 DEF Publish
<1>2. ASSUME NEW c \in Consumers, NEW x \in Events, NEW n \in Retries, Deliver(c, x, n) PROVE RouteInv'
  <2>1. \A q \in Queues, e \in Events, r \in Retries : ready'[q][e][r] > 0 => ready[q][e][r] > 0
    BY <1>0, <1>2 DEF Deliver
  <2>2. \A b \in Consumers : /\ stage'[b] = (IF b = c THEN "process" ELSE stage[b])
                             /\ hand'[b] = (IF b = c THEN [event |-> x, retry |-> n] ELSE hand[b])
    BY <1>0, <1>2 DEF Deliver
  <2>3. x \in Bound[Source[c]] /\ x \in published /\ published' = published
    BY <1>2, <1>a DEF Deliver
  <2>4. \A b \in Consumers :
           stage'[b] \in InHand => hand'[b].event \in Bound[Source[b]] /\ hand'[b].event \in published'
    BY <1>h, <2>2, <2>3
  <2> QED BY <1>a, <2>1, <2>3, <2>4 DEF RouteInv
<1>3. ASSUME NEW c \in Consumers, ProcessOK(c) PROVE RouteInv'
  BY <1>0, <1>3, <1>a, <1>k DEF ProcessOK
<1>4. ASSUME NEW c \in Consumers, ProcessFails(c) PROVE RouteInv'
  BY <1>0, <1>4, <1>a, <1>k DEF ProcessFails
<1>5. ASSUME NEW c \in Consumers, Republish(c) PROVE RouteInv'
  <2>1. hand[c].event \in Events /\ hand[c].retry + 1 \in Retries /\ hand[c].event \in published
    BY <1>5, <1>h DEF Republish, TypeInv, HandInv, Retries
  <2>2. \A q \in Queues, e \in Events, r \in Retries : ready'[q][e][r] > 0 => e \in Bound[q] /\ e \in published
    BY <1>5, <1>r, <2>1 DEF Republish
  <2> QED BY <1>0, <1>5, <1>k, <2>2 DEF Republish
<1>6. ASSUME NEW c \in Consumers, RepublishFails(c) PROVE RouteInv'
  <2>1. \A q \in Queues, e \in Events, r \in Retries : ready'[q][e][r] > 0 => e \in Bound[q] /\ e \in published
    BY <1>6, <1>t DEF RepublishFails
  <2> QED BY <1>0, <1>6, <1>k, <2>1 DEF RepublishFails, Released
<1>7. ASSUME NEW c \in Consumers, Ack(c) PROVE RouteInv'
  BY <1>0, <1>7, <1>a, <1>k DEF Ack, Released
<1>8. ASSUME NEW c \in Consumers, Reject(c) PROVE RouteInv'
  BY <1>0, <1>8, <1>a, <1>k DEF Reject, Released
<1>9. ASSUME NEW c \in Consumers, ChannelLost(c) PROVE RouteInv'
  <2>1. \A q \in Queues, e \in Events, r \in Retries : ready'[q][e][r] > 0 => e \in Bound[q] /\ e \in published
    <3>1. CASE stage[c] \in InHand
      BY <1>9, <1>t, <3>1 DEF ChannelLost
    <3>2. CASE stage[c] \notin InHand
      BY <1>9, <1>a, <3>2 DEF ChannelLost
    <3> QED BY <3>1, <3>2
  <2> QED BY <1>0, <1>9, <1>k, <2>1 DEF ChannelLost
<1>10. ASSUME NEW c \in Consumers, Restart(c) PROVE RouteInv'
  BY <1>0, <1>10, <1>a, <1>k DEF Restart
<1>11. ASSUME UNCHANGED vars PROVE RouteInv'
  BY <1>11 DEF vars, RouteInv
<1> QED BY <1>1, <1>2, <1>3, <1>4, <1>5, <1>6, <1>7, <1>8, <1>9, <1>10, <1>11
        DEF Next, ConsumerStep

\* No step spends more than the account holds, and only a publication or a
\* fault adds to it.
LEMMA CallStep == TypeInv /\ TypeInv' /\ RouteInv /\ CallInv /\ [Next]_vars => CallInv'
<1> SUFFICES ASSUME TypeInv, TypeInv', RouteInv, CallInv, [Next]_vars,
                    NEW q \in Queues, NEW e \in Events
             PROVE  Potential(q, e)' <= Granted(e)' * Cost(Fan(e))
  BY DEF CallInv
<1> DEFINE n == Fan(e)
           C == Cost(Fan(e))
           u == runs[q][e]
           ux == runs'[q][e]
           w == Total(Place, Waiting(ready, q, e))
           wx == Total(Place, Waiting(ready', q, e))
           h == Total(Consumers, Held(stage, hand, e))
           hx == Total(Consumers, Held(stage', hand', e))
           G == Granted(e)
           Gx == Granted(e)'
<1>p. Potential(q, e) = u + w + h /\ Potential(q, e)' = ux + wx + hx
  BY DEF Potential
<1>q. u + w + h <= G * C
  BY <1>p DEF CallInv
<1>0. /\ ready \in Copies /\ ready' \in Copies
      /\ stage \in [Consumers -> Stage] /\ stage' \in [Consumers -> Stage]
      /\ hand \in Hands /\ hand' \in Hands
      /\ \A c \in Consumers : stage[c] \in InHand => hand[c] \in Delivery
      /\ \A c \in Consumers : stage'[c] \in InHand => hand'[c] \in Delivery
  BY DEF TypeInv, TypeOK, HandInv, Copies, Hands
<1>1. runs \in [Queues -> [Events -> Nat]] /\ u \in Nat /\ ux \in Nat
  BY DEF TypeInv, TypeOK
<1>f. faults \in Nat /\ faults' \in Nat
  BY DEF TypeInv, TypeOK
<1>2. G \in Nat /\ Gx \in Nat
  <2>1. G \in Nat
    BY <1>f DEF Granted
  <2>2. Gx = IF e \in published' THEN 1 + faults' ELSE 0
    BY DEF Granted
  <2> HIDE DEF Gx
  <2>3. ASSUME NEW k \in Nat, NEW P, NEW z, z = (IF e \in P THEN 1 + k ELSE 0) PROVE z \in Nat
    BY <2>3
  <2>4. Gx \in Nat
    BY ONLY <1>f, <2>2, <2>3
  <2> QED BY <2>1, <2>4
<1>w. /\ CallWeight(q, e) \in [Place -> Nat]
      /\ \A p \in Queues, r \in Retries : CallWeight(q, e)[<<p, r>>] = Onward(n, r) + Own(p, q)
  BY CallWeightType
<1>3. w \in Nat /\ wx \in Nat
  <2>1. w \in Nat
    BY ONLY <1>0, <1>w, e \in Events, WeighedType DEF Waiting
  <2>2. wx \in Nat
    BY ONLY <1>0, <1>w, e \in Events, WeighedType DEF Waiting
  <2> QED BY <2>1, <2>2
<1>4. h \in Nat /\ hx \in Nat
  <2>1. h \in Nat
    BY ONLY <1>0, e \in Events, HeldType
  <2>2. hx \in Nat
    BY ONLY <1>0, e \in Events, HeldType
  <2> QED BY <2>1, <2>2
<1>5. /\ C \in Nat /\ n \in Nat
      /\ \A r \in Retries : Onward(n, r) \in Nat
      /\ 1 + n * Onward(n, 0) = C
      /\ \A r \in Retries : r < MaxRetryCount => Onward(n, r) = 1 + n * Onward(n, r + 1)
      /\ \A p \in Queues, r \in Retries : e \in Bound[p] => Onward(n, r) + 1 <= C
  BY FanOnward, FanFacts
<1>6. \A a, b \in Nat : (a + 1) * b = a * b + b
  OBVIOUS
\* The two ways in which a step stays within the account.
<1>keep. ASSUME ux + wx + hx <= u + w + h, G <= Gx PROVE Potential(q, e)' <= Gx * C
  <2>1. \A a, b, k \in Nat : a <= b => a * k <= b * k
    OBVIOUS
  <2>2. G * C <= Gx * C /\ G * C \in Nat /\ Gx * C \in Nat
    BY ONLY <1>2, <1>5, <1>keep, <2>1
  <2> HIDE DEF u, ux, w, wx, h, hx, G, Gx, C
  <2> QED BY <1>1, <1>3, <1>4, <1>p, <1>q, <1>keep, <2>2
<1>pay. ASSUME ux + wx + hx <= u + w + h + C, Gx = G + 1 PROVE Potential(q, e)' <= Gx * C
  <2>1. Gx * C = G * C + C /\ G * C \in Nat
    BY ONLY <1>2, <1>5, <1>6, <1>pay
  <2> HIDE DEF u, ux, w, wx, h, hx, G, Gx, C
  <2> QED BY <1>1, <1>3, <1>4, <1>5, <1>p, <1>q, <1>pay, <2>1
\* What one consumer's move does to the deliveries in hand.
<1>h. ASSUME NEW c \in Consumers,
             \A b \in Consumers : b # c => stage'[b] = stage[b] /\ hand'[b] = hand[b]
      PROVE  /\ hx + Share(stage[c], hand[c], e) = h + Share(stage'[c], hand'[c], e)
             /\ Share(stage[c], hand[c], e) \in Nat /\ Share(stage'[c], hand'[c], e) \in Nat
  <2>1. hx + Share(stage[c], hand[c], e) = h + Share(stage'[c], hand'[c], e)
    BY ONLY <1>0, <1>h, e \in Events, HeldOneChange
  <2>2. Share(stage[c], hand[c], e) \in Nat
    BY <1>0, <1>5 DEF Share, InHand, Delivery
  <2>3. Share(stage'[c], hand'[c], e) \in Nat
    BY <1>0, <1>5 DEF Share, InHand, Delivery
  <2> QED BY <2>1, <2>2, <2>3
<1>d. ASSUME NEW c \in Consumers, stage[c] \in InHand
      PROVE  /\ hand[c] \in Delivery /\ hand[c].event \in Events /\ hand[c].retry \in Retries
             /\ Source[c] \in Queues
             /\ hand[c].event \in Bound[Source[c]] /\ hand[c].event \in published
  BY <1>0, <1>d, RetryConstants DEF Delivery, RouteInv
<1>o. ASSUME NEW p \in Queues PROVE Own(p, q) \in Nat /\ Own(p, q) <= 1
  BY DEF Own
<1>g. (published' = published /\ faults' = faults => Gx = G)
      /\ (published' = published /\ faults' = faults + 1 =>
            Gx >= G /\ (e \in published => Gx = G + 1))
  <2>1. G = IF e \in published THEN 1 + faults ELSE 0
    BY DEF Granted
  <2>2. Gx = IF e \in published' THEN 1 + faults' ELSE 0
    BY DEF Granted
  <2> HIDE DEF G, Gx
  <2>3. CASE published' = published
    <3>1. Gx = (IF e \in published THEN 1 + faults' ELSE 0)
      BY ONLY <2>2, <2>3
    <3>2. CASE e \in published
      <4>0. G = 1 + faults /\ faults \in Nat
        BY <1>f, <2>1, <3>2
      <4>1. Gx = 1 + faults'
        BY <3>1, <3>2
      <4>2. ASSUME NEW l \in Nat, l = faults' PROVE /\ l = faults => Gx = G
                                                    /\ l = faults + 1 => Gx >= G /\ Gx = G + 1
        <5>1. Gx = 1 + l
          BY ONLY <4>1, <4>2
        <5> QED BY ONLY <4>0, <5>1, l \in Nat
      <4>3. /\ faults' = faults => Gx = G
            /\ faults' = faults + 1 => Gx >= G /\ Gx = G + 1
        BY ONLY <1>f, <4>2
      <4> QED BY ONLY <4>3
    <3>3. CASE e \notin published
      <4>1. Gx = 0 /\ G = 0
        BY <2>1, <3>1, <3>3
      <4> QED BY <3>3, <4>1
    <3> QED BY <3>2, <3>3
  <2> QED BY ONLY <2>3
<1> HIDE DEF n, C, u, ux, w, wx, h, hx, G, Gx
<1>11. ASSUME NEW x \in Events, Publish(x) PROVE Potential(q, e)' <= Gx * C
  <2>1. 0 \in Retries /\ ready' = Routed(x, 0) /\ TypeOK
    BY <1>11, RetryConstants DEF Publish, Retries, TypeInv
  <2>2. ux = u /\ hx = h
    BY <1>11 DEF Publish, u, ux, h, hx
  <2>3. CASE e # x
    <3>1. wx = w
      BY <1>w, <2>1, <2>3, RoutedTotal DEF w, wx, Waiting
    <3>2. Gx = G
      BY <1>11, <2>3 DEF Publish, G, Gx, Granted
    <3> QED BY <1>1, <1>2, <1>3, <1>4, <1>keep, <2>2, <3>1, <3>2
  <2>4. CASE e = x
    <3>1. wx <= w + 1 + n * Onward(n, 0)
      <4>1. wx = w + Total(Place, Added(e, 0, CallWeight(q, e)))
        BY <1>w, <2>1, <2>4, RoutedTotal DEF w, wx, Waiting
      <4>2. /\ Total(Place, Added(e, 0, CallWeight(q, e))) \in Nat
            /\ Total(Place, Added(e, 0, CallWeight(q, e))) <= 1 + n * Onward(n, 0)
        BY <2>1, CallsRouted DEF n
      <4>3. n * Onward(n, 0) \in Nat
        BY <1>5, <2>1
      <4> QED BY ONLY <1>3, <4>1, <4>2, <4>3
    <3>2. n * Onward(n, 0) \in Nat
      BY <1>5, <2>1
    <3>3. wx <= w + C
      BY ONLY <1>3, <1>5, <3>1, <3>2
    <3>4. G = 0 /\ Gx >= 1
      BY <1>11, <2>4 DEF Publish, G, Gx, Granted, TypeInv, TypeOK
    <3>5. G * C = 0 /\ C <= Gx * C /\ Gx * C \in Nat
      <4>1. \A a, b \in Nat : a >= 1 => b <= a * b /\ a * b \in Nat
        OBVIOUS
      <4>2. 0 * C = 0
        BY ONLY <1>5
      <4> QED BY ONLY <1>2, <1>5, <3>4, <4>1, <4>2
    <3> QED BY ONLY <1>1, <1>3, <1>4, <1>5, <1>p, <1>q, <2>2, <3>3, <3>5
  <2> QED BY <2>3, <2>4
<1>12. ASSUME NEW c \in Consumers, NEW x \in Events, NEW r \in Retries, Deliver(c, x, r)
       PROVE  Potential(q, e)' <= Gx * C
  <2> DEFINE s == Source[c]
  <2>1. s \in Queues /\ stage[c] = "idle" /\ ready[s][x][r] > 0 /\ ready[s][x][r] \in Nat
    BY <1>0, <1>12, RetryConstants DEF Deliver, Copies
  <2>2. \A b \in Consumers : b # c => stage'[b] = stage[b] /\ hand'[b] = hand[b]
    BY <1>0, <1>12 DEF Deliver, Hands
  <2>3. stage'[c] = "process" /\ hand'[c] = [event |-> x, retry |-> r]
    BY <1>0, <1>12 DEF Deliver, Hands
  <2>4. Share(stage[c], hand[c], e) = 0 /\ Share(stage'[c], hand'[c], e) = IF e = x THEN Onward(n, r) ELSE 0
    BY <2>1, <2>3 DEF Share, n
  <2>5. hx = h + IF e = x THEN Onward(n, r) ELSE 0
    BY <1>4, <1>5, <1>h, <2>2, <2>4
  <2>6. /\ e # x => wx = w
        /\ e = x => w = wx + CallWeight(q, e)[<<s, r>>]
    <3>1. TypeOK /\ TypeOK'
      BY DEF TypeInv
    <3>2. /\ e # x => Total(Place, Weighed(ready', e, CallWeight(q, e))) =
                        Total(Place, Weighed(ready, e, CallWeight(q, e)))
          /\ e = x => Total(Place, Weighed(ready, e, CallWeight(q, e))) =
                        Total(Place, Weighed(ready', e, CallWeight(q, e))) + CallWeight(q, e)[<<Source[c], r>>]
      BY ONLY <1>w, <1>12, <3>1, e \in Events, c \in Consumers, x \in Events, r \in Retries, DeliveredTotal
    <3> QED BY <3>2 DEF w, wx, Waiting
  <2>7. ux = u + IF e = x THEN Own(s, q) ELSE 0
    BY <1>1, <1>12, <2>1 DEF Deliver, u, ux, Own
  <2>8. Gx = G
    BY <1>12, <1>g DEF Deliver
  <2> HIDE DEF s
  <2>9. CASE e = x
    <3>2. w = wx + (Onward(n, r) + Own(s, q))
      BY <1>w, <2>1, <2>6, <2>9
    <3>3. hx = h + Onward(n, r) /\ ux = u + Own(s, q) /\ Onward(n, r) \in Nat /\ Own(s, q) \in Nat
      BY <1>5, <1>o, <2>1, <2>5, <2>7, <2>9
    <3>4. ux + wx + hx <= u + w + h /\ G <= Gx
      BY ONLY <1>1, <1>2, <1>3, <1>4, <2>8, <3>2, <3>3
    <3> QED BY <1>keep, <3>4
  <2>10. CASE e # x
    <3>3. wx = w /\ ux = u /\ hx = h
      BY <1>1, <1>4, <2>5, <2>6, <2>7, <2>10
    <3> QED BY <1>1, <1>2, <1>3, <1>4, <1>keep, <2>8, <3>3
  <2> QED BY <2>9, <2>10
\* A consumer that leaves the copies alone and holds no more than before.
<1>m. ASSUME NEW c \in Consumers,
             \A b \in Consumers : b # c => stage'[b] = stage[b] /\ hand'[b] = hand[b],
             Share(stage'[c], hand'[c], e) <= Share(stage[c], hand[c], e),
             ready' = ready, runs' = runs, G <= Gx
      PROVE  Potential(q, e)' <= Gx * C
  <2>1. wx = w /\ ux = u
    BY <1>m DEF w, wx, u, ux
  <2>2. hx <= h
    BY <1>4, <1>h, <1>m
  <2> QED BY <1>1, <1>3, <1>4, <1>keep, <1>m, <2>1, <2>2
<1>13. ASSUME NEW c \in Consumers, ProcessOK(c) PROVE Potential(q, e)' <= Gx * C
  <2>1. /\ \A b \in Consumers : b # c => stage'[b] = stage[b] /\ hand'[b] = hand[b]
        /\ stage'[c] = "ack" /\ ready' = ready /\ runs' = runs /\ Gx = G
    BY <1>0, <1>13, <1>g DEF ProcessOK, Hands
  <2>2. Share(stage'[c], hand'[c], e) = 0
    BY <2>1 DEF Share
  <2> QED BY <1>2, <1>h, <1>m, <2>1, <2>2
<1>14. ASSUME NEW c \in Consumers, ProcessFails(c) PROVE Potential(q, e)' <= Gx * C
  <2>1. /\ \A b \in Consumers : b # c => stage'[b] = stage[b] /\ hand'[b] = hand[b]
        /\ stage[c] = "process" /\ stage'[c] \in {"republish", "reject"} /\ hand' = hand
        /\ ready' = ready /\ runs' = runs /\ Gx = G
    BY <1>0, <1>14, <1>g DEF ProcessFails, AfterFailure, Hands
  <2>2. Share(stage'[c], hand'[c], e) \in {0, Share(stage[c], hand[c], e)}
    BY <2>1 DEF Share
  <2>3. Share(stage'[c], hand'[c], e) <= Share(stage[c], hand[c], e)
    BY <1>h, <2>1, <2>2
  <2> QED BY <1>2, <1>m, <2>1, <2>3
<1>15. ASSUME NEW c \in Consumers, Republish(c) PROVE Potential(q, e)' <= Gx * C
  <2> DEFINE x == hand[c].event
             r == hand[c].retry
  <2>1. /\ \A b \in Consumers : b # c => stage'[b] = stage[b] /\ hand'[b] = hand[b]
        /\ stage[c] = "republish" /\ stage'[c] = "ack" /\ runs' = runs /\ Gx = G
        /\ ready' = Routed(x, r + 1)
    BY <1>0, <1>15, <1>g DEF Republish, Hands
  <2>2. x \in Events /\ r \in Retries /\ r < MaxRetryCount /\ r + 1 \in Retries /\ TypeOK
    BY <1>d, <2>1, RetryConstants DEF InHand, TypeInv, HandInv, Retries
  <2>3. Share(stage[c], hand[c], e) = (IF e = x THEN Onward(n, r) ELSE 0) /\ Share(stage'[c], hand'[c], e) = 0
    BY <2>1 DEF Share, n
  <2> HIDE DEF x, r
  <2>4. hx + (IF e = x THEN Onward(n, r) ELSE 0) = h
    BY <1>4, <1>h, <2>1, <2>3
  <2>5. ux = u
    BY <2>1 DEF u, ux
  <2>6. CASE e = x
    <3>1. wx <= w + 1 + n * Onward(n, r + 1)
      <4>1. wx = w + Total(Place, Added(e, r + 1, CallWeight(q, e)))
        BY <1>w, <2>1, <2>2, <2>6, RoutedTotal DEF w, wx, Waiting
      <4>2. /\ Total(Place, Added(e, r + 1, CallWeight(q, e))) \in Nat
            /\ Total(Place, Added(e, r + 1, CallWeight(q, e))) <= 1 + n * Onward(n, r + 1)
        BY <2>2, CallsRouted DEF n
      <4>3. n * Onward(n, r + 1) \in Nat
        BY <1>5, <2>2
      <4> QED BY ONLY <1>3, <4>1, <4>2, <4>3
    <3>2. Onward(n, r) = 1 + n * Onward(n, r + 1) /\ Onward(n, r) \in Nat /\ n * Onward(n, r + 1) \in Nat
      BY <1>5, <2>2
    <3>3. ux + wx + hx <= u + w + h /\ G <= Gx
      BY ONLY <1>1, <1>2, <1>3, <1>4, <2>1, <2>4, <2>5, <2>6, <3>1, <3>2
    <3> QED BY <1>keep, <3>3
  <2>7. CASE e # x
    <3>1. wx = w
      BY <1>w, <2>1, <2>2, <2>7, RoutedTotal DEF w, wx, Waiting
    <3>2. hx = h
      BY <1>4, <2>4, <2>7
    <3> QED BY <1>1, <1>2, <1>3, <1>4, <1>keep, <2>1, <2>5, <3>1, <3>2
  <2> QED BY <2>6, <2>7
\* A delivery that goes back to its queue, at the price of a fault.
<1>b. ASSUME NEW c \in Consumers, stage[c] \in InHand, ready' = Returned(c), runs' = runs,
             published' = published, faults' = faults + 1,
             \A b \in Consumers : b # c => stage'[b] = stage[b] /\ hand'[b] = hand[b],
             stage'[c] \in {"idle", "gone"}
      PROVE  Potential(q, e)' <= Gx * C
  <2> DEFINE x == hand[c].event
             r == hand[c].retry
  <2>1. x \in Events /\ r \in Retries /\ Source[c] \in Queues /\ x \in Bound[Source[c]] /\ x \in published
    BY <1>b, <1>d
  <2>2. hand[c] \in Delivery /\ TypeOK
    BY <1>b, <1>d DEF TypeInv
  <2>3. Share(stage'[c], hand'[c], e) = 0
    BY <1>b DEF Share
  <2>4. hx <= h
    BY <1>4, <1>b, <1>h, <2>3
  <2>5. ux = u
    BY <1>b DEF u, ux
  <2>6. CASE e = x
    <3>1. wx = w + (Onward(n, r) + Own(Source[c], q))
      <4>1. wx = w + CallWeight(q, e)[<<Source[c], r>>]
        BY <1>b, <1>w, <2>2, <2>6, ReturnedTotal DEF w, wx, Waiting
      <4> QED BY <1>w, <2>1, <4>1
    <3>2. Onward(n, r) + 1 <= C /\ Onward(n, r) \in Nat
      BY <1>5, <2>1, <2>6
    <3>3. Own(Source[c], q) \in Nat /\ Own(Source[c], q) <= 1
      BY <1>o, <2>1
    <3>4. Gx = G + 1
      BY <1>b, <1>g, <2>1, <2>6
    <3> HIDE DEF x, r
    <3>5. ux + wx + hx <= u + w + h + C
      BY ONLY <1>1, <1>3, <1>4, <1>5, <2>4, <2>5, <3>1, <3>2, <3>3
    <3> QED BY <1>pay, <3>4, <3>5
  <2>7. CASE e # x
    <3>1. wx = w
      BY <1>b, <1>w, <2>2, <2>7, ReturnedTotal DEF w, wx, Waiting
    <3>2. G <= Gx
      BY <1>2, <1>b, <1>g
    <3> QED BY <1>1, <1>3, <1>4, <1>keep, <2>4, <2>5, <3>1, <3>2
  <2> QED BY <2>6, <2>7
<1>16. ASSUME NEW c \in Consumers, RepublishFails(c) PROVE Potential(q, e)' <= Gx * C
  <2>1. /\ stage[c] \in InHand /\ ready' = Returned(c) /\ runs' = runs
        /\ published' = published /\ faults' = faults + 1 /\ stage'[c] \in {"idle", "gone"}
        /\ \A b \in Consumers : b # c => stage'[b] = stage[b] /\ hand'[b] = hand[b]
    BY <1>0, <1>16 DEF RepublishFails, Released, Fault, InHand, Hands
  <2> QED BY <1>b, <2>1
<1>17. ASSUME NEW c \in Consumers, Ack(c) \/ Reject(c) \/ Restart(c) PROVE Potential(q, e)' <= Gx * C
  <2>1. /\ \A b \in Consumers : b # c => stage'[b] = stage[b] /\ hand'[b] = hand[b]
        /\ stage'[c] = "idle" /\ ready' = ready /\ runs' = runs /\ Gx = G
    BY <1>0, <1>17, <1>g DEF Ack, Reject, Restart, Released, Hands
  <2>2. Share(stage'[c], hand'[c], e) = 0
    BY <2>1 DEF Share
  <2> QED BY <1>2, <1>h, <1>m, <2>1, <2>2
<1>18. ASSUME NEW c \in Consumers, ChannelLost(c) PROVE Potential(q, e)' <= Gx * C
  <2>1. /\ runs' = runs /\ published' = published /\ faults' = faults + 1 /\ stage'[c] = "gone"
        /\ \A b \in Consumers : b # c => stage'[b] = stage[b] /\ hand'[b] = hand[b]
    BY <1>0, <1>18 DEF ChannelLost, Fault, Hands
  <2>2. CASE stage[c] \in InHand
    <3>1. ready' = Returned(c)
      BY <1>18, <2>2 DEF ChannelLost
    <3> QED BY <1>b, <2>1, <2>2, <3>1
  <2>3. CASE stage[c] \notin InHand
    <3>1. ready' = ready
      BY <1>18, <2>3 DEF ChannelLost
    <3>2. Share(stage'[c], hand'[c], e) = 0
      BY <2>1 DEF Share
    <3>3. G <= Gx
      BY <1>2, <1>g, <2>1
    <3> QED BY <1>h, <1>m, <2>1, <3>1, <3>2, <3>3
  <2> QED BY <2>2, <2>3
<1>19. ASSUME UNCHANGED vars PROVE Potential(q, e)' <= Gx * C
  <2>1. ux = u /\ wx = w /\ hx = h /\ Gx = G
    BY <1>19, <1>g DEF vars, u, ux, w, wx, h, hx
  <2> QED BY <1>1, <1>2, <1>3, <1>4, <1>keep, <2>1
<1>20. Potential(q, e)' <= Gx * C
  BY <1>11, <1>12, <1>13, <1>14, <1>15, <1>16, <1>17, <1>18, <1>19 DEF Next, ConsumerStep
<1> QED BY <1>20 DEF Gx, C

\* Before the first publication nothing is granted and nothing is spent.
LEMMA CallInit == Init => RouteInv /\ CallInv
<1> SUFFICES ASSUME Init PROVE RouteInv /\ CallInv
  OBVIOUS
<1>1. TypeInv
  BY InitInv
<1>2. RouteInv
  BY RetryConstants DEF Init, RouteInv, InHand
<1>3. ASSUME NEW q \in Queues, NEW e \in Events PROVE Potential(q, e) <= Granted(e) * Cost(Fan(e))
  <2> DEFINE f == Waiting(ready, q, e)
             g == Held(stage, hand, e)
  <2>0. ready \in Copies /\ stage \in [Consumers -> Stage] /\ hand \in Hands
        /\ \A c \in Consumers : stage[c] \in InHand => hand[c] \in Delivery
    BY <1>1 DEF TypeInv, TypeOK, HandInv, Copies, Hands
  <2>1. f \in [Place -> Nat] /\ IsFiniteSet(Place)
    BY <2>0, CallWeightType, WeighedType, FiniteIndex DEF Waiting
  <2>2. g \in [Consumers -> Nat] /\ IsFiniteSet(Consumers)
    BY <2>0, HeldType, FiniteIndex
  <2>3. \A i \in Place : f[i] = IF i \in {} THEN 0 ELSE 0
    <3>1. ASSUME NEW p \in Queues, NEW r \in Retries PROVE f[<<p, r>>] = 0
      <4>1. f[<<p, r>>] = ready[p][e][r] * CallWeight(q, e)[<<p, r>>]
        BY <2>0, CallWeightType, WeighedType DEF Waiting
      <4>2. ready[p][e][r] = 0
        BY DEF Init
      <4>3. CallWeight(q, e)[<<p, r>>] \in Nat
        BY CallWeightType DEF Place
      <4>4. \A k \in Nat : 0 * k = 0
        OBVIOUS
      <4> QED BY ONLY <4>1, <4>2, <4>3, <4>4
    <3> HIDE DEF f
    <3> QED BY <3>1 DEF Place
  <2>4. \A c \in Consumers : g[c] = IF c \in {} THEN 0 ELSE 0
    BY DEF Held, Share, Init
  <2> HIDE DEF f, g
  <2>5. Total(Place, f) = Cardinality({}) * 0 /\ Cardinality({}) = 0
    <3>1. {} \in SUBSET Place /\ 0 \in Nat
      OBVIOUS
    <3> QED BY ONLY <2>1, <2>3, <3>1, TotalBlock, FS_EmptySet
  <2>6. Total(Consumers, g) = Cardinality({}) * 0
    <3>1. {} \in SUBSET Consumers /\ 0 \in Nat
      OBVIOUS
    <3> QED BY ONLY <2>2, <2>4, <3>1, TotalBlock
  <2>7. runs[q][e] = 0 /\ Granted(e) = 0 /\ Cost(Fan(e)) \in Nat
    BY FanOnward DEF Init, Granted
  <2>8. Potential(q, e) = 0 + 0 * 0 + 0 * 0
    BY <2>5, <2>6, <2>7 DEF Potential, f, g
  <2>9. Granted(e) * Cost(Fan(e)) = 0
    BY ONLY <2>7
  <2> QED BY ONLY <2>8, <2>9
<1> QED BY <1>2, <1>3 DEF CallInv

-----------------------------------------------------------------------------
(* Work left: the steps that consumers can still take.                     *)

\* A copy with count r stands for at most Worth(e, r) steps: its delivery, the
\* process call, the republish with all that comes of it, and the ack.
Worth(e, r) == 4 * Calls(Fan(e))[MaxRetryCount - r]
LoadWeight(e) == [i \in Place |-> Worth(e, i[2])]
Burden(st, hd, e) ==
    IF st \notin InHand \/ hd.event # e THEN 0
    ELSE CASE st = "process" -> Worth(e, hd.retry) - 1
           [] st = "republish" -> Worth(e, hd.retry) - 2
           [] OTHER -> 1
Burdens(st, hd, e) == [c \in Consumers |-> Burden(st[c], hd[c], e)]
Work(e) == Total(Place, Weighed(ready, e, LoadWeight(e))) + Total(Consumers, Burdens(stage, hand, e))

\* A step is a publication, a fault, the return of a consumer, which leaves the
\* work as it is, or leaves less work for one event and no more for any other.
WorkShrinks == \E e \in Events : Work(e)' < Work(e) /\ \A f \in Events \ {e} : Work(f)' = Work(f)
EveryStepCounts ==
    [][\/ \E e \in Events : Publish(e)
       \/ faults' = faults + 1
       \/ (\E c \in Consumers : Restart(c)) /\ \A e \in Events : Work(e)' = Work(e)
       \/ WorkShrinks]_vars

\* A copy is worth at least the four steps of its own delivery, and more than
\* all the copies its republish makes.
LEMMA WorthFacts ==
    ASSUME NEW e \in Events
    PROVE  /\ \A r \in Retries : Worth(e, r) \in Nat /\ Worth(e, r) >= 4
           /\ \A r \in Retries : r < MaxRetryCount => Worth(e, r) = 4 + Fan(e) * Worth(e, r + 1)
<1> DEFINE n == Fan(e)
           K == MaxRetryCount
           c == Calls(n)
<1>1. n \in Nat /\ K \in Nat
  BY FanFacts, RetryConstants
<1>2. c \in [Nat -> Nat] /\ c[0] = 1 /\ \A i \in Nat : c[i + 1] = 1 + n * c[i]
  BY <1>1, CallsDef
<1>3. \A r \in Nat : Worth(e, r) = 4 * c[K - r]
  BY DEF Worth
<1>4. \A r \in Retries : r \in Nat /\ K - r \in Nat
  BY <1>1 DEF Retries
<1> HIDE DEF n, K, c
<1>5. ASSUME NEW i \in Nat PROVE c[i] \in Nat /\ c[i] >= 1
  <2>1. CASE i = 0
    BY <1>2, <2>1
  <2>2. CASE i # 0
    <3>1. i - 1 \in Nat /\ (i - 1) + 1 = i
      BY <2>2
    <3>2. c[i] = 1 + n * c[i - 1] /\ c[i - 1] \in Nat
      BY <1>2, <3>1
    <3>3. \A x \in Nat : n * x \in Nat
      BY <1>1
    <3>4. n * c[i - 1] \in Nat
      BY ONLY <3>2, <3>3
    <3> QED BY ONLY <3>2, <3>4
  <2> QED BY <2>1, <2>2
<1>6. ASSUME NEW r \in Retries PROVE Worth(e, r) \in Nat /\ Worth(e, r) >= 4
  <2>1. c[K - r] \in Nat /\ c[K - r] >= 1
    BY <1>4, <1>5
  <2>2. Worth(e, r) = 4 * c[K - r]
    BY <1>3, <1>4
  <2> QED BY ONLY <2>1, <2>2
<1>7. ASSUME NEW r \in Retries, r < K PROVE Worth(e, r) = 4 + n * Worth(e, r + 1)
  <2>1. r \in Nat /\ r + 1 \in Nat /\ K - (r + 1) \in Nat /\ (K - (r + 1)) + 1 = K - r
    BY <1>1, <1>4, <1>7
  <2>2. c[K - r] = 1 + n * c[K - (r + 1)] /\ c[K - (r + 1)] \in Nat
    BY <1>2, <2>1
  <2>3. Worth(e, r) = 4 * c[K - r] /\ Worth(e, r + 1) = 4 * c[K - (r + 1)]
    BY <1>3, <2>1
  <2>4. \A x \in Nat : 4 * (1 + n * x) = 4 + n * (4 * x)
    BY <1>1
  <2> QED BY ONLY <2>2, <2>3, <2>4
<1> QED BY <1>6, <1>7 DEF n, K

\* The weights of the work left.
LEMMA LoadWeightType ==
    ASSUME NEW e \in Events
    PROVE  /\ LoadWeight(e) \in [Place -> Nat]
           /\ \A p \in Queues, r \in Retries : LoadWeight(e)[<<p, r>>] = Worth(e, r)
<1>1. \A i \in Place : Worth(e, i[2]) \in Nat
  BY WorthFacts DEF Place
<1>2. LoadWeight(e) \in [Place -> Nat]
  BY <1>1 DEF LoadWeight
<1>3. \A p \in Queues, r \in Retries : LoadWeight(e)[<<p, r>>] = Worth(e, r)
  BY DEF LoadWeight, Place
<1> QED BY <1>2, <1>3

\* What is left of the deliveries in hand.
LEMMA BurdenType ==
    ASSUME NEW st \in [Consumers -> Stage], NEW hd \in Hands, NEW e \in Events,
           \A c \in Consumers : st[c] \in InHand => hd[c] \in Delivery
    PROVE  /\ Burdens(st, hd, e) \in [Consumers -> Nat]
           /\ Total(Consumers, Burdens(st, hd, e)) \in Nat
           /\ \A c \in Consumers : Burdens(st, hd, e)[c] = Burden(st[c], hd[c], e)
<1>1. \A r \in Retries : Worth(e, r) \in Nat /\ Worth(e, r) >= 4
  BY WorthFacts
<1>2. \A r \in Retries : Worth(e, r) - 1 \in Nat /\ Worth(e, r) - 2 \in Nat
  BY <1>1
<1>3. ASSUME NEW c \in Consumers PROVE Burden(st[c], hd[c], e) \in Nat
  <2>1. CASE st[c] \notin InHand \/ hd[c].event # e
    BY <2>1 DEF Burden
  <2>2. CASE st[c] \in InHand /\ hd[c].event = e
    <3>1. hd[c].retry \in Retries
      BY <2>2 DEF Delivery
    <3> QED BY <1>2, <2>2, <3>1 DEF Burden
  <2> QED BY <2>1, <2>2
<1>4. Burdens(st, hd, e) \in [Consumers -> Nat]
  BY <1>3 DEF Burdens
<1>5. Total(Consumers, Burdens(st, hd, e)) \in Nat
  BY <1>4, FiniteIndex, TotalType
<1> QED BY <1>4, <1>5 DEF Burdens

\* One consumer moves.
LEMMA BurdenOneChange ==
    ASSUME NEW st \in [Consumers -> Stage], NEW hd \in Hands,
           NEW sx \in [Consumers -> Stage], NEW hx \in Hands, NEW e \in Events,
           \A c \in Consumers : st[c] \in InHand => hd[c] \in Delivery,
           \A c \in Consumers : sx[c] \in InHand => hx[c] \in Delivery,
           NEW c \in Consumers, \A b \in Consumers : b # c => sx[b] = st[b] /\ hx[b] = hd[b]
    PROVE  Total(Consumers, Burdens(sx, hx, e)) + Burden(st[c], hd[c], e) =
             Total(Consumers, Burdens(st, hd, e)) + Burden(sx[c], hx[c], e)
<1> DEFINE f == Burdens(st, hd, e)
           g == Burdens(sx, hx, e)
<1>1. f \in [Consumers -> Nat] /\ \A b \in Consumers : f[b] = Burden(st[b], hd[b], e)
  BY BurdenType
<1>2. g \in [Consumers -> Nat] /\ \A b \in Consumers : g[b] = Burden(sx[b], hx[b], e)
  BY BurdenType
<1>3. \A b \in Consumers : b # c => g[b] = f[b]
  BY <1>1, <1>2
<1>4. IsFiniteSet(Consumers)
  BY FiniteIndex
<1> HIDE DEF f, g
<1>5. Total(Consumers, g) + f[c] = Total(Consumers, f) + g[c]
  BY ONLY <1>1, <1>2, <1>3, <1>4, c \in Consumers, TotalChange
<1> QED BY <1>1, <1>2, <1>5 DEF f, g

\* Every step of a consumer leaves less work for the event it is about.
LEMMA WorkStep ==
    ASSUME TypeInv, TypeInv', NEW c \in Consumers, ConsumerStep(c)
    PROVE  WorkShrinks
<1>0. /\ ready \in Copies /\ ready' \in Copies /\ TypeOK /\ TypeOK'
      /\ stage \in [Consumers -> Stage] /\ stage' \in [Consumers -> Stage]
      /\ hand \in Hands /\ hand' \in Hands
      /\ \A b \in Consumers : stage[b] \in InHand => hand[b] \in Delivery
      /\ \A b \in Consumers : stage'[b] \in InHand => hand'[b] \in Delivery
  BY DEF TypeInv, TypeOK, HandInv, Copies, Hands
\* In terms of the copies and of the burden of c.
<1>1. ASSUME NEW x \in Events,
             \A b \in Consumers : b # c => stage'[b] = stage[b] /\ hand'[b] = hand[b],
             NEW gain \in [Events -> Nat], NEW cost \in [Events -> Nat],
             \A f \in Events : Total(Place, Weighed(ready', f, LoadWeight(f))) + cost[f] =
                                 Total(Place, Weighed(ready, f, LoadWeight(f))) + gain[f],
             \A f \in Events \ {x} : /\ gain[f] = cost[f]
                                     /\ Burden(stage'[c], hand'[c], f) = Burden(stage[c], hand[c], f),
             gain[x] + Burden(stage'[c], hand'[c], x) < cost[x] + Burden(stage[c], hand[c], x)
      PROVE  Work(x)' < Work(x) /\ \A f \in Events \ {x} : Work(f)' = Work(f)
  <2>1. ASSUME NEW f \in Events
        PROVE  \E w, wx, h, hx, b, bx, g, d \in Nat :
                 /\ Work(f) = w + h /\ Work(f)' = wx + hx
                 /\ wx + d = w + g /\ hx + b = h + bx
                 /\ g = gain[f] /\ d = cost[f]
                 /\ b = Burden(stage[c], hand[c], f) /\ bx = Burden(stage'[c], hand'[c], f)
    <3> DEFINE w == Total(Place, Weighed(ready, f, LoadWeight(f)))
               wx == Total(Place, Weighed(ready', f, LoadWeight(f)))
               h == Total(Consumers, Burdens(stage, hand, f))
               hx == Total(Consumers, Burdens(stage', hand', f))
               b == Burden(stage[c], hand[c], f)
               bx == Burden(stage'[c], hand'[c], f)
    <3>1. Work(f) = w + h /\ Work(f)' = wx + hx
      BY DEF Work
    <3>2. w \in Nat
      BY ONLY <1>0, f \in Events, LoadWeightType, WeighedType
    <3>3. wx \in Nat
      BY ONLY <1>0, f \in Events, LoadWeightType, WeighedType
    <3>4. h \in Nat /\ b \in Nat
      BY ONLY <1>0, f \in Events, c \in Consumers, BurdenType
    <3>5. hx \in Nat /\ bx \in Nat
      BY ONLY <1>0, f \in Events, c \in Consumers, BurdenType
    <3>6. hx + b = h + bx
      BY ONLY <1>0, <1>1, f \in Events, c \in Consumers, BurdenOneChange
    <3>7. wx + cost[f] = w + gain[f] /\ gain[f] \in Nat /\ cost[f] \in Nat
      BY <1>1
    <3> HIDE DEF w, wx, h, hx, b, bx
    <3>8. /\ Work(f) = w + h /\ Work(f)' = wx + hx
          /\ wx + cost[f] = w + gain[f] /\ hx + b = h + bx
          /\ b = Burden(stage[c], hand[c], f) /\ bx = Burden(stage'[c], hand'[c], f)
      BY <3>1, <3>6, <3>7 DEF b, bx
    <3> QED BY ONLY <3>2, <3>3, <3>4, <3>5, <3>7, <3>8
  <2>2. Work(x)' < Work(x)
    <3>1. PICK w, wx, h, hx, b, bx, g, d \in Nat :
                 /\ Work(x) = w + h /\ Work(x)' = wx + hx
                 /\ wx + d = w + g /\ hx + b = h + bx
                 /\ g = gain[x] /\ d = cost[x]
                 /\ b = Burden(stage[c], hand[c], x) /\ bx = Burden(stage'[c], hand'[c], x)
      BY <2>1
    <3>2. g + bx < d + b
      BY ONLY <1>1, <3>1
    <3>3. wx + hx < w + h
      <4>1. wx + d = w + g /\ hx + b = h + bx
        BY <3>1
      <4> QED BY ONLY <3>2, <4>1, w \in Nat, wx \in Nat, h \in Nat, hx \in Nat,
                      b \in Nat, bx \in Nat, g \in Nat, d \in Nat
    <3>4. Work(x) = w + h /\ Work(x)' = wx + hx
      BY <3>1
    <3> QED BY ONLY <3>3, <3>4
  <2>3. ASSUME NEW f \in Events \ {x} PROVE Work(f)' = Work(f)
    <3>1. PICK w, wx, h, hx, b, bx, g, d \in Nat :
                 /\ Work(f) = w + h /\ Work(f)' = wx + hx
                 /\ wx + d = w + g /\ hx + b = h + bx
                 /\ g = gain[f] /\ d = cost[f]
                 /\ b = Burden(stage[c], hand[c], f) /\ bx = Burden(stage'[c], hand'[c], f)
      BY <2>1
    <3>2. g = d /\ bx = b
      BY ONLY <1>1, <2>3, <3>1
    <3>3. wx + hx = w + h
      <4>1. wx + d = w + g /\ hx + b = h + bx
        BY <3>1
      <4> QED BY ONLY <3>2, <4>1, w \in Nat, wx \in Nat, h \in Nat, hx \in Nat,
                      b \in Nat, bx \in Nat, g \in Nat, d \in Nat
    <3>4. Work(f) = w + h /\ Work(f)' = wx + hx
      BY <3>1
    <3> QED BY ONLY <3>3, <3>4
  <2> QED BY <2>2, <2>3
\* A step that leaves the copies alone.
<1>2. ASSUME NEW x \in Events, ready' = ready,
             \A b \in Consumers : b # c => stage'[b] = stage[b] /\ hand'[b] = hand[b],
             \A f \in Events \ {x} : Burden(stage'[c], hand'[c], f) = Burden(stage[c], hand[c], f),
             Burden(stage'[c], hand'[c], x) < Burden(stage[c], hand[c], x)
      PROVE  Work(x)' < Work(x) /\ \A f \in Events \ {x} : Work(f)' = Work(f)
  <2> DEFINE none == [f \in Events |-> 0]
  <2>1. none \in [Events -> Nat] /\ \A f \in Events : none[f] = 0
    OBVIOUS
  <2>2. \A f \in Events : Total(Place, Weighed(ready', f, LoadWeight(f))) + none[f] =
                            Total(Place, Weighed(ready, f, LoadWeight(f))) + none[f]
    BY <1>2
  <2>3. Burden(stage'[c], hand'[c], x) \in Nat /\ Burden(stage[c], hand[c], x) \in Nat
    <3>1. Burden(stage[c], hand[c], x) \in Nat
      BY ONLY <1>0, x \in Events, c \in Consumers, BurdenType
    <3>2. Burden(stage'[c], hand'[c], x) \in Nat
      BY ONLY <1>0, x \in Events, c \in Consumers, BurdenType
    <3> QED BY <3>1, <3>2
  <2>4. none[x] + Burden(stage'[c], hand'[c], x) < none[x] + Burden(stage[c], hand[c], x)
    <3>1. ASSUME NEW b \in Nat, NEW bx \in Nat, bx < b PROVE 0 + bx < 0 + b
      BY <3>1
    <3>2. none[x] = 0
      BY <2>1
    <3> HIDE DEF none
    <3> QED BY ONLY <1>2, <2>3, <3>1, <3>2
  <2> HIDE DEF none
  <2> QED BY ONLY <1>1, <1>2, <2>1, <2>2, <2>4
\* What is known of a delivery in hand.
<1>3. ASSUME stage[c] \in InHand
      PROVE  /\ hand[c].event \in Events /\ hand[c].retry \in Retries
             /\ Worth(hand[c].event, hand[c].retry) \in Nat
             /\ Worth(hand[c].event, hand[c].retry) >= 4
  <2>1. hand[c].event \in Events /\ hand[c].retry \in Retries
    BY <1>0, <1>3 DEF Delivery
  <2> QED BY <2>1, WorthFacts
<1>4. ASSUME NEW e \in Events, NEW r \in Retries, Deliver(c, e, r)
      PROVE  Work(e)' < Work(e) /\ \A f \in Events \ {e} : Work(f)' = Work(f)
  <2> DEFINE gain == [f \in Events |-> 0]
             cost == [f \in Events |-> IF f = e THEN Worth(e, r) ELSE 0]
  <2>1. Worth(e, r) \in Nat /\ Worth(e, r) >= 4
    BY WorthFacts
  <2>2. gain \in [Events -> Nat] /\ cost \in [Events -> Nat]
    BY <2>1
  <2>3. /\ \A f \in Events : gain[f] = 0
        /\ cost[e] = Worth(e, r)
        /\ \A f \in Events \ {e} : cost[f] = 0
    OBVIOUS
  <2> HIDE DEF gain, cost
  <2>4. \A b \in Consumers : b # c => stage'[b] = stage[b] /\ hand'[b] = hand[b]
    BY <1>0, <1>4 DEF Deliver, Hands
  <2>5. stage[c] = "idle" /\ stage'[c] = "process" /\ hand'[c] = [event |-> e, retry |-> r] /\ Source[c] \in Queues
    BY <1>0, <1>4, RetryConstants DEF Deliver, Hands
  <2>6. \A f \in Events : Burden(stage[c], hand[c], f) = 0
    BY <2>5 DEF Burden, InHand
  <2>7. \A f \in Events \ {e} : Burden(stage'[c], hand'[c], f) = 0
    BY <2>5 DEF Burden
  <2>8. Burden(stage'[c], hand'[c], e) = Worth(e, r) - 1
    BY <2>5 DEF Burden, InHand
  <2>9. ASSUME NEW f \in Events
        PROVE  Total(Place, Weighed(ready', f, LoadWeight(f))) + cost[f] =
                 Total(Place, Weighed(ready, f, LoadWeight(f))) + gain[f]
    <3> DEFINE w == Total(Place, Weighed(ready, f, LoadWeight(f)))
               wx == Total(Place, Weighed(ready', f, LoadWeight(f)))
    <3>1. LoadWeight(f) \in [Place -> Nat] /\ LoadWeight(f)[<<Source[c], r>>] = Worth(f, r)
      BY <2>5, LoadWeightType
    <3>2. /\ f # e => wx = w
          /\ f = e => w = wx + LoadWeight(f)[<<Source[c], r>>]
      BY ONLY <1>0, <1>4, <3>1, f \in Events, e \in Events, c \in Consumers, r \in Retries, DeliveredTotal
    <3>3. w \in Nat
      BY ONLY <1>0, <3>1, f \in Events, WeighedType
    <3>4. wx \in Nat
      BY ONLY <1>0, <3>1, f \in Events, WeighedType
    <3> HIDE DEF w, wx
    <3>5. wx + cost[f] = w + gain[f]
      <4>1. CASE f = e
        BY <2>1, <2>3, <3>1, <3>2, <3>3, <3>4, <4>1
      <4>2. CASE f # e
        BY <2>3, <3>2, <3>3, <3>4, <4>2
      <4> QED BY <4>1, <4>2
    <3> QED BY <3>5 DEF w, wx
  <2>10. gain[e] + Burden(stage'[c], hand'[c], e) < cost[e] + Burden(stage[c], hand[c], e)
    BY ONLY <2>1, <2>3, <2>6, <2>8, e \in Events
  <2>11. \A f \in Events \ {e} : gain[f] = cost[f] /\ Burden(stage'[c], hand'[c], f) = Burden(stage[c], hand[c], f)
    BY ONLY <2>3, <2>6, <2>7
  <2> QED BY ONLY <1>1, <2>2, <2>4, <2>9, <2>10, <2>11, e \in Events
<1>5. ASSUME stage[c] = "process", ProcessOK(c) \/ ProcessFails(c)
      PROVE  \E e \in Events : Work(e)' < Work(e) /\ \A f \in Events \ {e} : Work(f)' = Work(f)
  <2> DEFINE e == hand[c].event
             r == hand[c].retry
  <2>1. e \in Events /\ r \in Retries /\ Worth(e, r) \in Nat /\ Worth(e, r) >= 4
    BY <1>3, <1>5 DEF InHand
  <2>2. /\ ready' = ready /\ hand' = hand
        /\ \A b \in Consumers : b # c => stage'[b] = stage[b] /\ hand'[b] = hand[b]
        /\ stage'[c] \in {"ack", "reject", "republish"}
    BY <1>0, <1>5 DEF ProcessOK, ProcessFails, AfterFailure
  <2>3. \A f \in Events \ {e} : Burden(stage'[c], hand'[c], f) = Burden(stage[c], hand[c], f)
    BY <2>2 DEF Burden
  <2>4. Burden(stage[c], hand[c], e) = Worth(e, r) - 1
    BY <1>5 DEF Burden, InHand
  <2>5. Burden(stage'[c], hand'[c], e) \in {1, Worth(e, r) - 2}
    BY <2>2 DEF Burden, InHand
  <2> HIDE DEF e, r
  <2>6. Burden(stage'[c], hand'[c], e) < Burden(stage[c], hand[c], e)
    BY ONLY <2>1, <2>4, <2>5
  <2> QED BY ONLY <1>2, <2>1, <2>2, <2>3, <2>6
<1>6. ASSUME Ack(c) \/ Reject(c)
      PROVE  \E e \in Events : Work(e)' < Work(e) /\ \A f \in Events \ {e} : Work(f)' = Work(f)
  <2> DEFINE e == hand[c].event
  <2>1. stage[c] \in {"ack", "reject"}
    BY <1>6 DEF Ack, Reject
  <2>2. e \in Events
    BY <1>3, <2>1 DEF InHand
  <2>3. /\ ready' = ready /\ stage'[c] = "idle"
        /\ \A b \in Consumers : b # c => stage'[b] = stage[b] /\ hand'[b] = hand[b]
    BY <1>0, <1>6 DEF Ack, Reject, Released, Hands
  <2>4. \A f \in Events : Burden(stage'[c], hand'[c], f) = 0
    BY <2>3 DEF Burden, InHand
  <2>5. Burden(stage[c], hand[c], e) = 1 /\ \A f \in Events \ {e} : Burden(stage[c], hand[c], f) = 0
    BY <2>1 DEF Burden, InHand
  <2> HIDE DEF e
  <2>6. Burden(stage'[c], hand'[c], e) < Burden(stage[c], hand[c], e)
    BY ONLY <2>2, <2>4, <2>5
  <2>7. \A f \in Events \ {e} : Burden(stage'[c], hand'[c], f) = Burden(stage[c], hand[c], f)
    BY ONLY <2>4, <2>5
  <2> QED BY ONLY <1>2, <2>2, <2>3, <2>6, <2>7
<1>7. ASSUME Republish(c)
      PROVE  \E e \in Events : Work(e)' < Work(e) /\ \A f \in Events \ {e} : Work(f)' = Work(f)
  <2> DEFINE e == hand[c].event
             r == hand[c].retry
             spread == Fan(e) * Worth(e, r + 1)
             gain == [f \in Events |-> IF f = e THEN spread ELSE 0]
             cost == [f \in Events |-> 0]
  <2>1. /\ stage[c] = "republish" /\ stage'[c] = "ack" /\ hand' = hand /\ ready' = Routed(e, r + 1)
        /\ \A b \in Consumers : b # c => stage'[b] = stage[b] /\ hand'[b] = hand[b]
    BY <1>0, <1>7 DEF Republish
  <2>2. e \in Events /\ r \in Retries /\ Worth(e, r) \in Nat
    BY <1>3, <2>1 DEF InHand
  <2>3. r < MaxRetryCount /\ r + 1 \in Retries
    BY <2>1, <2>2, RetryConstants DEF TypeInv, HandInv, Retries
  <2>4. Worth(e, r + 1) \in Nat /\ Fan(e) \in Nat /\ Worth(e, r) = 4 + spread
    BY <2>2, <2>3, WorthFacts, FanFacts
  <2>5. spread \in Nat
    BY ONLY <2>4
  <2>6. \A f \in Events \ {e} : Burden(stage'[c], hand'[c], f) = Burden(stage[c], hand[c], f)
    BY <2>1 DEF Burden
  <2>7. Burden(stage[c], hand[c], e) = Worth(e, r) - 2 /\ Burden(stage'[c], hand'[c], e) = 1
    BY <2>1 DEF Burden, InHand
  <2> HIDE DEF e, r, spread
  <2>8. gain \in [Events -> Nat] /\ cost \in [Events -> Nat]
    BY <2>5
  <2>9. /\ gain[e] = spread /\ \A f \in Events \ {e} : gain[f] = 0
        /\ \A f \in Events : cost[f] = 0
    BY <2>2
  <2> HIDE DEF gain, cost
  <2>10. ASSUME NEW f \in Events
         PROVE  Total(Place, Weighed(ready', f, LoadWeight(f))) + cost[f] =
                  Total(Place, Weighed(ready, f, LoadWeight(f))) + gain[f]
    <3> DEFINE w == Total(Place, Weighed(ready, f, LoadWeight(f)))
               wx == Total(Place, Weighed(ready', f, LoadWeight(f)))
               a == Added(f, r + 1, LoadWeight(f))
    <3>1. LoadWeight(f) \in [Place -> Nat]
      BY LoadWeightType
    <3>2. /\ f # e => wx = w
          /\ f = e => wx = w + Total(Place, a)
      <4>1. TypeOK
        BY <1>0
      <4> QED BY ONLY <4>1, <2>1, <2>2, <2>3, <3>1, f \in Events, RoutedTotal
    <3>3. w \in Nat
      BY ONLY <1>0, <3>1, f \in Events, WeighedType
    <3>4. f = e => Total(Place, a) = spread
      <4> SUFFICES ASSUME f = e PROVE Total(Place, a) = spread
        OBVIOUS
      <4>1. \A i \in Place : a[i] = IF i \in Landing(e, r + 1) THEN Worth(e, r + 1) ELSE 0
        BY <2>3, LoadWeightType DEF Added, Landing, Place
      <4>2. a \in [Place -> Nat]
        BY <3>1 DEF Added
      <4> HIDE DEF a
      <4>3. Total(Place, a) = Fan(e) * Worth(e, r + 1)
        BY ONLY <2>2, <2>3, <2>4, <4>1, <4>2, LandingTotal
      <4> QED BY <4>3 DEF spread
    <3> HIDE DEF w, wx, a
    <3>5. wx + cost[f] = w + gain[f]
      <4>1. CASE f = e
        BY <2>2, <2>5, <2>9, <3>2, <3>3, <3>4, <4>1
      <4>2. CASE f # e
        BY <2>9, <3>2, <3>3, <4>2
      <4> QED BY <4>1, <4>2
    <3> QED BY <3>5 DEF w, wx
  <2>11. gain[e] + Burden(stage'[c], hand'[c], e) < cost[e] + Burden(stage[c], hand[c], e)
    BY ONLY <2>2, <2>4, <2>5, <2>7, <2>9
  <2>12. \A f \in Events \ {e} : gain[f] = cost[f] /\ Burden(stage'[c], hand'[c], f) = Burden(stage[c], hand[c], f)
    BY ONLY <2>6, <2>9
  <2> QED BY ONLY <1>1, <2>1, <2>2, <2>8, <2>10, <2>11, <2>12
<1>8. ProcessOK(c) \/ ProcessFails(c) => stage[c] = "process"
  BY DEF ProcessOK, ProcessFails
<1> QED BY <1>4, <1>5, <1>6, <1>7, <1>8 DEF ConsumerStep, WorkShrinks

-----------------------------------------------------------------------------
(* The theorems.                                                           *)

\* The state of the broker and of the consumers keeps its type: x-retry-count
\* stays within 0 .. MaxRetryCount, for every topology.
THEOREM RetryTypeCorrect == Spec => []TypeOK
<1>1. TypeInv => TypeOK
  BY DEF TypeInv
<1> QED BY <1>1, InitInv, TypeStep, PTL DEF Spec

\* consumeWithRetry dead-letters an event only after MaxRetryCount + 1 of its
\* process calls failed, however many channels are lost on the way.
THEOREM DeadLettersEarned == Spec => []DeadLetterEarned
<1>1. EarnedInv => DeadLetterEarned
  BY DEF EarnedInv
<1> QED BY <1>1, InitInv, TypeStep, EarnedStep, PTL DEF Spec

\* The order of republish and ack in handleMainDelivery loses no event, in
\* whatever step a consumer is cut off.
THEOREM NothingLost == Spec => []NoLoss
<1>1. LossInv => NoLoss
  BY DEF LossInv, NoLoss, Answerable, InFlight, InHand
<1> QED BY <1>1, InitInv, TypeStep, LossStep, PTL DEF Spec

\* The process calls for an event are finitely many, whatever fails: the
\* copies that the republishes of worker/retry.go multiply, in every topology
\* of queues, cost a queue at most Cost calls, and each lost channel or failed
\* republish at most Cost more.
THEOREM AmplificationBounded == Spec => []BoundedAmplification
<1>1. TypeInv /\ CallInv => BoundedAmplification
  <2> SUFFICES ASSUME TypeInv, CallInv, NEW q \in Queues, NEW e \in Events
               PROVE  runs[q][e] <= (1 + faults) * Cost(Fan(e))
    BY DEF BoundedAmplification
  <2> DEFINE C == Cost(Fan(e))
             G == Granted(e)
             w == Total(Place, Waiting(ready, q, e))
             h == Total(Consumers, Held(stage, hand, e))
  <2>0. ready \in Copies /\ stage \in [Consumers -> Stage] /\ hand \in Hands
        /\ \A c \in Consumers : stage[c] \in InHand => hand[c] \in Delivery
    BY DEF TypeInv, TypeOK, HandInv, Copies, Hands
  <2>1. w \in Nat
    BY <2>0, CallWeightType, WeighedType DEF Waiting
  <2>2. h \in Nat
    BY ONLY <2>0, e \in Events, HeldType
  <2>3. runs[q][e] \in Nat /\ G \in Nat /\ faults \in Nat /\ G <= 1 + faults
    BY DEF TypeInv, TypeOK, Granted
  <2>4. C \in Nat
    BY FanOnward
  <2>5. runs[q][e] + w + h <= G * C
    BY DEF CallInv, Potential
  <2> HIDE DEF C, G, w, h
  <2>6. G * C <= (1 + faults) * C /\ G * C \in Nat /\ (1 + faults) * C \in Nat
    <3>1. \A a, b, k \in Nat : a <= b => a * k <= b * k /\ a * k \in Nat /\ b * k \in Nat
      OBVIOUS
    <3>2. 1 + faults \in Nat
      BY <2>3
    <3> QED BY ONLY <2>3, <2>4, <3>1, <3>2
  <2>7. runs[q][e] <= (1 + faults) * C
    BY ONLY <2>1, <2>2, <2>3, <2>5, <2>6
  <2> QED BY <2>7 DEF C
<1> QED BY <1>1, InitInv, TypeStep, CallInit, RouteStep, CallStep, PTL DEF Spec

\* The retries of worker/retry.go cannot go on for ever by themselves, although
\* every republish multiplies the copies: each step of a consumer uses up work,
\* and only publications, lost channels and failed republishes add to it.
THEOREM NoRetryLivelock == Spec => EveryStepCounts
<1> DEFINE A == \/ \E e \in Events : Publish(e)
                \/ faults' = faults + 1
                \/ (\E c \in Consumers : Restart(c)) /\ \A e \in Events : Work(e)' = Work(e)
                \/ WorkShrinks
<1>1. TypeInv /\ TypeInv' /\ [Next]_vars => [A]_vars
  <2> SUFFICES ASSUME TypeInv, TypeInv', Next PROVE A
    OBVIOUS
  <2>1. CASE \E e \in Events : Publish(e)
    BY <2>1
  <2>2. ASSUME NEW c \in Consumers, ConsumerStep(c) PROVE A
    BY <2>2, WorkStep
  <2>3. ASSUME NEW c \in Consumers, RepublishFails(c) \/ ChannelLost(c) PROVE A
    BY <2>3 DEF RepublishFails, ChannelLost, Fault
  <2>4. ASSUME NEW c \in Consumers, Restart(c) PROVE A
    <3>1. ready' = ready /\ hand' = hand /\ stage[c] = "gone"
      BY <2>4 DEF Restart
    <3>2. \A b \in Consumers : stage'[b] = IF b = c THEN "idle" ELSE stage[b]
      BY <2>4 DEF Restart, TypeInv, TypeOK
    <3>3. ASSUME NEW e \in Events, NEW b \in Consumers
          PROVE  Burden(stage'[b], hand'[b], e) = Burden(stage[b], hand[b], e)
      BY <3>1, <3>2 DEF Burden, InHand
    <3>4. \A e \in Events : Burdens(stage', hand', e) = Burdens(stage, hand, e)
      BY <3>3 DEF Burdens
    <3>5. \A e \in Events : Work(e)' = Work(e)
      BY <3>1, <3>4 DEF Work
    <3> QED BY <2>4, <3>5
  <2> HIDE DEF A
  <2> QED BY <2>1, <2>2, <2>3, <2>4 DEF Next, A
<1> QED BY <1>1, InitInv, TypeStep, PTL DEF Spec, EveryStepCounts, A

=============================================================================
