------------------------- MODULE NotificationProofs -------------------------
(***************************************************************************)
(* Proofs about notifications, for every set of API processes, events and  *)
(* connections and every bound on retries and faults; and about the hub    *)
(* that a push goes through, for every set of connections, pushing         *)
(* goroutines and notifications and every capacity of a channel.           *)
(***************************************************************************)
EXTENDS Notification, SSEHub, TLAPS

\* Only events that were sent are queued or in hand, and a worker has one in
\* hand exactly while it processes it.
HandInv ==
    /\ \A e \in Events, r \in Retries : queue[e][r] > 0 => e \in sent
    /\ \A n \in Nodes :
          /\ stage[n] \in {"idle", "down"} => hand[n] = Nothing
          /\ stage[n] \notin {"idle", "down"} => hand[n] \in Delivery /\ hand[n].event \in sent

Cap(e) == IF e \in ghosts THEN 2 ELSE 1

Announcing(n, e) == hand[n].event = e /\ stage[n] \in {"publish", "push"}

\* The push that the worker of n has still to make in its own process.
Local(n, e) == IF hand[n].event = e /\ stage[n] = "push" THEN 1 ELSE 0

\* A loop walks connections of the user it pushes to, which were open when it
\* began; those that it may miss by now are in shaken.
WalkInv ==
    \A w \in Walkers :
        /\ walk[w] = NoWalk \/ (walk[w].event \in Events /\ walk[w].todo # {})
        /\ \A c \in walk[w].todo :
              /\ Owner[c] = Recipient[walk[w].event] /\ at[c] # None
              /\ <<c, walk[w].event>> \notin shaken => at[c] = w[1] /\ ~walk[w].loose

\* The sends to c that the loops of process n have still to make.
Owes(w, c, e) == IF walk[w].event = e /\ c \in walk[w].todo THEN 1 ELSE 0
Load(n, c, e) == Owes(<<n, "worker">>, c, e) + Owes(<<n, "subscriber">>, c, e)

\* Nobody has been told of e.
Untold(e) ==
    /\ e \notin ghosts
    /\ \A n \in Nodes : inbox[n][e] = 0
    /\ \A c \in Conns : got[c][e] = 0
    /\ \A w \in Walkers : walk[w].event # e

\* One worker announces an event, once it has its row; a push counts against
\* the cap of its connections from the moment it is on its way.
OneAnnounces(e) ==
    /\ e \notin rows => Untold(e)
    /\ \A n \in Nodes : Announcing(n, e) => e \in rows
    /\ \A n, m \in Nodes : Announcing(n, e) /\ Announcing(m, e) => n = m
    /\ \A n \in Nodes : hand[n].event = e /\ stage[n] = "publish" => Untold(e)
CapKept(e) ==
    /\ \A n \in Nodes : inbox[n][e] + Local(n, e) <= Cap(e)
    /\ \A c \in Conns : at[c] = None => got[c][e] = 0
    /\ \A c \in Conns : <<c, e>> \notin shaken => got[c][e] <= Cap(e)
    /\ \A c \in Conns, n \in Nodes :
          at[c] = n /\ <<c, e>> \notin shaken
          => got[c][e] + inbox[n][e] + Local(n, e) + Load(n, c, e) <= Cap(e)
AnnounceInv == \A e \in Events : OneAnnounces(e) /\ CapKept(e)

\* The connection is to hear of the event and has not, nor is a loop or the
\* subscriber of its process about to send it.
Misses(c, n, e) ==
    /\ at[c] = n /\ c \in Reached(n, e) /\ e \notin before[c]
    /\ <<n, e>> \notin silent /\ <<c, e>> \notin full \cup shaken
    /\ got[c][e] = 0 /\ inbox[n][e] = 0
    /\ \A w \in Walkers : ~(walk[w].event = e /\ c \in walk[w].todo)

\* Somebody is about to tell process n of e.
Tells(m, n, e) == hand[m].event = e /\ (stage[m] = "publish" \/ (stage[m] = "push" /\ m = n))
Coming(n, e) == \E m \in Nodes : Tells(m, n, e)

ReachInv == \A c \in Conns, n \in Nodes, e \in rows : Misses(c, n, e) => Coming(n, e)

USE NotificationConstants

-----------------------------------------------------------------------------
(* Types, the queue and the hands of the workers.                          *)

\* One more copy in the queue, and no other change to it.
LEMMA OneMore ==
    ASSUME TypeOK, NEW m \in Delivery
    PROVE  /\ Queued(m) \in [Events -> [Retries -> Nat]]
           /\ Queued(m)[m.event][m.retry] > 0
           /\ \A e \in Events, r \in Retries :
                 /\ Queued(m)[e][r] >= queue[e][r]
                 /\ Queued(m)[e][r] > 0 => e = m.event \/ queue[e][r] > 0
<1>1. m.event \in Events /\ m.retry \in Retries
  BY DEF Delivery
<1>2. \A e \in Events, r \in Retries : queue[e][r] \in Nat
  BY DEF TypeOK
<1> QED
  BY <1>1, <1>2 DEF TypeOK, Queued

\* What a worker has in hand while it processes it.
LEMMA Held ==
    ASSUME TypeOK, HandInv, NEW n \in Nodes
    PROVE  /\ stage[n] \notin {"idle", "down"} =>
                 /\ hand[n] \in Delivery /\ hand[n].event \in sent /\ hand[n].event \in Events
                 /\ hand[n].retry \in Retries /\ hand[n] # Nothing
           /\ hand[n] # Nothing => hand[n] \in Delivery /\ stage[n] \notin {"idle", "down"}
           /\ hand[n] = Nothing => stage[n] \in {"idle", "down"}
           /\ \A e \in Events : hand[n].event = e => stage[n] \notin {"idle", "down"}
<1>1. \A m \in Delivery : m.event \in Events /\ m.retry \in Retries /\ m # Nothing
  BY DEF Delivery, Nothing
<1>2. Nothing.event \notin Events
  BY DEF Nothing
<1> QED
  BY <1>1, <1>2 DEF TypeOK, HandInv

\* Base is what the other invariants build on.
Base == TypeOK /\ HandInv

\* The worker of n is done with its delivery.
LEMMA ReleasedHand ==
    ASSUME Base, NEW n \in Nodes, Released(n)
    PROVE  /\ hand' \in [Nodes -> Delivery \cup {Nothing}] /\ stage' \in [Nodes -> Stages]
           /\ hand'[n] = Nothing /\ stage'[n] \in {"idle", "down"}
           /\ \A m \in Nodes \ {n} : hand'[m] = hand[m] /\ stage'[m] = stage[m]
BY DEF Base, TypeOK, Released, Stages

\* A failed delivery is queued again or dead-lettered, or was lost before.
LEMMA FailedDelivery ==
    ASSUME Base, NEW n \in Nodes, stage[n] \notin {"idle", "down"}, Failed(n)
    PROVE  /\ queue' \in [Events -> [Retries -> Nat]] /\ dead' \subseteq Events /\ dead \subseteq dead'
           /\ sent' = sent /\ chOpen' = chOpen
           /\ \A e \in Events, r \in Retries :
                 /\ queue'[e][r] >= queue[e][r]
                 /\ queue'[e][r] > 0 => e \in sent
           /\ chOpen[n] => \/ \E r \in Retries : queue'[hand[n].event][r] > 0
                           \/ hand[n].event \in dead'
<1> DEFINE m == hand[n]
           k == [m EXCEPT !.retry = @ + 1]
<1>1. m \in Delivery /\ m.event \in sent /\ m.event \in Events /\ m.retry \in Retries
  BY Held DEF Base
<1>2. /\ queue' = IF chOpen[n] /\ m.retry < MaxRetryCount THEN Queued(k) ELSE queue
      /\ dead' = IF chOpen[n] /\ m.retry = MaxRetryCount THEN dead \cup {m.event} ELSE dead
      /\ UNCHANGED <<sent, chOpen>>
  BY DEF Failed
<1>3. m.retry < MaxRetryCount => k \in Delivery /\ k.event = m.event /\ k.retry \in Retries
  BY <1>1 DEF Delivery, Retries
<1>4. m.retry < MaxRetryCount \/ m.retry = MaxRetryCount
  BY <1>1 DEF Retries
<1>5. /\ queue \in [Events -> [Retries -> Nat]] /\ dead \subseteq Events
      /\ \A e \in Events, r \in Retries : queue[e][r] \in Nat
      /\ \A e \in Events, r \in Retries : queue[e][r] > 0 => e \in sent
  BY DEF Base, TypeOK, HandInv
<1> HIDE DEF m, k
<1>6. CASE chOpen[n] /\ m.retry < MaxRetryCount
  <2>1. queue' = Queued(k) /\ k \in Delivery /\ dead' = dead
    BY <1>1, <1>2, <1>3, <1>6 DEF Retries
  <2>2. /\ Queued(k) \in [Events -> [Retries -> Nat]] /\ Queued(k)[k.event][k.retry] > 0
        /\ \A e \in Events, r \in Retries :
              /\ Queued(k)[e][r] >= queue[e][r]
              /\ Queued(k)[e][r] > 0 => e = k.event \/ queue[e][r] > 0
    BY <2>1, OneMore DEF Base
  <2> QED
    BY <1>1, <1>2, <1>3, <1>5, <1>6, <2>1, <2>2 DEF m
<1>7. CASE ~(chOpen[n] /\ m.retry < MaxRetryCount)
  <2>1. queue' = queue
    BY <1>2, <1>7
  <2>2. dead' \subseteq Events /\ dead \subseteq dead' /\ (chOpen[n] => m.event \in dead')
    BY <1>1, <1>2, <1>4, <1>5, <1>7
  <2> QED
    BY <1>2, <1>5, <2>1, <2>2 DEF m
<1> QED
  BY <1>6, <1>7

\* A loop begins with the connections that the table lists.
LEMMA BeginsWalk ==
    ASSUME TypeOK, NEW w \in Walkers, NEW e \in Events, Begins(w, e)
    PROVE  /\ walk' \in [Walkers -> Loop \cup {NoWalk}] /\ walk[w] = NoWalk
           /\ \A v \in Walkers \ {w} : walk'[v] = walk[v]
           /\ walk'[w].todo = Reached(w[1], e)
           /\ \/ walk'[w] = NoWalk
              \/ walk'[w].event = e /\ walk'[w].todo # {} /\ ~walk'[w].loose
<1>1. Reached(w[1], e) \in SUBSET Conns
  BY DEF Reached
<1> QED
  BY <1>1 DEF TypeOK, Begins, Loop, NoWalk

\* A loop goes on to its next slot, or ends.
LEMMA PassedWalk ==
    ASSUME TypeOK, NEW w \in Walkers, NEW c \in walk[w].todo, Passed(w, c)
    PROVE  /\ walk' \in [Walkers -> Loop \cup {NoWalk}] /\ c \in Conns /\ walk[w].event \in Events
           /\ \A v \in Walkers \ {w} : walk'[v] = walk[v]
           /\ walk'[w].todo = walk[w].todo \ {c}
           /\ \/ walk'[w] = NoWalk
              \/ /\ walk'[w].event = walk[w].event /\ walk'[w].todo # {}
                 /\ walk'[w].loose = walk[w].loose
<1>1. walk[w] \in Loop /\ c \in Conns
  BY DEF TypeOK, Loop, NoWalk
<1> DEFINE next == IF walk[w].todo = {c} THEN NoWalk ELSE [walk[w] EXCEPT !.todo = @ \ {c}]
<1>2. /\ next \in Loop \cup {NoWalk} /\ next.todo = walk[w].todo \ {c}
      /\ \/ next = NoWalk
         \/ next.event = walk[w].event /\ next.todo # {} /\ next.loose = walk[w].loose
  <2>1. CASE walk[w].todo = {c}
    BY <2>1 DEF NoWalk
  <2>2. CASE walk[w].todo # {c}
    <3>1. walk[w].todo \ {c} # {}
      BY <2>2
    <3>2. next = [walk[w] EXCEPT !.todo = walk[w].todo \ {c}]
      BY <2>2
    <3> QED
      BY <1>1, <3>1, <3>2 DEF Loop
  <2> QED
    BY <2>1, <2>2
<1>3. walk' = [walk EXCEPT ![w] = next]
  BY DEF Passed
<1> HIDE DEF next
<1>4. walk[w].event \in Events
  BY <1>1 DEF Loop
<1> QED
  BY <1>1, <1>2, <1>3, <1>4 DEF TypeOK

\* A send adds to what one connection got.
LEMMA SentType ==
    ASSUME TypeOK, NEW c \in Conns, NEW e \in Events, Sent(c, e)
    PROVE  /\ got' \in [Conns -> [Events -> Nat]]
           /\ \A b \in Conns, d \in Events :
                 got'[b][d] = got[b][d] + (IF b = c /\ d = e THEN 1 ELSE 0)
BY DEF TypeOK, Sent

\* A broadcast adds to what the subscribed processes have received.
LEMMA HeardType ==
    ASSUME TypeOK, NEW e \in Events, inbox' = Heard(e)
    PROVE  /\ inbox' \in [Nodes -> [Events -> Nat]]
           /\ \A n \in Nodes, d \in Events :
                 inbox'[n][d] = inbox[n][d] + (IF n \in subscribed /\ d = e THEN 1 ELSE 0)
BY DEF TypeOK, Heard

\* A step of the worker of n that keeps its delivery in hand.
Goes(n, next) ==
    /\ UNCHANGED hand /\ next \in Stages \ {"idle", "down"}
    /\ stage[n] \notin {"idle", "down"} /\ stage' = [stage EXCEPT ![n] = next]

LEMMA GoesHand ==
    ASSUME Base, NEW n \in Nodes, NEW next, Goes(n, next), UNCHANGED <<queue, sent>>
    PROVE  HandInv' /\ stage' \in [Nodes -> Stages]
BY DEF Base, TypeOK, HandInv, Goes

\* The queue, the hands and the tables stay within their types, and the workers
\* hold what was sent.
LEMMA BaseStep == Base /\ [Next]_vars => Base'
<1> SUFFICES ASSUME Base, [Next]_vars PROVE Base'
  OBVIOUS
<1> USE DEF mqVars, workVars, redisVars, rowVars, connVars, pushVars, histVars
<1>0. TypeOK /\ HandInv /\ 0 \in Retries
  BY DEF Base, Retries
<1>1. ASSUME NEW e \in Events, Send(e) PROVE Base'
  <2> DEFINE m == [event |-> e, retry |-> 0]
  <2>1. m \in Delivery /\ m.event = e
    BY <1>0 DEF Delivery
  <2>2. queue' = Queued(m) /\ sent' = sent \cup {e}
    BY <1>1 DEF Send
  <2> HIDE DEF m
  <2>3. /\ queue' \in [Events -> [Retries -> Nat]]
        /\ \A d \in Events, r \in Retries : queue'[d][r] > 0 => d = e \/ queue[d][r] > 0
    BY <1>0, <2>1, <2>2, OneMore
  <2>4. TypeOK'
    BY <1>0, <1>1, <2>3 DEF Send, TypeOK
  <2>5. HandInv'
    BY <1>0, <1>1, <2>2, <2>3 DEF Send, HandInv
  <2> QED
    BY <2>4, <2>5 DEF Base
<1>2. ASSUME NEW e \in Events, NEW r \in Retries, Echo(e, r) PROVE Base'
  <2> DEFINE m == [event |-> e, retry |-> r]
  <2>1. m \in Delivery /\ m.event = e
    BY <1>0 DEF Delivery
  <2>2. queue' = Queued(m) /\ sent' = sent /\ e \in sent
    BY <1>2 DEF Echo
  <2> HIDE DEF m
  <2>3. /\ queue' \in [Events -> [Retries -> Nat]]
        /\ \A d \in Events, q \in Retries : queue'[d][q] > 0 => d = e \/ queue[d][q] > 0
    BY <1>0, <2>1, <2>2, OneMore
  <2>4. TypeOK'
    BY <1>0, <1>2, <2>3 DEF Echo, Fault, TypeOK
  <2>5. HandInv'
    BY <1>0, <1>2, <2>2, <2>3 DEF Echo, HandInv
  <2> QED
    BY <2>4, <2>5 DEF Base
<1>3. ASSUME NEW n \in Nodes, NEW e \in Events, NEW r \in Retries, Deliver(n, e, r) PROVE Base'
  <2> DEFINE m == [event |-> e, retry |-> r]
  <2>1. m \in Delivery /\ m.event = e
    BY DEF Delivery
  <2>2. /\ hand' = [hand EXCEPT ![n] = m] /\ stage' = [stage EXCEPT ![n] = "build"] /\ sent' = sent
        /\ queue[e][r] > 0 /\ queue' = [queue EXCEPT ![e][r] = @ - 1]
    BY <1>3 DEF Deliver
  <2> HIDE DEF m
  <2>3. /\ queue' \in [Events -> [Retries -> Nat]] /\ e \in sent
        /\ \A d \in Events, q \in Retries : queue'[d][q] > 0 => queue[d][q] > 0
    BY <1>0, <2>2 DEF TypeOK, HandInv
  <2>4. hand' \in [Nodes -> Delivery \cup {Nothing}] /\ stage' \in [Nodes -> Stages]
    BY <1>0, <2>1, <2>2 DEF TypeOK, Stages
  <2>5. TypeOK'
    BY <1>0, <1>3, <2>3, <2>4 DEF Deliver, TypeOK
  <2>6. HandInv'
    BY <1>0, <2>1, <2>2, <2>3 DEF HandInv, TypeOK
  <2> QED
    BY <2>5, <2>6 DEF Base
<1>4. ASSUME NEW n \in Nodes, Ack(n) PROVE Base'
  <2>1. TypeOK'
    BY <1>0, <1>4, ReleasedHand DEF Ack, TypeOK
  <2>2. HandInv'
    BY <1>0, <1>4, ReleasedHand DEF Ack, HandInv
  <2> QED
    BY <2>1, <2>2 DEF Base
<1>5. ASSUME NEW n \in Nodes, stage[n] \notin {"idle", "down"}, Failed(n), Fault,
             UNCHANGED <<redisVars, connVars, pushVars, ghosts>>,
             rows' \subseteq sent, unread' \subseteq rows', silent' \subseteq Nodes \X Events
      PROVE  Base'
  <2>1. /\ queue' \in [Events -> [Retries -> Nat]] /\ dead' \subseteq Events
        /\ sent' = sent /\ chOpen' = chOpen
        /\ \A e \in Events, r \in Retries : queue'[e][r] > 0 => e \in sent
    BY <1>5, FailedDelivery
  <2>2. /\ hand' \in [Nodes -> Delivery \cup {Nothing}] /\ stage' \in [Nodes -> Stages]
        /\ hand'[n] = Nothing /\ stage'[n] \in {"idle", "down"}
        /\ \A m \in Nodes \ {n} : hand'[m] = hand[m] /\ stage'[m] = stage[m]
    BY <1>5, ReleasedHand DEF Failed
  <2>3. TypeOK'
    BY <1>0, <1>5, <2>1, <2>2 DEF TypeOK, Fault
  <2>4. HandInv'
    BY <1>0, <2>1, <2>2 DEF HandInv
  <2> QED
    BY <2>3, <2>4 DEF Base
<1>6. ASSUME NEW n \in Nodes, Build(n) PROVE Base'
  <2>1. stage[n] = "build" /\ UNCHANGED <<redisVars, rowVars, connVars, pushVars, silent, ghosts>>
    BY <1>6 DEF Build
  <2>2. CASE Fault /\ Failed(n)
    BY <1>0, <1>5, <2>1, <2>2 DEF TypeOK
  <2>3. ASSUME stage' = [stage EXCEPT ![n] = IF Notified(hand[n].event) THEN "create" ELSE "ack"],
               UNCHANGED <<mqVars, hand, chOpen, faults>>
        PROVE  Base'
    <3>1. Goes(n, IF Notified(hand[n].event) THEN "create" ELSE "ack")
      BY <2>1, <2>3 DEF Goes, Stages
    <3> QED
      BY <1>0, <2>1, <2>3, <3>1, GoesHand DEF Base, TypeOK
  <2> QED
    BY <1>6, <2>2, <2>3 DEF Build
<1>7. ASSUME NEW n \in Nodes, Create(n) PROVE Base'
  <2>1. Goes(n, IF hand[n].event \in rows THEN "ack" ELSE "publish")
    BY <1>7 DEF Goes, Stages, Create
  <2>2. hand[n].event \in sent
    BY <1>0, <1>7, Held DEF Create
  <2> QED
    BY <1>0, <1>7, <2>1, <2>2, GoesHand DEF Base, TypeOK, Create
<1>8. ASSUME NEW n \in Nodes, CreateFails(n) PROVE Base'
  <2>1. stage[n] = "create" /\ Failed(n) /\ Fault /\ UNCHANGED <<redisVars, connVars, pushVars, ghosts>>
    BY <1>8 DEF CreateFails
  <2>2. hand[n].event \in sent /\ hand[n].event \in Events
    BY <1>0, <2>1, Held
  <2>3. rows' \subseteq sent /\ unread' \subseteq rows' /\ silent' \subseteq Nodes \X Events
    BY <1>0, <1>8, <2>2 DEF CreateFails, TypeOK
  <2> QED
    BY <1>5, <2>1, <2>3
<1>9. ASSUME NEW n \in Nodes, Publish(n) \/ PublishFails(n) \/ NoClient(n) PROVE Base'
  <2>1. stage[n] = "publish" /\ (Goes(n, "ack") \/ Goes(n, "push"))
    BY <1>9 DEF Publish, PublishFails, NoClient, Goes, Stages
  <2>2. hand[n].event \in Events
    BY <1>0, <2>1, Held
  <2>3. inbox' \in [Nodes -> [Events -> Nat]]
    BY <1>0, <1>9, <2>2, HeardType DEF Publish, PublishFails, NoClient, TypeOK
  <2>4. silent' \subseteq Nodes \X Events /\ ghosts' \subseteq Events /\ faults' \in Nat
    BY <1>0, <1>9, <2>2 DEF Publish, PublishFails, NoClient, TypeOK, Fault
  <2>5. UNCHANGED <<mqVars, hand, chOpen, cached, subscribed, rowVars, connVars, pushVars>>
    BY <1>9 DEF Publish, PublishFails, NoClient
  <2>6. HandInv' /\ stage' \in [Nodes -> Stages]
    BY <2>1, <2>5, GoesHand
  <2> QED
    BY <1>0, <2>3, <2>4, <2>5, <2>6 DEF Base, TypeOK
<1>10. ASSUME NEW n \in Nodes, PushLocal(n) PROVE Base'
  <2>1. Goes(n, "ack") /\ stage[n] = "push"
    BY <1>10 DEF PushLocal, Goes, Stages
  <2>2. hand[n].event \in Events /\ <<n, "worker">> \in Walkers
    BY <1>0, <2>1, Held DEF Walkers
  <2>3. walk' \in [Walkers -> Loop \cup {NoWalk}] /\ UNCHANGED <<got, full, shaken>>
    BY <1>0, <1>10, <2>2, BeginsWalk DEF PushLocal, Begins
  <2> QED
    BY <1>0, <1>10, <2>1, <2>3, GoesHand DEF PushLocal, Base, TypeOK
<1>11. ASSUME NEW n \in Nodes, NEW e \in Events, Hear(n, e) PROVE Base'
  <2>1. walk' \in [Walkers -> Loop \cup {NoWalk}] /\ UNCHANGED <<got, full, shaken>>
    <3>1. <<n, "subscriber">> \in Walkers
      BY DEF Walkers
    <3> QED
      BY <1>0, <1>11, <3>1, BeginsWalk DEF Hear, Begins
  <2>2. inbox' \in [Nodes -> [Events -> Nat]]
    BY <1>0, <1>11 DEF Hear, TypeOK
  <2> QED
    BY <1>0, <1>11, <2>1, <2>2 DEF Hear, Base, TypeOK, HandInv
<1>20. ASSUME NEW w \in Walkers, NEW c \in Conns, SendTo(w, c) \/ ChannelFull(w, c) \/ SendLoose(w, c)
       PROVE  Base'
  <2>1. c \in walk[w].todo /\ Passed(w, c)
    BY <1>20 DEF SendTo, ChannelFull, SendLoose
  <2>2. walk' \in [Walkers -> Loop \cup {NoWalk}] /\ walk[w].event \in Events
    BY <1>0, <2>1, PassedWalk
  <2>3. got' \in [Conns -> [Events -> Nat]]
    <3>1. \/ UNCHANGED got
          \/ \E d \in Conns : Sent(d, walk[w].event)
      BY <1>20 DEF SendTo, ChannelFull, SendLoose, Reached
    <3> QED
      BY <1>0, <2>2, <3>1, SentType DEF TypeOK
  <2>4. full' \subseteq Conns \X Events /\ shaken' \subseteq Conns \X Events /\ faults' \in Nat
    BY <1>0, <1>20, <2>2 DEF SendTo, ChannelFull, SendLoose, Reached, TypeOK, Fault
  <2>5. UNCHANGED <<mqVars, workVars, redisVars, rowVars, connVars, silent, ghosts>>
    BY <1>20 DEF SendTo, ChannelFull, SendLoose
  <2> QED
    BY <1>0, <2>2, <2>3, <2>4, <2>5 DEF Base, TypeOK, HandInv
<1>12. ASSUME NEW n \in Nodes, ChannelLost(n) PROVE Base'
  <2>1. /\ hand' = hand /\ sent' = sent
        /\ stage' = [stage EXCEPT ![n] = IF @ = "idle" THEN "down" ELSE @]
        /\ queue' = IF hand[n] = Nothing THEN queue ELSE Queued(hand[n])
    BY <1>12 DEF ChannelLost
  <2>2. /\ queue' \in [Events -> [Retries -> Nat]]
        /\ \A e \in Events, r \in Retries : queue'[e][r] > 0 => e \in sent
    <3>1. CASE hand[n] = Nothing
      BY <1>0, <2>1, <3>1 DEF TypeOK, HandInv
    <3>2. CASE hand[n] # Nothing
      <4>1. hand[n] \in Delivery /\ hand[n].event \in sent
        BY <1>0, <3>2, Held
      <4> QED
        BY <1>0, <2>1, <3>2, <4>1, OneMore DEF HandInv
    <3> QED
      BY <3>1, <3>2
  <2>3. stage' \in [Nodes -> Stages] /\ \A m \in Nodes : stage'[m] \in {"idle", "down"} <=> stage[m] \in {"idle", "down"}
    BY <1>0, <2>1 DEF TypeOK, Stages
  <2>4. chOpen' \in [Nodes -> BOOLEAN] /\ faults' \in Nat
    BY <1>0, <1>12 DEF ChannelLost, TypeOK, Fault
  <2>5. TypeOK'
    BY <1>0, <1>12, <2>2, <2>3, <2>4 DEF ChannelLost, TypeOK
  <2>6. HandInv'
    BY <1>0, <2>1, <2>2, <2>3 DEF HandInv
  <2> QED
    BY <2>5, <2>6 DEF Base
<1>13. ASSUME NEW n \in Nodes, SubscriptionLost(n) \/ Resubscribe(n) PROVE Base'
  BY <1>0, <1>13 DEF SubscriptionLost, Resubscribe, Fault, Base, TypeOK, HandInv
<1>14. ASSUME NEW c \in Conns, NEW n \in Nodes, Connect(c, n) PROVE Base'
  BY <1>0, <1>14 DEF Connect, Base, TypeOK, HandInv
<1>15. ASSUME NEW c \in Conns, Disconnect(c) PROVE Base'
  <2>1. \A w \in Beside(c) : w \in Walkers /\ walk[w] \in Loop
    BY <1>0 DEF Beside, TypeOK
  <2>2. walk' \in [Walkers -> Loop \cup {NoWalk}]
    <3>1. \A l \in Loop : [l EXCEPT !.loose = TRUE] \in Loop
      BY DEF Loop
    <3> QED
      BY <1>0, <1>15, <2>1, <3>1 DEF Disconnect, TypeOK
  <2>3. shaken' \subseteq Conns \X Events
    <3>1. \A w \in Beside(c) : walk[w].todo \X {walk[w].event} \subseteq Conns \X Events
      BY <2>1 DEF Loop
    <3> QED
      BY <1>0, <1>15, <3>1 DEF Disconnect, TypeOK
  <2> QED
    BY <1>0, <1>15, <2>2, <2>3 DEF Disconnect, Base, TypeOK, HandInv
<1>16. ASSUME NEW u, MarkRead(u) PROVE Base'
  BY <1>0, <1>16 DEF MarkRead, Base, TypeOK, HandInv
<1>17. ASSUME NEW n \in Nodes, Crash(n) \/ Panic(n) PROVE Base'
  <2>0. Dies(n) /\ faults' \in Nat
    BY <1>0, <1>17 DEF Crash, Panic, Fault, TypeOK
  <2>1. PICK up \in BOOLEAN : /\ stage' = [stage EXCEPT ![n] = IF up THEN "idle" ELSE "down"]
                             /\ chOpen' = [chOpen EXCEPT ![n] = up]
    BY <2>0 DEF Dies
  <2>2. PICK redis \in BOOLEAN : /\ cached' = [cached EXCEPT ![n] = redis]
                                /\ subscribed' = IF redis THEN subscribed \cup {n} ELSE subscribed \ {n}
    BY <2>0 DEF Dies
  <2>3. /\ queue' = IF hand[n] # Nothing /\ chOpen[n] THEN Queued(hand[n]) ELSE queue
        /\ hand' = [hand EXCEPT ![n] = Nothing] /\ sent' = sent
    BY <2>0 DEF Dies
  <2>4. /\ queue' \in [Events -> [Retries -> Nat]]
        /\ \A e \in Events, r \in Retries : queue'[e][r] > 0 => e \in sent
    <3>1. CASE ~(hand[n] # Nothing /\ chOpen[n])
      BY <1>0, <2>3, <3>1 DEF TypeOK, HandInv
    <3>2. CASE hand[n] # Nothing /\ chOpen[n]
      <4>1. hand[n] \in Delivery /\ hand[n].event \in sent
        BY <1>0, <3>2, Held
      <4> QED
        BY <1>0, <2>3, <3>2, <4>1, OneMore DEF HandInv
    <3> QED
      BY <3>1, <3>2
  <2>5. stage' \in [Nodes -> Stages] /\ hand' \in [Nodes -> Delivery \cup {Nothing}]
    BY <1>0, <2>1, <2>3 DEF TypeOK, Stages
  <2>6. chOpen' \in [Nodes -> BOOLEAN]
    BY <1>0, <2>1 DEF TypeOK
  <2>7. cached' \in [Nodes -> BOOLEAN]
    BY <1>0, <2>2 DEF TypeOK
  <2>8. subscribed' \subseteq {m \in Nodes : cached'[m]}
    BY <1>0, <2>2 DEF TypeOK
  <2>9. silent' \subseteq Nodes \X Events
    <3>1. stage[n] \in {"publish", "push"} => hand[n].event \in Events
      BY <1>0, Held
    <3> QED
      BY <1>0, <2>0, <3>1 DEF Dies, TypeOK
  <2>10. /\ inbox' \in [Nodes -> [Events -> Nat]] /\ at' \in [Conns -> Nodes \cup {None, "closed"}]
         /\ walk' \in [Walkers -> Loop \cup {NoWalk}]
    BY <1>0, <2>0 DEF Dies, TypeOK
  <2>11. UNCHANGED <<sent, dead, rowVars, before, got, full, shaken, ghosts>>
    BY <2>0 DEF Dies
  <2>12. TypeOK'
    BY <1>0, <2>0, <2>4, <2>5, <2>6, <2>7, <2>8, <2>9, <2>10, <2>11 DEF TypeOK
  <2>13. HandInv'
    BY <1>0, <2>1, <2>3, <2>4 DEF HandInv, TypeOK
  <2> QED
    BY <2>12, <2>13 DEF Base
<1>18. CASE UNCHANGED vars
  BY <1>0, <1>18 DEF vars, Base, TypeOK, HandInv
<1> QED
  BY <1>1, <1>2, <1>3, <1>4, <1>6, <1>7, <1>8, <1>9, <1>10, <1>11, <1>12, <1>13, <1>14, <1>15,
     <1>16, <1>17, <1>18, <1>20
  DEF Next, Process

LEMMA BaseHolds == Spec => []Base
<1>1. Init => Base
  BY DEF Init, Base, TypeOK, HandInv, Stages, Retries
<1> QED
  BY <1>1, BaseStep, PTL DEF Spec

\* The queue, the workers, the tables and the connections stay within their
\* types; in particular only events that were sent get a row, and only rows are
\* unread.
THEOREM TypeCorrect == Spec => []TypeOK
<1>1. Base => TypeOK
  BY DEF Base
<1> QED
  BY <1>1, BaseHolds, PTL

-----------------------------------------------------------------------------
(* No notification is lost.                                                *)

\* Where event e is.
Waits(e) == \E r \in Retries : queue[e][r] > 0
IsHeld(e) == \E n \in Nodes : InHand(n, e) /\ chOpen[n]
Kept(e) == Waits(e) \/ IsHeld(e) \/ e \in rows \cup dead

\* A step of the worker of n leaves what others hold where it is.
LEMMA OthersKeep ==
    ASSUME Base, NEW n \in Nodes, NEW e, Kept(e), rows \subseteq rows', dead \subseteq dead',
           chOpen' = chOpen, \A r \in Retries : queue[e][r] > 0 => queue'[e][r] > 0,
           \A m \in Nodes \ {n} : hand'[m] = hand[m] /\ stage'[m] = stage[m],
           InHand(n, e) /\ chOpen[n] => Kept(e)'
    PROVE  Kept(e)'
<1>1. CASE Waits(e)
  BY <1>1 DEF Kept, Waits
<1>2. CASE IsHeld(e)
  <2>1. PICK m \in Nodes : InHand(m, e) /\ chOpen[m]
    BY <1>2 DEF IsHeld
  <2>2. CASE m = n
    BY <2>1, <2>2
  <2>3. CASE m # n
    BY <2>1, <2>3 DEF Kept, IsHeld, InHand
  <2> QED
    BY <2>2, <2>3
<1>3. CASE e \in rows \cup dead
  BY <1>3 DEF Kept
<1> QED
  BY <1>1, <1>2, <1>3 DEF Kept

\* The broker, the workers and the table pass an event on: it is queued, in hand,
\* stored or dead-lettered through lost channels, crashes and failed inserts.
THEOREM NothingForgotten == Spec => []NotificationKept
<1> USE DEF mqVars, workVars, redisVars, rowVars, connVars, pushVars, histVars
<1>1. Init => NotificationKept
  BY DEF Init, NotificationKept
<1>2. Base /\ NotificationKept /\ [Next]_vars => NotificationKept'
  <2> SUFFICES ASSUME Base, NotificationKept, [Next]_vars, NEW e \in sent', Notified(e)
               PROVE  Kept(e)'
    BY DEF NotificationKept, Kept, Waits, IsHeld
  <2>0. /\ TypeOK /\ HandInv /\ sent \subseteq Events
        /\ \A d \in Events, r \in Retries : queue[d][r] \in Nat
    BY DEF Base, TypeOK
  <2>1. e \in sent => Kept(e) /\ e \in Events
    BY <2>0 DEF NotificationKept, Kept, Waits, IsHeld
  <2>2. ASSUME NEW d \in Events, Send(d) PROVE Kept(e)'
    <3> DEFINE m == [event |-> d, retry |-> 0]
    <3>1. m \in Delivery /\ m.event = d /\ m.retry \in Retries
      BY DEF Delivery, Retries
    <3>2. queue' = Queued(m) /\ sent' = sent \cup {d} /\ UNCHANGED <<dead, workVars, rowVars>>
      BY <2>2 DEF Send
    <3> HIDE DEF m
    <3>3. CASE e = d
      BY <2>0, <3>1, <3>2, <3>3, OneMore DEF Kept, Waits
    <3>4. CASE e # d
      <4>1. e \in sent /\ \A r \in Retries : queue'[e][r] >= queue[e][r] /\ queue'[e][r] \in Nat
        BY <2>0, <2>1, <3>1, <3>2, <3>4, OneMore
      <4> QED
        BY <2>0, <2>1, <3>2, <4>1 DEF Kept, Waits, IsHeld, InHand
    <3> QED
      BY <3>3, <3>4
  <2>3. ASSUME NEW d \in Events, NEW k \in Retries, Echo(d, k) PROVE Kept(e)'
    <3> DEFINE m == [event |-> d, retry |-> k]
    <3>1. m \in Delivery
      BY DEF Delivery
    <3>2. queue' = Queued(m) /\ e \in sent /\ UNCHANGED <<dead, workVars, rowVars>>
      BY <2>3 DEF Echo
    <3>3. \A r \in Retries : queue'[e][r] >= queue[e][r] /\ queue'[e][r] \in Nat
      BY <2>0, <2>1, <3>1, <3>2, OneMore
    <3> QED
      BY <2>0, <2>1, <3>2, <3>3 DEF Kept, Waits, IsHeld, InHand
  <2>4. ASSUME NEW n \in Nodes, NEW d \in Events, NEW k \in Retries, Deliver(n, d, k) PROVE Kept(e)'
    <3>1. /\ hand' = [hand EXCEPT ![n] = [event |-> d, retry |-> k]]
          /\ stage' = [stage EXCEPT ![n] = "build"] /\ stage[n] = "idle"
          /\ queue' = [queue EXCEPT ![d][k] = @ - 1] /\ chOpen[n]
          /\ UNCHANGED <<sent, dead, chOpen, rowVars>>
      BY <2>4 DEF Deliver
    <3>2. CASE e = d
      <4>1. hand'[n].event = e /\ stage'[n] = "build"
        BY <2>0, <3>1, <3>2 DEF TypeOK
      <4> QED
        BY <3>1, <4>1 DEF Kept, IsHeld, InHand
    <3>3. CASE e # d
      <4>1. \A r \in Retries : queue'[e][r] = queue[e][r]
        BY <2>0, <2>1, <3>1, <3>3 DEF TypeOK
      <4>2. \A m \in Nodes \ {n} : hand'[m] = hand[m] /\ stage'[m] = stage[m]
        BY <2>0, <3>1 DEF TypeOK
      <4>3. ~InHand(n, e)
        BY <3>1 DEF InHand
      <4> QED
        BY <2>1, <3>1, <4>1, <4>2, <4>3, OthersKeep
    <3> QED
      BY <3>2, <3>3
  <2>5. ASSUME NEW n \in Nodes, stage[n] \notin {"idle", "down"}, Failed(n), rows \subseteq rows'
        PROVE  Kept(e)'
    <3>1. /\ dead \subseteq dead' /\ sent' = sent /\ chOpen' = chOpen
          /\ queue' \in [Events -> [Retries -> Nat]]
          /\ \A d \in Events, r \in Retries : queue'[d][r] >= queue[d][r]
          /\ chOpen[n] => \/ \E r \in Retries : queue'[hand[n].event][r] > 0
                          \/ hand[n].event \in dead'
      <4>1. stage[n] \notin {"idle", "down"} /\ Failed(n)
        BY <2>5
      <4> QED
        BY <4>1, FailedDelivery
    <3>2. \A m \in Nodes \ {n} : hand'[m] = hand[m] /\ stage'[m] = stage[m]
      BY <2>5, ReleasedHand DEF Failed
    <3>3. InHand(n, e) /\ chOpen[n] => Kept(e)'
      BY <3>1 DEF InHand, Kept, Waits
    <3>4. e \in Events /\ \A r \in Retries : queue[e][r] > 0 => queue'[e][r] > 0
      BY <2>0, <2>1, <3>1
    <3> QED
      BY <2>1, <2>5, <3>1, <3>2, <3>3, <3>4, OthersKeep
  <2>6. ASSUME NEW n \in Nodes, NEW next, Goes(n, next), UNCHANGED <<mqVars, chOpen>>, rows \subseteq rows',
               stage[n] = "build" => next = "create" \/ ~Notified(hand[n].event),
               stage[n] = "create" => hand[n].event \in rows'
        PROVE  Kept(e)'
    <3>1. \A m \in Nodes \ {n} : hand'[m] = hand[m] /\ stage'[m] = stage[m]
      BY <2>0, <2>6 DEF Goes, TypeOK
    <3>2. hand'[n] = hand[n] /\ stage'[n] = next
      BY <2>0, <2>6 DEF Goes, TypeOK
    <3>3. InHand(n, e) /\ chOpen[n] => Kept(e)'
      BY <2>6, <3>2 DEF InHand, Kept, IsHeld
    <3> QED
      BY <2>1, <2>6, <3>1, <3>3, OthersKeep
  <2>7. ASSUME NEW n \in Nodes, Build(n) PROVE Kept(e)'
    <3>1. stage[n] = "build" /\ rows' = rows
      BY <2>7 DEF Build
    <3>2. CASE Failed(n)
      BY <2>5, <3>1, <3>2
    <3>3. CASE ~Failed(n)
      <4>1. Goes(n, IF Notified(hand[n].event) THEN "create" ELSE "ack") /\ UNCHANGED <<mqVars, chOpen>>
        BY <2>7, <3>1, <3>3 DEF Build, Goes, Stages
      <4> QED
        BY <2>6, <3>1, <4>1
    <3> QED
      BY <3>2, <3>3
  <2>8. ASSUME NEW n \in Nodes, Create(n) PROVE Kept(e)'
    <3>1. Goes(n, IF hand[n].event \in rows THEN "ack" ELSE "publish") /\ UNCHANGED <<mqVars, chOpen>>
      BY <2>8 DEF Goes, Stages, Create
    <3>2. stage[n] = "create" /\ rows' = rows \cup {hand[n].event}
      BY <2>8 DEF Create
    <3> QED
      BY <2>6, <3>1, <3>2
  <2>9. ASSUME NEW n \in Nodes, CreateFails(n) PROVE Kept(e)'
    BY <2>5, <2>9 DEF CreateFails
  <2>10. ASSUME NEW n \in Nodes, Publish(n) \/ PublishFails(n) \/ NoClient(n) \/ PushLocal(n) PROVE Kept(e)'
    <3>1. /\ Goes(n, "ack") \/ Goes(n, "push")
          /\ UNCHANGED <<mqVars, chOpen, rows>> /\ stage[n] \in {"publish", "push"}
      BY <2>10 DEF Publish, PublishFails, NoClient, PushLocal, Goes, Stages
    <3> QED
      BY <2>6, <3>1
  <2>11. ASSUME NEW n \in Nodes, Ack(n) PROVE Kept(e)'
    <3>1. \A m \in Nodes \ {n} : hand'[m] = hand[m] /\ stage'[m] = stage[m]
      BY <2>11, ReleasedHand DEF Ack
    <3>2. ~InHand(n, e) /\ UNCHANGED <<mqVars, chOpen, rows>>
      BY <2>11 DEF Ack, InHand
    <3> QED
      BY <2>1, <3>1, <3>2, OthersKeep
  <2>12. ASSUME UNCHANGED <<mqVars, workVars, rows>> PROVE Kept(e)'
    BY <2>1, <2>12 DEF Kept, Waits, IsHeld, InHand
  <2>13. ASSUME NEW n \in Nodes, ChannelLost(n) \/ Dies(n) PROVE Kept(e)'
    <3>1. /\ IF chOpen[n] /\ hand[n] # Nothing THEN queue' = Queued(hand[n]) ELSE queue' = queue
          /\ sent' = sent /\ dead' = dead /\ rows' = rows
      BY <2>13 DEF ChannelLost, Dies
    <3>2. \A m \in Nodes \ {n} : hand'[m] = hand[m] /\ stage'[m] = stage[m] /\ chOpen'[m] = chOpen[m]
      BY <2>0, <2>13 DEF ChannelLost, Dies, TypeOK
    <3>3. \A r \in Retries : queue[e][r] > 0 => queue'[e][r] > 0
      <4>1. CASE chOpen[n] /\ hand[n] # Nothing
        <5>1. hand[n] \in Delivery
          BY <2>0, <4>1 DEF TypeOK
        <5>2. \A r \in Retries : queue'[e][r] >= queue[e][r] /\ queue'[e][r] \in Nat
          BY <2>0, <2>1, <3>1, <4>1, <5>1, OneMore
        <5> QED
          BY <2>0, <2>1, <3>1, <5>2
      <4>2. CASE ~(chOpen[n] /\ hand[n] # Nothing)
        BY <3>1, <4>2
      <4> QED
        BY <4>1, <4>2
    <3>4. InHand(n, e) /\ chOpen[n] => Kept(e)'
      <4> SUFFICES ASSUME InHand(n, e), chOpen[n] PROVE Waits(e)'
        BY DEF Kept
      <4>1. hand[n] \in Delivery /\ hand[n] # Nothing /\ hand[n].retry \in Retries
        BY <2>0, Held DEF InHand
      <4> QED
        BY <2>0, <3>1, <4>1, OneMore DEF InHand, Waits
    <3>5. CASE Waits(e)
      BY <3>3, <3>5 DEF Kept, Waits
    <3>6. CASE IsHeld(e)
      BY <3>2, <3>4, <3>6 DEF Kept, IsHeld, InHand
    <3>7. CASE e \in rows \cup dead
      BY <3>1, <3>7 DEF Kept
    <3> QED
      BY <2>1, <3>1, <3>5, <3>6, <3>7 DEF Kept
  <2>14. ASSUME NEW n \in Nodes, SubscriptionLost(n) \/ Resubscribe(n) PROVE Kept(e)'
    BY <2>12, <2>14 DEF SubscriptionLost, Resubscribe
  <2>15. ASSUME NEW n \in Nodes, NEW d \in Events, Hear(n, d) PROVE Kept(e)'
    BY <2>12, <2>15 DEF Hear
  <2>16. ASSUME NEW c \in Conns, Disconnect(c) \/ \E n \in Nodes : Connect(c, n) PROVE Kept(e)'
    BY <2>12, <2>16 DEF Connect, Disconnect
  <2>17. ASSUME NEW u, MarkRead(u) PROVE Kept(e)'
    BY <2>12, <2>17 DEF MarkRead
  <2>18. CASE UNCHANGED vars
    BY <2>12, <2>18 DEF vars
  <2>19. ASSUME NEW w, NEW c, SendTo(w, c) \/ ChannelFull(w, c) \/ SendLoose(w, c) PROVE Kept(e)'
    BY <2>12, <2>19 DEF SendTo, ChannelFull, SendLoose
  <2>20. ASSUME NEW n \in Nodes, Crash(n) \/ Panic(n) PROVE Kept(e)'
    BY <2>13, <2>20 DEF Crash, Panic
  <2> QED
    BY <2>2, <2>3, <2>4, <2>7, <2>8, <2>9, <2>10, <2>11, <2>13, <2>14, <2>15, <2>16, <2>17, <2>18,
       <2>19, <2>20
    DEF Next, Process
<1> QED
  BY <1>1, <1>2, BaseHolds, PTL DEF Spec

-----------------------------------------------------------------------------
(* What was read stays read.                                               *)

\* The insert of an event that has a row already changes nothing, so a late
\* redelivery does not make a notification unread again.
THEOREM ReadForGood == Spec => ReadStaysRead
<1> USE DEF mqVars, workVars, redisVars, rowVars, connVars, pushVars, histVars
<1>1. [Next]_vars => [rows \ unread \subseteq rows' \ unread']_vars
  <2> SUFFICES ASSUME Next PROVE rows \ unread \subseteq rows' \ unread'
    OBVIOUS
  <2>1. /\ rows \subseteq rows'
        /\ unread' \subseteq unread \cup (rows' \ rows)
    BY DEF Next, Process, Send, Echo, Deliver, Ack, Build, Create, CreateFails, Publish,
       PublishFails,
           NoClient, PushLocal, Hear, ChannelLost, SubscriptionLost, Resubscribe, Crash, Panic, Dies,
           Connect, Disconnect, SendTo, ChannelFull, SendLoose, MarkRead
  <2> QED
    BY <2>1
<1> QED
  BY <1>1, PTL DEF Spec, ReadStaysRead

-----------------------------------------------------------------------------
(* No notification is sent twice.                                          *)

\* What a loop has before it stays right while clients come and go.
LEMMA WalkStep ==
    ASSUME Base, Base', WalkInv, [Next]_vars
    PROVE  WalkInv'
<1> USE DEF mqVars, workVars, redisVars, rowVars, connVars, pushVars, histVars
<1>0. /\ TypeOK /\ TypeOK' /\ HandInv
      /\ \A w \in Walkers : w[1] \in Nodes /\ walk[w] \in Loop \cup {NoWalk} /\ walk[w].todo \subseteq Conns
      /\ NoWalk.todo = {}
  BY DEF Base, TypeOK, Walkers, Loop, NoWalk
<1>1. UNCHANGED <<walk, at, shaken>> => WalkInv'
  BY DEF WalkInv
<1>2. ASSUME NEW w \in Walkers, NEW e \in Events, Begins(w, e), UNCHANGED at PROVE WalkInv'
  <2>1. /\ walk[w] = NoWalk /\ UNCHANGED shaken
        /\ \A v \in Walkers \ {w} : walk'[v] = walk[v]
        /\ walk'[w].todo = Reached(w[1], e)
        /\ \/ walk'[w] = NoWalk
           \/ walk'[w].event = e /\ walk'[w].todo # {} /\ ~walk'[w].loose
    BY <1>0, <1>2, BeginsWalk DEF Begins
  <2>2. \A c \in Reached(w[1], e) : at[c] = w[1] /\ Owner[c] = Recipient[e]
    BY DEF Reached
  <2> QED
    BY <1>0, <1>2, <2>1, <2>2 DEF WalkInv
<1>3. ASSUME NEW n \in Nodes, PushLocal(n) PROVE WalkInv'
  <2>1. stage[n] = "push" /\ Begins(<<n, "worker">>, hand[n].event) /\ UNCHANGED at
    BY <1>3 DEF PushLocal
  <2>2. hand[n].event \in Events /\ <<n, "worker">> \in Walkers
    BY <1>0, <2>1, Held DEF Walkers
  <2> QED
    BY <1>2, <2>1, <2>2
<1>4. ASSUME NEW n \in Nodes, NEW e \in Events, Hear(n, e) PROVE WalkInv'
  <2>1. Begins(<<n, "subscriber">>, e) /\ UNCHANGED at /\ <<n, "subscriber">> \in Walkers
    BY <1>4 DEF Hear, Walkers
  <2> QED
    BY <1>2, <2>1
<1>5. ASSUME NEW w \in Walkers, NEW c \in Conns, SendTo(w, c) \/ ChannelFull(w, c) \/ SendLoose(w, c)
      PROVE  WalkInv'
  <2>1. c \in walk[w].todo /\ Passed(w, c) /\ UNCHANGED at /\ shaken \subseteq shaken'
    BY <1>5 DEF SendTo, ChannelFull, SendLoose
  <2>2. /\ \A v \in Walkers \ {w} : walk'[v] = walk[v]
        /\ walk'[w].todo = walk[w].todo \ {c} /\ walk[w].event \in Events
        /\ \/ walk'[w] = NoWalk
           \/ /\ walk'[w].event = walk[w].event /\ walk'[w].todo # {}
              /\ walk'[w].loose = walk[w].loose
    BY <1>0, <2>1, PassedWalk
  <2>3. ASSUME NEW v \in Walkers
        PROVE  /\ walk'[v] = NoWalk \/ (walk'[v].event \in Events /\ walk'[v].todo # {})
               /\ \A b \in walk'[v].todo :
                     /\ Owner[b] = Recipient[walk'[v].event] /\ at'[b] # None
                     /\ <<b, walk'[v].event>> \notin shaken' => at'[b] = v[1] /\ ~walk'[v].loose
    <3>1. CASE v # w
      BY <2>1, <2>2, <3>1 DEF WalkInv
    <3>2. CASE v = w /\ walk'[w] = NoWalk
      BY <1>0, <3>2
    <3>3. CASE v = w /\ walk'[w] # NoWalk
      BY <2>1, <2>2, <3>3 DEF WalkInv
    <3> QED
      BY <3>1, <3>2, <3>3
  <2> QED
    BY <2>3 DEF WalkInv
<1>6. ASSUME NEW c \in Conns, NEW n \in Nodes, Connect(c, n) PROVE WalkInv'
  <2>1. at[c] = None /\ UNCHANGED <<walk, shaken>> /\ at' = [at EXCEPT ![c] = n]
    BY <1>6 DEF Connect
  <2>2. \A b \in Conns : b # c => at'[b] = at[b]
    BY <1>0, <2>1 DEF TypeOK
  <2>3. \A w \in Walkers : c \notin walk[w].todo
    BY <2>1 DEF WalkInv
  <2> QED
    BY <1>0, <2>1, <2>2, <2>3 DEF WalkInv
<1>7. ASSUME NEW c \in Conns, Disconnect(c) PROVE WalkInv'
  <2>1. /\ at[c] \in Nodes /\ at' = [at EXCEPT ![c] = "closed"]
        /\ walk' = [w \in Walkers |-> IF w \in Beside(c) THEN [walk[w] EXCEPT !.loose = TRUE] ELSE walk[w]]
        /\ shaken' = shaken \cup UNION {walk[w].todo \X {walk[w].event} : w \in Beside(c)}
    BY <1>7 DEF Disconnect
  <2>2. /\ \A b \in Conns : b # c => at'[b] = at[b]
        /\ \A b \in Conns : at[b] # None => at'[b] # None
    BY <1>0, <2>1 DEF TypeOK
  <2>3. ASSUME NEW w \in Walkers
        PROVE  /\ walk'[w] = NoWalk \/ (walk'[w].event \in Events /\ walk'[w].todo # {})
               /\ \A b \in walk'[w].todo :
                     /\ Owner[b] = Recipient[walk'[w].event] /\ at'[b] # None
                     /\ <<b, walk'[w].event>> \notin shaken' => at'[b] = w[1] /\ ~walk'[w].loose
    <3>0. /\ walk[w] = NoWalk \/ (walk[w].event \in Events /\ walk[w].todo # {})
          /\ \A b \in walk[w].todo :
                /\ Owner[b] = Recipient[walk[w].event] /\ at[b] # None /\ b \in Conns
                /\ <<b, walk[w].event>> \notin shaken => at[b] = w[1] /\ ~walk[w].loose
      BY <1>0 DEF WalkInv
    <3>1. CASE w \in Beside(c)
      <4>1. walk[w] # NoWalk /\ walk[w] \in Loop /\ walk'[w] = [walk[w] EXCEPT !.loose = TRUE]
        BY <1>0, <2>1, <3>1 DEF Beside
      <4>2. walk'[w].event = walk[w].event /\ walk'[w].todo = walk[w].todo
        BY <4>1 DEF Loop
      <4>3. \A b \in walk[w].todo : <<b, walk[w].event>> \in shaken'
        BY <2>1, <3>1
      <4> QED
        BY <2>2, <3>0, <4>1, <4>2, <4>3
    <3>2. CASE w \notin Beside(c)
      <4>1. walk'[w] = walk[w] /\ shaken \subseteq shaken'
        BY <2>1, <3>2
      <4>2. ASSUME NEW b \in walk[w].todo, <<b, walk[w].event>> \notin shaken PROVE b # c
        <5>1. walk[w] # NoWalk /\ at[b] = w[1] /\ Owner[b] = Recipient[walk[w].event]
          BY <1>0, <3>0, <4>2
        <5> QED
          BY <3>2, <5>1 DEF Beside
      <4> QED
        BY <2>2, <3>0, <4>1, <4>2
    <3> QED
      BY <3>1, <3>2
  <2> QED
    BY <2>3 DEF WalkInv
<1>8. ASSUME NEW n \in Nodes, Crash(n) \/ Panic(n) PROVE WalkInv'
  <2>1. Dies(n)
    BY <1>8 DEF Crash, Panic
  <2>2. /\ \A c \in Conns : at'[c] = IF at[c] = n THEN "closed" ELSE at[c]
        /\ \A w \in Walkers : walk'[w] = IF w[1] = n THEN NoWalk ELSE walk[w]
        /\ shaken' = shaken
    BY <2>1 DEF Dies
  <2> QED
    BY <1>0, <2>2 DEF WalkInv
<1>9. ASSUME UNCHANGED <<connVars, pushVars>> PROVE WalkInv'
  BY <1>1, <1>9
<1>10. ASSUME NEW n \in Nodes,
              \/ Build(n) \/ Create(n) \/ CreateFails(n) \/ Publish(n) \/ PublishFails(n) \/ NoClient(n)
              \/ Ack(n) \/ ChannelLost(n) \/ SubscriptionLost(n) \/ Resubscribe(n)
       PROVE  WalkInv'
  BY <1>9, <1>10 DEF Build, Create, CreateFails, Publish, PublishFails, NoClient, Ack, ChannelLost,
     SubscriptionLost, Resubscribe
<1>11. ASSUME NEW e \in Events, Send(e) \/ MarkRead(Recipient[e])
              \/ \E r \in Retries : Echo(e, r) \/ \E n \in Nodes : Deliver(n, e, r)
       PROVE  WalkInv'
  BY <1>9, <1>11 DEF Send, MarkRead, Echo, Deliver
<1>12. CASE UNCHANGED vars
  BY <1>9, <1>12 DEF vars
<1> QED
  BY <1>3, <1>4, <1>5, <1>6, <1>7, <1>8, <1>10, <1>11, <1>12 DEF Next, Process

LEMMA WalksHold == Spec => []WalkInv
<1>1. Init => WalkInv
  BY DEF Init, WalkInv, NoWalk
<1>2. Base /\ Base' /\ WalkInv /\ [Next]_vars => WalkInv'
  BY WalkStep
<1> QED
  BY <1>1, <1>2, BaseHolds, PTL DEF Spec

\* What the counts of AnnounceInv are made of.
LEMMA Counts ==
    ASSUME TypeOK
    PROVE  /\ \A n \in Nodes, e \in Events : inbox[n][e] \in Nat
           /\ \A c \in Conns, e \in Events : got[c][e] \in Nat
           /\ \A n, e : Local(n, e) \in {0, 1}
           /\ \A e : Cap(e) \in {1, 2}
           /\ \A c \in Conns : at[c] \in Nodes \cup {None, "closed"}
           /\ \A w, c, e : Owes(w, c, e) \in {0, 1}
           /\ \A n, c, e : Load(n, c, e) \in 0 .. 2
BY DEF TypeOK, Local, Cap, Owes, Load

\* The loops of a process are its worker's and its subscriber's.
LEMMA TwoLoops ==
    ASSUME NEW n \in Nodes
    PROVE  <<n, "worker">> \in Walkers /\ <<n, "subscriber">> \in Walkers
BY DEF Walkers

\* No loop takes up an event or a connection.
Shrinks ==
    \A w \in Walkers : walk'[w].event \in {walk[w].event, None} /\ walk'[w].todo \subseteq walk[w].todo

LEMMA LoadShrinks ==
    ASSUME Shrinks, NEW n \in Nodes, NEW c, NEW e \in Events
    PROVE  Load(n, c, e)' <= Load(n, c, e)
<1>1. \A w \in Walkers : Owes(w, c, e)' <= Owes(w, c, e) /\ Owes(w, c, e) \in {0, 1} /\ Owes(w, c, e)' \in {0, 1}
  BY DEF Shrinks, Owes
<1> QED
  BY <1>1, TwoLoops DEF Load

\* No worker begins to announce an event, or to push one.
Fades ==
    \A n \in Nodes, e \in Events : \A s \in {"publish", "push"} :
        hand'[n].event = e /\ stage'[n] = s => hand[n].event = e /\ stage[n] = s

\* A step that ends announcements, loses broadcasts, opens or closes connections.
LEMMA FadesOnly ==
    ASSUME TypeOK, TypeOK', WalkInv, AnnounceInv, Fades, rows \subseteq rows', UNCHANGED <<got, ghosts>>,
           Shrinks, shaken \subseteq shaken',
           \A n \in Nodes, e \in Events : inbox'[n][e] <= inbox[n][e],
           \A c \in Conns : at'[c] \in {at[c], "closed"} \/ at[c] = None
    PROVE  AnnounceInv'
<1> SUFFICES ASSUME NEW e \in Events PROVE OneAnnounces(e)' /\ CapKept(e)'
  BY DEF AnnounceInv
<1>0. OneAnnounces(e) /\ CapKept(e)
  BY DEF AnnounceInv
<1>1. \A n \in Nodes : Announcing(n, e)' => Announcing(n, e)
  BY DEF Fades, Announcing
<1>2. /\ \A n \in Nodes : inbox[n][e] \in Nat /\ inbox'[n][e] \in Nat
      /\ \A n \in Nodes : Local(n, e) \in {0, 1} /\ Local(n, e)' \in {0, 1}
      /\ Cap(e) \in {1, 2} /\ \A c \in Conns : got[c][e] \in Nat
  BY Counts DEF TypeOK, Local
<1>3. Untold(e) => Untold(e)'
  <2> SUFFICES ASSUME Untold(e) PROVE \A n \in Nodes : inbox'[n][e] = 0
    BY DEF Untold, Shrinks
  <2> QED
    BY <1>2 DEF Untold
<1>4. OneAnnounces(e)'
  BY <1>0, <1>1, <1>3 DEF OneAnnounces, Fades
<1>5. Cap(e)' = Cap(e) /\ \A n \in Nodes : Local(n, e)' <= Local(n, e)
  BY DEF Cap, Local, Fades
<1>6. CapKept(e)'
  <2>1. \A n \in Nodes : inbox'[n][e] + Local(n, e)' <= Cap(e)'
    BY <1>0, <1>2, <1>5 DEF CapKept
  <2>2. ASSUME NEW c \in Conns, NEW n \in Nodes, at'[c] = n, <<c, e>> \notin shaken'
        PROVE  got'[c][e] + inbox'[n][e] + Local(n, e)' + Load(n, c, e)' <= Cap(e)'
    <3>0. Load(n, c, e)' <= Load(n, c, e) /\ Load(n, c, e) \in 0 .. 2 /\ Load(n, c, e)' \in 0 .. 2
      <4>1. Load(n, c, e)' <= Load(n, c, e)
        BY LoadShrinks
      <4>2. Load(n, c, e) \in 0 .. 2 /\ Load(n, c, e)' \in 0 .. 2
        BY DEF Load, Owes
      <4> QED
        BY <4>1, <4>2
    <3>1. CASE at[c] = None
      <4>1. got'[c][e] = 0
        BY <1>0, <3>1 DEF CapKept
      <4>2. \A w \in Walkers : c \notin walk[w].todo
        BY <3>1 DEF WalkInv
      <4>3. Load(n, c, e) = 0
        BY <4>2, TwoLoops DEF Load, Owes
      <4> QED
        BY <1>2, <2>1, <3>0, <4>1, <4>3
    <3>2. CASE at[c] = n
      <4>1. got[c][e] + inbox[n][e] + Local(n, e) + Load(n, c, e) <= Cap(e)
        BY <1>0, <2>2, <3>2 DEF CapKept
      <4> QED
        BY <1>2, <1>5, <3>0, <4>1
    <3> QED
      BY <2>2, <3>1, <3>2
  <2>3. \A c \in Conns : at'[c] = None => got'[c][e] = 0
    BY <1>0 DEF CapKept
  <2> QED
    BY <1>0, <1>5, <2>1, <2>2, <2>3 DEF CapKept
<1> QED
  BY <1>4, <1>6

\* The worker of n announces another event, or the same one further on; the
\* other workers are where they were.
LEMMA OthersAnnounce ==
    ASSUME Base, NEW n \in Nodes, NEW next, Goes(n, next), NEW e
    PROVE  /\ \A m \in Nodes \ {n} : /\ Announcing(m, e)' <=> Announcing(m, e)
                                    /\ Local(m, e)' = Local(m, e)
                                    /\ stage'[m] = stage[m] /\ hand'[m] = hand[m]
           /\ Announcing(n, e)' <=> hand[n].event = e /\ next \in {"publish", "push"}
           /\ Local(n, e)' = IF hand[n].event = e /\ next = "push" THEN 1 ELSE 0
           /\ stage'[n] = next /\ hand'[n] = hand[n]
BY DEF Base, TypeOK, Goes, Announcing, Local

\* The insert of a new row makes its worker the one that announces it.
LEMMA CreateAnnounces ==
    ASSUME Base, Base', WalkInv, AnnounceInv, NEW n \in Nodes, Create(n)
    PROVE  AnnounceInv'
<1> USE DEF mqVars, workVars, redisVars, rowVars, connVars, pushVars, histVars
<1> DEFINE d == hand[n].event
           next == IF d \in rows THEN "ack" ELSE "publish"
<1>1. /\ Goes(n, next) /\ stage[n] = "create" /\ rows' = rows \cup {d}
      /\ UNCHANGED <<inbox, got, ghosts, at, hand, walk, shaken>>
  BY DEF Create, Goes, Stages
<1>2. CASE d \in rows
  <2>1. Fades
    BY <1>1, <1>2 DEF Fades, Goes, Base, TypeOK
  <2>2. \A m \in Nodes, e \in Events : inbox'[m][e] <= inbox[m][e]
    BY <1>1 DEF Base, TypeOK
  <2> QED
    BY <1>1, <2>1, <2>2, FadesOnly DEF Base, Shrinks
<1>3. CASE d \notin rows
  <2> SUFFICES ASSUME NEW e \in Events PROVE OneAnnounces(e)' /\ CapKept(e)'
    BY DEF AnnounceInv
  <2>0. OneAnnounces(e) /\ CapKept(e) /\ TypeOK
    BY DEF AnnounceInv, Base
  <2>1. /\ \A m \in Nodes \ {n} : /\ Announcing(m, e)' <=> Announcing(m, e)
                                 /\ Local(m, e)' = Local(m, e)
                                 /\ stage'[m] = stage[m] /\ hand'[m] = hand[m]
        /\ Announcing(n, e)' <=> d = e /\ next \in {"publish", "push"}
        /\ Local(n, e)' = IF d = e /\ next = "push" THEN 1 ELSE 0
    BY <1>1, OthersAnnounce
  <2>2. ~Announcing(n, e) /\ Local(n, e) = 0 /\ Local(n, e)' = 0
    BY <1>1, <1>3, <2>1 DEF Announcing, Local
  <2>3. (Untold(e) => Untold(e)') /\ Cap(e)' = Cap(e) /\ \A m, c : Load(m, c, e)' = Load(m, c, e)
    BY <1>1 DEF Untold, Cap, Load, Owes
  <2>4. CapKept(e)'
    BY <1>1, <2>0, <2>1, <2>2, <2>3 DEF CapKept
  <2>5. OneAnnounces(e)'
    <3>1. CASE e = d
      BY <1>1, <1>3, <2>0, <2>1, <2>2, <2>3, <3>1 DEF OneAnnounces
    <3>2. CASE e # d
      <4>1. ~Announcing(n, e)' /\ hand'[n].event # e
        BY <1>1, <2>1, <3>2
      <4> QED
        BY <1>1, <2>0, <2>1, <2>3, <3>2, <4>1 DEF OneAnnounces
    <3> QED
      BY <3>1, <3>2
  <2> QED
    BY <2>4, <2>5
<1> QED
  BY <1>2, <1>3

\* A broadcast: what it adds, and the push that is left to its worker when it
\* reports an error, stay within the cap, for nobody was told before.
LEMMA Broadcast ==
    ASSUME Base, Base', AnnounceInv, NEW n \in Nodes, NEW next \in {"ack", "push"}, Goes(n, next),
           stage[n] = "publish", NEW d, d = hand[n].event, UNCHANGED <<rows, got, at, walk, shaken>>,
           \A m \in Nodes, e \in Events \ {d} : inbox'[m][e] = inbox[m][e],
           \A m \in Nodes : inbox'[m][d] <= inbox[m][d] + 1,
           \A e \in Events \ {d} : e \in ghosts' <=> e \in ghosts,
           next = "push" => d \in ghosts' \/ \A m \in Nodes : inbox'[m][d] = inbox[m][d]
    PROVE  AnnounceInv'
<1> SUFFICES ASSUME NEW e \in Events PROVE OneAnnounces(e)' /\ CapKept(e)'
  BY DEF AnnounceInv
<1>0. OneAnnounces(e) /\ CapKept(e) /\ TypeOK /\ TypeOK'
  BY DEF AnnounceInv, Base
<1>1. /\ \A m \in Nodes \ {n} : /\ Announcing(m, e)' <=> Announcing(m, e)
                               /\ Local(m, e)' = Local(m, e)
                               /\ stage'[m] = stage[m] /\ hand'[m] = hand[m]
      /\ Announcing(n, e)' <=> d = e /\ next \in {"publish", "push"}
      /\ Local(n, e)' = IF d = e /\ next = "push" THEN 1 ELSE 0
      /\ stage'[n] = next
  <2>1. /\ \A m \in Nodes \ {n} : /\ Announcing(m, e)' <=> Announcing(m, e)
                                 /\ Local(m, e)' = Local(m, e)
                                 /\ stage'[m] = stage[m] /\ hand'[m] = hand[m]
        /\ Announcing(n, e)' <=> hand[n].event = e /\ next \in {"publish", "push"}
        /\ Local(n, e)' = IF hand[n].event = e /\ next = "push" THEN 1 ELSE 0
        /\ stage'[n] = next
    BY ONLY Base, n \in Nodes, Goes(n, next) DEF Base, TypeOK, Goes, Announcing, Local
  <2> QED
    BY ONLY <2>1, d = hand[n].event
<1>2. /\ \A m \in Nodes : inbox[m][e] \in Nat /\ inbox'[m][e] \in Nat
      /\ \A m \in Nodes : Local(m, e) \in {0, 1} /\ Local(m, e)' \in {0, 1}
      /\ Cap(e) \in {1, 2} /\ Cap(e)' \in {1, 2} /\ \A c \in Conns : got[c][e] \in Nat
  BY <1>0, Counts DEF TypeOK, Local, Cap
<1>3. CASE e = d
  <2>1. Announcing(n, e) /\ e \in rows /\ Untold(e)
    BY <1>0, <1>3 DEF Announcing, OneAnnounces
  <2>2. \A m \in Nodes \ {n} : ~Announcing(m, e) /\ Local(m, e) = 0 /\ ~Announcing(m, e)'
    BY <1>0, <1>1, <2>1 DEF OneAnnounces, Announcing, Local
  <2>3. \A m \in Nodes : ~(hand'[m].event = e /\ stage'[m] = "publish")
    BY <1>1, <2>2 DEF Announcing
  <2>4. OneAnnounces(e)'
    BY <2>1, <2>2, <2>3 DEF OneAnnounces
  <2>5. \A m \in Nodes : inbox'[m][e] + Local(m, e)' <= Cap(e)'
    <3>1. \A m \in Nodes : inbox'[m][e] <= 1
      BY <1>3, <2>1 DEF Untold
    <3>2. CASE next = "push"
      <4>1. CASE d \in ghosts'
        BY <1>2, <1>3, <3>1, <4>1 DEF Cap
      <4>2. CASE \A m \in Nodes : inbox'[m][d] = inbox[m][d]
        BY <1>2, <1>3, <2>1, <4>2 DEF Untold
      <4> QED
        BY <3>2, <4>1, <4>2
    <3>3. CASE next # "push"
      <4>1. \A m \in Nodes : Local(m, e)' = 0
        BY <1>1, <2>2, <3>3
      <4> QED
        BY <1>2, <3>1, <4>1
    <3> QED
      BY <3>2, <3>3
  <2>6. \A c \in Conns : got'[c][e] = 0
    BY <2>1 DEF Untold
  <2>7. \A m \in Nodes, c \in Conns : Load(m, c, e)' = 0
    BY <2>1, TwoLoops DEF Untold, Load, Owes
  <2>8. CapKept(e)'
    BY <1>2, <2>5, <2>6, <2>7 DEF CapKept
  <2> QED
    BY <2>4, <2>8
<1>4. CASE e # d
  <2>1. /\ \A m \in Nodes : inbox'[m][e] = inbox[m][e]
        /\ Cap(e)' = Cap(e) /\ (Untold(e) => Untold(e)')
    BY <1>4 DEF Cap, Untold
  <2>2. \A m \in Nodes : Announcing(m, e)' <=> Announcing(m, e)
    BY <1>1, <1>4 DEF Announcing
  <2>3. /\ \A m \in Nodes : Local(m, e)' = Local(m, e)
        /\ \A m, c : Load(m, c, e)' = Load(m, c, e)
    BY <1>1, <1>4 DEF Local, Load, Owes
  <2>4. \A m \in Nodes : hand'[m].event = e /\ stage'[m] = "publish" => hand[m].event = e /\ stage[m] = "publish"
    BY <1>1, <1>4
  <2>5. OneAnnounces(e)'
    BY <1>0, <2>1, <2>2, <2>4 DEF OneAnnounces
  <2>6. CapKept(e)'
    BY <1>0, <2>1, <2>3 DEF CapKept
  <2> QED
    BY <2>5, <2>6
<1> QED
  BY <1>3, <1>4

\* What the sends before process n come to once a loop has begun in it.
LEMMA LoadBegins ==
    ASSUME TypeOK, NEW w \in Walkers, NEW d \in Events, Begins(w, d),
           NEW m \in Nodes, NEW c \in Conns, NEW e \in Events
    PROVE  Load(m, c, e)' = Load(m, c, e) + (IF m = w[1] /\ e = d /\ c \in Reached(m, d) THEN 1 ELSE 0)
<1>1. /\ walk[w] = NoWalk /\ \A v \in Walkers \ {w} : walk'[v] = walk[v]
      /\ walk'[w].todo = Reached(w[1], d)
      /\ walk'[w] = NoWalk \/ walk'[w].event = d
  BY BeginsWalk
<1>2. \A v \in Walkers \ {w} : Owes(v, c, e)' = Owes(v, c, e)
  BY <1>1 DEF Owes
<1>3. Owes(w, c, e) = 0 /\ Owes(w, c, e)' = IF e = d /\ c \in Reached(w[1], d) THEN 1 ELSE 0
  BY <1>1 DEF Owes, NoWalk
<1>4. /\ <<m, "worker">> \in Walkers /\ <<m, "subscriber">> \in Walkers
      /\ <<m, "worker">> # <<m, "subscriber">>
      /\ <<m, "worker">> = w \/ <<m, "subscriber">> = w <=> m = w[1]
  BY TwoLoops DEF Walkers
<1>5. \A v : Owes(v, c, e) \in {0, 1}
  BY DEF Owes
<1>6. CASE m # w[1]
  BY <1>2, <1>4, <1>5, <1>6 DEF Load
<1>7. CASE m = w[1]
  <2>1. CASE <<m, "worker">> = w
    BY <1>2, <1>3, <1>4, <1>5, <1>7, <2>1 DEF Load
  <2>2. CASE <<m, "subscriber">> = w
    BY <1>2, <1>3, <1>4, <1>5, <1>7, <2>2 DEF Load
  <2> QED
    BY <1>4, <1>7, <2>1, <2>2
<1> QED
  BY <1>6, <1>7

\* A push that was on its way to process n begins to walk its connections.
LEMMA Arrives ==
    ASSUME Base, Base', AnnounceInv, Fades, UNCHANGED <<rows, at, ghosts>>,
           NEW w \in Walkers, NEW n \in Nodes, n = w[1], NEW d \in rows, Begins(w, d),
           \A m \in Nodes : ~(hand[m].event = d /\ stage[m] = "publish"),
           \A m \in Nodes, e \in Events :
              /\ inbox'[m][e] <= inbox[m][e]
              /\ inbox'[m][e] + Local(m, e)' <=
                    inbox[m][e] + Local(m, e) - (IF m = n /\ e = d THEN 1 ELSE 0)
    PROVE  AnnounceInv'
<1> SUFFICES ASSUME NEW e \in Events PROVE OneAnnounces(e)' /\ CapKept(e)'
  BY DEF AnnounceInv
<1>0. /\ OneAnnounces(e) /\ CapKept(e) /\ TypeOK /\ TypeOK' /\ d \in Events
      /\ UNCHANGED <<got, shaken>>
  BY DEF AnnounceInv, Base, TypeOK, Begins
<1>1. \A m \in Nodes : Announcing(m, e)' => Announcing(m, e)
  BY DEF Fades, Announcing
<1>2. /\ \A m \in Nodes : inbox[m][e] \in Nat /\ inbox'[m][e] \in Nat
      /\ \A m \in Nodes : Local(m, e) \in {0, 1} /\ Local(m, e)' \in {0, 1}
      /\ Cap(e) \in {1, 2} /\ Cap(e)' = Cap(e)
      /\ \A c \in Conns : got[c][e] \in Nat
      /\ \A m, c : Load(m, c, e) \in 0 .. 2
  BY <1>0, Counts DEF TypeOK, Local, Cap
<1>3. \A m \in Nodes, c \in Conns :
         Load(m, c, e)' = Load(m, c, e) + (IF m = w[1] /\ e = d /\ c \in Reached(m, d) THEN 1 ELSE 0)
  BY <1>0, LoadBegins
<1>4. \A v \in Walkers : walk'[v] = walk[v] \/ walk'[v] = NoWalk \/ walk'[v].event = d
  BY <1>0, BeginsWalk
<1>5. e # d /\ Untold(e) => Untold(e)'
  <2> SUFFICES ASSUME e # d, Untold(e)
               PROVE  (\A m \in Nodes : inbox'[m][e] = 0) /\ \A v \in Walkers : walk'[v].event # e
    BY <1>0 DEF Untold
  <2> QED
    BY <1>2, <1>4 DEF Untold, NoWalk
<1>6. OneAnnounces(e)'
  <2>1. \A m \in Nodes : hand'[m].event = e /\ stage'[m] = "publish" => Untold(e) /\ e # d
    BY <1>0 DEF OneAnnounces, Fades
  <2> QED
    BY <1>0, <1>1, <1>5, <2>1 DEF OneAnnounces
<1>7. \A m \in Nodes : inbox'[m][e] + Local(m, e)' <= Cap(e)'
  <2> SUFFICES ASSUME NEW m \in Nodes PROVE inbox'[m][e] + Local(m, e)' <= Cap(e)
    BY <1>2
  <2>1. inbox[m][e] + Local(m, e) <= Cap(e)
    BY <1>0 DEF CapKept
  <2>2. inbox'[m][e] + Local(m, e)' <= inbox[m][e] + Local(m, e)
    BY <1>2
  <2> QED
    BY <1>2, <2>1, <2>2
<1>8. ASSUME NEW c \in Conns, NEW m \in Nodes, at[c] = m, <<c, e>> \notin shaken
      PROVE  got[c][e] + inbox'[m][e] + Local(m, e)' + Load(m, c, e)' <= Cap(e)
  <2>1. got[c][e] + inbox[m][e] + Local(m, e) + Load(m, c, e) <= Cap(e)
    BY <1>0, <1>8 DEF CapKept
  <2>2. Load(m, c, e)' <= Load(m, c, e) + (IF m = n /\ e = d THEN 1 ELSE 0)
    BY <1>2, <1>3
  <2>3. Load(m, c, e)' \in Int
    BY <1>2, <1>3
  <2> QED
    BY <1>2, <2>1, <2>2, <2>3
<1>9. CapKept(e)'
  BY <1>0, <1>2, <1>7, <1>8 DEF CapKept
<1> QED
  BY <1>6, <1>9

\* A loop sends to the connection of the slot it reads, or to one that it might
\* have come to twice or not at all.
LEMMA SendCounted ==
    ASSUME Base, Base', WalkInv, AnnounceInv, UNCHANGED <<rows, at, ghosts, inbox, hand, stage>>,
           NEW w \in Walkers, NEW b \in walk[w].todo, Passed(w, b),
           NEW d \in Conns, Sent(d, walk[w].event), at[d] # None, shaken \subseteq shaken',
           d = b \/ <<d, walk[w].event>> \in shaken'
    PROVE  AnnounceInv'
<1> SUFFICES ASSUME NEW e \in Events PROVE OneAnnounces(e)' /\ CapKept(e)'
  BY DEF AnnounceInv
<1> DEFINE f == walk[w].event
<1>0. OneAnnounces(e) /\ CapKept(e) /\ TypeOK /\ TypeOK'
  BY DEF AnnounceInv, Base
<1>1. /\ \A v \in Walkers \ {w} : walk'[v] = walk[v]
      /\ walk'[w].todo = walk[w].todo \ {b} /\ f \in Events /\ b \in Conns
      /\ walk'[w] = NoWalk \/ walk'[w].event = f
  BY <1>0, PassedWalk
<1>2. Shrinks
  BY <1>1 DEF Shrinks, NoWalk
<1>3. \A c \in Conns : got'[c][e] = got[c][e] + (IF c = d /\ e = f THEN 1 ELSE 0)
  BY <1>0, <1>1, SentType
<1>4. /\ \A m \in Nodes : inbox[m][e] \in Nat /\ Local(m, e) \in {0, 1}
      /\ Cap(e) \in {1, 2} /\ \A c \in Conns : got[c][e] \in Nat
      /\ \A m, c : Load(m, c, e) \in 0 .. 2 /\ Load(m, c, e)' \in 0 .. 2
  BY <1>0, Counts DEF Load, Owes
<1>5. /\ Cap(e)' = Cap(e) /\ \A m : Local(m, e)' = Local(m, e)
      /\ \A m : Announcing(m, e)' <=> Announcing(m, e)
  BY DEF Cap, Local, Announcing
<1>6. Untold(e) => e # f /\ Untold(e)'
  <2> SUFFICES ASSUME Untold(e) PROVE e # f /\ Untold(e)'
    OBVIOUS
  <2>1. e # f
    BY DEF Untold
  <2>2. \A c \in Conns : got'[c][e] = 0
    BY <1>3, <1>4, <2>1 DEF Untold
  <2> QED
    BY <1>2, <2>1, <2>2 DEF Untold, Shrinks
<1>7. OneAnnounces(e)'
  BY <1>0, <1>5, <1>6 DEF OneAnnounces
<1>8. ASSUME <<d, e>> \notin shaken', e = f PROVE d = b /\ at[d] = w[1] /\ w[1] \in Nodes
  <2>1. d = b /\ <<b, f>> \notin shaken
    BY <1>8
  <2> QED
    BY <2>1 DEF WalkInv, Walkers
<1>9. ASSUME NEW c \in Conns, NEW m \in Nodes, at[c] = m, <<c, e>> \notin shaken'
      PROVE  got'[c][e] + inbox[m][e] + Local(m, e) + Load(m, c, e)' <= Cap(e)
  <2>1. got[c][e] + inbox[m][e] + Local(m, e) + Load(m, c, e) <= Cap(e)
    BY <1>0, <1>9 DEF CapKept
  <2>2. Load(m, c, e)' <= Load(m, c, e)
    BY <1>2, LoadShrinks
  <2>3. CASE c = d /\ e = f
    <3>1. d = b /\ m = w[1]
      BY <1>8, <1>9, <2>3
    <3>2. Owes(w, c, e) = 1 /\ Owes(w, c, e)' = 0
      BY <1>1, <2>3, <3>1 DEF Owes
    <3>3. \A v \in Walkers : Owes(v, c, e)' <= Owes(v, c, e) /\ Owes(v, c, e) \in {0, 1} /\ Owes(v, c, e)' \in {0, 1}
      BY <1>2 DEF Shrinks, Owes
    <3>4. w = <<m, "worker">> \/ w = <<m, "subscriber">>
      BY <3>1 DEF Walkers
    <3>5. Load(m, c, e)' <= Load(m, c, e) - 1
      BY <3>2, <3>3, <3>4, TwoLoops DEF Load
    <3> QED
      BY <1>3, <1>4, <2>1, <2>3, <3>5
  <2>4. CASE ~(c = d /\ e = f)
    <3>1. got'[c][e] = got[c][e]
      BY <1>3, <1>4, <2>4
    <3> QED
      BY <1>4, <2>1, <2>2, <3>1
  <2> QED
    BY <2>3, <2>4
<1>10. ASSUME NEW c \in Conns, <<c, e>> \notin shaken' PROVE got'[c][e] <= Cap(e)
  <2>1. CASE c = d /\ e = f
    <3>1. at[c] = w[1] /\ w[1] \in Nodes
      BY <1>8, <1>10, <2>1
    <3>2. got'[c][e] + inbox[w[1]][e] + Local(w[1], e) + Load(w[1], c, e)' <= Cap(e)
      BY <1>9, <1>10, <3>1
    <3>3. got'[c][e] \in Nat
      BY <1>3, <1>4
    <3> QED
      BY <1>4, <3>1, <3>2, <3>3
  <2>2. CASE ~(c = d /\ e = f)
    BY <1>0, <1>3, <1>4, <1>10, <2>2 DEF CapKept
  <2> QED
    BY <2>1, <2>2
<1>11. \A c \in Conns : at[c] = None => got'[c][e] = 0
  BY <1>0, <1>3, <1>4 DEF CapKept
<1>12. CapKept(e)'
  BY <1>0, <1>5, <1>9, <1>10, <1>11 DEF CapKept
<1> QED
  BY <1>7, <1>12

LEMMA AnnounceStep ==
    ASSUME Base, Base', WalkInv, AnnounceInv, [Next]_vars
    PROVE  AnnounceInv'
<1> USE DEF mqVars, workVars, redisVars, rowVars, connVars, pushVars, histVars
<1>0. TypeOK /\ TypeOK' /\ HandInv /\ \A n \in Nodes, e \in Events : inbox[n][e] \in Nat
  BY Counts DEF Base
<1>1. ASSUME Fades, rows \subseteq rows', UNCHANGED <<inbox, ghosts, connVars, pushVars>> PROVE AnnounceInv'
  BY <1>0, <1>1, FadesOnly DEF Shrinks
<1>2. UNCHANGED <<hand, stage>> => Fades
  BY DEF Fades
<1>3. ASSUME NEW n \in Nodes, \A m \in Nodes \ {n} : hand'[m] = hand[m] /\ stage'[m] = stage[m],
             stage'[n] \notin {"publish", "push"}
      PROVE  Fades
  BY <1>3 DEF Fades
<1>4. ASSUME NEW e \in Events, Send(e) \/ \E r \in Retries : Echo(e, r) PROVE AnnounceInv'
  BY <1>1, <1>2, <1>4 DEF Send, Echo
<1>5. ASSUME NEW n \in Nodes, NEW e \in Events, NEW r \in Retries, Deliver(n, e, r) PROVE AnnounceInv'
  <2>1. Fades
    BY <1>0, <1>3, <1>5 DEF Deliver, TypeOK
  <2> QED
    BY <1>1, <1>5, <2>1 DEF Deliver
<1>6. ASSUME NEW n \in Nodes, Released(n) PROVE Fades
  <2>1. /\ hand'[n] = Nothing /\ stage'[n] \in {"idle", "down"}
        /\ \A m \in Nodes \ {n} : hand'[m] = hand[m] /\ stage'[m] = stage[m]
    BY <1>6, ReleasedHand
  <2> QED
    BY <1>3, <2>1
<1>7. ASSUME NEW n \in Nodes, Ack(n) PROVE AnnounceInv'
  BY <1>1, <1>6, <1>7 DEF Ack
<1>8. ASSUME NEW n \in Nodes, Build(n) PROVE AnnounceInv'
  <2>1. Fades
    <3>1. CASE Failed(n)
      BY <1>6, <3>1 DEF Failed
    <3>2. CASE ~Failed(n)
      BY <1>0, <1>3, <1>8, <3>2 DEF Build, TypeOK
    <3> QED
      BY <3>1, <3>2
  <2> QED
    BY <1>1, <1>8, <2>1 DEF Build
<1>9. ASSUME NEW n \in Nodes, CreateFails(n) PROVE AnnounceInv'
  <2>1. Fades
    BY <1>6, <1>9 DEF CreateFails, Failed
  <2> QED
    BY <1>1, <1>9, <2>1 DEF CreateFails
<1>10. ASSUME NEW n \in Nodes, Publish(n) \/ PublishFails(n) \/ NoClient(n) PROVE AnnounceInv'
  <2> DEFINE d == hand[n].event
  <2>1. stage[n] = "publish" /\ UNCHANGED <<rows, got, at, walk, shaken>>
    BY <1>10 DEF Publish, PublishFails, NoClient
  <2>2. d \in Events
    BY <1>0, <2>1, Held
  <2> HIDE DEF d
  <2>3. ASSUME inbox' = Heard(d)
        PROVE  /\ \A m \in Nodes, e \in Events \ {d} : inbox'[m][e] = inbox[m][e]
               /\ \A m \in Nodes : inbox'[m][d] <= inbox[m][d] + 1
    <3>1. \A m \in Nodes, e \in Events :
             inbox'[m][e] = inbox[m][e] + (IF m \in subscribed /\ e = d THEN 1 ELSE 0)
      BY <1>0, <2>2, <2>3, HeardType
    <3> QED
      BY <1>0, <2>2, <3>1
  <2>4. CASE Publish(n)
    <3>1. Goes(n, "ack") /\ inbox' = Heard(d) /\ ghosts' = ghosts
      BY <2>4 DEF Publish, Goes, Stages, d
    <3> QED
      BY <2>1, <2>3, <3>1, Broadcast DEF d
  <2>5. CASE PublishFails(n)
    <3>1. Goes(n, "push")
      BY <2>5 DEF PublishFails, Goes, Stages
    <3>2. \/ inbox' = Heard(d) /\ ghosts' = ghosts \cup {d}
          \/ UNCHANGED <<inbox, ghosts>>
      BY <2>5 DEF PublishFails, d
    <3>3. CASE inbox' = Heard(d) /\ ghosts' = ghosts \cup {d}
      BY <2>1, <2>3, <3>1, <3>3, Broadcast DEF d
    <3>4. CASE UNCHANGED <<inbox, ghosts>>
      <4>1. \A m \in Nodes : inbox'[m][d] <= inbox[m][d] + 1
        BY <1>0, <2>2, <3>4
      <4> QED
        BY <2>1, <3>1, <3>4, <4>1, Broadcast DEF d
    <3> QED
      BY <3>2, <3>3, <3>4
  <2>6. CASE NoClient(n)
    <3>1. Goes(n, "push") /\ UNCHANGED <<inbox, ghosts>>
      BY <2>6 DEF NoClient, Goes, Stages
    <3>2. \A m \in Nodes : inbox'[m][d] <= inbox[m][d] + 1
      BY <1>0, <2>2, <3>1
    <3> QED
      BY <2>1, <3>1, <3>2, Broadcast DEF d
  <2> QED
    BY <1>10, <2>4, <2>5, <2>6
<1>11. ASSUME NEW n \in Nodes, PushLocal(n) PROVE AnnounceInv'
  <2> DEFINE d == hand[n].event
  <2> DEFINE w == <<n, "worker">>
  <2>0. w \in Walkers /\ w[1] = n
    BY DEF Walkers
  <2>1. stage[n] = "push" /\ Goes(n, "ack") /\ UNCHANGED <<rows, at, ghosts, inbox>> /\ Begins(w, d)
    BY <1>11 DEF PushLocal, Goes, Stages
  <2>2. d \in Events
    BY <1>0, <2>1, Held
  <2> HIDE DEF d, w
  <2>3. Announcing(n, d) /\ OneAnnounces(d)
    BY <2>1, <2>2 DEF Announcing, AnnounceInv, d
  <2>4. d \in rows /\ \A m \in Nodes : ~(hand[m].event = d /\ stage[m] = "publish")
    BY <2>1, <2>3 DEF OneAnnounces, Announcing
  <2>5. Fades
    BY <1>0, <1>3, <2>1 DEF Goes, TypeOK
  <2>6. ASSUME NEW m \in Nodes, NEW e \in Events
        PROVE  Local(m, e)' = Local(m, e) - (IF m = n /\ e = d THEN 1 ELSE 0)
    BY <2>1, OthersAnnounce DEF Local, d
  <2>7. \A m \in Nodes, e \in Events :
              /\ inbox'[m][e] <= inbox[m][e]
              /\ inbox'[m][e] + Local(m, e)' <=
                    inbox[m][e] + Local(m, e) - (IF m = n /\ e = d THEN 1 ELSE 0)
    BY <1>0, <2>1, <2>6, Counts
  <2> QED
    BY <2>0, <2>1, <2>4, <2>5, <2>7, Arrives
<1>12. ASSUME NEW n \in Nodes, NEW d \in Events, Hear(n, d) PROVE AnnounceInv'
  <2> DEFINE w == <<n, "subscriber">>
  <2>0. w \in Walkers /\ w[1] = n
    BY DEF Walkers
  <2>1. /\ inbox[n][d] > 0 /\ inbox' = [inbox EXCEPT ![n][d] = @ - 1] /\ Begins(w, d)
        /\ UNCHANGED <<hand, stage, rows, at, ghosts>>
    BY <1>12 DEF Hear
  <2> HIDE DEF w
  <2>2. ~Untold(d) /\ OneAnnounces(d)
    BY <2>1 DEF Untold, AnnounceInv
  <2>3. d \in rows /\ \A m \in Nodes : ~(hand[m].event = d /\ stage[m] = "publish")
    BY <2>2 DEF OneAnnounces
  <2>4. \A m \in Nodes, e \in Events :
           inbox'[m][e] = inbox[m][e] - (IF m = n /\ e = d THEN 1 ELSE 0)
    BY <1>0, <2>1 DEF TypeOK
  <2>5. \A m \in Nodes, e \in Events : Local(m, e)' = Local(m, e)
    BY <2>1 DEF Local
  <2>6. \A m \in Nodes, e \in Events :
              /\ inbox'[m][e] <= inbox[m][e]
              /\ inbox'[m][e] + Local(m, e)' <=
                    inbox[m][e] + Local(m, e) - (IF m = n /\ e = d THEN 1 ELSE 0)
    BY <1>0, <2>4, <2>5, Counts
  <2> QED
    BY <1>2, <2>0, <2>1, <2>3, <2>6, Arrives
<1>13. ASSUME NEW n \in Nodes, ChannelLost(n) PROVE AnnounceInv'
  <2>1. Fades
    BY <1>0, <1>13 DEF ChannelLost, Fades, TypeOK
  <2> QED
    BY <1>1, <1>13, <2>1 DEF ChannelLost
<1>14. ASSUME NEW n \in Nodes, SubscriptionLost(n) \/ Resubscribe(n) PROVE AnnounceInv'
  BY <1>1, <1>2, <1>14 DEF SubscriptionLost, Resubscribe
<1>15. ASSUME NEW c \in Conns, Disconnect(c) \/ \E n \in Nodes : Connect(c, n) PROVE AnnounceInv'
  <2>1. UNCHANGED <<hand, stage, rows, got, ghosts, inbox>> /\ shaken \subseteq shaken'
    BY <1>15 DEF Connect, Disconnect
  <2>2. \A b \in Conns : at'[b] \in {at[b], "closed"} \/ at[b] = None
    BY <1>0, <1>15 DEF Connect, Disconnect, TypeOK
  <2>3. Shrinks
    <3> SUFFICES ASSUME NEW w \in Walkers
                 PROVE  walk'[w].event = walk[w].event /\ walk'[w].todo = walk[w].todo
      BY DEF Shrinks
    <3>1. walk'[w] = walk[w] \/ (walk[w] # NoWalk /\ walk'[w] = [walk[w] EXCEPT !.loose = TRUE])
      BY <1>15 DEF Connect, Disconnect, Beside
    <3>2. walk[w] # NoWalk => walk[w] \in Loop
      BY <1>0 DEF TypeOK
    <3> QED
      BY <3>1, <3>2 DEF Loop
  <2> QED
    BY <1>0, <1>2, <2>1, <2>2, <2>3, FadesOnly
<1>16. ASSUME NEW u, MarkRead(u) PROVE AnnounceInv'
  BY <1>1, <1>2, <1>16 DEF MarkRead
<1>17. ASSUME NEW n \in Nodes, Crash(n) \/ Panic(n) PROVE AnnounceInv'
  <2>0. Dies(n)
    BY <1>17 DEF Crash, Panic
  <2>1. Fades
    <3>1. stage'[n] \notin {"publish", "push"}
      BY <1>0, <2>0 DEF Dies, TypeOK
    <3>2. \A m \in Nodes \ {n} : hand'[m] = hand[m] /\ stage'[m] = stage[m]
      BY <1>0, <2>0 DEF Dies, TypeOK
    <3> QED
      BY <1>3, <3>1, <3>2
  <2>2. UNCHANGED <<rows, got, ghosts, shaken>>
    BY <2>0 DEF Dies
  <2>3. \A m \in Nodes, e \in Events : inbox'[m][e] <= inbox[m][e]
    BY <1>0, <2>0 DEF Dies, TypeOK
  <2>4. \A c \in Conns : at'[c] \in {at[c], "closed"}
    BY <2>0 DEF Dies
  <2>5. Shrinks
    BY <2>0 DEF Dies, Shrinks, NoWalk
  <2> QED
    BY <1>0, <2>1, <2>2, <2>3, <2>4, <2>5, FadesOnly
<1>18. CASE UNCHANGED vars
  BY <1>1, <1>2, <1>18 DEF vars
<1>19. ASSUME NEW n \in Nodes, Create(n) PROVE AnnounceInv'
  BY <1>19, CreateAnnounces
<1>20. ASSUME NEW w \in Walkers, NEW c \in Conns, SendTo(w, c) \/ ChannelFull(w, c) \/ SendLoose(w, c)
       PROVE  AnnounceInv'
  <2> DEFINE e == walk[w].event
  <2>1. /\ c \in walk[w].todo /\ Passed(w, c) /\ shaken \subseteq shaken'
        /\ UNCHANGED <<rows, at, ghosts, inbox, hand, stage>>
    BY <1>20 DEF SendTo, ChannelFull, SendLoose
  <2>2. CASE UNCHANGED got
    <3>1. /\ \A v \in Walkers \ {w} : walk'[v] = walk[v]
          /\ walk'[w].todo = walk[w].todo \ {c}
          /\ walk'[w] = NoWalk \/ walk'[w].event = e
      BY <1>0, <2>1, PassedWalk
    <3>2. Shrinks
      BY <3>1 DEF Shrinks, NoWalk
    <3>3. \A m \in Nodes, d \in Events : inbox'[m][d] <= inbox[m][d]
      BY <1>0, <2>1
    <3> QED
      BY <1>0, <1>2, <2>1, <2>2, <3>2, <3>3, FadesOnly
  <2>3. CASE SendTo(w, c)
    <3>1. Sent(c, e) /\ at[c] # None
      BY <2>1, <2>3 DEF SendTo, WalkInv
    <3> QED
      BY <2>1, <3>1, SendCounted
  <2>4. ASSUME NEW d \in Reached(w[1], e), Sent(d, e), shaken' = shaken \cup {<<d, e>>} PROVE AnnounceInv'
    <3>1. d \in Conns /\ at[d] # None
      <4>1. d \in Conns /\ at[d] = w[1] /\ w[1] \in Nodes
        BY <2>4 DEF Reached, Walkers
      <4> QED
        BY <4>1
    <3>2. <<d, walk[w].event>> \in shaken' /\ Sent(d, walk[w].event)
      BY <2>4
    <3> QED
      BY <2>1, <3>1, <3>2, SendCounted
  <2> QED
    BY <1>20, <2>2, <2>3, <2>4 DEF ChannelFull, SendLoose
<1> QED
  BY <1>4, <1>5, <1>7, <1>8, <1>9, <1>10, <1>11, <1>12, <1>13, <1>14, <1>15, <1>16, <1>17,
     <1>18, <1>19, <1>20
  DEF Next, Process

LEMMA AnnouncedOnce == Spec => []AnnounceInv
<1>1. Init => AnnounceInv
  BY DEF Init, AnnounceInv, OneAnnounces, CapKept, Untold, Announcing, Local, Cap, Load, Owes, NoWalk
<1>2. Base /\ Base' /\ WalkInv /\ AnnounceInv /\ [Next]_vars => AnnounceInv'
  BY AnnounceStep
<1> QED
  BY <1>1, <1>2, BaseHolds, WalksHold, PTL DEF Spec

\* The unique event_id lets one worker announce an event, and a loop over a table
\* that nobody leaves comes to each connection once: a connection is sent a
\* notification once, however often the event is delivered, and twice only when
\* Redis sent the broadcast and reported an error, or when a client of the same
\* user left during the push.
THEOREM NoneSentTwice == Spec => []SentOnce
<1>1. AnnounceInv => SentOnce
  BY DEF AnnounceInv, CapKept, Cap, SentOnce
<1> QED
  BY <1>1, AnnouncedOnce, PTL

-----------------------------------------------------------------------------
(* Who is connected is told.                                               *)

\* A step of one worker leaves it to that worker to tell who it was about to.
LEMMA StillComing ==
    ASSUME ReachInv, NEW k, \A m \in Nodes \ {k} : hand'[m] = hand[m] /\ stage'[m] = stage[m],
           NEW c \in Conns, NEW n \in Nodes, NEW e \in rows, Misses(c, n, e),
           k \in Nodes /\ Tells(k, n, e) => Coming(n, e)'
    PROVE  Coming(n, e)'
<1>1. PICK m \in Nodes : Tells(m, n, e)
  BY DEF ReachInv, Coming
<1>2. CASE m = k
  BY <1>1, <1>2
<1>3. CASE m # k
  BY <1>1, <1>3 DEF Coming, Tells
<1> QED
  BY <1>2, <1>3

LEMMA ReachStep ==
    ASSUME Base, Base', WalkInv, ReachInv, [Next]_vars
    PROVE  ReachInv'
<1> USE DEF mqVars, workVars, redisVars, rowVars, connVars, pushVars, histVars
<1>0. /\ TypeOK /\ TypeOK' /\ HandInv
      /\ \A n \in Nodes, e \in Events : inbox[n][e] \in Nat
      /\ \A c \in Conns, e \in Events : got[c][e] \in Nat
  BY Counts DEF Base
<1> SUFFICES ASSUME NEW c \in Conns, NEW n \in Nodes, NEW e \in rows', Misses(c, n, e)'
             PROVE  Coming(n, e)'
  BY DEF ReachInv
<1>1. /\ at'[c] = n /\ Owner[c] = Recipient[e] /\ e \notin before'[c] /\ <<n, e>> \notin silent'
      /\ got'[c][e] = 0 /\ inbox'[n][e] = 0 /\ e \in Events /\ <<c, e>> \notin full' \cup shaken'
      /\ \A w \in Walkers : ~(walk'[w].event = e /\ c \in walk'[w].todo)
  BY <1>0 DEF Misses, Reached, TypeOK
\* No loop stops coming to c.
<1> DEFINE Walks == \A w \in Walkers :
              walk[w].event = e /\ c \in walk[w].todo => walk'[w].event = e /\ c \in walk'[w].todo
<1>2. (/\ at[c] = n /\ e \notin before[c] /\ <<n, e>> \notin silent
       /\ got[c][e] = 0 /\ inbox[n][e] = 0
       /\ full \subseteq full' /\ shaken \subseteq shaken' /\ Walks) => Misses(c, n, e)
  BY <1>1 DEF Misses, Reached
<1>3. UNCHANGED <<connVars, pushVars>> /\ inbox' = inbox /\ silent \subseteq silent' => Misses(c, n, e)
  BY <1>1, <1>2
<1> HIDE DEF Walks
<1>4. ASSUME NEW k \in Nodes, \A m \in Nodes \ {k} : hand'[m] = hand[m] /\ stage'[m] = stage[m],
             e \in rows, Misses(c, n, e), Tells(k, n, e) => Coming(n, e)'
      PROVE  Coming(n, e)'
  BY <1>4, StillComing
<1>5. UNCHANGED <<hand, stage>> /\ Misses(c, n, e) /\ e \in rows => Coming(n, e)'
  BY StillComing DEF Coming, Tells
<1>6. ASSUME NEW d \in Events, Send(d) \/ \E r \in Retries : Echo(d, r) PROVE Coming(n, e)'
  BY <1>3, <1>5, <1>6 DEF Send, Echo
<1>7. ASSUME NEW k \in Nodes, NEW d \in Events, NEW r \in Retries, Deliver(k, d, r) PROVE Coming(n, e)'
  <2>1. \A m \in Nodes \ {k} : hand'[m] = hand[m] /\ stage'[m] = stage[m]
    BY <1>0, <1>7 DEF Deliver, TypeOK
  <2>2. e \in rows /\ Misses(c, n, e) /\ ~Tells(k, n, e)
    BY <1>3, <1>7 DEF Deliver, Tells
  <2> QED
    BY <1>4, <2>1, <2>2
<1>8. ASSUME NEW k \in Nodes, Released(k), stage[k] \notin {"publish", "push"}, e \in rows, Misses(c, n, e)
      PROVE  Coming(n, e)'
  <2>1. \A m \in Nodes \ {k} : hand'[m] = hand[m] /\ stage'[m] = stage[m]
    BY <1>8, ReleasedHand
  <2>2. ~Tells(k, n, e)
    BY <1>8 DEF Tells
  <2> QED
    BY <1>4, <1>8, <2>1, <2>2
<1>9. ASSUME NEW k \in Nodes, Ack(k) PROVE Coming(n, e)'
  BY <1>3, <1>8, <1>9 DEF Ack
<1>10. ASSUME NEW k \in Nodes, Build(k) PROVE Coming(n, e)'
  <2>1. stage[k] = "build" /\ e \in rows /\ Misses(c, n, e)
    BY <1>3, <1>10 DEF Build
  <2>2. CASE Failed(k)
    BY <1>8, <2>1, <2>2 DEF Failed
  <2>3. CASE ~Failed(k)
    <3>1. \A m \in Nodes \ {k} : hand'[m] = hand[m] /\ stage'[m] = stage[m]
      BY <1>0, <1>10, <2>3 DEF Build, TypeOK
    <3>2. ~Tells(k, n, e)
      BY <2>1 DEF Tells
    <3> QED
      BY <1>4, <2>1, <3>1, <3>2
  <2> QED
    BY <2>2, <2>3
<1>11. ASSUME NEW k \in Nodes, Create(k) PROVE Coming(n, e)'
  <2>1. /\ stage[k] = "create" /\ rows' = rows \cup {hand[k].event} /\ hand' = hand /\ Misses(c, n, e)
        /\ stage' = [stage EXCEPT ![k] = IF hand[k].event \in rows THEN "ack" ELSE "publish"]
    BY <1>3, <1>11 DEF Create
  <2>2. CASE e \in rows
    <3>1. \A m \in Nodes \ {k} : hand'[m] = hand[m] /\ stage'[m] = stage[m]
      BY <1>0, <2>1 DEF TypeOK
    <3>2. ~Tells(k, n, e)
      BY <2>1 DEF Tells
    <3> QED
      BY <1>4, <2>1, <2>2, <3>1, <3>2
  <2>3. CASE e \notin rows
    <3>1. hand'[k].event = e /\ stage'[k] = "publish"
      BY <1>0, <2>1, <2>3 DEF TypeOK
    <3> QED
      BY <3>1 DEF Coming, Tells
  <2> QED
    BY <2>2, <2>3
<1>12. ASSUME NEW k \in Nodes, CreateFails(k) PROVE Coming(n, e)'
  <2>1. stage[k] = "create" /\ Released(k) /\ UNCHANGED <<connVars, pushVars>> /\ inbox' = inbox /\ silent \subseteq silent'
    BY <1>12 DEF CreateFails, Failed
  <2>2. e \in rows
    BY <1>1, <1>12 DEF CreateFails
  <2> QED
    BY <1>3, <1>8, <2>1, <2>2
<1>13. ASSUME NEW k \in Nodes, Publish(k) \/ PublishFails(k) \/ NoClient(k) PROVE Coming(n, e)'
  <2> DEFINE d == hand[k].event
  <2>1. /\ stage[k] = "publish" /\ UNCHANGED <<rows, connVars, pushVars, hand>> /\ silent \subseteq silent'
        /\ stage' = [stage EXCEPT ![k] = "ack"] \/ stage' = [stage EXCEPT ![k] = "push"]
    BY <1>13 DEF Publish, PublishFails, NoClient
  <2>2. d \in Events
    BY <1>0, <2>1, Held
  <2>3. \A m \in Nodes \ {k} : hand'[m] = hand[m] /\ stage'[m] = stage[m]
    BY <1>0, <2>1 DEF TypeOK
  <2>4. inbox' = Heard(d) => /\ \A m \in Nodes : inbox'[m][e] >= inbox[m][e]
                             /\ n \in subscribed => e # d
    <3> SUFFICES ASSUME inbox' = Heard(d)
                 PROVE  /\ \A m \in Nodes : inbox'[m][e] >= inbox[m][e]
                        /\ n \in subscribed => e # d
      OBVIOUS
    <3>1. \A m \in Nodes : inbox'[m][e] = inbox[m][e] + (IF m \in subscribed /\ e = d THEN 1 ELSE 0)
      BY <1>0, <1>1, <2>2, HeardType
    <3> QED
      BY <1>0, <1>1, <3>1
  <2>5. inbox' = Heard(d) \/ inbox' = inbox
    BY <1>13 DEF Publish, PublishFails, NoClient
  <2>6. Misses(c, n, e)
    <3>1. inbox[n][e] = 0
      BY <1>0, <1>1, <2>4, <2>5
    <3> QED
      BY <1>1, <1>2, <2>1, <3>1 DEF Walks
  <2>7. e = d => n = k /\ stage'[k] = "push"
    <3> SUFFICES ASSUME e = d PROVE n = k /\ stage'[k] = "push"
      OBVIOUS
    <3>1. CASE Publish(k)
      BY <1>1, <2>4, <3>1 DEF Publish
    <3>2. CASE PublishFails(k)
      <4>1. n = k
        BY <1>1, <2>4, <3>2 DEF PublishFails
      <4> QED
        BY <1>0, <3>2, <4>1 DEF PublishFails, TypeOK
    <3>3. CASE NoClient(k)
      <4>1. n = k
        BY <1>1, <3>3 DEF NoClient
      <4> QED
        BY <1>0, <3>3, <4>1 DEF NoClient, TypeOK
    <3> QED
      BY <1>13, <3>1, <3>2, <3>3
  <2>8. Tells(k, n, e) => Coming(n, e)'
    BY <2>1, <2>7 DEF Tells, Coming
  <2> QED
    BY <1>4, <2>1, <2>3, <2>6, <2>8
<1>14. ASSUME NEW w \in Walkers, NEW d \in Events, Begins(w, d), UNCHANGED at
       PROVE  ~(n = w[1] /\ e = d) /\ Walks
  <2>1. /\ walk[w] = NoWalk /\ \A v \in Walkers \ {w} : walk'[v] = walk[v]
        /\ walk'[w].todo = Reached(w[1], d)
        /\ walk'[w] = NoWalk \/ walk'[w].event = d
    BY <1>0, <1>14, BeginsWalk
  <2>2. n = w[1] /\ e = d => c \in Reached(w[1], d)
    BY <1>1, <1>14 DEF Reached
  <2> QED
    BY <1>1, <2>1, <2>2 DEF Walks, NoWalk
<1>15. ASSUME NEW k \in Nodes, PushLocal(k) PROVE Coming(n, e)'
  <2> DEFINE w == <<k, "worker">>
  <2>0. w \in Walkers /\ w[1] = k
    BY DEF Walkers
  <2>1. /\ stage[k] = "push" /\ UNCHANGED <<rows, at, before, silent, inbox, hand, got, full, shaken>>
        /\ Begins(w, hand[k].event) /\ stage' = [stage EXCEPT ![k] = "ack"]
    BY <1>15 DEF PushLocal, Begins
  <2> HIDE DEF w
  <2>2. hand[k].event \in Events
    BY <1>0, <2>1, Held
  <2>3. ~(n = k /\ e = hand[k].event) /\ Walks
    BY <1>14, <2>0, <2>1, <2>2
  <2>4. Misses(c, n, e) /\ ~Tells(k, n, e)
    BY <1>1, <1>2, <2>1, <2>3 DEF Tells
  <2>5. \A m \in Nodes \ {k} : hand'[m] = hand[m] /\ stage'[m] = stage[m]
    BY <1>0, <2>1 DEF TypeOK
  <2> QED
    BY <1>4, <2>1, <2>4, <2>5
<1>16. ASSUME NEW k \in Nodes, NEW d \in Events, Hear(k, d) PROVE Coming(n, e)'
  <2> DEFINE w == <<k, "subscriber">>
  <2>0. w \in Walkers /\ w[1] = k
    BY DEF Walkers
  <2>1. /\ UNCHANGED <<rows, at, before, silent, hand, stage, got, full, shaken>>
        /\ Begins(w, d) /\ inbox' = [inbox EXCEPT ![k][d] = @ - 1]
    BY <1>16 DEF Hear, Begins
  <2> HIDE DEF w
  <2>2. ~(n = k /\ e = d) /\ Walks
    BY <1>14, <2>0, <2>1
  <2>3. inbox[n][e] = inbox'[n][e]
    BY <1>0, <1>1, <2>1, <2>2 DEF TypeOK
  <2> QED
    BY <1>1, <1>2, <1>5, <2>1, <2>2, <2>3
<1>24. ASSUME NEW w \in Walkers, NEW b \in Conns, SendTo(w, b) \/ ChannelFull(w, b) \/ SendLoose(w, b)
       PROVE  Coming(n, e)'
  <2>1. /\ b \in walk[w].todo /\ Passed(w, b) /\ full \subseteq full' /\ shaken \subseteq shaken'
        /\ UNCHANGED <<hand, stage, rows, at, before, silent, inbox>>
    BY <1>24 DEF SendTo, ChannelFull, SendLoose
  <2>2. /\ \A v \in Walkers \ {w} : walk'[v] = walk[v]
        /\ walk'[w].todo = walk[w].todo \ {b} /\ walk[w].event \in Events
        /\ walk'[w] = NoWalk \/ walk'[w].event = walk[w].event
    BY <1>0, <2>1, PassedWalk
  <2>3. got[c][e] = 0 /\ ~(b = c /\ walk[w].event = e)
    <3>1. CASE SendTo(w, b)
      <4>1. got'[c][e] = got[c][e] + (IF c = b /\ e = walk[w].event THEN 1 ELSE 0)
        BY <1>0, <1>1, <2>2, <3>1, SentType DEF SendTo
      <4> QED
        BY <1>0, <1>1, <4>1
    <3>2. CASE ChannelFull(w, b)
      BY <1>1, <3>2 DEF ChannelFull
    <3>3. CASE SendLoose(w, b)
      <4>1. <<b, walk[w].event>> \in shaken
        BY <2>1, <3>3 DEF SendLoose, WalkInv
      <4>2. got' = got \/ \E d \in Conns : Sent(d, walk[w].event)
        BY <3>3 DEF SendLoose, Reached
      <4>3. got'[c][e] >= got[c][e]
        BY <1>0, <1>1, <2>2, <4>2, SentType
      <4> QED
        BY <1>0, <1>1, <2>1, <4>1, <4>3
    <3> QED
      BY <1>24, <3>1, <3>2, <3>3
  <2>4. Walks
    <3>1. NoWalk.event \notin Events
      BY DEF NoWalk
    <3> QED
      BY <1>1, <2>1, <2>2, <2>3, <3>1 DEF Walks, NoWalk
  <2> QED
    BY <1>1, <1>2, <1>5, <2>1, <2>3, <2>4
<1>17. ASSUME NEW k \in Nodes, ChannelLost(k) PROVE Coming(n, e)'
  <2>1. /\ \A m \in Nodes \ {k} : hand'[m] = hand[m] /\ stage'[m] = stage[m]
        /\ hand'[k] = hand[k] /\ (stage[k] # "idle" => stage'[k] = stage[k])
    BY <1>0, <1>17 DEF ChannelLost, TypeOK
  <2>2. e \in rows /\ Misses(c, n, e)
    BY <1>3, <1>17 DEF ChannelLost
  <2>3. Tells(k, n, e) => Coming(n, e)'
    BY <2>1 DEF Tells, Coming
  <2> QED
    BY <1>4, <2>1, <2>2, <2>3
<1>18. ASSUME NEW k \in Nodes, SubscriptionLost(k) \/ Resubscribe(k) PROVE Coming(n, e)'
  BY <1>3, <1>5, <1>18 DEF SubscriptionLost, Resubscribe
<1>19. ASSUME NEW b \in Conns, NEW k \in Nodes, Connect(b, k) PROVE Coming(n, e)'
  <2>1. /\ UNCHANGED <<hand, stage, rows, pushVars, silent, inbox>> /\ at' = [at EXCEPT ![b] = k]
        /\ before' = [before EXCEPT ![b] = rows]
    BY <1>19 DEF Connect
  <2>2. c # b
    BY <1>0, <1>1, <2>1 DEF TypeOK
  <2>3. at[c] = at'[c] /\ before[c] = before'[c]
    BY <1>0, <2>1, <2>2 DEF TypeOK
  <2> QED
    BY <1>1, <1>2, <1>5, <2>1, <2>3 DEF Walks
<1>20. ASSUME NEW b \in Conns, Disconnect(b) PROVE Coming(n, e)'
  <2>1. /\ UNCHANGED <<hand, stage, rows, got, full, silent, inbox, before>> /\ shaken \subseteq shaken'
        /\ at' = [at EXCEPT ![b] = "closed"]
    BY <1>20 DEF Disconnect
  <2>2. at[c] = at'[c]
    BY <1>0, <1>1, <2>1 DEF TypeOK
  <2>3. Walks
    <3> SUFFICES ASSUME NEW w \in Walkers
                 PROVE  walk'[w].event = walk[w].event /\ walk'[w].todo = walk[w].todo
      BY DEF Walks
    <3>1. walk'[w] = walk[w] \/ (walk[w] # NoWalk /\ walk'[w] = [walk[w] EXCEPT !.loose = TRUE])
      BY <1>20 DEF Disconnect, Beside
    <3>2. walk[w] # NoWalk => walk[w] \in Loop
      BY <1>0 DEF TypeOK
    <3> QED
      BY <3>1, <3>2 DEF Loop
  <2> QED
    BY <1>1, <1>2, <1>5, <2>1, <2>2, <2>3
<1>21. ASSUME NEW u, MarkRead(u) PROVE Coming(n, e)'
  BY <1>3, <1>5, <1>21 DEF MarkRead
<1>22. ASSUME NEW k \in Nodes, Crash(k) \/ Panic(k) PROVE Coming(n, e)'
  <2>0. Dies(k)
    BY <1>22 DEF Crash, Panic
  <2>1. \A m \in Nodes \ {k} : hand'[m] = hand[m] /\ stage'[m] = stage[m]
    BY <1>0, <2>0 DEF Dies, TypeOK
  <2>2. n # k /\ at[c] = n
    BY <1>1, <2>0 DEF Dies
  <2>3. inbox[n][e] = inbox'[n][e]
    BY <1>0, <1>1, <2>0, <2>2 DEF Dies, TypeOK
  <2>4. UNCHANGED <<rows, got, before, full, shaken>> /\ silent \subseteq silent'
    BY <2>0 DEF Dies
  <2>5. CASE Walks
    <3>1. Misses(c, n, e)
      BY <1>1, <1>2, <2>2, <2>3, <2>4, <2>5
    <3>2. stage[k] = "publish" => hand[k].event # e
      BY <1>1, <2>0 DEF Dies
    <3>3. ~Tells(k, n, e)
      BY <2>2, <3>2 DEF Tells
    <3> QED
      BY <1>4, <2>1, <2>4, <3>1, <3>3
  <2>6. CASE ~Walks
    <3>1. PICK w \in Walkers : walk[w].event = e /\ c \in walk[w].todo /\ walk'[w] # walk[w]
      BY <2>6 DEF Walks
    <3>2. w[1] = k
      BY <2>0, <3>1 DEF Dies
    <3> QED
      BY <1>1, <2>2, <2>4, <3>1, <3>2 DEF WalkInv
  <2> QED
    BY <2>5, <2>6
<1>23. CASE UNCHANGED vars
  BY <1>3, <1>5, <1>23 DEF vars
<1> QED
  BY <1>6, <1>7, <1>9, <1>10, <1>11, <1>12, <1>13, <1>15, <1>16, <1>17, <1>18, <1>19, <1>20,
     <1>21, <1>22, <1>23, <1>24
  DEF Next, Process

\* A connection that was open before the row is told of it, or a worker, its
\* process or a loop is about to, unless the broadcast failed in one of the
\* recorded ways, its channel was full or a client of the same user left during
\* the push.
THEOREM OnlineAreReached == Spec => []OnlineReached
<1>1. Init => ReachInv
  BY DEF Init, ReachInv
<1>2. Base /\ Base' /\ WalkInv /\ ReachInv /\ [Next]_vars => ReachInv'
  BY ReachStep
<1>3. Base /\ ReachInv => OnlineReached
  <2> SUFFICES ASSUME Base, ReachInv, NEW c \in Conns, NEW e \in rows,
                      at[c] \in Nodes /\ c \in Reached(at[c], e) /\ e \notin before[c]
                      /\ <<at[c], e>> \notin silent /\ <<c, e>> \notin full \cup shaken,
                      ~(got[c][e] > 0), ~(inbox[at[c]][e] > 0),
                      \A w \in Walkers : ~(walk[w].event = e /\ c \in walk[w].todo)
               PROVE  \E n \in Nodes : hand[n].event = e /\ stage[n] \in {"publish", "push"}
    BY DEF OnlineReached
  <2>1. e \in Events
    BY DEF Base, TypeOK
  <2>2. got[c][e] = 0 /\ inbox[at[c]][e] = 0
    BY <2>1, Counts DEF Base
  <2>3. Coming(at[c], e)
    BY <2>2 DEF ReachInv, Misses
  <2> QED
    BY <2>3 DEF Coming, Tells
<1> QED
  BY <1>1, <1>2, <1>3, BaseHolds, WalksHold, PTL DEF Spec

-----------------------------------------------------------------------------
(* The hub of one process.                                                 *)

\* A slice header is within its array.
Within(h) == h.len > 0 => h.array \in 1 .. Len(heap) /\ h.len <= Len(heap[h.array])

Walking(p) == push[p].notif # NoNotif

HeaderInv ==
    /\ Within(slice)
    /\ ~Unlocked => unsub.index \in 1 .. slice.len /\ unsub.conn \in Channels
    /\ \A p \in Pushers : /\ Within(push[p].seen)
                          /\ IF Walking(p) THEN push[p].index >= 1 ELSE push[p] = Idle
HubBase == HubTypeOK /\ HeaderInv

\* The table while an Unsubscribe shifts it: the slots but for the one that is
\* being filled list the open connections, without the one that leaves, once each.
Slots == (1 .. slice.len) \ (IF Unlocked THEN {} ELSE {unsub.index})
Stays(c) == state[c] = "open" /\ (Unlocked \/ c # unsub.conn)
TableInv ==
    /\ \A i \in Slots : heap[slice.array][i] \in Channels /\ Stays(heap[slice.array][i])
    /\ \A c \in Channels : Stays(c) => \E i \in Slots : heap[slice.array][i] = c
    /\ \A i, j \in Slots : heap[slice.array][i] = heap[slice.array][j] => i = j

-----------------------------------------------------------------------------
(* Arrays and headers.                                                     *)

Cells == Channels \cup {NoConn}

\* Every array of the heap keeps its length, and there may be one more.
Extends(old, h) ==
    /\ h \in Seq(Seq(Cells)) /\ Len(old) <= Len(h)
    /\ \A a \in 1 .. Len(old) : Len(h[a]) = Len(old[a])

\* One cell is written.
Writes(old, a, i, x, h) == h = [old EXCEPT ![a][i] = x]

LEMMA CellWritten ==
    ASSUME NEW old \in Seq(Seq(Cells)), NEW a \in 1 .. Len(old), NEW i \in 1 .. Len(old[a]), NEW x \in Cells,
           NEW h, Writes(old, a, i, x, h)
    PROVE  /\ Extends(old, h) /\ Len(h) = Len(old)
           /\ \A b \in 1 .. Len(old), j \in Nat : h[b][j] = IF b = a /\ j = i THEN x ELSE old[b][j]
<1>1. old[a] \in Seq(Cells)
  OBVIOUS
<1> DEFINE f == [old[a] EXCEPT ![i] = x]
<1>2. f \in Seq(Cells) /\ Len(f) = Len(old[a]) /\ f[i] = x /\ \A j : j # i => f[j] = old[a][j]
  BY <1>1
<1>3. h = [old EXCEPT ![a] = f]
  BY DEF Writes
<1> HIDE DEF f
<1>4. h \in Seq(Seq(Cells)) /\ Len(h) = Len(old) /\ h[a] = f /\ \A b \in 1 .. Len(old) : b # a => h[b] = old[b]
  BY <1>2, <1>3
<1>5. Extends(old, h)
  <2>1. \A b \in 1 .. Len(old) : Len(h[b]) = Len(old[b])
    BY <1>2, <1>4
  <2>2. h \in Seq(Seq(Cells)) /\ Len(old) <= Len(h)
    BY <1>4
  <2> QED
    BY <2>1, <2>2 DEF Extends
<1>6. ASSUME NEW b \in 1 .. Len(old), NEW j \in Nat
      PROVE  h[b][j] = IF b = a /\ j = i THEN x ELSE old[b][j]
  BY <1>2, <1>4
<1> QED
  BY <1>4, <1>5, <1>6

\* One array is added.
LEMMA ArrayAdded ==
    ASSUME NEW old \in Seq(Seq(Cells)), NEW g \in Seq(Cells), NEW h, h = Append(old, g)
    PROVE  /\ Extends(old, h) /\ Len(h) = Len(old) + 1 /\ h[Len(old) + 1] = g
           /\ \A b \in 1 .. Len(old) : h[b] = old[b]
BY DEF Extends

\* Subscribe puts the connection behind the others, and no header of an earlier
\* reader sees a change, unless its slice is longer than the current one.
LEMMA SubscribeGives ==
    ASSUME HubBase, NEW c \in Channels, Subscribe(c)
    PROVE  /\ Extends(heap, heap') /\ slice' \in Slice /\ slice'.array \in 1 .. Len(heap')
           /\ slice'.len = slice.len + 1 /\ slice'.len <= Len(heap'[slice'.array])
           /\ \A j \in 1 .. slice.len : heap'[slice'.array][j] = heap[slice.array][j]
           /\ heap'[slice'.array][slice.len + 1] = c
           /\ slice'.array \in {slice.array, Len(heap) + 1}
           /\ \A a \in 1 .. Len(heap), j \in Nat :
                 a # slice.array \/ j <= slice.len => heap'[a][j] = heap[a][j]
<1>0. /\ heap \in Seq(Seq(Cells)) /\ slice \in Slice /\ slice.array \in Nat /\ slice.len \in Nat
      /\ slice.array <= Len(heap) /\ Within(slice) /\ c \in Cells
      /\ \A a \in 1 .. Len(heap) : heap[a] \in Seq(Cells) /\ Len(heap[a]) \in Nat
  BY DEF HubBase, HeaderInv, HubTypeOK, Cells, Slice
<1>1. CASE slice.len < Capacity
  <2>1. /\ heap' = [heap EXCEPT ![slice.array][slice.len + 1] = c]
        /\ slice' = [slice EXCEPT !.len = @ + 1]
    BY <1>1 DEF Subscribe
  <2>2. slice.array \in 1 .. Len(heap) /\ slice.len + 1 \in 1 .. Len(heap[slice.array])
    BY <1>0, <1>1 DEF Capacity
  <2>3. /\ Extends(heap, heap') /\ Len(heap') = Len(heap)
        /\ \A b \in 1 .. Len(heap), j \in Nat :
              heap'[b][j] = IF b = slice.array /\ j = slice.len + 1 THEN c ELSE heap[b][j]
    <3>1. Writes(heap, slice.array, slice.len + 1, c, heap')
      BY <2>1 DEF Writes
    <3>2. heap \in Seq(Seq(Cells)) /\ c \in Cells
      BY <1>0
    <3>3. Extends(heap, heap') /\ Len(heap') = Len(heap)
      BY ONLY <2>2, <3>1, <3>2, CellWritten
    <3>4. \A b \in 1 .. Len(heap), j \in Nat :
              heap'[b][j] = IF b = slice.array /\ j = slice.len + 1 THEN c ELSE heap[b][j]
      BY ONLY <2>2, <3>1, <3>2, CellWritten
    <3> QED
      BY <3>3, <3>4
  <2>4. slice' \in Slice /\ slice'.array = slice.array /\ slice'.len = slice.len + 1
    <3>1. slice' = [slice EXCEPT !.len = slice.len + 1] /\ slice \in Slice /\ slice.len + 1 \in Nat
      BY <1>0, <2>1
    <3> QED
      BY ONLY <3>1 DEF Slice
  <2>5. Len(heap'[slice.array]) = Len(heap[slice.array])
    BY <2>2, <2>3 DEF Extends
  <2>6. \A j \in 1 .. slice.len : j \in Nat /\ j # slice.len + 1
    BY <1>0
  <2> QED
    BY <1>0, <2>2, <2>3, <2>4, <2>5, <2>6
<1>2. CASE ~(slice.len < Capacity)
  <2>1. /\ heap' = Append(heap, Grown(c))
        /\ slice' = [array |-> Len(heap) + 1, len |-> slice.len + 1]
    BY <1>2 DEF Subscribe
  <2>2. /\ Capacity \in Nat /\ slice.len = Capacity
        /\ slice.len > 0 => slice.array \in 1 .. Len(heap) /\ slice.len <= Len(heap[slice.array])
    BY <1>0, <1>2 DEF Capacity, Within
  <2> DEFINE cap == IF Capacity = 0 THEN 1 ELSE 2 * Capacity
  <2>3. cap \in Nat /\ slice.len + 1 <= cap
    BY <2>2
  <2> HIDE DEF cap
  <2>4. \A i \in 1 .. slice.len : Elements[i] = heap[slice.array][i] /\ heap[slice.array][i] \in Cells
    BY <1>0, <2>2 DEF Elements
  <2>5. Grown(c) = [i \in 1 .. cap |-> IF i <= slice.len THEN Elements[i]
                                           ELSE IF i = slice.len + 1 THEN c ELSE NoConn]
    BY DEF Grown, cap
  <2>6. /\ Grown(c) \in Seq(Cells) /\ Len(Grown(c)) = cap
        /\ \A i \in 1 .. slice.len : Grown(c)[i] = heap[slice.array][i]
        /\ Grown(c)[slice.len + 1] = c
    <3>1. \A i \in 1 .. cap : (IF i <= slice.len THEN Elements[i]
                               ELSE IF i = slice.len + 1 THEN c ELSE NoConn) \in Cells
      <4>1. \A i \in 1 .. cap : i <= slice.len => i \in 1 .. slice.len
        BY <1>0
      <4>2. \A i \in 1 .. slice.len : Elements[i] \in Cells
        BY <2>4
      <4>3. c \in Cells /\ NoConn \in Cells
        BY <1>0 DEF Cells
      <4> QED
        BY ONLY <4>1, <4>2, <4>3
    <3>2. Grown(c) \in [1 .. cap -> Cells]
      BY <2>5, <3>1
    <3> QED
      BY <1>0, <2>3, <2>4, <2>5, <3>2
  <2>7. /\ Extends(heap, heap') /\ Len(heap') = Len(heap) + 1 /\ heap'[Len(heap) + 1] = Grown(c)
        /\ \A b \in 1 .. Len(heap) : heap'[b] = heap[b]
    <3>1. heap \in Seq(Seq(Cells)) /\ Grown(c) \in Seq(Cells) /\ heap' = Append(heap, Grown(c))
      BY <1>0, <2>1, <2>6
    <3>2. Extends(heap, heap') /\ Len(heap') = Len(heap) + 1 /\ heap'[Len(heap) + 1] = Grown(c)
      BY ONLY <3>1, ArrayAdded
    <3>3. \A b \in 1 .. Len(heap) : heap'[b] = heap[b]
      BY ONLY <3>1, ArrayAdded
    <3> QED
      BY <3>2, <3>3
  <2>8. slice' \in Slice /\ slice'.array = Len(heap) + 1 /\ slice'.len = slice.len + 1
    BY <1>0, <2>1 DEF Slice
  <2> QED
    BY <1>0, <2>3, <2>6, <2>7, <2>8
<1> QED
  BY <1>1, <1>2

\* A step of Unsubscribe moves one element down.
LEMMA ShiftGives ==
    ASSUME HubBase, UnsubscribeShifts
    PROVE  /\ Extends(heap, heap') /\ Len(heap') = Len(heap) /\ slice.array \in 1 .. Len(heap)
           /\ \A b \in 1 .. Len(heap), j \in Nat :
                 heap'[b][j] = IF b = slice.array /\ j = unsub.index THEN heap[b][unsub.index + 1] ELSE heap[b][j]
<1>0. /\ heap \in Seq(Seq(Cells)) /\ slice.len \in Nat /\ slice.array \in Nat /\ unsub.index \in 1 .. slice.len
      /\ unsub.index < slice.len
      /\ heap' = [heap EXCEPT ![slice.array][unsub.index] = heap[slice.array][unsub.index + 1]]
  BY DEF HubBase, HeaderInv, HubTypeOK, Cells, Slice, UnsubscribeShifts
<1>1. slice.array \in 1 .. Len(heap) /\ slice.len <= Len(heap[slice.array]) /\ heap[slice.array] \in Seq(Cells)
  BY <1>0 DEF HubBase, HeaderInv, Within
<1> DEFINE x == heap[slice.array][unsub.index + 1]
<1>2. x \in Cells /\ unsub.index \in 1 .. Len(heap[slice.array])
  BY <1>0, <1>1
<1>3. Writes(heap, slice.array, unsub.index, x, heap')
  BY <1>0 DEF Writes
<1>4. heap \in Seq(Seq(Cells)) /\ slice.array \in 1 .. Len(heap)
  BY <1>0, <1>1
<1> HIDE DEF x
<1>5. Extends(heap, heap') /\ Len(heap') = Len(heap)
  BY ONLY <1>2, <1>3, <1>4, CellWritten
<1>6. \A b \in 1 .. Len(heap), j \in Nat :
          heap'[b][j] = IF b = slice.array /\ j = unsub.index THEN x ELSE heap[b][j]
  BY ONLY <1>2, <1>3, <1>4, CellWritten
<1>7. \A b \in 1 .. Len(heap), j \in Nat :
          heap'[b][j] = IF b = slice.array /\ j = unsub.index THEN heap[b][unsub.index + 1] ELSE heap[b][j]
  BY <1>6 DEF x
<1> QED
  BY <1>4, <1>5, <1>7

\* Headers stay within their arrays.
LEMMA WithinStays ==
    ASSUME heap \in Seq(Seq(Cells)), Extends(heap, heap'), NEW h \in Slice, Within(h)
    PROVE  h.len > 0 => h.array \in 1 .. Len(heap') /\ h.len <= Len(heap'[h.array])
BY DEF Extends, Within, Slice

Pushing == [notif : Notifs \cup {NoNotif}, seen : Slice, index : Nat, conn : Cells, targets : SUBSET Channels]

\* One iteration of the loop of Push: a read, and what it does with the channel.
LEMMA ReadGives ==
    ASSUME HubBase, NEW p \in Pushers, PushReads(p)
    PROVE  /\ push' \in [Pushers -> Pushing] /\ Walking(p)
           /\ \A q \in Pushers \ {p} : push'[q] = push[q]
           /\ push'[p].notif = push[p].notif /\ push'[p].seen = push[p].seen
           /\ push'[p].targets = push[p].targets /\ push'[p].index = push[p].index
           /\ push'[p].conn = heap[push[p].seen.array][push[p].index]
<1>1. /\ heap \in Seq(Seq(Cells)) /\ push \in [Pushers -> Pushing] /\ push[p] \in Pushing
      /\ push[p].seen \in Slice /\ push[p].index \in Nat
  BY DEF HubBase, HubTypeOK, Cells, Pushing
<1>2. Walking(p) /\ push[p].index >= 1 /\ Within(push[p].seen)
  BY DEF HubBase, HeaderInv, PushReads, Active
<1>3. push[p].index <= push[p].seen.len /\ push[p].seen.len \in Nat
  BY <1>1 DEF PushReads, Slice
<1> DEFINE x == heap[push[p].seen.array][push[p].index]
<1>4. push[p].seen.array \in 1 .. Len(heap) /\ push[p].index \in 1 .. Len(heap[push[p].seen.array])
  BY <1>1, <1>2, <1>3 DEF Within
<1>5. x \in Cells
  BY <1>1, <1>4
<1>6. push' = [push EXCEPT ![p].conn = x]
  BY DEF PushReads
<1> HIDE DEF x
<1>7. push'[p] = [push[p] EXCEPT !.conn = x] /\ \A q \in Pushers \ {p} : push'[q] = push[q]
  BY <1>1, <1>6
<1>8. push'[p] \in Pushing
  BY ONLY <1>1, <1>5, <1>7 DEF Pushing
<1>9. push' \in [Pushers -> Pushing]
  BY <1>1, <1>6, <1>7, <1>8
<1> QED
  BY <1>1, <1>2, <1>7, <1>9 DEF Pushing, x

LEMMA AdvanceGives ==
    ASSUME HubBase, NEW p \in Pushers, Advance(p)
    PROVE  /\ push' \in [Pushers -> Pushing]
           /\ \A q \in Pushers \ {p} : push'[q] = push[q]
           /\ push'[p].notif = push[p].notif /\ push'[p].seen = push[p].seen
           /\ push'[p].targets = push[p].targets /\ push'[p].index = push[p].index + 1
           /\ push'[p].conn = NoConn
<1>1. push \in [Pushers -> Pushing] /\ push[p] \in Pushing /\ push[p].index \in Nat /\ NoConn \in Cells
  BY DEF HubBase, HubTypeOK, Cells, Pushing
<1>2. push' = [push EXCEPT ![p].conn = NoConn, ![p].index = @ + 1]
  BY DEF Advance
<1> DEFINE x == [push[p] EXCEPT !.conn = NoConn]
           y == [x EXCEPT !.index = push[p].index + 1]
<1>3. push'[p] = y /\ \A q \in Pushers \ {p} : push'[q] = push[q]
  BY <1>1, <1>2
<1>4. /\ x \in Pushing /\ x.notif = push[p].notif /\ x.seen = push[p].seen /\ x.targets = push[p].targets
      /\ x.index = push[p].index /\ x.conn = NoConn
  BY ONLY <1>1 DEF Pushing
<1> HIDE DEF x
<1>5. /\ y \in Pushing /\ y.notif = x.notif /\ y.seen = x.seen /\ y.targets = x.targets
      /\ y.index = push[p].index + 1 /\ y.conn = x.conn
  BY ONLY <1>1, <1>4 DEF Pushing
<1> HIDE DEF y
<1>6. push' \in [Pushers -> Pushing]
  BY <1>1, <1>2, <1>3, <1>5
<1> QED
  BY <1>3, <1>4, <1>5, <1>6

\* What a push does to the counts of its connection and notification.
LEMMA Counted ==
    ASSUME NEW f \in [Channels -> [Notifs -> Nat]], NEW c \in Channels, NEW n \in Notifs,
           NEW g, g = [f EXCEPT ![c][n] = @ + 1]
    PROVE  /\ g \in [Channels -> [Notifs -> Nat]] /\ g[c][n] = f[c][n] + 1
           /\ \A d \in Channels, m \in Notifs : d # c \/ m # n => g[d][m] = f[d][m]
<1> DEFINE x == [f[c] EXCEPT ![n] = f[c][n] + 1]
<1>1. x \in [Notifs -> Nat] /\ x[n] = f[c][n] + 1 /\ \A m \in Notifs \ {n} : x[m] = f[c][m]
  OBVIOUS
<1>2. g = [f EXCEPT ![c] = x]
  OBVIOUS
<1> HIDE DEF x
<1> QED
  BY <1>1, <1>2

LEMMA HoldsConn ==
    ASSUME HubBase, NEW p \in Pushers, Active(p), push[p].conn # NoConn
    PROVE  push[p].conn \in Channels /\ push[p].notif \in Notifs /\ Walking(p)
BY HubConstants DEF HubBase, HeaderInv, HubTypeOK, Active, Walking

LEMMA SendCounts ==
    ASSUME HubBase, NEW p \in Pushers, PushSends(p)
    PROVE  /\ filled' \in [Channels -> 0 .. Buffer] /\ dropped' = dropped
           /\ dropped' \in [Channels -> [Notifs -> Nat]] /\ copies' \in [Channels -> [Notifs -> Nat]]
           /\ copies'[push[p].conn][push[p].notif] = copies[push[p].conn][push[p].notif] + 1
           /\ \A d \in Channels, m \in Notifs :
                 d # push[p].conn \/ m # push[p].notif => copies'[d][m] = copies[d][m]
<1>1. push[p].conn \in Channels /\ push[p].notif \in Notifs
  BY HoldsConn DEF PushSends
<1>2. /\ filled \in [Channels -> 0 .. Buffer] /\ dropped \in [Channels -> [Notifs -> Nat]]
      /\ copies \in [Channels -> [Notifs -> Nat]]
  BY DEF HubBase, HubTypeOK
<1>3. /\ copies' = [copies EXCEPT ![push[p].conn][push[p].notif] = @ + 1] /\ dropped' = dropped
      /\ filled' = [filled EXCEPT ![push[p].conn] = @ + 1] /\ filled[push[p].conn] < Buffer
  BY DEF PushSends
<1>4. filled' \in [Channels -> 0 .. Buffer]
  BY <1>1, <1>2, <1>3, HubConstants
<1>5. /\ copies' \in [Channels -> [Notifs -> Nat]]
      /\ copies'[push[p].conn][push[p].notif] = copies[push[p].conn][push[p].notif] + 1
  BY ONLY <1>1, <1>2, <1>3, Counted
<1>6. \A d \in Channels, m \in Notifs :
          d # push[p].conn \/ m # push[p].notif => copies'[d][m] = copies[d][m]
  BY ONLY <1>1, <1>2, <1>3, Counted
<1> QED
  BY <1>2, <1>3, <1>4, <1>5, <1>6

LEMMA DropCounts ==
    ASSUME HubBase, NEW p \in Pushers, PushDrops(p)
    PROVE  /\ filled' \in [Channels -> 0 .. Buffer] /\ copies' = copies
           /\ copies' \in [Channels -> [Notifs -> Nat]] /\ dropped' \in [Channels -> [Notifs -> Nat]]
           /\ dropped'[push[p].conn][push[p].notif] = dropped[push[p].conn][push[p].notif] + 1
           /\ \A d \in Channels, m \in Notifs :
                 d # push[p].conn \/ m # push[p].notif => dropped'[d][m] = dropped[d][m]
<1>1. push[p].conn \in Channels /\ push[p].notif \in Notifs
  BY HoldsConn DEF PushDrops
<1>2. /\ filled \in [Channels -> 0 .. Buffer] /\ dropped \in [Channels -> [Notifs -> Nat]]
      /\ copies \in [Channels -> [Notifs -> Nat]]
  BY DEF HubBase, HubTypeOK
<1>3. /\ dropped' = [dropped EXCEPT ![push[p].conn][push[p].notif] = @ + 1] /\ copies' = copies
      /\ filled' = filled
  BY DEF PushDrops
<1>5. /\ dropped' \in [Channels -> [Notifs -> Nat]]
      /\ dropped'[push[p].conn][push[p].notif] = dropped[push[p].conn][push[p].notif] + 1
  BY ONLY <1>1, <1>2, <1>3, Counted
<1>6. \A d \in Channels, m \in Notifs :
          d # push[p].conn \/ m # push[p].notif => dropped'[d][m] = dropped[d][m]
  BY ONLY <1>1, <1>2, <1>3, Counted
<1> QED
  BY <1>2, <1>3, <1>5, <1>6

LEMMA HubStep == HubBase /\ TableInv /\ [HubNext]_hubVars => HubBase'
<1> SUFFICES ASSUME HubBase, TableInv, [HubNext]_hubVars PROVE HubBase'
  OBVIOUS
<1>0. /\ heap \in Seq(Seq(Cells)) /\ slice \in Slice /\ slice.array <= Len(heap)
      /\ \A p \in Pushers : push[p].seen \in Slice
  BY DEF HubBase, HubTypeOK, Cells
<1>1. ASSUME NEW c \in Channels, Subscribe(c) PROVE HubBase'
  <2>1. /\ Extends(heap, heap') /\ slice' \in Slice /\ slice'.array \in 1 .. Len(heap')
        /\ slice'.len <= Len(heap'[slice'.array])
    BY <1>1, SubscribeGives
  <2>2. /\ state' = [state EXCEPT ![c] = "open"] /\ Unlocked /\ unsub' = unsub
        /\ UNCHANGED <<filled, push, pushed, copies, dropped, raced, panicked>>
    BY <1>1 DEF Subscribe
  <2>3. HubTypeOK'
    BY <2>1, <2>2 DEF HubBase, HubTypeOK, Extends, Cells, Slice
  <2>4. \A p \in Pushers : Within(push[p].seen)'
    BY <1>0, <2>1, <2>2, WithinStays DEF HubBase, HeaderInv, Within
  <2>5. HeaderInv'
    BY <2>1, <2>2, <2>4 DEF HubBase, HeaderInv, Within, Walking, Unlocked
  <2> QED
    BY <2>3, <2>5 DEF HubBase
<1>2. ASSUME NEW c \in Channels, UnsubscribeBegins(c) PROVE HubBase'
  BY <1>2 DEF UnsubscribeBegins, HubBase, HeaderInv, HubTypeOK, Within, Walking, Unlocked, Slice
<1>3. ASSUME NEW c \in Channels, Receive(c) PROVE HubBase'
  BY <1>3, HubConstants DEF Receive, HubBase, HeaderInv, HubTypeOK, Within, Walking, Unlocked
<1>4. CASE UnsubscribeShifts
  <2>1. Extends(heap, heap') /\ Len(heap') = Len(heap)
    BY <1>4, ShiftGives
  <2>2. /\ ~Unlocked /\ unsub.index < slice.len /\ unsub' = [unsub EXCEPT !.index = @ + 1]
        /\ UNCHANGED <<slice, state, filled, push, pushed, copies, dropped, raced, panicked>>
    BY <1>4 DEF UnsubscribeShifts
  <2>3. HubTypeOK'
    <3>0. unsub \in [conn : Channels \cup {NoConn}, index : Nat]
      BY DEF HubBase, HubTypeOK
    <3>1. unsub' \in [conn : Channels \cup {NoConn}, index : Nat]
      <4>1. unsub' = [unsub EXCEPT !.index = unsub.index + 1] /\ unsub.index + 1 \in Nat
        BY <2>2, <3>0
      <4> QED
        BY ONLY <3>0, <4>1
    <3>2. heap' \in Seq(Seq(Channels \cup {NoConn})) /\ slice'.array <= Len(heap')
      BY <2>1, <2>2 DEF HubBase, HubTypeOK, Extends, Cells
    <3> QED
      BY <2>2, <3>1, <3>2 DEF HubBase, HubTypeOK
  <2>4. Within(slice)' /\ \A p \in Pushers : Within(push[p].seen)'
    BY <1>0, <2>1, <2>2, WithinStays DEF HubBase, HeaderInv, Within
  <2>5. unsub'.index \in 1 .. slice'.len /\ unsub'.conn \in Channels
    BY <1>0, <2>2 DEF HubBase, HeaderInv, HubTypeOK, Slice
  <2>6. HeaderInv'
    BY <2>2, <2>4, <2>5 DEF HubBase, HeaderInv, Walking
  <2> QED
    BY <2>3, <2>6 DEF HubBase
<1>5. CASE UnsubscribeEnds
  <2>1. /\ slice' = [slice EXCEPT !.len = @ - 1] /\ ~Unlocked /\ unsub' = NoUnsub
        /\ state' = [state EXCEPT ![unsub.conn] = "closed"]
        /\ UNCHANGED <<heap, filled, push, pushed, copies, dropped, raced, panicked>>
    BY <1>5 DEF UnsubscribeEnds
  <2>2. slice.len \in Nat /\ slice.len >= 1
    BY <1>0, <2>1 DEF HubBase, HeaderInv, Slice
  <2>3. slice' \in Slice /\ slice'.array = slice.array /\ slice'.len = slice.len - 1
    BY <1>0, <2>1, <2>2 DEF Slice
  <2>4. unsub' \in [conn : Channels \cup {NoConn}, index : Nat] /\ Unlocked'
    BY <2>1 DEF NoUnsub, Unlocked
  <2>5. HubTypeOK'
    BY <2>1, <2>3, <2>4 DEF HubBase, HubTypeOK
  <2>6. HeaderInv'
    BY <2>1, <2>2, <2>3, <2>4 DEF HubBase, HeaderInv, Within, Walking
  <2> QED
    BY <2>5, <2>6 DEF HubBase
<1>6. ASSUME NEW p \in Pushers, NEW n \in Notifs, PushBegins(p, n) PROVE HubBase'
  <2> DEFINE T == {Elements[i] : i \in 1 .. slice.len}
             x == [notif |-> n, seen |-> slice, index |-> 1, conn |-> NoConn, targets |-> T]
  <2>1. T \subseteq Channels
    <3>1. Unlocked
      BY <1>6 DEF PushBegins
    <3>2. \A i \in 1 .. slice.len : Elements[i] \in Channels
      BY <3>1 DEF TableInv, Slots, Elements
    <3> QED
      BY <3>2
  <2>2. /\ push' = [push EXCEPT ![p] = x] /\ pushed' = pushed \cup {n} /\ raced' = raced \ {p}
        /\ UNCHANGED <<heap, slice, unsub, state, filled, copies, dropped, panicked>>
    BY <1>6 DEF PushBegins
  <2> HIDE DEF T
  <2>3. x \in Pushing /\ x.notif = n /\ x.seen = slice /\ x.index = 1
    BY <1>0, <2>1 DEF Pushing, Cells
  <2> HIDE DEF x
  <2>4. push' \in [Pushers -> Pushing]
    BY <2>2, <2>3 DEF HubBase, HubTypeOK, Pushing, Cells
  <2>5. HubTypeOK'
    BY <2>2, <2>4 DEF HubBase, HubTypeOK, Pushing, Cells
  <2>6. push'[p] = x /\ \A q \in Pushers \ {p} : push'[q] = push[q]
    BY <2>2 DEF HubBase, HubTypeOK
  <2>7. n # NoNotif
    BY HubConstants
  <2>8. HeaderInv'
    BY <2>2, <2>3, <2>6, <2>7 DEF HubBase, HeaderInv, Within, Walking, Unlocked
  <2> QED
    BY <2>5, <2>8 DEF HubBase
<1>7. ASSUME NEW p \in Pushers, PushReads(p) PROVE HubBase'
  <2>1. UNCHANGED <<heap, slice, unsub, state, filled, pushed, copies, dropped, raced, panicked>>
    BY <1>7 DEF PushReads
  <2>2. push' \in [Pushers -> Pushing]
    BY <1>7, ReadGives
  <2>3. /\ \A q \in Pushers \ {p} : push'[q] = push[q]
        /\ push'[p].notif = push[p].notif /\ push'[p].seen = push[p].seen
        /\ push'[p].index = push[p].index /\ Walking(p)
    BY <1>7, ReadGives
  <2>4. HubTypeOK'
    BY <2>1, <2>2 DEF HubBase, HubTypeOK, Pushing, Cells
  <2>5. HeaderInv'
    BY <2>1, <2>3 DEF HubBase, HeaderInv, Within, Walking, Unlocked
  <2> QED
    BY <2>4, <2>5 DEF HubBase
<1>8. ASSUME NEW p \in Pushers, PushSends(p) \/ PushDrops(p) PROVE HubBase'
  <2>1. /\ Advance(p) /\ Active(p) /\ UNCHANGED <<heap, slice, unsub, state, pushed, raced, panicked>>
    BY <1>8 DEF PushSends, PushDrops
  <2>2. push' \in [Pushers -> Pushing]
    BY <2>1, AdvanceGives
  <2>3. /\ \A q \in Pushers \ {p} : push'[q] = push[q]
        /\ push'[p].notif = push[p].notif /\ push'[p].seen = push[p].seen
        /\ push'[p].index = push[p].index + 1
    BY <2>1, AdvanceGives
  <2>4. Walking(p) /\ push[p].conn \in Channels \cup {NoConn} /\ push[p].notif \in Notifs /\ push[p].index \in Nat
    BY <2>1 DEF HubBase, HeaderInv, Walking, Active, HubTypeOK
  <2>5. /\ filled' \in [Channels -> 0 .. Buffer]
        /\ copies' \in [Channels -> [Notifs -> Nat]] /\ dropped' \in [Channels -> [Notifs -> Nat]]
    BY <1>8, <2>4, SendCounts, DropCounts
  <2>6. HubTypeOK'
    BY <2>1, <2>2, <2>5 DEF HubBase, HubTypeOK, Pushing, Cells
  <2>7. HeaderInv'
    BY <2>1, <2>3, <2>4 DEF HubBase, HeaderInv, Within, Walking, Unlocked
  <2> QED
    BY <2>6, <2>7 DEF HubBase
<1>10. ASSUME NEW p \in Pushers, PushPanics(p) PROVE HubBase'
  BY <1>10 DEF PushPanics, HubBase, HeaderInv, HubTypeOK, Within, Walking, Unlocked
<1>11. ASSUME NEW p \in Pushers, PushEnds(p) PROVE HubBase'
  <2>1. /\ push' = [push EXCEPT ![p] = Idle]
        /\ UNCHANGED <<heap, slice, unsub, state, filled, pushed, copies, dropped, raced, panicked>>
    BY <1>11 DEF PushEnds
  <2>2. Idle \in Pushing /\ Idle.notif = NoNotif /\ Idle.seen.len = 0
    BY DEF Idle, Pushing, Slice, Cells
  <2>3. push' \in [Pushers -> Pushing]
    BY <2>1, <2>2 DEF HubBase, HubTypeOK, Pushing, Cells
  <2>4. push'[p] = Idle /\ \A q \in Pushers \ {p} : push'[q] = push[q]
    BY <2>1 DEF HubBase, HubTypeOK
  <2>5. HubTypeOK'
    BY <2>1, <2>3 DEF HubBase, HubTypeOK, Pushing, Cells
  <2>6. HeaderInv'
    BY <2>1, <2>2, <2>4 DEF HubBase, HeaderInv, Within, Walking, Unlocked
  <2> QED
    BY <2>5, <2>6 DEF HubBase
<1>12. CASE UNCHANGED hubVars
  BY <1>12 DEF hubVars, HubBase, HeaderInv, HubTypeOK, Within, Walking, Unlocked
<1> QED
  BY <1>1, <1>2, <1>3, <1>4, <1>5, <1>6, <1>7, <1>8, <1>10, <1>11, <1>12
     DEF HubNext, Handler, PushStep

LEMMA TableStep == HubBase /\ TableInv /\ [HubNext]_hubVars => TableInv'
<1> SUFFICES ASSUME HubBase, TableInv, [HubNext]_hubVars PROVE TableInv'
  OBVIOUS
<1>0. /\ heap \in Seq(Seq(Cells)) /\ slice \in Slice /\ slice.len \in Nat /\ slice.array \in Nat
      /\ state \in [Channels -> {"new", "open", "closed"}] /\ unsub \in [conn : Cells, index : Nat]
      /\ ~Unlocked => unsub.index \in 1 .. slice.len /\ unsub.conn \in Channels
      /\ NoConn \notin Channels
  BY HubConstants DEF HubBase, HubTypeOK, Cells, HeaderInv, Slice
<1> DEFINE x(i) == heap[slice.array][i]
           y(i) == heap'[slice'.array][i]
           Lists == \A i \in Slots' : \E c \in Channels : y(i) = c /\ Stays(c)'
           Holds == \A c \in Channels : Stays(c)' => \E i \in Slots' : y(i) = c
           Once  == \A i, j \in Slots' : y(i) = y(j) => i = j
<1>t. /\ \A i \in Slots : x(i) \in Channels /\ Stays(x(i))
      /\ \A c \in Channels : Stays(c) => \E i \in Slots : x(i) = c
      /\ \A i, j \in Slots : x(i) = x(j) => i = j
  BY DEF TableInv
<1>g. Lists /\ Holds /\ Once => TableInv'
  BY DEF TableInv, Stays
<1> HIDE DEF x, y
<1>1. ASSUME NEW c \in Channels, Subscribe(c) PROVE Lists /\ Holds /\ Once
  <2>1. /\ slice'.len = slice.len + 1 /\ \A j \in 1 .. slice.len : y(j) = x(j)
        /\ y(slice.len + 1) = c
    BY <1>1, SubscribeGives DEF x, y
  <2>2. Unlocked /\ Unlocked' /\ state[c] = "new" /\ state' = [state EXCEPT ![c] = "open"]
    BY <1>1 DEF Subscribe, Unlocked
  <2>3. /\ Slots = 1 .. slice.len /\ slice.len + 1 \in Slots'
        /\ \A i \in Slots' : i \in Slots \/ i = slice.len + 1
    BY <1>0, <2>1, <2>2 DEF Slots
  <2>4. /\ \A d \in Channels : Stays(d)' <=> Stays(d) \/ d = c
        /\ ~Stays(c)
    BY <1>0, <2>2 DEF Stays
  <2>5. \A i \in Slots : y(i) = x(i) /\ i \in Slots' /\ x(i) # c
    BY <1>0, <1>t, <2>1, <2>2, <2>3, <2>4 DEF Slots
  <2>6. Lists
    BY <1>t, <2>1, <2>3, <2>4, <2>5
  <2>7. Holds
    BY <1>t, <2>1, <2>3, <2>4, <2>5
  <2>8. Once
    BY <1>t, <2>1, <2>3, <2>5
  <2> QED
    BY <2>6, <2>7, <2>8
<1>2. ASSUME NEW c \in Channels, UnsubscribeBegins(c) PROVE Lists /\ Holds /\ Once
  <2>1. PICK k \in 1 .. slice.len : Elements[k] = c /\ unsub' = [conn |-> c, index |-> k]
    BY <1>2 DEF UnsubscribeBegins
  <2>2. /\ Unlocked /\ heap' = heap /\ slice' = slice /\ state' = state
        /\ unsub'.conn = c /\ unsub'.index = k /\ x(k) = c
    BY <1>2, <2>1 DEF UnsubscribeBegins, Elements, x
  <2>3. ~Unlocked'
    BY <1>0, <2>2 DEF Unlocked, NoUnsub
  <2>4. Slots = 1 .. slice.len /\ Slots' = Slots \ {k} /\ k \in Slots
    BY <2>2, <2>3 DEF Slots
  <2>5. \A d \in Channels : Stays(d)' <=> Stays(d) /\ d # c
    BY <2>2, <2>3 DEF Stays
  <2>6. \A i : y(i) = x(i)
    BY <2>2 DEF x, y
  <2>7. Lists
    BY <1>t, <2>2, <2>4, <2>5, <2>6
  <2>8. Holds
    BY <1>t, <2>2, <2>4, <2>5, <2>6
  <2>9. Once
    BY <1>t, <2>4, <2>6
  <2> QED
    BY <2>7, <2>8, <2>9
<1>3. ASSUME UnsubscribeShifts PROVE Lists /\ Holds /\ Once
  <2> DEFINE k == unsub.index
  <2>1. /\ ~Unlocked /\ k < slice.len /\ slice' = slice /\ state' = state
        /\ unsub' = [unsub EXCEPT !.index = @ + 1]
    BY <1>3 DEF UnsubscribeShifts
  <2>2. unsub'.index = k + 1 /\ unsub'.conn = unsub.conn /\ k \in 1 .. slice.len /\ unsub.conn \in Channels
    BY <1>0, <2>1
  <2>3. ~Unlocked'
    BY <1>0, <2>2 DEF Unlocked, NoUnsub
  <2>4. \A j \in Nat : y(j) = IF j = k THEN x(k + 1) ELSE x(j)
    BY <1>3, <2>1, ShiftGives DEF x, y
  <2>5. /\ Slots = (1 .. slice.len) \ {k} /\ Slots' = (1 .. slice.len) \ {k + 1}
    BY <2>1, <2>2, <2>3 DEF Slots
  <2>6. \A d \in Channels : Stays(d)' <=> Stays(d)
    BY <2>1, <2>2, <2>3 DEF Stays
  <2> HIDE DEF k
  <2>7. /\ k \in Nat /\ k \in Slots' /\ k + 1 \in Slots /\ y(k) = x(k + 1)
        /\ \A i \in Slots' : i # k => i \in Slots /\ i # k + 1 /\ y(i) = x(i)
        /\ \A i \in Slots : i # k + 1 => i \in Slots' /\ i # k /\ y(i) = x(i)
    BY <1>0, <2>1, <2>2, <2>4, <2>5
  <2>8. Lists
    BY <1>t, <2>6, <2>7
  <2>9. Holds
    BY <1>t, <2>6, <2>7
  <2>10. Once
    BY <1>t, <2>7
  <2> QED
    BY <2>8, <2>9, <2>10
<1>4. ASSUME UnsubscribeEnds PROVE Lists /\ Holds /\ Once
  <2>1. /\ ~Unlocked /\ unsub.index = slice.len /\ slice' = [slice EXCEPT !.len = @ - 1] /\ heap' = heap
        /\ unsub' = NoUnsub /\ state' = [state EXCEPT ![unsub.conn] = "closed"]
    BY <1>4 DEF UnsubscribeEnds
  <2>2. slice'.array = slice.array /\ slice'.len = slice.len - 1 /\ Unlocked' /\ unsub.conn \in Channels
    BY <1>0, <2>1 DEF Slice, Unlocked
  <2>3. Slots' = Slots
    BY <1>0, <2>1, <2>2 DEF Slots
  <2>4. \A d \in Channels : Stays(d)' <=> Stays(d)
    BY <1>0, <2>1, <2>2 DEF Stays
  <2>5. \A i : y(i) = x(i)
    BY <2>1, <2>2 DEF x, y
  <2> QED
    BY <1>t, <2>3, <2>4, <2>5
<1>5. ASSUME UNCHANGED <<heap, slice, unsub, state>> PROVE Lists /\ Holds /\ Once
  <2>1. Slots' = Slots /\ \A d \in Channels : Stays(d)' <=> Stays(d)
    BY <1>5 DEF Slots, Stays, Unlocked
  <2>2. \A i : y(i) = x(i)
    BY <1>5 DEF x, y
  <2> QED
    BY <1>t, <2>1, <2>2
<1>6. UNCHANGED hubVars => UNCHANGED <<heap, slice, unsub, state>>
  BY DEF hubVars
<1>7. ASSUME NEW c \in Channels, Receive(c) PROVE UNCHANGED <<heap, slice, unsub, state>>
  BY <1>7 DEF Receive
<1>8. ASSUME NEW p \in Pushers, PushStep(p) \/ \E n \in Notifs : PushBegins(p, n)
      PROVE  UNCHANGED <<heap, slice, unsub, state>>
  BY <1>8 DEF PushStep, PushBegins, PushReads, PushSends, PushDrops, PushPanics, PushEnds
<1> HIDE DEF Lists, Holds, Once
<1>9. Lists /\ Holds /\ Once
  BY <1>1, <1>2, <1>3, <1>4, <1>5, <1>6, <1>7, <1>8 DEF HubNext, Handler
<1> QED
  BY <1>g, <1>9

LEMMA HubStarts == HubInit => HubBase /\ TableInv
<1> SUFFICES ASSUME HubInit PROVE HubBase /\ TableInv
  OBVIOUS
<1>1. Unlocked /\ slice = [array |-> 0, len |-> 0] /\ heap = << >> /\ state = [c \in Channels |-> "new"]
  BY DEF HubInit, Unlocked
<1>2. slice \in Slice /\ slice.len = 0 /\ slice.array = 0
  BY <1>1 DEF Slice
<1>3. Idle \in Pushing /\ Idle.seen.len = 0 /\ Idle.notif = NoNotif
  BY DEF Idle, Pushing, Slice, Cells
<1>4. push \in [Pushers -> Pushing] /\ \A p \in Pushers : push[p] = Idle
  BY <1>3 DEF HubInit
<1>5. unsub \in [conn : Cells, index : Nat]
  BY DEF HubInit, NoUnsub, Cells
<1>6. HubTypeOK
  <2>1. heap \in Seq(Seq(Cells)) /\ slice.array <= Len(heap)
    BY <1>1, <1>2
  <2>2. filled \in [Channels -> 0 .. Buffer] /\ state \in [Channels -> {"new", "open", "closed"}]
    BY HubConstants DEF HubInit
  <2>3. copies \in [Channels -> [Notifs -> Nat]] /\ dropped \in [Channels -> [Notifs -> Nat]]
    BY DEF HubInit
  <2>4. pushed \subseteq Notifs /\ raced \subseteq Pushers /\ panicked \in BOOLEAN
    BY DEF HubInit
  <2> QED
    BY <1>2, <1>4, <1>5, <2>1, <2>2, <2>3, <2>4 DEF HubTypeOK, Pushing, Cells
<1>7. HeaderInv
  BY <1>1, <1>2, <1>3, <1>4 DEF HeaderInv, Within, Walking
<1>8. Slots = {}
  BY <1>1, <1>2 DEF Slots
<1>9. \A c \in Channels : ~Stays(c)
  BY <1>1 DEF Stays
<1> QED
  BY <1>6, <1>7, <1>8, <1>9 DEF HubBase, TableInv

LEMMA HubHolds == HubSpec => [](HubBase /\ TableInv)
BY HubStarts, HubStep, TableStep, PTL DEF HubSpec

\* The hub keeps to its types: headers are within their arrays, and only
\* connections and the gap are read from them.
THEOREM HubTypeCorrect == HubSpec => []HubTypeOK
<1>1. HubBase => HubTypeOK
  BY DEF HubBase
<1> QED
  BY <1>1, HubHolds, PTL

\* Whenever nobody holds the write lock the slice lists the open connections
\* of the user, each once, through any sequence of Subscribe and Unsubscribe.
THEOREM TableIsExact == HubSpec => []TableMatchesConnections
<1>1. ASSUME HubBase, TableInv PROVE TableMatchesConnections
  <2> SUFFICES ASSUME Unlocked
               PROVE  /\ {Elements[i] : i \in 1 .. slice.len} = {c \in Channels : state[c] = "open"}
                      /\ \A i, j \in 1 .. slice.len : Elements[i] = Elements[j] => i = j
    BY DEF TableMatchesConnections
  <2>1. Slots = 1 .. slice.len /\ \A c \in Channels : Stays(c) <=> state[c] = "open"
    BY DEF Slots, Stays
  <2>2. \A i \in Slots : Elements[i] = heap[slice.array][i]
    BY <2>1 DEF Elements
  <2>3. {Elements[i] : i \in Slots} = {c \in Channels : state[c] = "open"}
    BY <1>1, <2>1, <2>2 DEF TableInv
  <2>4. \A i, j \in Slots : Elements[i] = Elements[j] => i = j
    BY <1>1, <2>2 DEF TableInv
  <2> QED
    BY <2>1, <2>3, <2>4
<1> QED
  BY <1>1, HubHolds, PTL

-----------------------------------------------------------------------------
(* Pushes.                                                                 *)

\* Times that notification n was sent to c or met its full channel.
TimesHeard(c, n) == copies[c][n] + dropped[c][n]

\* A notification is pushed by one goroutine, and nobody hears of it before; an
\* Unsubscribe counts every running push as raced.
OwnInv ==
    /\ \A p \in Pushers : Walking(p) => push[p].notif \in pushed
    /\ \A p, q \in Pushers : Walking(p) /\ Walking(q) /\ push[p].notif = push[q].notif => p = q
    /\ \A n \in Notifs \ pushed, c \in Channels : TimesHeard(c, n) = 0
    /\ ~Unlocked => \A p \in Pushers : Walking(p) => p \in raced

\* A push that no Unsubscribe overlaps walks the cells of the array it found,
\* which nobody changes: new connections come behind them or into another array.
Target(p, i) == heap[push[p].seen.array][i]
Walk(p) ==
    /\ push[p].seen.array <= Len(heap)
    /\ push[p].index <= push[p].seen.len + 1
    /\ push[p].seen.array = slice.array => push[p].seen.len <= slice.len
    /\ \A c \in push[p].targets : \E i \in 1 .. push[p].seen.len : Target(p, i) = c
    /\ \A i \in 1 .. push[p].seen.len : Target(p, i) \in Channels
    /\ \A i, j \in 1 .. push[p].seen.len : Target(p, i) = Target(p, j) => i = j
    /\ push[p].conn # NoConn =>
          push[p].index <= push[p].seen.len /\ push[p].conn = Target(p, push[p].index)
    /\ \A i \in 1 .. push[p].seen.len :
          TimesHeard(Target(p, i), push[p].notif) = IF i < push[p].index THEN 1 ELSE 0
QuietInv == \A p \in Pushers : Walking(p) /\ p \notin raced => Walk(p)

LEMMA HubTypes ==
    ASSUME HubBase
    PROVE  /\ heap \in Seq(Seq(Cells)) /\ slice \in Slice /\ slice.len \in Nat /\ slice.array \in Nat
           /\ slice.array <= Len(heap) /\ NoConn \notin Channels /\ NoNotif \notin Notifs
           /\ push \in [Pushers -> Pushing] /\ \A p \in Pushers : Active(p) <=> Walking(p)
           /\ \A p \in Pushers : /\ push[p].seen.len \in Nat /\ push[p].seen.array \in Nat
                                 /\ push[p].index \in Nat /\ push[p].seen \in Slice
                                 /\ Walking(p) => push[p].notif \in Notifs /\ push[p].index >= 1
           /\ \A c \in Channels, n \in Notifs : copies[c][n] \in Nat /\ dropped[c][n] \in Nat
<1>1. /\ heap \in Seq(Seq(Cells)) /\ slice \in Slice /\ slice.len \in Nat /\ slice.array \in Nat
      /\ slice.array <= Len(heap) /\ NoConn \notin Channels /\ NoNotif \notin Notifs
      /\ push \in [Pushers -> Pushing]
  BY HubConstants DEF HubBase, HubTypeOK, Pushing, Cells, Slice
<1>2. \A p \in Pushers : Active(p) <=> Walking(p)
  <2>1. Idle.notif = NoNotif
    BY DEF Idle
  <2> QED
    BY <2>1 DEF HubBase, HeaderInv, Active, Walking
<1>3. \A p \in Pushers : /\ push[p].seen.len \in Nat /\ push[p].seen.array \in Nat
                         /\ push[p].index \in Nat /\ push[p].seen \in Slice
                         /\ Walking(p) => push[p].notif \in Notifs
  BY <1>1 DEF Pushing, Slice, Walking
<1>4. \A p \in Pushers : Walking(p) => push[p].index >= 1
  BY DEF HubBase, HeaderInv
<1>5. \A c \in Channels, n \in Notifs : copies[c][n] \in Nat /\ dropped[c][n] \in Nat
  BY DEF HubBase, HubTypeOK
<1> QED
  BY <1>1, <1>2, <1>3, <1>4, <1>5

\* Who has not moved walks on.
LEMMA WalkKept ==
    ASSUME HubBase, NEW p \in Pushers, Walking(p), Walk(p), push'[p] = push[p], Len(heap) <= Len(heap'), Len(heap') \in Nat,
           slice'.array = push[p].seen.array => push[p].seen.len <= slice'.len,
           \A i \in 1 .. push[p].seen.len : heap'[push[p].seen.array][i] = Target(p, i),
           \A c \in Channels : TimesHeard(c, push[p].notif)' = TimesHeard(c, push[p].notif)
    PROVE  Walk(p)'
<1> DEFINE r == push[p]
<1>0. /\ r.seen.len \in Nat /\ r.seen.array \in Nat /\ Len(heap) \in Nat /\ r.index \in Nat
      /\ r.index >= 1
  BY HubTypes
<1>1. push'[p] = r /\ \A i \in 1 .. r.seen.len : Target(p, i)' = Target(p, i)
  BY DEF Target
<1>2. /\ r.seen.array <= Len(heap) /\ r.index <= r.seen.len + 1
      /\ \A c \in r.targets : \E i \in 1 .. r.seen.len : Target(p, i) = c
      /\ \A i \in 1 .. r.seen.len : Target(p, i) \in Channels
      /\ \A i, j \in 1 .. r.seen.len : Target(p, i) = Target(p, j) => i = j
      /\ r.conn # NoConn => r.index <= r.seen.len /\ r.conn = Target(p, r.index)
      /\ \A i \in 1 .. r.seen.len : TimesHeard(Target(p, i), r.notif) = IF i < r.index THEN 1 ELSE 0
  BY DEF Walk
<1>3. \A i \in 1 .. r.seen.len : TimesHeard(Target(p, i), r.notif)' = TimesHeard(Target(p, i), r.notif)
  BY <1>1, <1>2 DEF TimesHeard
<1>4. /\ r.seen.array <= Len(heap') /\ (r.seen.array = slice'.array => r.seen.len <= slice'.len)
      /\ \A c \in r.targets : \E i \in 1 .. r.seen.len : Target(p, i)' = c
      /\ \A i \in 1 .. r.seen.len : Target(p, i)' \in Channels
      /\ \A i, j \in 1 .. r.seen.len : Target(p, i)' = Target(p, j)' => i = j
  BY <1>0, <1>1, <1>2
<1>5. r.conn # NoConn => r.index <= r.seen.len /\ r.conn = Target(p, r.index)'
  BY <1>0, <1>1, <1>2 DEF Target
<1>6. \A i \in 1 .. r.seen.len : TimesHeard(Target(p, i), r.notif)' = IF i < r.index THEN 1 ELSE 0
  BY <1>2, <1>3
<1> HIDE DEF r
<1> QED
  BY <1>1, <1>2, <1>4, <1>5, <1>6 DEF Walk, r

\* Only the channel and the notification that a push holds are heard of.
LEMMA HeardBy ==
    ASSUME HubBase, NEW p \in Pushers, PushSends(p) \/ PushDrops(p),
           NEW c, NEW n, c = push[p].conn, n = push[p].notif
    PROVE  /\ c \in Channels /\ n \in Notifs /\ Walking(p)
           /\ TimesHeard(c, n)' = TimesHeard(c, n) + 1
           /\ \A d \in Channels, m \in Notifs : d # c \/ m # n => TimesHeard(d, m)' = TimesHeard(d, m)
<1>0. c \in Channels /\ n \in Notifs /\ Walking(p)
  BY HoldsConn DEF PushSends, PushDrops
<1>1. copies[c][n] \in Nat /\ dropped[c][n] \in Nat
  BY <1>0, HubTypes
<1>2. CASE PushSends(p)
  <2>1. copies'[c][n] = copies[c][n] + 1 /\ dropped' = dropped
    BY <1>2, SendCounts
  <2>2. \A d \in Channels, m \in Notifs : d # c \/ m # n => copies'[d][m] = copies[d][m]
    BY <1>2, SendCounts
  <2> QED
    BY <1>0, <1>1, <2>1, <2>2 DEF TimesHeard
<1>3. CASE PushDrops(p)
  <2>1. dropped'[c][n] = dropped[c][n] + 1 /\ copies' = copies
    BY <1>3, DropCounts
  <2>2. \A d \in Channels, m \in Notifs : d # c \/ m # n => dropped'[d][m] = dropped[d][m]
    BY <1>3, DropCounts
  <2> QED
    BY <1>0, <1>1, <2>1, <2>2 DEF TimesHeard
<1> QED
  BY <1>2, <1>3

LEMMA OwnStep == HubBase /\ OwnInv /\ [HubNext]_hubVars => OwnInv'
<1> SUFFICES ASSUME HubBase, OwnInv, [HubNext]_hubVars PROVE OwnInv'
  OBVIOUS
<1>1. ASSUME NEW c \in Channels, Subscribe(c) \/ Receive(c) PROVE OwnInv'
  BY <1>1 DEF OwnInv, Walking, TimesHeard, Unlocked, Subscribe, Receive
<1>2. ASSUME NEW c \in Channels, UnsubscribeBegins(c) PROVE OwnInv'
  <2>1. \A p \in Pushers : Walking(p) => Active(p)
    BY HubTypes
  <2>2. raced' = {p \in Pushers : Active(p)} /\ UNCHANGED <<push, pushed, copies, dropped>>
    BY <1>2 DEF UnsubscribeBegins
  <2> QED
    BY <2>1, <2>2 DEF OwnInv, Walking, TimesHeard
<1>3. ASSUME UnsubscribeShifts \/ UnsubscribeEnds PROVE OwnInv'
  <2>1. ~Unlocked /\ UNCHANGED <<push, pushed, copies, dropped, raced>>
    BY <1>3 DEF UnsubscribeShifts, UnsubscribeEnds
  <2> QED
    BY <2>1 DEF OwnInv, Walking, TimesHeard
<1>4. ASSUME NEW p \in Pushers, NEW n \in Notifs, PushBegins(p, n) PROVE OwnInv'
  <2>1. /\ Unlocked /\ Unlocked' /\ n \notin pushed /\ pushed' = pushed \cup {n}
        /\ copies' = copies /\ dropped' = dropped
    BY <1>4 DEF PushBegins, Unlocked
  <2>2. push'[p].notif = n /\ \A q \in Pushers \ {p} : push'[q] = push[q]
    BY <1>4, HubTypes DEF PushBegins
  <2> QED
    BY <2>1, <2>2 DEF OwnInv, Walking, TimesHeard
<1>5. ASSUME NEW p \in Pushers, PushReads(p) PROVE OwnInv'
  <2>1. UNCHANGED <<unsub, pushed, copies, dropped, raced>>
    BY <1>5 DEF PushReads
  <2>2. \A q \in Pushers : push'[q].notif = push[q].notif
    BY <1>5, ReadGives
  <2> QED
    BY <2>1, <2>2 DEF OwnInv, Walking, TimesHeard, Unlocked
<1>6. ASSUME NEW p \in Pushers, PushSends(p) \/ PushDrops(p) PROVE OwnInv'
  <2>1. Advance(p) /\ UNCHANGED <<unsub, pushed, raced>>
    BY <1>6 DEF PushSends, PushDrops
  <2>2. \A q \in Pushers : push'[q].notif = push[q].notif
    BY <2>1, AdvanceGives
  <2>3. \A m \in Notifs \ {push[p].notif}, c \in Channels : TimesHeard(c, m)' = TimesHeard(c, m)
    BY <1>6, HeardBy
  <2>4. push[p].notif \in pushed
    <3>1. Walking(p)
      BY <1>6, HeardBy
    <3> QED
      BY <3>1 DEF OwnInv
  <2>5. \A m \in Notifs \ pushed', c \in Channels : TimesHeard(c, m)' = 0
    BY <2>1, <2>3, <2>4 DEF OwnInv
  <2> QED
    BY <2>1, <2>2, <2>5 DEF OwnInv, Walking, Unlocked
<1>7. ASSUME NEW p \in Pushers, PushEnds(p) PROVE OwnInv'
  <2>1. UNCHANGED <<unsub, pushed, copies, dropped, raced>> /\ push' = [push EXCEPT ![p] = Idle]
    BY <1>7 DEF PushEnds
  <2>2. push'[p].notif = NoNotif /\ \A q \in Pushers \ {p} : push'[q] = push[q]
    BY <2>1, HubTypes DEF Idle
  <2> QED
    BY <2>1, <2>2 DEF OwnInv, Walking, TimesHeard, Unlocked
<1>8. ASSUME UNCHANGED hubVars \/ \E p \in Pushers : PushPanics(p) PROVE OwnInv'
  BY <1>8 DEF hubVars, PushPanics, OwnInv, Walking, TimesHeard, Unlocked
<1> QED
  BY <1>1, <1>2, <1>3, <1>4, <1>5, <1>6, <1>7, <1>8 DEF HubNext, Handler, PushStep

LEMMA QuietStep == HubBase /\ TableInv /\ OwnInv /\ QuietInv /\ [HubNext]_hubVars => QuietInv'
<1> SUFFICES ASSUME HubBase, TableInv, OwnInv, QuietInv, [HubNext]_hubVars PROVE QuietInv'
  OBVIOUS
<1>0. heap \in Seq(Seq(Cells)) /\ Len(heap) \in Nat
  BY HubTypes
\* A goroutine that does not move, while nobody changes the table.
<1>s. ASSUME NEW q \in Pushers, Walking(q)', q \notin raced', raced' = raced, push'[q] = push[q],
             UNCHANGED <<heap, slice>>, \A c \in Channels : TimesHeard(c, push[q].notif)' = TimesHeard(c, push[q].notif)
      PROVE  Walk(q)'
  <2>1. Walking(q) /\ Walk(q)
    BY <1>s DEF Walking, QuietInv
  <2>2. push[q].seen.array = slice.array => push[q].seen.len <= slice.len
    BY <2>1 DEF Walk
  <2>3. \A i \in 1 .. push[q].seen.len : heap'[push[q].seen.array][i] = Target(q, i)
    BY <1>s DEF Target
  <2> QED
    BY <1>0, <1>s, <2>1, <2>2, <2>3, WalkKept
<1>1. ASSUME NEW c \in Channels, Subscribe(c) PROVE QuietInv'
  <2> SUFFICES ASSUME NEW q \in Pushers, Walking(q)', q \notin raced' PROVE Walk(q)'
    BY DEF QuietInv
  <2>1. UNCHANGED <<push, copies, dropped, raced>>
    BY <1>1 DEF Subscribe
  <2>2. Walking(q) /\ Walk(q) /\ push'[q] = push[q]
    BY <2>1 DEF Walking, QuietInv
  <2>3. /\ slice'.len = slice.len + 1 /\ slice'.array \in {slice.array, Len(heap) + 1}
        /\ Extends(heap, heap')
    BY <1>1, SubscribeGives
  <2>4. \A a \in 1 .. Len(heap), j \in Nat : a # slice.array \/ j <= slice.len => heap'[a][j] = heap[a][j]
    BY <1>1, SubscribeGives
  <2> DEFINE h == push[q].seen
  <2>5. /\ h.array <= Len(heap) /\ (h.array = slice.array => h.len <= slice.len)
        /\ h.array \in Nat /\ h.len \in Nat /\ slice.len \in Nat
        /\ h.len > 0 => h.array \in 1 .. Len(heap)
    BY <2>2, HubTypes DEF Walk, HubBase, HeaderInv, Within
  <2>6. slice'.array = h.array => h.len <= slice'.len
    BY <1>0, <2>3, <2>5
  <2>7. \A i \in 1 .. h.len : heap'[h.array][i] = heap[h.array][i]
    BY <2>4, <2>5
  <2>8. Len(heap) <= Len(heap') /\ Len(heap') \in Nat
    BY <2>3 DEF Extends
  <2>9. \A d \in Channels : TimesHeard(d, push[q].notif)' = TimesHeard(d, push[q].notif)
    BY <2>1 DEF TimesHeard
  <2>10. \A i \in 1 .. h.len : heap'[h.array][i] = Target(q, i)
    BY <2>7 DEF Target
  <2> QED
    BY <2>2, <2>6, <2>8, <2>9, <2>10, WalkKept
<1>2. ASSUME NEW c \in Channels, UnsubscribeBegins(c) PROVE QuietInv'
  <2>1. \A p \in Pushers : Walking(p) => Active(p)
    BY HubTypes
  <2>2. raced' = {p \in Pushers : Active(p)} /\ push' = push
    BY <1>2 DEF UnsubscribeBegins
  <2> QED
    BY <2>1, <2>2 DEF QuietInv, Walking
<1>3. ASSUME UnsubscribeShifts \/ UnsubscribeEnds PROVE QuietInv'
  <2>1. ~Unlocked /\ push' = push /\ raced' = raced
    BY <1>3 DEF UnsubscribeShifts, UnsubscribeEnds
  <2> QED
    BY <2>1 DEF OwnInv, QuietInv, Walking
<1>4. ASSUME NEW c \in Channels, Receive(c) PROVE QuietInv'
  <2>1. UNCHANGED <<heap, slice, push, copies, dropped, raced>>
    BY <1>4 DEF Receive
  <2>2. \A q \in Pushers, d \in Channels : TimesHeard(d, push[q].notif)' = TimesHeard(d, push[q].notif)
    BY <2>1 DEF TimesHeard
  <2> QED
    BY <1>s, <2>1, <2>2 DEF QuietInv
<1>8. ASSUME UNCHANGED hubVars \/ \E p \in Pushers : PushPanics(p) PROVE QuietInv'
  <2>1. UNCHANGED <<heap, slice, push, copies, dropped, raced>>
    BY <1>8 DEF hubVars, PushPanics
  <2>2. \A q \in Pushers, d \in Channels : TimesHeard(d, push[q].notif)' = TimesHeard(d, push[q].notif)
    BY <2>1 DEF TimesHeard
  <2> QED
    BY <1>s, <2>1, <2>2 DEF QuietInv
<1>9. ASSUME NEW p \in Pushers, PushEnds(p) PROVE QuietInv'
  <2>1. UNCHANGED <<heap, slice, copies, dropped, raced>> /\ push' = [push EXCEPT ![p] = Idle]
    BY <1>9 DEF PushEnds
  <2>2. push'[p].notif = NoNotif /\ \A q \in Pushers \ {p} : push'[q] = push[q]
    BY <2>1, HubTypes DEF Idle
  <2>3. ~Walking(p)'
    BY <2>2 DEF Walking
  <2>4. \A q \in Pushers \ {p}, d \in Channels : TimesHeard(d, push[q].notif)' = TimesHeard(d, push[q].notif)
    BY <2>1, <2>2 DEF TimesHeard
  <2> QED
    BY <1>s, <2>1, <2>2, <2>3, <2>4 DEF QuietInv
<1>5. ASSUME NEW p \in Pushers, NEW n \in Notifs, PushBegins(p, n) PROVE QuietInv'
  <2> DEFINE T == {Elements[i] : i \in 1 .. slice.len}
             r == [notif |-> n, seen |-> slice, index |-> 1, conn |-> NoConn, targets |-> T]
  <2>1. /\ Unlocked /\ n \notin pushed /\ UNCHANGED <<heap, slice, copies, dropped>>
        /\ push' = [push EXCEPT ![p] = r] /\ raced' = raced \ {p}
    BY <1>5 DEF PushBegins
  <2>2. /\ r.notif = n /\ r.seen = slice /\ r.index = 1 /\ r.conn = NoConn /\ r.targets = T
    OBVIOUS
  <2> HIDE DEF r
  <2>3. push'[p] = r /\ \A q \in Pushers \ {p} : push'[q] = push[q]
    BY <2>1, HubTypes
  <2>4. Walk(p)'
    <3> DEFINE x(i) == heap[slice.array][i]
    <3>1. \A i \in 1 .. slice.len : Elements[i] = x(i)
      BY DEF Elements
    <3>2. /\ \A i \in 1 .. slice.len : x(i) \in Channels
          /\ \A i, j \in 1 .. slice.len : x(i) = x(j) => i = j
      BY <2>1 DEF TableInv, Slots
    <3>3. \A i \in 1 .. slice.len : Target(p, i)' = x(i)
      BY <2>1, <2>2, <2>3 DEF Target
    <3>4. \A c \in T : \E i \in 1 .. slice.len : x(i) = c
      BY <3>1
    <3>5. \A i \in 1 .. slice.len : TimesHeard(x(i), n) = 0 /\ ~(i < 1)
      BY <2>1, <3>2 DEF OwnInv
    <3> HIDE DEF x, T
    <3>6. \A i \in 1 .. slice.len : TimesHeard(Target(p, i), push[p].notif)' = 0
      BY <2>1, <2>2, <2>3, <3>3, <3>5 DEF TimesHeard
    <3>7. slice.array <= Len(heap) /\ slice.len \in Nat /\ 1 <= slice.len + 1 /\ slice.len <= slice.len
      BY HubTypes
    <3>8. /\ push'[p].seen = slice /\ push'[p].targets = T /\ push'[p].index = 1 /\ push'[p].conn = NoConn
          /\ slice' = slice /\ heap' = heap
      BY <2>1, <2>2, <2>3
    <3> QED
      BY <3>2, <3>3, <3>4, <3>5, <3>6, <3>7, <3>8 DEF Walk
  <2>5. ASSUME NEW q \in Pushers \ {p}, Walking(q)', q \notin raced' PROVE Walk(q)'
    <3>1. push'[q] = push[q] /\ Walking(q) /\ q \notin raced
      BY <2>1, <2>3, <2>5 DEF Walking
    <3>2. Walk(q)
      BY <3>1 DEF QuietInv
    <3>3. push[q].seen.array = slice.array => push[q].seen.len <= slice.len
      BY <3>2 DEF Walk
    <3>4. \A i \in 1 .. push[q].seen.len : heap'[push[q].seen.array][i] = Target(q, i)
      BY <2>1 DEF Target
    <3>5. \A d \in Channels : TimesHeard(d, push[q].notif)' = TimesHeard(d, push[q].notif)
      BY <2>1, <3>1 DEF TimesHeard
    <3> QED
      BY <1>0, <2>1, <3>1, <3>2, <3>3, <3>4, <3>5, WalkKept
  <2> QED
    BY <2>4, <2>5 DEF QuietInv
<1>6. ASSUME NEW p \in Pushers, PushReads(p) PROVE QuietInv'
  <2>1. UNCHANGED <<heap, slice, copies, dropped, raced>> /\ push[p].index <= push[p].seen.len
    BY <1>6 DEF PushReads
  <2>2. \A q \in Pushers \ {p} : push'[q] = push[q]
    BY <1>6, ReadGives
  <2>3. /\ push'[p].notif = push[p].notif /\ push'[p].seen = push[p].seen
        /\ push'[p].targets = push[p].targets /\ push'[p].index = push[p].index
        /\ push'[p].conn = Target(p, push[p].index)
    BY <1>6, ReadGives DEF Target
  <2>4. ASSUME Walking(p)', p \notin raced' PROVE Walk(p)'
    <3>1. Walk(p)
      BY <2>1, <2>3, <2>4 DEF Walking, QuietInv
    <3>2. \A i : Target(p, i)' = Target(p, i)
      BY <2>1, <2>3 DEF Target
    <3>3. \A i \in 1 .. push[p].seen.len : TimesHeard(Target(p, i), push[p].notif)' = TimesHeard(Target(p, i), push[p].notif)
      BY <2>1, <2>3, <3>2 DEF TimesHeard
    <3>4. push'[p].conn = Target(p, push[p].index)'
      BY <2>1, <2>3 DEF Target
    <3> QED
      BY <2>1, <2>3, <3>1, <3>2, <3>3, <3>4 DEF Walk
  <2>5. \A q \in Pushers \ {p}, d \in Channels : TimesHeard(d, push[q].notif)' = TimesHeard(d, push[q].notif)
    BY <2>1, <2>2 DEF TimesHeard
  <2> QED
    BY <1>s, <2>1, <2>2, <2>4, <2>5 DEF QuietInv
<1>7. ASSUME NEW p \in Pushers, PushSends(p) \/ PushDrops(p) PROVE QuietInv'
  <2>1. Advance(p) /\ UNCHANGED <<heap, slice, raced>> /\ push[p].conn # NoConn
    BY <1>7 DEF PushSends, PushDrops
  <2>2. \A q \in Pushers \ {p} : push'[q] = push[q]
    BY <2>1, AdvanceGives
  <2>3. /\ push'[p].notif = push[p].notif /\ push'[p].seen = push[p].seen
        /\ push'[p].targets = push[p].targets /\ push'[p].index = push[p].index + 1
        /\ push'[p].conn = NoConn
    BY <2>1, AdvanceGives
  <2>4. PICK c, n : c = push[p].conn /\ n = push[p].notif
    OBVIOUS
  <2>5. c \in Channels /\ n \in Notifs /\ Walking(p) /\ TimesHeard(c, n)' = TimesHeard(c, n) + 1
    BY <1>7, <2>4, HeardBy
  <2>6. \A d \in Channels, m \in Notifs : d # c \/ m # n => TimesHeard(d, m)' = TimesHeard(d, m)
    BY <1>7, <2>4, HeardBy
  <2>7. ASSUME p \notin raced' PROVE Walk(p)'
    <3>1. Walk(p)
      BY <2>1, <2>5, <2>7 DEF QuietInv
    <3>2. \A i : Target(p, i)' = Target(p, i)
      BY <2>1, <2>3 DEF Target
    <3> DEFINE len == push[p].seen.len
               k == push[p].index
    <3>3. k \in 1 .. len /\ c = Target(p, k) /\ len \in Nat
      BY <2>1, <2>4, <2>5, <3>1, HubTypes DEF Walk
    <3>4. \A i \in 1 .. len : /\ Target(p, i) \in Channels /\ (Target(p, i) = Target(p, k) => i = k)
                              /\ TimesHeard(Target(p, i), n) = IF i < k THEN 1 ELSE 0
      BY <2>4, <3>1, <3>3 DEF Walk
    <3>5. ASSUME NEW i \in 1 .. len
          PROVE  TimesHeard(Target(p, i), push[p].notif)' = IF i < k + 1 THEN 1 ELSE 0
      <4>1. PICK d \in Channels : d = Target(p, i)
        BY <3>4
      <4>2. TimesHeard(Target(p, i), push[p].notif)' = TimesHeard(d, n)'
        BY <2>3, <2>4, <3>2, <4>1 DEF TimesHeard
      <4>3. CASE i = k
        <5>1. TimesHeard(c, n) = 0
          BY <3>3, <3>4, <4>3
        <5> QED
          BY <2>5, <3>3, <4>1, <4>2, <4>3, <5>1
      <4>4. CASE i # k
        <5>1. d # c
          BY <3>3, <3>4, <4>1, <4>4
        <5>2. TimesHeard(d, n)' = TimesHeard(d, n)
          BY <2>5, <2>6, <5>1
        <5>3. TimesHeard(d, n) = IF i < k THEN 1 ELSE 0
          BY <3>4, <4>1
        <5> QED
          BY <3>3, <4>2, <4>4, <5>2, <5>3
      <4> QED
        BY <4>3, <4>4
    <3>6. k + 1 <= len + 1
      BY <3>3
    <3> QED
      BY <2>1, <2>3, <3>1, <3>2, <3>5, <3>6 DEF Walk
  <2>8. ASSUME NEW q \in Pushers \ {p}, Walking(q)', q \notin raced' PROVE Walk(q)'
    <3>1. push'[q] = push[q] /\ Walking(q) /\ push[q].notif # n /\ push[q].notif \in Notifs
      BY <2>2, <2>4, <2>5, <2>8, HubTypes DEF Walking, OwnInv
    <3>2. \A d \in Channels : TimesHeard(d, push[q].notif)' = TimesHeard(d, push[q].notif)
      <4>1. PICK m \in Notifs : m = push[q].notif
        BY <3>1
      <4>2. \A d \in Channels : TimesHeard(d, m)' = TimesHeard(d, m)
        BY <2>6, <3>1, <4>1
      <4> QED
        BY <3>1, <4>1, <4>2 DEF TimesHeard
    <3> QED
      BY <1>s, <2>1, <2>8, <3>1, <3>2
  <2> QED
    BY <2>7, <2>8 DEF QuietInv
<1> QED
  BY <1>1, <1>2, <1>3, <1>4, <1>5, <1>6, <1>7, <1>8, <1>9 DEF HubNext, Handler, PushStep

\* A push during which no Unsubscribe runs reaches every connection that was open
\* when it began once, or meets its full channel, for any connections, goroutines
\* and buffers, whatever subscribes and whatever else is pushed meanwhile.
THEOREM QuietPushIsExact == HubSpec => []QuietPushReachesAll
<1>1. HubInit => OwnInv /\ QuietInv
  <2> SUFFICES ASSUME HubInit PROVE OwnInv /\ QuietInv
    OBVIOUS
  <2>1. Idle.notif = NoNotif
    BY DEF Idle
  <2>2. \A p \in Pushers : ~Walking(p)
    BY <2>1 DEF HubInit, Walking
  <2>3. \A c \in Channels, n \in Notifs : TimesHeard(c, n) = 0
    BY DEF HubInit, TimesHeard
  <2> QED
    BY <2>2, <2>3 DEF OwnInv, QuietInv
<1>2. ASSUME HubBase, QuietInv PROVE QuietPushReachesAll
  <2> SUFFICES ASSUME NEW p \in Pushers, Finished(p), p \notin raced, NEW c \in push[p].targets
               PROVE  copies[c][push[p].notif] + dropped[c][push[p].notif] = 1
    BY DEF QuietPushReachesAll
  <2>1. Walking(p) /\ push[p].index > push[p].seen.len /\ push[p].seen.len \in Nat /\ push[p].index \in Nat
    BY <1>2, HubTypes DEF Finished
  <2>2. Walk(p)
    BY <1>2, <2>1 DEF QuietInv
  <2>3. PICK i \in 1 .. push[p].seen.len : Target(p, i) = c
    BY <2>2 DEF Walk
  <2>4. TimesHeard(c, push[p].notif) = 1
    BY <2>1, <2>2, <2>3 DEF Walk
  <2> QED
    BY <2>4 DEF TimesHeard
<1> QED
  BY <1>1, <1>2, HubHolds, OwnStep, QuietStep, PTL DEF HubSpec

=============================================================================
