----------------------------- MODULE EventRetry -----------------------------
(***************************************************************************)
(* The retry protocol that every MQ consumer of the system shares          *)
(* (consumeWithRetry of worker/retry.go), on a topic exchange whose events *)
(* are routed to the business queue and to the notification queue.         *)
(*                                                                         *)
(* A failed delivery is published again, to the EXCHANGE it came from,     *)
(* with x-retry-count one higher, and then acked; at the limit it is       *)
(* rejected and dead-lettered through the topic exchange dlx.events.  The  *)
(* queues are bags of copies: no property here depends on their order, and *)
(* a prefetched delivery that has not been started is still a ready copy,  *)
(* because the broker hands it out again when its consumer goes away.      *)
(***************************************************************************)
EXTENDS Integers, FiniteSets

CONSTANTS
    Queues,         \* queues bound to the exchange
    Events,         \* events published by the API
    Bound,          \* Bound[q]: events whose routing key q's binding matches
    Consumers,      \* goroutines that run consumeWithRetry
    Source,         \* Source[c]: the queue that c consumes
    Supervised,     \* consumers whose process ends and restarts with them
    MaxRetryCount,  \* rabbitmq.MaxRetryCount
    MaxFaults       \* bound: lost channels and failed republishes

ASSUME RetryConstants ==
    /\ IsFiniteSet(Queues) /\ IsFiniteSet(Consumers)
    /\ Bound \in [Queues -> SUBSET Events]
    /\ Source \in [Consumers -> Queues]
    /\ Supervised \subseteq Consumers
    /\ MaxRetryCount \in Nat
    /\ MaxFaults \in Nat

VARIABLES
    ready,      \* ready[q][e][r]: copies of e in q with x-retry-count r
    hand,       \* hand[c]: the delivery in c's handleMainDelivery
    stage,      \* where c is with it
    dlx,        \* dlx[q]: events in the dead-letter queue q.dlx
    published,  \* events the API has published
    handled,    \* history: handled[q]: events processed without error
    failed,     \* history: process calls for an event that returned an error
    runs,       \* history: runs[q][e]: process calls for e by q's consumers
    faults      \* history: faults taken so far

vars == <<ready, hand, stage, dlx, published, handled, failed, runs, faults>>

Retries == 0 .. MaxRetryCount
Delivery == [event : Events, retry : Retries]
Nothing == [event |-> "none"]

Stage == {"idle", "process", "republish", "ack", "reject", "gone"}
InHand == {"process", "republish", "ack", "reject"}

TypeOK ==
    /\ ready \in [Queues -> [Events -> [Retries -> Nat]]]
    /\ hand \in [Consumers -> Delivery \cup {Nothing}]
    /\ stage \in [Consumers -> Stage]
    /\ dlx \in [Queues -> SUBSET Events]
    /\ published \subseteq Events
    /\ handled \in [Queues -> SUBSET Events]
    /\ failed \in [Events -> Nat]
    /\ runs \in [Queues -> [Events -> Nat]]
    /\ faults \in Nat

Init ==
    /\ ready = [q \in Queues |-> [e \in Events |-> [r \in Retries |-> 0]]]
    /\ hand = [c \in Consumers |-> Nothing]
    /\ stage = [c \in Consumers |-> "idle"]
    /\ dlx = [q \in Queues |-> {}]
    /\ published = {}
    /\ handled = [q \in Queues |-> {}]
    /\ failed = [e \in Events |-> 0]
    /\ runs = [q \in Queues |-> [e \in Events |-> 0]]
    /\ faults = 0

-----------------------------------------------------------------------------
(* The broker.                                                             *)

\* A message published to the exchange reaches every queue whose binding
\* matches its routing key.
Routed(e, r) ==
    [q \in Queues |->
        IF e \in Bound[q] THEN [ready[q] EXCEPT ![e][r] = @ + 1] ELSE ready[q]]

\* A delivery goes back to the queue it came from.
Returned(c) ==
    [ready EXCEPT ![Source[c]][hand[c].event][hand[c].retry] = @ + 1]

\* dlx.events is a topic exchange too, and q.dlx is bound to it with the
\* binding key of q: a dead letter reaches every matching dead-letter queue.
DeadLettered(e) ==
    [q \in Queues |-> IF e \in Bound[q] THEN dlx[q] \cup {e} ELSE dlx[q]]

\* The delivery in c's hand is acked or given back.
Released(c) ==
    /\ hand' = [hand EXCEPT ![c] = Nothing]
    /\ stage' = [stage EXCEPT ![c] = "idle"]

-----------------------------------------------------------------------------
(* The API process.                                                        *)

\* PublishJSON: no retry header, which getRetryCount reads as 0.
Publish(e) ==
    /\ e \notin published
    /\ published' = published \cup {e}
    /\ ready' = Routed(e, 0)
    /\ UNCHANGED <<hand, stage, dlx, handled, failed, runs, faults>>

-----------------------------------------------------------------------------
(* One delivery in handleMainDelivery.                                     *)

Deliver(c, e, r) ==
    /\ stage[c] = "idle"
    /\ ready[Source[c]][e][r] > 0
    /\ ready' = [ready EXCEPT ![Source[c]][e][r] = @ - 1]
    /\ hand' = [hand EXCEPT ![c] = [event |-> e, retry |-> r]]
    /\ stage' = [stage EXCEPT ![c] = "process"]
    /\ runs' = [runs EXCEPT ![Source[c]][e] = @ + 1]
    /\ UNCHANGED <<dlx, published, handled, failed, faults>>

ProcessOK(c) ==
    /\ stage[c] = "process"
    /\ handled' = [handled EXCEPT ![Source[c]] = @ \cup {hand[c].event}]
    /\ stage' = [stage EXCEPT ![c] = "ack"]
    /\ UNCHANGED <<ready, hand, dlx, published, failed, runs, faults>>

\* Mutant of AfterFailure: one retry fewer.
BugRejectEarly(r) == IF r + 1 >= MaxRetryCount THEN "reject" ELSE "republish"

\* retryCount >= MaxRetryCount decides between Nack(requeue=false) and a
\* republish.
AfterFailure(r) == IF r >= MaxRetryCount THEN "reject" ELSE "republish"

ProcessFails(c) ==
    /\ stage[c] = "process"
    /\ failed' = [failed EXCEPT ![hand[c].event] = @ + 1]
    /\ stage' = [stage EXCEPT ![c] = AfterFailure(hand[c].retry)]
    /\ UNCHANGED <<ready, hand, dlx, published, handled, runs, faults>>

\* Mutant of Republish: the copy keeps its old count.
BugSameCount(c) ==
    /\ stage[c] = "republish"
    /\ ready' = Routed(hand[c].event, hand[c].retry)
    /\ stage' = [stage EXCEPT ![c] = "ack"]
    /\ UNCHANGED <<hand, dlx, published, handled, failed, runs, faults>>

\* republishForRetry returns nil: the copy goes to d.Exchange with
\* d.RoutingKey, and so to every matching queue.
Republish(c) ==
    /\ stage[c] = "republish"
    /\ ready' = Routed(hand[c].event, hand[c].retry + 1)
    /\ stage' = [stage EXCEPT ![c] = "ack"]
    /\ UNCHANGED <<hand, dlx, published, handled, failed, runs, faults>>

Fault == faults < MaxFaults /\ faults' = faults + 1

\* republishForRetry fails: Nack(requeue=true), the count stays as it is.
RepublishFails(c) ==
    /\ stage[c] = "republish"
    /\ Fault
    /\ ready' = Returned(c)
    /\ Released(c)
    /\ UNCHANGED <<dlx, published, handled, failed, runs>>

Ack(c) ==
    /\ stage[c] = "ack"
    /\ Released(c)
    /\ UNCHANGED <<ready, dlx, published, handled, failed, runs, faults>>

\* Nack(requeue=false).
Reject(c) ==
    /\ stage[c] = "reject"
    /\ dlx' = DeadLettered(hand[c].event)
    /\ Released(c)
    /\ UNCHANGED <<ready, published, handled, failed, runs, faults>>

\* Mutant of ChannelLost: the consumer runs with autoAck.
BugAutoAck(c) ==
    /\ stage[c] # "gone"
    /\ Fault
    /\ hand' = [hand EXCEPT ![c] = Nothing]
    /\ stage' = [stage EXCEPT ![c] = "gone"]
    /\ UNCHANGED <<ready, dlx, published, handled, failed, runs>>

\* The channel closes or the process dies.  The broker returns the unacked
\* delivery, and consumeWithRetry returns "deliveries channel closed".  What
\* was sent before on the same channel was sent before the loss: an ack never
\* reaches the broker ahead of the republish it follows.
ChannelLost(c) ==
    /\ stage[c] # "gone"
    /\ Fault
    /\ ready' = IF stage[c] \in InHand THEN Returned(c) ELSE ready
    /\ hand' = [hand EXCEPT ![c] = Nothing]
    /\ stage' = [stage EXCEPT ![c] = "gone"]
    /\ UNCHANGED <<dlx, published, handled, failed, runs>>

\* Mutant of Restart: the error of a worker is logged and main goes on.
BugOnlyLogged(c) ==
    /\ stage[c] = "gone" /\ c \notin Consumers
    /\ stage' = [stage EXCEPT ![c] = "idle"]
    /\ UNCHANGED <<ready, hand, dlx, published, handled, failed, runs, faults>>

\* cmd/worker ends with log.Fatalf when a worker returns, and is started
\* again.  StartNotificationWorkers only logs: those goroutines stay gone.
Restart(c) ==
    /\ stage[c] = "gone" /\ c \in Supervised
    /\ stage' = [stage EXCEPT ![c] = "idle"]
    /\ UNCHANGED <<ready, hand, dlx, published, handled, failed, runs, faults>>

-----------------------------------------------------------------------------

\* handleMainDelivery has no way back: a consumer that is up carries its
\* delivery to an ack, a requeue or a rejection.
ConsumerStep(c) ==
    \/ \E e \in Events, r \in Retries : Deliver(c, e, r)
    \/ ProcessOK(c) \/ ProcessFails(c)
    \/ Republish(c) \/ Ack(c) \/ Reject(c)

Next ==
    \/ \E e \in Events : Publish(e)
    \/ \E c \in Consumers :
          ConsumerStep(c) \/ RepublishFails(c) \/ ChannelLost(c) \/ Restart(c)

Spec == Init /\ [][Next]_vars

Fairness == \A c \in Consumers : WF_vars(ConsumerStep(c)) /\ WF_vars(Restart(c))

FairSpec == Spec /\ Fairness

-----------------------------------------------------------------------------
(* Properties.                                                             *)

\* A copy of e that its consumers in q still have to answer for.
InFlight(q, e) ==
    \/ \E r \in Retries : ready[q][e][r] > 0
    \/ \E c \in Consumers : Source[c] = q /\ stage[c] \in InHand /\ hand[c].event = e

\* No event is lost between its republish and its ack, in whatever step a
\* consumer is cut off: in every queue it is routed to, a published event is
\* in flight, or was processed, or lies in the dead-letter queue.
NoLoss ==
    \A q \in Queues : \A e \in Bound[q] \cap published :
        InFlight(q, e) \/ e \in handled[q] \/ e \in dlx[q]

\* An event is dead-lettered only after MaxRetryCount + 1 process calls for it
\* returned an error: requeues and redeliveries after a lost channel do not
\* use up its retries.
DeadLetterEarned ==
    \A q \in Queues : \A e \in dlx[q] : failed[e] > MaxRetryCount

\* The process calls that one publication of an event can lead to in a queue,
\* with n queues that the event is routed to and k retries left:
\* 1 + n + ... + n^k.
Fan(e) == Cardinality({q \in Queues : e \in Bound[q]})
Calls(n) == LET calls[k \in Nat] == IF k = 0 THEN 1 ELSE 1 + n * calls[k - 1]
            IN  calls
Cost(n) == Calls(n)[MaxRetryCount]

\* The republish to the exchange multiplies an event, and still the process
\* calls for it are finitely many: the copies of each queue cause at most
\* Cost = 1 + n + ... + n^MaxRetryCount calls, and each lost channel or failed
\* republish adds at most the calls of one copy.
BoundedAmplification ==
    \A q \in Queues : \A e \in Events :
        runs[q][e] <= (1 + faults) * Cost(Fan(e))

\* Under fairness every queue with supervised consumers drains for good,
\* although the consumers of another queue of the exchange may be gone or fail
\* every time, and each failure there sends a copy here.
SupervisedQueues == {q \in Queues : \E c \in Supervised : Source[c] = q}
WorkerQueuesDrain ==
    \A q \in SupervisedQueues : <>[](\A e \in Events : ~InFlight(q, e))

=============================================================================
