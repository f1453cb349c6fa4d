---------------------------- MODULE Notification ----------------------------
(***************************************************************************)
(* Notifications of likes, comments and follows.  Every API process runs a *)
(* NotificationWorker that consumes the events, inserts a row whose        *)
(* event_id is unique, and broadcasts it over Redis Pub/Sub; a subscriber  *)
(* in every API process pushes what it hears to the SSE connections of its *)
(* own process.  When Redis fails the worker pushes to its own process.    *)
(*                                                                         *)
(* A worker is cut at every statement and command.  When its channel is    *)
(* lost the broker hands the delivery to another process while process     *)
(* runs on; only a crash stops it.  A push walks the connections that were *)
(* open when it took the lock, one send at a time, while clients come and  *)
(* go: module SSEHub has the arrays behind it, and here the walk reads     *)
(* anything once a client of the same user has left.  A republish and its  *)
(* ack are one step, as in LikePipeline.                                   *)
(***************************************************************************)
EXTENDS Integers, FiniteSets

CONSTANTS
    Nodes,          \* API processes
    Events,
    Sender,         \* Sender[e]: who liked, commented or followed
    Recipient,      \* Recipient[e]: the author of the video, or who is followed
    Conns,          \* bound: SSE connections
    Owner,          \* Owner[c]: the user of connection c
    MaxRetryCount,  \* rabbitmq.MaxRetryCount
    MaxFaults,      \* bound: failures, lost channels and subscriptions, crashes,
                    \* full channels
    None

ASSUME NotificationConstants ==
    /\ Events # {} /\ None \notin Nodes \cup Events
    /\ "closed" \notin Nodes \cup {None}
    /\ DOMAIN Sender = Events /\ DOMAIN Recipient = Events /\ DOMAIN Owner = Conns
    /\ MaxRetryCount \in Nat /\ MaxFaults \in Nat

VARIABLES
    queue,      \* queue[e][r]: copies of e with x-retry-count r, ready
    sent,       \* events the API has published
    dead,       \* events that were dead-lettered
    hand,       \* hand[n]: the delivery in process
    stage,      \* where the worker of n is with it
    chOpen,     \* is the RabbitMQ channel of n's worker open
    cached,     \* has process n a Redis client
    subscribed, \* processes whose subscription is up
    rows,       \* notifications: events with a row
    unread,     \* rows with is_read = false
    inbox,      \* inbox[n]: pushes that n's subscriber has received
    at,         \* at[c]: the process of an open connection
    got,        \* got[c][e]: times c was sent e
    walk,       \* walk[w]: the loop of Push in goroutine w
    before,     \* history: before[c]: rows that were there when c connected
    silent,     \* history: <<n, e>> when e was not announced to process n
    ghosts,     \* history: broadcasts that went out and returned an error
    full,       \* history: <<c, e>> when e met a full channel at c
    shaken,     \* history: <<c, e>> when e's walk may have passed c over or come
                \* to it again, because a client of the same user left
    faults      \* history: faults taken so far

mqVars   == <<queue, sent, dead>>
workVars == <<hand, stage, chOpen>>
redisVars == <<cached, subscribed, inbox>>
rowVars  == <<rows, unread>>
connVars == <<at, before>>
pushVars == <<walk, got, full, shaken>>
histVars == <<silent, ghosts, faults>>
vars == <<mqVars, workVars, redisVars, rowVars, connVars, pushVars, histVars>>

Retries == 0 .. MaxRetryCount
Stages == {"idle", "build", "create", "publish", "push", "ack", "down"}
Delivery == [event : Events, retry : Retries]
Nothing == [event |-> None, retry |-> 0]

\* The goroutines of process n that call Push are its worker and its subscriber.
\* todo are the connections whose slots are still to be read; loose says that a
\* slot may hold something else by now.
Walkers == Nodes \X {"worker", "subscriber"}
Loop == [event : Events, todo : (SUBSET Conns) \ {{}}, loose : BOOLEAN]
NoWalk == [event |-> None, todo |-> {}, loose |-> FALSE]

TypeOK ==
    /\ queue \in [Events -> [Retries -> Nat]]
    /\ sent \subseteq Events /\ dead \subseteq Events
    /\ hand \in [Nodes -> Delivery \cup {Nothing}]
    /\ stage \in [Nodes -> Stages]
    /\ chOpen \in [Nodes -> BOOLEAN] /\ cached \in [Nodes -> BOOLEAN]
    /\ subscribed \subseteq {n \in Nodes : cached[n]}
    /\ unread \subseteq rows /\ rows \subseteq sent
    /\ inbox \in [Nodes -> [Events -> Nat]]
    /\ at \in [Conns -> Nodes \cup {None, "closed"}]
    /\ got \in [Conns -> [Events -> Nat]]
    /\ before \in [Conns -> SUBSET Events]
    /\ walk \in [Walkers -> Loop \cup {NoWalk}]
    /\ full \subseteq Conns \X Events /\ shaken \subseteq Conns \X Events
    /\ silent \subseteq Nodes \X Events
    /\ ghosts \subseteq Events /\ faults \in Nat

Init ==
    /\ queue = [e \in Events |-> [r \in Retries |-> 0]]
    /\ sent = {} /\ dead = {}
    /\ hand = [n \in Nodes |-> Nothing]
    /\ stage = [n \in Nodes |-> "idle"]
    /\ chOpen = [n \in Nodes |-> TRUE]
    /\ cached = [n \in Nodes |-> TRUE]
    /\ subscribed = Nodes
    /\ rows = {} /\ unread = {}
    /\ inbox = [n \in Nodes |-> [e \in Events |-> 0]]
    /\ at = [c \in Conns |-> None]
    /\ got = [c \in Conns |-> [e \in Events |-> 0]]
    /\ before = [c \in Conns |-> {}]
    /\ walk = [w \in Walkers |-> NoWalk] /\ full = {} /\ shaken = {}
    /\ silent = {} /\ ghosts = {} /\ faults = 0

Fault == faults < MaxFaults /\ faults' = faults + 1

Queued(m) == [queue EXCEPT ![m.event][m.retry] = @ + 1]

-----------------------------------------------------------------------------
(* The queue.                                                              *)

Send(e) ==
    /\ e \notin sent
    /\ sent' = sent \cup {e}
    /\ queue' = Queued([event |-> e, retry |-> 0])
    /\ UNCHANGED <<dead, workVars, redisVars, rowVars, connVars, pushVars, histVars>>

\* The business consumer of the same exchange fails and publishes the event
\* again: another copy, with the same event_id, arrives here.
Echo(e, r) ==
    /\ e \in sent /\ r > 0
    /\ Fault
    /\ queue' = Queued([event |-> e, retry |-> r])
    /\ UNCHANGED <<sent, dead, workVars, redisVars, rowVars, connVars, pushVars, silent, ghosts>>

Deliver(n, e, r) ==
    /\ stage[n] = "idle" /\ chOpen[n]
    /\ queue[e][r] > 0
    /\ queue' = [queue EXCEPT ![e][r] = @ - 1]
    /\ hand' = [hand EXCEPT ![n] = [event |-> e, retry |-> r]]
    /\ stage' = [stage EXCEPT ![n] = "build"]
    /\ UNCHANGED <<sent, dead, chOpen, redisVars, rowVars, connVars, pushVars, histVars>>

\* consumeWithRetry takes the next delivery, or returns for good when its
\* channel is gone: StartNotificationWorkers only logs that.
Released(n) ==
    /\ hand' = [hand EXCEPT ![n] = Nothing]
    /\ stage' = [stage EXCEPT ![n] = IF chOpen[n] THEN "idle" ELSE "down"]

\* After the loop of a push of its own.
Ack(n) ==
    /\ stage[n] = "ack" /\ walk[<<n, "worker">>] = NoWalk
    /\ Released(n)
    /\ UNCHANGED <<mqVars, chOpen, redisVars, rowVars, connVars, pushVars, histVars>>

\* process returned an error: published again, or dead-lettered at the limit.
\* On a closed channel neither has any effect.
Failed(n) ==
    LET m == hand[n] IN
    /\ Released(n)
    /\ queue' = IF chOpen[n] /\ m.retry < MaxRetryCount
                THEN Queued([m EXCEPT !.retry = @ + 1]) ELSE queue
    /\ dead' = IF chOpen[n] /\ m.retry = MaxRetryCount THEN dead \cup {m.event} ELSE dead
    /\ UNCHANGED <<sent, chOpen>>

\* The channel closes.  What was in hand is delivered again elsewhere, and the
\* worker does not notice before it comes back for more.
ChannelLost(n) ==
    /\ chOpen[n] /\ stage[n] # "down"
    /\ Fault
    /\ chOpen' = [chOpen EXCEPT ![n] = FALSE]
    /\ queue' = IF hand[n] = Nothing THEN queue ELSE Queued(hand[n])
    /\ stage' = [stage EXCEPT ![n] = IF @ = "idle" THEN "down" ELSE @]
    /\ UNCHANGED <<sent, dead, hand, redisVars, rowVars, connVars, pushVars, silent, ghosts>>

-----------------------------------------------------------------------------
(* process.                                                                *)

\* Nobody is told of what he did himself (following oneself is refused by
\* SocialService before there is an event).
Notified(e) == Sender[e] # Recipient[e]

\* buildNotification, with the query for the author of the video.
Build(n) ==
    /\ stage[n] = "build"
    /\ \/ /\ stage' = [stage EXCEPT ![n] = IF Notified(hand[n].event) THEN "create" ELSE "ack"]
          /\ UNCHANGED <<mqVars, hand, chOpen, faults>>
       \/ Fault /\ Failed(n)
    /\ UNCHANGED <<redisVars, rowVars, connVars, pushVars, silent, ghosts>>

\* Mutants of Create: a duplicate is announced again; an upsert.
BugAnnouncesDuplicate(n) ==
    /\ stage[n] = "create"
    /\ rows' = rows \cup {hand[n].event}
    /\ unread' = IF hand[n].event \in rows THEN unread ELSE unread \cup {hand[n].event}
    /\ stage' = [stage EXCEPT ![n] = "publish"]
    /\ UNCHANGED <<mqVars, hand, chOpen, redisVars, connVars, pushVars, histVars>>
BugUpsert(n) ==
    /\ stage[n] = "create"
    /\ rows' = rows \cup {hand[n].event}
    /\ unread' = unread \cup {hand[n].event}
    /\ stage' = [stage EXCEPT ![n] = IF hand[n].event \in rows THEN "ack" ELSE "publish"]
    /\ UNCHANGED <<mqVars, hand, chOpen, redisVars, connVars, pushVars, histVars>>

\* The insert; a duplicate event_id (error 1062) ends the delivery.
Create(n) ==
    LET e == hand[n].event IN
    /\ stage[n] = "create"
    /\ rows' = rows \cup {e}
    /\ unread' = IF e \in rows THEN unread ELSE unread \cup {e}
    /\ stage' = [stage EXCEPT ![n] = IF e \in rows THEN "ack" ELSE "publish"]
    /\ UNCHANGED <<mqVars, hand, chOpen, redisVars, connVars, pushVars, histVars>>

\* Mutant of CreateFails: the error is logged and the delivery acked.
BugErrorAcked(n) ==
    /\ stage[n] = "create"
    /\ Fault
    /\ stage' = [stage EXCEPT ![n] = "ack"]
    /\ UNCHANGED <<mqVars, hand, chOpen, redisVars, rowVars, connVars, pushVars, silent, ghosts>>

\* Any other error, with the row committed or not: the retry of a committed
\* one will be a duplicate, and nothing announces it.
CreateFails(n) ==
    LET e == hand[n].event IN
    /\ stage[n] = "create"
    /\ Fault
    /\ Failed(n)
    /\ \/ UNCHANGED <<rowVars, silent>>
       \/ /\ e \notin rows
          /\ rows' = rows \cup {e} /\ unread' = unread \cup {e}
          /\ silent' = silent \cup (Nodes \X {e})
    /\ UNCHANGED <<redisVars, connVars, pushVars, ghosts>>

-----------------------------------------------------------------------------
(* publishNotification.                                                    *)

\* PUBLISH reaches the subscriptions that are up, and no other.
Heard(e) == [n \in Nodes |-> IF n \in subscribed THEN [inbox[n] EXCEPT ![e] = @ + 1] ELSE inbox[n]]

\* Mutant of Publish: the worker serves the connections of its own process.
BugLocalOnly(n) ==
    /\ stage[n] = "publish" /\ cached[n]
    /\ inbox' = [inbox EXCEPT ![n][hand[n].event] = @ + 1]
    /\ stage' = [stage EXCEPT ![n] = "ack"]
    /\ UNCHANGED <<mqVars, hand, chOpen, cached, subscribed, rowVars, connVars, pushVars, histVars>>

Publish(n) ==
    LET e == hand[n].event IN
    /\ stage[n] = "publish" /\ cached[n]
    /\ inbox' = Heard(e)
    /\ silent' = silent \cup ((Nodes \ subscribed) \X {e})
    /\ stage' = [stage EXCEPT ![n] = "ack"]
    /\ UNCHANGED <<mqVars, hand, chOpen, cached, subscribed, rowVars, connVars, pushVars, ghosts, faults>>

\* PUBLISH returns an error, before or after Redis has sent the message.
PublishFails(n) ==
    LET e == hand[n].event IN
    /\ stage[n] = "publish" /\ cached[n]
    /\ Fault
    /\ \/ /\ inbox' = Heard(e) /\ ghosts' = ghosts \cup {e}
          /\ silent' = silent \cup ((Nodes \ (subscribed \cup {n})) \X {e})
       \/ /\ silent' = silent \cup ((Nodes \ {n}) \X {e})
          /\ UNCHANGED <<inbox, ghosts>>
    /\ stage' = [stage EXCEPT ![n] = "push"]
    /\ UNCHANGED <<mqVars, hand, chOpen, cached, subscribed, rowVars, connVars, pushVars>>

\* Without a Redis client the worker pushes at once.
NoClient(n) ==
    /\ stage[n] = "publish" /\ ~cached[n]
    /\ silent' = silent \cup ((Nodes \ {n}) \X {hand[n].event})
    /\ stage' = [stage EXCEPT ![n] = "push"]
    /\ UNCHANGED <<mqVars, hand, chOpen, redisVars, rowVars, connVars, pushVars, ghosts, faults>>

-----------------------------------------------------------------------------
(* SSEHub.Push.                                                            *)

\* What the table of process n lists for the recipient of e.
Reached(n, e) == {c \in Conns : at[c] = n /\ Owner[c] = Recipient[e]}

\* The header is copied under the read lock, which is then released.
Begins(w, e) ==
    /\ walk[w] = NoWalk
    /\ walk' = [walk EXCEPT ![w] =
          IF Reached(w[1], e) = {} THEN NoWalk
          ELSE [event |-> e, todo |-> Reached(w[1], e), loose |-> FALSE]]
    /\ UNCHANGED <<got, full, shaken>>

\* The loop is done with a slot, and ends after the last one.
Passed(w, c) ==
    walk' = [walk EXCEPT ![w] = IF walk[w].todo = {c} THEN NoWalk ELSE [walk[w] EXCEPT !.todo = @ \ {c}]]

Sent(c, e) == got' = [got EXCEPT ![c][e] = @ + 1]

SendTo(w, c) ==
    /\ c \in walk[w].todo /\ ~walk[w].loose
    /\ Passed(w, c)
    /\ Sent(c, walk[w].event)
    /\ UNCHANGED <<mqVars, workVars, redisVars, rowVars, connVars, full, shaken, histVars>>

\* The default branch: the client has 20 notifications to read.
ChannelFull(w, c) ==
    /\ c \in walk[w].todo /\ ~walk[w].loose
    /\ Fault
    /\ Passed(w, c)
    /\ full' = full \cup {<<c, walk[w].event>>}
    /\ UNCHANGED <<mqVars, workVars, redisVars, rowVars, connVars, got, shaken, silent, ghosts>>

\* The slot of c in an array that was shifted: it holds any connection of the
\* user, or one that is full or on its way out.
SendLoose(w, c) ==
    LET e == walk[w].event IN
    /\ c \in walk[w].todo /\ walk[w].loose
    /\ Passed(w, c)
    /\ \/ \E d \in Reached(w[1], e) : Sent(d, e) /\ shaken' = shaken \cup {<<d, e>>}
       \/ UNCHANGED <<got, shaken>>
    /\ UNCHANGED <<mqVars, workVars, redisVars, rowVars, connVars, full, histVars>>

PushLocal(n) ==
    /\ stage[n] = "push"
    /\ Begins(<<n, "worker">>, hand[n].event)
    /\ stage' = [stage EXCEPT ![n] = "ack"]
    /\ UNCHANGED <<mqVars, hand, chOpen, redisVars, rowVars, connVars, histVars>>

\* The subscriber goroutine, which waits for its loop to end.
Hear(n, e) ==
    /\ inbox[n][e] > 0
    /\ inbox' = [inbox EXCEPT ![n][e] = @ - 1]
    /\ Begins(<<n, "subscriber">>, e)
    /\ UNCHANGED <<mqVars, workVars, cached, subscribed, rowVars, connVars, histVars>>

-----------------------------------------------------------------------------
(* Clients.                                                                *)

\* SSEHandler: subscribed from here on, until the client leaves.
Connect(c, n) ==
    /\ at[c] = None
    /\ at' = [at EXCEPT ![c] = n]
    /\ before' = [before EXCEPT ![c] = rows]
    /\ UNCHANGED <<mqVars, workVars, redisVars, rowVars, pushVars, histVars>>

\* Loops over the table of c's user in the process of c.
Beside(c) == {w \in Walkers : at[c] = w[1] /\ walk[w] # NoWalk /\ Owner[c] = Recipient[walk[w].event]}

\* Unsubscribe: the array is shifted under the loops that are reading it.
Disconnect(c) ==
    /\ at[c] \in Nodes
    /\ at' = [at EXCEPT ![c] = "closed"]
    /\ walk' = [w \in Walkers |-> IF w \in Beside(c) THEN [walk[w] EXCEPT !.loose = TRUE] ELSE walk[w]]
    /\ shaken' = shaken \cup UNION {walk[w].todo \X {walk[w].event} : w \in Beside(c)}
    /\ UNCHANGED <<mqVars, workVars, redisVars, rowVars, before, got, full, histVars>>

\* MarkReadHandler, for one notification of the user or for all of them.
Mine(u) == {e \in rows : Recipient[e] = u}
MarkRead(u) ==
    /\ \E read \in {Mine(u)} \cup {{e} : e \in Mine(u)} :
          /\ unread \cap read # {}
          /\ unread' = unread \ read
    /\ UNCHANGED <<mqVars, workVars, redisVars, rows, connVars, pushVars, histVars>>

-----------------------------------------------------------------------------
(* Redis connections and processes.                                        *)

\* go-redis connects again by itself; what is sent meanwhile is gone.
SubscriptionLost(n) ==
    /\ n \in subscribed
    /\ Fault
    /\ subscribed' = subscribed \ {n}
    /\ UNCHANGED <<mqVars, workVars, cached, inbox, rowVars, connVars, pushVars, silent, ghosts>>

Resubscribe(n) ==
    /\ n \notin subscribed /\ cached[n]
    /\ subscribed' = subscribed \cup {n}
    /\ UNCHANGED <<mqVars, workVars, cached, inbox, rowVars, connVars, pushVars, histVars>>

\* The process dies and is started again, with or without a Redis client and
\* with or without RabbitMQ.  A row that was not announced never will be.
Dies(n) ==
    /\ queue' = IF hand[n] # Nothing /\ chOpen[n] THEN Queued(hand[n]) ELSE queue
    /\ silent' = silent \cup
          CASE stage[n] = "publish" -> Nodes \X {hand[n].event}
            [] stage[n] = "push" -> {<<n, hand[n].event>>}
            [] OTHER -> {}
    /\ hand' = [hand EXCEPT ![n] = Nothing]
    /\ \E up \in BOOLEAN :
          /\ stage' = [stage EXCEPT ![n] = IF up THEN "idle" ELSE "down"]
          /\ chOpen' = [chOpen EXCEPT ![n] = up]
    /\ \E redis \in BOOLEAN :
          /\ cached' = [cached EXCEPT ![n] = redis]
          /\ subscribed' = IF redis THEN subscribed \cup {n} ELSE subscribed \ {n}
    /\ inbox' = [inbox EXCEPT ![n] = [e \in Events |-> 0]]
    /\ at' = [c \in Conns |-> IF at[c] = n THEN "closed" ELSE at[c]]
    /\ walk' = [w \in Walkers |-> IF w[1] = n THEN NoWalk ELSE walk[w]]
    /\ UNCHANGED <<sent, dead, rowVars, before, got, full, shaken, ghosts>>

Crash(n) == Fault /\ Dies(n)

\* A loop comes to a channel that Unsubscribe has closed, and the send panics.
Panic(n) ==
    /\ \E w \in Walkers : w[1] = n /\ walk[w].loose
    /\ Dies(n)
    /\ UNCHANGED faults

-----------------------------------------------------------------------------

Process(n) ==
    \/ Build(n) \/ Create(n) \/ CreateFails(n)
    \/ Publish(n) \/ PublishFails(n) \/ NoClient(n) \/ PushLocal(n) \/ Ack(n)

Next ==
    \/ \E e \in Events : Send(e) \/ \E r \in Retries : Echo(e, r)
    \/ \E n \in Nodes :
          \/ Process(n) \/ ChannelLost(n) \/ SubscriptionLost(n) \/ Resubscribe(n) \/ Crash(n) \/ Panic(n)
          \/ \E e \in Events : Hear(n, e) \/ \E r \in Retries : Deliver(n, e, r)
          \/ \E c \in Conns : Connect(c, n)
    \/ \E c \in Conns :
          \/ Disconnect(c)
          \/ \E w \in Walkers : SendTo(w, c) \/ ChannelFull(w, c) \/ SendLoose(w, c)
    \/ \E e \in Events : MarkRead(Recipient[e])

Spec == Init /\ [][Next]_vars

-----------------------------------------------------------------------------
(* Properties.                                                             *)

InHand(n, e) == hand[n].event = e /\ stage[n] \in {"build", "create"}

\* An event that somebody is to hear of is queued, in the hands of a worker,
\* stored or dead-lettered, through lost channels, crashes and failed inserts.
NotificationKept ==
    \A e \in sent : Notified(e) =>
        \/ \E r \in Retries : queue[e][r] > 0
        \/ \E n \in Nodes : InHand(n, e) /\ chOpen[n]
        \/ e \in rows \cup dead

\* A connection is sent a notification once, however often the event is
\* delivered, echoed, retried or processed by two workers at a time, and with
\* the worker and the subscriber pushing beside each other; twice only if Redis
\* sent the broadcast and reported an error, or if a client of the same user
\* left while the notification was being pushed.
SentOnce ==
    \A c \in Conns, e \in Events :
        <<c, e>> \notin shaken => got[c][e] <= IF e \in ghosts THEN 2 ELSE 1

\* A connection that was there before the row misses a notification only for
\* the reasons recorded in silent (the worker crashed or failed between insert
\* and broadcast, Redis refused it, or its process was not subscribed), because
\* its channel was full, or because a client of the same user left during the
\* push.
OnlineReached ==
    \A c \in Conns, e \in rows :
        /\ at[c] \in Nodes /\ c \in Reached(at[c], e) /\ e \notin before[c]
        /\ <<at[c], e>> \notin silent /\ <<c, e>> \notin full \cup shaken
        => \/ got[c][e] > 0 \/ inbox[at[c]][e] > 0
           \/ \E w \in Walkers : walk[w].event = e /\ c \in walk[w].todo
           \/ \E n \in Nodes : hand[n].event = e /\ stage[n] \in {"publish", "push"}

\* A notification that was read does not become unread again, although its
\* event is delivered again after the mark.
ReadStaysRead == [][rows \ unread \subseteq rows' \ unread']_vars

=============================================================================
