--------------------------- MODULE CommentPipeline ---------------------------
(***************************************************************************)
(* Comments on one video: CommentService.Publish and Delete, the comment   *)
(* queue with its worker, and the two popularity counters of the video, the *)
(* column in MySQL and the score in the minute windows of Redis.           *)
(*                                                                         *)
(* A member of Comments is one call of Publish with valid arguments for a  *)
(* video that exists.  Retries put an event behind the others and a lost   *)
(* channel leaves it first, as in module EventRetry; popularity events are *)
(* alike, so their queue is a number.                                      *)
(***************************************************************************)
EXTENDS Integers, Sequences, FiniteSets

CONSTANTS
    Comments,   \* calls of Publish
    MaxDeletes, \* bound: calls of Delete that find their row
    MaxFaults   \* bound: everything that goes wrong

ASSUME CommentConstants == IsFiniteSet(Comments) /\ MaxDeletes \in Nat /\ MaxFaults \in Nat

VARIABLES
    todo,       \* todo[c]: what the call still has to do, in the order of Steps
    failed,     \* calls that returned an error
    asked,      \* deletions that have found their row and not been published
    events,     \* the queue comment.events
    rows,       \* rows[c]: id of the row of c, 0 for none
    made,       \* made[c]: rows inserted for c so far; the newest one's id
    work,       \* the worker: "idle", or "count" between its two statements
    popularity, \* column of the video
    heatq,      \* popularity events queued
    heat,       \* score added to the windows
    deletes,    \* history: calls of Delete so far
    deleted,    \* history: accepted deletions
    given,      \* history: deletions whose event was lost or dead-lettered
    sent,       \* history: calls whose publish event was queued
    copied,     \* history: calls whose publish event was delivered again
    faults      \* history: faults so far

commentVars == <<todo, failed, asked, events, rows, made, work, popularity, heatq, heat,
          deletes, deleted, given, sent, copied, faults>>

Publishing == [action : {"publish"}, comment : Comments]
Deletions == [action : {"delete"}, comment : Comments, id : Nat]

CommentTypeOK ==
    /\ todo \in [Comments -> SUBSET {"comment", "heat", "row", "window"}]
    /\ failed \subseteq Comments
    /\ asked \subseteq Deletions /\ deleted \subseteq Deletions /\ given \subseteq Deletions
    /\ events \in Seq(Publishing \cup Deletions)
    /\ made \in [Comments -> Nat] /\ rows \in [Comments -> Nat]
    /\ \A c \in Comments : rows[c] \in {0, made[c]}
    /\ work \in {"idle", "count"}
    /\ popularity \in Nat /\ heatq \in Nat /\ heat \in Nat
    /\ sent \subseteq Comments /\ copied \subseteq sent
    /\ deletes \in 0 .. MaxDeletes /\ faults \in 0 .. MaxFaults

CommentInit ==
    /\ todo = [c \in Comments |-> {"comment", "heat"}]
    /\ failed = {} /\ asked = {} /\ events = <<>>
    /\ rows = [c \in Comments |-> 0] /\ made = [c \in Comments |-> 0]
    /\ work = "idle"
    /\ popularity = 0 /\ heatq = 0 /\ heat = 0
    /\ deletes = 0 /\ deleted = {} /\ given = {} /\ sent = {} /\ copied = {} /\ faults = 0

Fault == faults < MaxFaults /\ faults' = faults + 1
NoFault == UNCHANGED faults

-----------------------------------------------------------------------------
(* CommentService.Publish: the comment event, the popularity event, then   *)
(* the fallbacks of the ones that could not be sent.                       *)

Steps == <<"comment", "heat", "row", "window">>
Doing(c, step) ==
    /\ step \in todo[c]
    /\ \A i, j \in DOMAIN Steps : Steps[i] = step /\ j < i => Steps[j] \notin todo[c]
Then(c, step, more) == todo' = [todo EXCEPT ![c] = (@ \ {step}) \cup more]

Event(c) == [action |-> "publish", comment |-> c]

SendComment(c) ==
    /\ Doing(c, "comment") /\ Then(c, "comment", {})
    /\ \/ events' = Append(events, Event(c)) /\ sent' = sent \cup {c} /\ NoFault
       \/ UNCHANGED <<events, sent>> /\ Fault      \* sent without a confirm, and lost
    /\ UNCHANGED <<failed, asked, rows, made, work, popularity, heatq, heat, deletes, deleted, given, copied>>

SendCommentFails(c) ==
    /\ Doing(c, "comment") /\ Then(c, "comment", {"row"})
    /\ Fault
    /\ UNCHANGED <<failed, asked, events, rows, made, work, popularity, heatq, heat, deletes, deleted, given, sent, copied>>

\* Mutant of SendHeat: the fallback runs after a success too.
BugAlsoCaches(c) ==
    /\ Doing(c, "heat") /\ Then(c, "heat", {"window"})
    /\ heatq' = heatq + 1 /\ NoFault
    /\ UNCHANGED <<failed, asked, events, rows, made, work, popularity, heat, deletes, deleted, given, sent, copied>>

SendHeat(c) ==
    /\ Doing(c, "heat") /\ Then(c, "heat", {})
    /\ \/ heatq' = heatq + 1 /\ NoFault
       \/ UNCHANGED heatq /\ Fault
    /\ UNCHANGED <<failed, asked, events, rows, made, work, popularity, heat, deletes, deleted, given, sent, copied>>

SendHeatFails(c) ==
    /\ Doing(c, "heat") /\ Then(c, "heat", {"window"})
    /\ Fault
    /\ UNCHANGED <<failed, asked, events, rows, made, work, popularity, heatq, heat, deletes, deleted, given, sent, copied>>

\* A row for the event of c; its unique index refuses a second one.
Inserted(c) ==
    /\ made' = [made EXCEPT ![c] = @ + 1]
    /\ rows' = [rows EXCEPT ![c] = made[c] + 1]

\* The transaction that inserts the row and counts it.
Transaction(c) ==
    /\ Doing(c, "row") /\ Then(c, "row", {})
    /\ Inserted(c)
    /\ popularity' = popularity + 1
    /\ UNCHANGED <<failed, asked, events, work, heatq, heat, deletes, deleted, given, sent, copied, faults>>

\* It is undone: Publish returns the error.
TransactionFails(c) ==
    /\ Doing(c, "row")
    /\ todo' = [todo EXCEPT ![c] = {}]
    /\ failed' = failed \cup {c}
    /\ Fault
    /\ UNCHANGED <<asked, events, rows, made, work, popularity, heatq, heat, deletes, deleted, given, sent, copied>>

\* UpdatePopularityCache; its errors are dropped.
UpdateCache(c) ==
    /\ Doing(c, "window") /\ Then(c, "window", {})
    /\ \/ heat' = heat + 1 /\ NoFault
       \/ UNCHANGED heat /\ Fault
    /\ UNCHANGED <<failed, asked, events, rows, made, work, popularity, heatq, deletes, deleted, given, sent, copied>>

-----------------------------------------------------------------------------
(* CommentService.Delete.                                                  *)

\* FindByID, by the author of the comment.
FindForDelete(c) ==
    /\ rows[c] # 0
    /\ asked' = asked \cup {[action |-> "delete", comment |-> c, id |-> rows[c]]}
    /\ deletes < MaxDeletes /\ deletes' = deletes + 1
    /\ UNCHANGED <<todo, failed, events, rows, made, work, popularity, heatq, heat, deleted, given, sent, copied, faults>>

Accepted(d) ==
    /\ d \in asked
    /\ asked' = asked \ {d}
    /\ deleted' = deleted \cup {d}

SendDelete(d) ==
    /\ Accepted(d)
    /\ \/ events' = Append(events, d) /\ NoFault /\ UNCHANGED given
       \/ given' = given \cup {d} /\ Fault /\ UNCHANGED events
    /\ UNCHANGED <<todo, failed, rows, made, work, popularity, heatq, heat, deletes, sent, copied>>

\* By primary key; a row that is gone is no error.
RowDeleted(d) == rows' = [rows EXCEPT ![d.comment] = IF @ = d.id THEN 0 ELSE @]

DeleteFallback(d) ==
    /\ Accepted(d)
    /\ Fault
    /\ RowDeleted(d)
    /\ UNCHANGED <<todo, failed, events, made, work, popularity, heatq, heat, deletes, given, sent, copied>>

-----------------------------------------------------------------------------
(* CommentWorker.process.                                                  *)

First(action) == events # <<>> /\ Head(events).action = action /\ work = "idle"

\* Mutant of Create: the row has no unique event.
BugNoUniqueEvent ==
    /\ First("publish")
    /\ Inserted(Head(events).comment)
    /\ work' = "count"
    /\ UNCHANGED <<todo, failed, asked, events, popularity, heatq, heat, deletes, deleted, given, sent, copied, faults>>

\* Mutant of Create: a duplicate is counted too.
BugCountsDuplicate ==
    /\ First("publish")
    /\ IF rows[Head(events).comment] = 0 THEN Inserted(Head(events).comment) ELSE UNCHANGED <<rows, made>>
    /\ work' = "count"
    /\ UNCHANGED <<todo, failed, asked, events, popularity, heatq, heat, deletes, deleted, given, sent, copied, faults>>

\* CreateCommentIgnoreDuplicate; a duplicate is acknowledged.
Create ==
    /\ First("publish")
    /\ IF rows[Head(events).comment] = 0
       THEN Inserted(Head(events).comment) /\ work' = "count" /\ UNCHANGED events
       ELSE events' = Tail(events) /\ UNCHANGED <<rows, made, work>>
    /\ UNCHANGED <<todo, failed, asked, popularity, heatq, heat, deletes, deleted, given, sent, copied, faults>>

\* ChangePopularity, and the ack.
Count ==
    /\ work = "count"
    /\ popularity' = popularity + 1
    /\ work' = "idle"
    /\ events' = Tail(events)
    /\ UNCHANGED <<todo, failed, asked, rows, made, heatq, heat, deletes, deleted, given, sent, copied, faults>>

\* Mutant of ApplyDelete: the deletion is put off again and again.
BugPutsOff ==
    /\ First("delete")
    /\ events' = Append(Tail(events), Head(events))
    /\ UNCHANGED <<todo, failed, asked, rows, made, work, popularity, heatq, heat, deletes, deleted, given, sent, copied, faults>>

ApplyDelete ==
    /\ First("delete")
    /\ RowDeleted(Head(events))
    /\ events' = Tail(events)
    /\ UNCHANGED <<todo, failed, asked, made, work, popularity, heatq, heat, deletes, deleted, given, sent, copied, faults>>

Copied == copied \cup IF Head(events).action = "publish" THEN {Head(events).comment} ELSE {}

\* A statement fails: the event is published again, behind the others.  An
\* insert or an update may have taken effect all the same.
Retry ==
    /\ events # <<>>
    /\ Fault
    /\ events' = Append(Tail(events), Head(events))
    /\ copied' = Copied
    /\ \/ UNCHANGED <<rows, made, popularity>>
       \/ First("publish") /\ rows[Head(events).comment] = 0 /\ Inserted(Head(events).comment) /\ UNCHANGED popularity
       \/ work = "count" /\ popularity' = popularity + 1 /\ UNCHANGED <<rows, made>>
    /\ work' = "idle"
    /\ UNCHANGED <<todo, failed, asked, heatq, heat, deletes, deleted, given, sent>>

\* The worker is lost: the event stays first.
Redeliver ==
    /\ events # <<>>
    /\ Fault
    /\ copied' = Copied
    /\ work' = "idle"
    /\ \/ UNCHANGED popularity
       \/ work = "count" /\ popularity' = popularity + 1
    /\ UNCHANGED <<todo, failed, asked, events, rows, made, heatq, heat, deletes, deleted, given, sent>>

\* The last retry fails too.
DeadLetter ==
    /\ events # <<>>
    /\ Fault
    /\ events' = Tail(events)
    /\ work' = "idle"
    /\ given' = given \cup (IF Head(events).action = "delete" THEN {Head(events)} ELSE {})
    /\ UNCHANGED <<todo, failed, asked, rows, made, popularity, heatq, heat, deletes, deleted, sent, copied>>

\* The notification worker fails on an event and publishes it again, to every
\* queue of the exchange.
Echo(c) ==
    /\ c \in sent
    /\ Fault
    /\ events' = Append(events, Event(c))
    /\ copied' = copied \cup {c}
    /\ UNCHANGED <<todo, failed, asked, rows, made, work, popularity, heatq, heat, deletes, deleted, given, sent>>

-----------------------------------------------------------------------------
(* PopularityWorker.process: UpdatePopularityCache, and always an ack.     *)

ApplyHeat ==
    /\ heatq > 0
    /\ heatq' = heatq - 1
    /\ \/ heat' = heat + 1 /\ NoFault
       \/ UNCHANGED heat /\ Fault
    /\ UNCHANGED <<todo, failed, asked, events, rows, made, work, popularity, deletes, deleted, given, sent, copied>>

\* The worker is lost before the ack: the event is applied again.
ApplyHeatUnacked ==
    /\ heatq > 0
    /\ heat' = heat + 1
    /\ Fault
    /\ UNCHANGED <<todo, failed, asked, events, rows, made, work, popularity, heatq, deletes, deleted, given, sent, copied>>

CommentWorker == Create \/ Count \/ ApplyDelete

CommentNext ==
    \/ \E c \in Comments :
          \/ SendComment(c) \/ SendCommentFails(c) \/ SendHeat(c) \/ SendHeatFails(c)
          \/ Transaction(c) \/ TransactionFails(c) \/ UpdateCache(c)
          \/ FindForDelete(c) \/ Echo(c)
    \/ \E d \in asked : SendDelete(d) \/ DeleteFallback(d)
    \/ CommentWorker \/ Retry \/ Redeliver \/ DeadLetter
    \/ ApplyHeat \/ ApplyHeatUnacked

CommentSpec == CommentInit /\ [][CommentNext]_commentVars

\* The supervisor restarts the worker process and consumeWithRetry takes event
\* after event; clients are free to stop.
FairSpec == CommentSpec /\ WF_commentVars(CommentWorker)

-----------------------------------------------------------------------------
(* Properties.                                                             *)

\* The rows inserted so far: a comment and an id each.
Inserts == UNION {{c} \X (1 .. made[c]) : c \in Comments}

Counting == IF work = "count" THEN 1 ELSE 0

\* Row and count are two statements of the worker, one transaction of the
\* fallback: popularity never counts a row twice, whatever is delivered again,
\* and each fault makes it miss at most one.
CountedOnce ==
    /\ popularity + Counting <= Cardinality(Inserts)
    /\ Cardinality(Inserts) <= popularity + Counting + faults

\* A call of Publish makes a second row only if the first one was deleted and
\* a copy of its event came after that; a call that failed makes none.
OneRow ==
    \A c \in Comments :
        /\ made[c] > 1 => c \in copied /\ \E d \in deleted : d.comment = c /\ d.id < made[c]
        /\ c \in failed => made[c] = 0

\* When nothing is under way the column and the score of the video differ by
\* no more than what went wrong.
CountersAgree ==
    (events = <<>> /\ heatq = 0 /\ \A c \in Comments : todo[c] = {}) =>
        popularity - heat \in -faults .. faults

\* An accepted deletion takes effect, or its event is lost or dead-lettered.
DeletionsHappen ==
    \A c \in Comments : \A n \in 1 .. (MaxFaults + 1) :
        LET d == [action |-> "delete", comment |-> c, id |-> n]
        IN  d \in deleted ~> (rows[c] # n \/ d \in given)

=============================================================================
