------------------------------- MODULE Outbox -------------------------------
(***************************************************************************)
(* The transactional outbox of video publication: VideoService.Publish     *)
(* writes a video and its outbox row in one MySQL transaction, and the     *)
(* OutboxWorker goroutine of every worker process moves the rows to the    *)
(* timeline exchange of RabbitMQ.                                          *)
(*                                                                         *)
(* A worker's poll is cut at every SQL statement and at the publish, so    *)
(* that the polls of several processes interleave as they do on a shared   *)
(* database: reset expired claims, read a batch, and for every row of the  *)
(* batch claim, publish, mark.  A row that was read keeps the retry_count  *)
(* it had when it was READ; both mark statements select by id alone.       *)
(***************************************************************************)
EXTENDS Integers, FiniteSets

CONSTANTS
    Workers,         \* worker processes, each running one OutboxWorker
    Videos,          \* ids MySQL hands out, in order of creation
    MaxOutboxRetry,  \* maxOutboxRetry of outbox_worker.go
    BatchSize,       \* batchSize of the worker
    MaxFaults,       \* bound: crashes, lost connections and failed statements
    MaxSlowClaims    \* bound: claims that outlive the processing timeout

ASSUME OutboxConstants ==
    /\ IsFiniteSet(Workers)
    /\ Videos \subseteq Nat \ {0}
    /\ MaxOutboxRetry \in Nat
    /\ BatchSize \in Nat \ {0}
    /\ MaxFaults \in Nat
    /\ MaxSlowClaims \in Nat

VARIABLES
    outbox,    \* outbox_msgs: one row per committed video
    pc,        \* where each worker is in its poll
    batch,     \* rows of the current poll still to be handled
    seen,      \* retry_count of those rows when they were read
    cur,       \* row being handled, 0 when none
    chOpen,    \* is the worker's RabbitMQ channel usable
    queue,     \* timeline events the broker accepted, per video
    written,   \* history: videos whose publish call returned nil at least once
    failures,  \* history: failed publishes recorded in the row, per video
    slow,      \* history: claims of a live worker that expired, per video
    faults     \* history: faults taken so far

workerVars == <<pc, batch, seen, cur>>
brokerVars == <<chOpen, queue>>
histVars   == <<written, failures, slow, faults>>
vars       == <<outbox, pc, batch, seen, cur, chOpen, queue, written, failures, slow, faults>>

Settled == {"published", "failed"}
Status  == {"none", "pending", "processing"} \cup Settled

\* expired stands for updated_at < now - timeout; every UPDATE of the row
\* sets updated_at and so clears it.
Row == [status : Status, retryCount : Nat, expired : BOOLEAN]
NoRow == [status |-> "none", retryCount |-> 0, expired |-> FALSE]

Holding == {"publish", "markPublished", "markFailed"}

TypeOK ==
    /\ outbox \in [Videos -> Row]
    /\ pc \in [Workers -> {"idle", "scan", "claim"} \cup Holding]
    /\ batch \in [Workers -> SUBSET Videos]
    /\ seen \in [Workers -> [Videos -> Nat]]
    /\ cur \in [Workers -> Videos \cup {0}]
    /\ chOpen \in [Workers -> BOOLEAN]
    /\ queue \in [Videos -> Nat]
    /\ written \subseteq Videos
    /\ failures \in [Videos -> Nat]
    /\ slow \in [Videos -> Nat]
    /\ faults \in Nat

Init ==
    /\ outbox = [v \in Videos |-> NoRow]
    /\ pc = [w \in Workers |-> "idle"]
    /\ batch = [w \in Workers |-> {}]
    /\ seen = [w \in Workers |-> [v \in Videos |-> 0]]
    /\ cur = [w \in Workers |-> 0]
    /\ chOpen = [w \in Workers |-> TRUE]
    /\ queue = [v \in Videos |-> 0]
    /\ written = {}
    /\ failures = [v \in Videos |-> 0]
    /\ slow = [v \in Videos |-> 0]
    /\ faults = 0

-----------------------------------------------------------------------------
(* Statements on outbox_msgs.                                              *)

WithStatus(row, s) == [row EXCEPT !.status = s, !.expired = FALSE]

\* Mutants of ResetRow: without the status condition; not run at all.
BugResetAnyStatus(row) ==
    IF row.expired \/ row.status = "published" THEN WithStatus(row, "pending") ELSE row
BugNeverReset(row) == row

\* resetExpiredProcessing: one UPDATE over all expired claims.
ResetRow(row) ==
    IF row.status = "processing" /\ row.expired
    THEN WithStatus(row, "pending") ELSE row

\* Mutants of FailedRow: off by one at the limit; counted twice.
BugOneRetryTooMany(row, readCount) ==
    [WithStatus(row, IF readCount > MaxOutboxRetry THEN "failed" ELSE "pending")
        EXCEPT !.retryCount = readCount + 1]
BugCountedTwice(row, readCount) ==
    [WithStatus(row, IF readCount + 2 > MaxOutboxRetry THEN "failed" ELSE "pending")
        EXCEPT !.retryCount = readCount + 2]

\* markPublishFailed computes the new count from the row as it was read.
FailedRow(row, readCount) ==
    [WithStatus(row, IF readCount + 1 > MaxOutboxRetry THEN "failed" ELSE "pending")
        EXCEPT !.retryCount = readCount + 1]

\* The clock passes updated_at + timeout.
ExpiredRow(row) == [row EXCEPT !.expired = TRUE]

Pending == {v \in Videos : outbox[v].status = "pending"}

\* WHERE status = pending ORDER BY create_time LIMIT batchSize.
OldestPending == {v \in Pending : Cardinality({u \in Pending : u < v}) < BatchSize}

Holders(v) == {w \in Workers : pc[w] \in Holding /\ cur[w] = v}

-----------------------------------------------------------------------------
(* The API process.                                                        *)

\* VideoService.Publish: video, outbox row and tags commit together; ids are
\* handed out in order of creation.
Publish(v) ==
    /\ outbox[v].status = "none"
    /\ \A u \in Videos : u < v => outbox[u].status # "none"
    /\ outbox' = [outbox EXCEPT ![v] = WithStatus(@, "pending")]
    /\ UNCHANGED <<workerVars, brokerVars, histVars>>

-----------------------------------------------------------------------------
(* One poll of a worker.                                                   *)

Fault == faults < MaxFaults /\ faults' = faults + 1

ResetExpired(w) ==
    /\ pc[w] = "idle"
    /\ outbox' = [v \in Videos |-> ResetRow(outbox[v])]
    /\ pc' = [pc EXCEPT ![w] = "scan"]
    /\ UNCHANGED <<batch, seen, cur, brokerVars, histVars>>

Scan(w) ==
    /\ pc[w] = "scan"
    /\ batch' = [batch EXCEPT ![w] = OldestPending]
    /\ seen' = [seen EXCEPT ![w] =
                   [v \in Videos |-> IF v \in OldestPending THEN outbox[v].retryCount ELSE 0]]
    /\ pc' = [pc EXCEPT ![w] = IF OldestPending = {} THEN "idle" ELSE "claim"]
    /\ UNCHANGED <<outbox, cur, brokerVars, histVars>>

\* Either statement fails: pollOnce returns and the next tick polls again.
PollFails(w) ==
    /\ pc[w] \in {"idle", "scan"}
    /\ Fault
    /\ pc' = [pc EXCEPT ![w] = "idle"]
    /\ UNCHANGED <<outbox, batch, seen, cur, brokerVars, written, failures, slow>>

First(w, v) == v \in batch[w] /\ \A u \in batch[w] : v <= u

\* The worker is through with row v of its batch.
Done(w, v) ==
    /\ batch' = [batch EXCEPT ![w] = @ \ {v}]
    /\ seen' = [seen EXCEPT ![w][v] = 0]
    /\ cur' = [cur EXCEPT ![w] = 0]
    /\ pc' = [pc EXCEPT ![w] = IF batch[w] \subseteq {v} THEN "idle" ELSE "claim"]

\* Mutant of ClaimWins: the UPDATE selects by id alone.
BugClaimById(w, v) ==
    /\ pc[w] = "claim" /\ First(w, v)
    /\ outbox' = [outbox EXCEPT ![v] = WithStatus(@, "processing")]
    /\ cur' = [cur EXCEPT ![w] = v]
    /\ pc' = [pc EXCEPT ![w] = "publish"]
    /\ UNCHANGED <<batch, seen, brokerVars, histVars>>

\* UPDATE .. WHERE id AND status = pending, RowsAffected = 1.
ClaimWins(w, v) ==
    /\ pc[w] = "claim" /\ First(w, v)
    /\ outbox[v].status = "pending"
    /\ outbox' = [outbox EXCEPT ![v] = WithStatus(@, "processing")]
    /\ cur' = [cur EXCEPT ![w] = v]
    /\ pc' = [pc EXCEPT ![w] = "publish"]
    /\ UNCHANGED <<batch, seen, brokerVars, histVars>>

\* RowsAffected = 0: another worker has the row.
ClaimLoses(w, v) ==
    /\ pc[w] = "claim" /\ First(w, v)
    /\ outbox[v].status # "pending"
    /\ Done(w, v)
    /\ UNCHANGED <<outbox, brokerVars, histVars>>

ClaimFails(w, v) ==
    /\ pc[w] = "claim" /\ First(w, v)
    /\ Fault
    /\ Done(w, v)
    /\ UNCHANGED <<outbox, brokerVars, written, failures, slow>>

\* PublishWithContext without publisher confirms: nil means the frames were
\* handed to the connection.
PublishOK(w, v) ==
    /\ pc[w] = "publish" /\ cur[w] = v
    /\ chOpen[w]
    /\ queue' = [queue EXCEPT ![v] = @ + 1]
    /\ written' = written \cup {v}
    /\ pc' = [pc EXCEPT ![w] = "markPublished"]
    /\ UNCHANGED <<outbox, batch, seen, cur, chOpen, failures, slow, faults>>

\* The connection goes down with the frames on their way: the call returned
\* nil and the broker never saw the event.
PublishLost(w, v) ==
    /\ pc[w] = "publish" /\ cur[w] = v
    /\ chOpen[w]
    /\ Fault
    /\ chOpen' = [chOpen EXCEPT ![w] = FALSE]
    /\ written' = written \cup {v}
    /\ pc' = [pc EXCEPT ![w] = "markPublished"]
    /\ UNCHANGED <<outbox, batch, seen, cur, queue, failures, slow>>

\* Mutant of PublishFails: the error is ignored.
BugErrorIgnored(w, v) ==
    /\ pc[w] = "publish" /\ cur[w] = v
    /\ ~chOpen[w]
    /\ pc' = [pc EXCEPT ![w] = "markPublished"]
    /\ UNCHANGED <<outbox, batch, seen, cur, brokerVars, histVars>>

\* Every publish on a closed channel returns ErrClosed.
PublishFails(w, v) ==
    /\ pc[w] = "publish" /\ cur[w] = v
    /\ ~chOpen[w]
    /\ pc' = [pc EXCEPT ![w] = "markFailed"]
    /\ UNCHANGED <<outbox, batch, seen, cur, brokerVars, histVars>>

MarkPublished(w, v) ==
    /\ pc[w] = "markPublished" /\ cur[w] = v
    /\ outbox' = [outbox EXCEPT ![v] = WithStatus(@, "published")]
    /\ Done(w, v)
    /\ UNCHANGED <<brokerVars, histVars>>

MarkPublishFailed(w, v) ==
    /\ pc[w] = "markFailed" /\ cur[w] = v
    /\ outbox' = [outbox EXCEPT ![v] = FailedRow(@, seen[w][v])]
    /\ failures' = [failures EXCEPT ![v] = @ + 1]
    /\ Done(w, v)
    /\ UNCHANGED <<brokerVars, written, slow, faults>>

\* Either mark statement fails: it is logged and the row stays processing.
MarkFails(w, v) ==
    /\ pc[w] \in {"markPublished", "markFailed"} /\ cur[w] = v
    /\ Fault
    /\ Done(w, v)
    /\ UNCHANGED <<outbox, brokerVars, written, failures, slow>>

-----------------------------------------------------------------------------
(* The environment of the workers.                                         *)

\* A channel or its connection closes.  The outbox worker consumes nothing,
\* so it is not told.
ChannelCloses(w) ==
    /\ chOpen[w]
    /\ Fault
    /\ chOpen' = [chOpen EXCEPT ![w] = FALSE]
    /\ UNCHANGED <<outbox, workerVars, queue, written, failures, slow>>

Restarted(w) ==
    /\ pc' = [pc EXCEPT ![w] = "idle"]
    /\ batch' = [batch EXCEPT ![w] = {}]
    /\ seen' = [seen EXCEPT ![w] = [v \in Videos |-> 0]]
    /\ cur' = [cur EXCEPT ![w] = 0]
    /\ chOpen' = [chOpen EXCEPT ![w] = TRUE]

\* The process dies anywhere and its supervisor starts it again.
Crash(w) ==
    /\ Fault
    /\ Restarted(w)
    /\ UNCHANGED <<outbox, queue, written, failures, slow>>

\* After a lost connection the consumers of the same process see their
\* delivery channels closed, and main ends the process with log.Fatalf.
Exit(w) ==
    /\ ~chOpen[w]
    /\ Restarted(w)
    /\ UNCHANGED <<outbox, queue, histVars>>

\* The processing timeout of a claim runs out, with its holder still at work
\* (stalled for 5 minutes) or gone.
ClaimExpires(v) ==
    /\ outbox[v].status = "processing" /\ ~outbox[v].expired
    /\ \/ Holders(v) = {} /\ UNCHANGED slow
       \/ /\ Holders(v) # {}
          /\ slow[v] < MaxSlowClaims
          /\ slow' = [slow EXCEPT ![v] = @ + 1]
    /\ outbox' = [outbox EXCEPT ![v] = ExpiredRow(@)]
    /\ UNCHANGED <<workerVars, brokerVars, written, failures, faults>>

-----------------------------------------------------------------------------

HandleRow(w, v) ==
    \/ ClaimWins(w, v) \/ ClaimLoses(w, v)
    \/ PublishOK(w, v) \/ PublishFails(w, v)
    \/ MarkPublished(w, v) \/ MarkPublishFailed(w, v)

RowFault(w, v) == ClaimFails(w, v) \/ PublishLost(w, v) \/ MarkFails(w, v)

WorkerStep(w) ==
    \/ ResetExpired(w)
    \/ Scan(w)
    \/ \E v \in Videos : HandleRow(w, v)

Environment(w) ==
    \/ PollFails(w) \/ ChannelCloses(w) \/ Crash(w) \/ Exit(w)
    \/ \E v \in Videos : RowFault(w, v)

Next ==
    \/ \E v \in Videos : Publish(v) \/ ClaimExpires(v)
    \/ \E w \in Workers : WorkerStep(w) \/ Environment(w)

Spec == Init /\ [][Next]_vars

\* A live worker keeps polling (a ticker drives Run), and the clock passes the
\* deadline of a claim nobody holds.
Fairness ==
    /\ \A w \in Workers : WF_vars(WorkerStep(w))
    /\ \A v \in Videos : WF_vars(Holders(v) = {} /\ ClaimExpires(v))

FairSpec == Spec /\ Fairness

-----------------------------------------------------------------------------
(* Properties.                                                             *)

\* The retry count that markPublishFailed writes comes from a stale read, and
\* yet a row that can still be picked up never exceeds the budget, and a row
\* is given up exactly at budget + 1.
RetryBudget ==
    \A v \in Videos :
        /\ outbox[v].status \in {"pending", "processing"} => outbox[v].retryCount <= MaxOutboxRetry
        /\ outbox[v].status = "failed" => outbox[v].retryCount = MaxOutboxRetry + 1

\* A row is given up only after MaxOutboxRetry + 1 publish calls for its video
\* returned an error and were recorded: crashes, expired claims, failed
\* statements and stale marks never use up the retries of a row.
GivenUpAfterAllFailures ==
    \A v \in Videos : outbox[v].status = "failed" => failures[v] > MaxOutboxRetry

\* A row is published only if some publish call for its video returned nil,
\* whichever worker marks it and however late.
PublishedWasWritten ==
    \A v \in Videos : outbox[v].status = "published" => v \in written

\* The conditional UPDATE of claim hands a row to one worker at a time; each
\* claim that expires under a live holder admits one more.  A row that is
\* claimable, about to be reset or settled counts as a holder: it stands for
\* the right to handle the row, which the last holder gave back.
Token(row) == IF row.expired \/ row.status \in {"pending"} \cup Settled THEN 1 ELSE 0
ClaimTokens ==
    \A v \in Videos : Cardinality(Holders(v)) + Token(outbox[v]) <= 1 + slow[v]

\* While no claim of a video has outlived the timeout under a live worker, a
\* published or failed row is never rewritten: the mark statements select by
\* id alone, and only the claim keeps them from each other.
SettledIsFinal ==
    [][\A v \in Videos :
          outbox[v].status \in Settled /\ slow[v] = 0 => outbox'[v] = outbox[v]]_vars

\* Every row ends published or failed for good, whatever the workers crash in:
\* resetExpiredProcessing brings back every claim whose holder is gone.
EventuallySettled ==
    \A v \in Videos : <>[](outbox[v].status \notin {"pending", "processing"})

=============================================================================
