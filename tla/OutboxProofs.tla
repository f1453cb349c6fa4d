---------------------------- MODULE OutboxProofs ----------------------------
(***************************************************************************)
(* Proofs about Outbox for every set of workers and videos, every retry    *)
(* limit and every number of faults.                                       *)
(*                                                                         *)
(* None of the checked invariants is inductive alone.  The retry budget    *)
(* needs that the counts read into a batch are within it too; "published   *)
(* was written" needs what a worker between publish and mark knows; the    *)
(* token count needs that only rows that exist are held.                   *)
(***************************************************************************)
EXTENDS Outbox, FiniteSetTheorems, TLAPS

\* A row that is not there yet will start with count 0.
FreshRows == \A v \in Videos : outbox[v].status = "none" => outbox[v].retryCount = 0

\* Counts read into a batch are within the budget.
SeenBudget == \A w \in Workers, v \in Videos : seen[w][v] <= MaxOutboxRetry

\* No count, in a row or read from one, is ahead of the recorded failures.
CountsRecorded ==
    /\ \A v \in Videos : outbox[v].retryCount <= failures[v]
    /\ \A w \in Workers, v \in Videos : seen[w][v] <= failures[v]

\* A worker about to mark a row published has had its publish accepted.
MarkedWasWritten ==
    \A w \in Workers, v \in Videos : pc[w] = "markPublished" /\ cur[w] = v => v \in written

\* Only rows that exist are held.
HeldExists ==
    \A v \in Videos : outbox[v].status = "none" => Holders(v) = {}

CountInv == TypeOK /\ RetryBudget /\ FreshRows /\ SeenBudget /\ CountsRecorded
WrittenInv == PublishedWasWritten /\ MarkedWasWritten
TokenInv == HeldExists /\ ClaimTokens
IInv == CountInv /\ WrittenInv /\ TokenInv

-----------------------------------------------------------------------------

(* What the statements do to one row.                                      *)

LEMMA WithStatusFact ==
  ASSUME NEW row \in Row, NEW s \in Status
  PROVE  /\ WithStatus(row, s) \in Row
         /\ WithStatus(row, s).status = s
         /\ WithStatus(row, s).retryCount = row.retryCount
         /\ WithStatus(row, s).expired = FALSE
  BY DEF WithStatus, Row

LEMMA ExpiredRowFact ==
  ASSUME NEW row \in Row
  PROVE  /\ ExpiredRow(row) \in Row
         /\ ExpiredRow(row).status = row.status
         /\ ExpiredRow(row).retryCount = row.retryCount
         /\ ExpiredRow(row).expired = TRUE
  BY DEF ExpiredRow, Row

LEMMA ResetRowFact ==
  ASSUME NEW row \in Row
  PROVE  /\ ResetRow(row) \in Row
         /\ ResetRow(row).retryCount = row.retryCount
         /\ \/ ResetRow(row) = row
            \/ /\ row.status = "processing" /\ row.expired
               /\ ResetRow(row).status = "pending" /\ ~ResetRow(row).expired
  <1>1. "pending" \in Status
    BY DEF Status
  <1> QED
    BY <1>1, WithStatusFact DEF ResetRow

LEMMA ResetStep ==
  ASSUME TypeOK, NEW w \in Workers, ResetExpired(w)
  PROVE  /\ outbox' \in [Videos -> Row]
         /\ \A v \in Videos :
              /\ outbox'[v].retryCount = outbox[v].retryCount
              /\ \/ outbox'[v] = outbox[v]
                 \/ /\ outbox[v].status = "processing" /\ outbox[v].expired
                    /\ outbox'[v].status = "pending" /\ ~outbox'[v].expired
  <1>1. outbox' = [v \in Videos |-> ResetRow(outbox[v])] /\ \A v \in Videos : outbox[v] \in Row
    BY DEF ResetExpired, TypeOK
  <1> QED
    BY <1>1, ResetRowFact

LEMMA FailedRowFact ==
  ASSUME NEW row \in Row, NEW n \in Nat
  PROVE  /\ FailedRow(row, n) \in Row
         /\ FailedRow(row, n).retryCount = n + 1
         /\ FailedRow(row, n).status = IF n + 1 > MaxOutboxRetry THEN "failed" ELSE "pending"
         /\ FailedRow(row, n).expired = FALSE
  <1> DEFINE s == IF n + 1 > MaxOutboxRetry THEN "failed" ELSE "pending"
  <1>1. s \in Status
    BY DEF Status, Settled
  <1>2. WithStatus(row, s) \in Row /\ WithStatus(row, s).status = s /\ WithStatus(row, s).expired = FALSE
    BY <1>1, WithStatusFact
  <1> QED
    BY <1>2 DEF FailedRow, Row

LEMMA PublishRow ==
  ASSUME TypeOK, NEW v \in Videos, Publish(v)
  PROVE  /\ outbox' \in [Videos -> Row]
         /\ \A u \in Videos \ {v} : outbox'[u] = outbox[u]
         /\ outbox'[v].status = "pending"
         /\ outbox'[v].retryCount = outbox[v].retryCount
         /\ outbox'[v].expired = FALSE
  <1>1. outbox[v] \in Row /\ "pending" \in Status
    BY DEF TypeOK, Status, Settled
  <1>2. /\ WithStatus(outbox[v], "pending") \in Row
        /\ WithStatus(outbox[v], "pending").status = "pending"
        /\ WithStatus(outbox[v], "pending").retryCount = outbox[v].retryCount
        /\ WithStatus(outbox[v], "pending").expired = FALSE
    BY <1>1, WithStatusFact
  <1> QED
    BY <1>2 DEF Publish, TypeOK

LEMMA ClaimExpiresRow ==
  ASSUME TypeOK, NEW v \in Videos, ClaimExpires(v)
  PROVE  /\ outbox' \in [Videos -> Row]
         /\ \A u \in Videos \ {v} : outbox'[u] = outbox[u]
         /\ outbox'[v].status = outbox[v].status
         /\ outbox'[v].retryCount = outbox[v].retryCount
         /\ outbox'[v].expired = TRUE
  <1>1. outbox[v] \in Row /\ v \in Videos
    BY DEF TypeOK, Status, Settled
  <1>2. /\ ExpiredRow(outbox[v]) \in Row
        /\ ExpiredRow(outbox[v]).status = outbox[v].status
        /\ ExpiredRow(outbox[v]).retryCount = outbox[v].retryCount
        /\ ExpiredRow(outbox[v]).expired = TRUE
    BY <1>1, ExpiredRowFact
  <1> QED
    BY <1>2 DEF ClaimExpires, TypeOK

LEMMA ClaimWinsRow ==
  ASSUME TypeOK, NEW w \in Workers, NEW v \in Videos, ClaimWins(w, v)
  PROVE  /\ outbox' \in [Videos -> Row]
         /\ \A u \in Videos \ {v} : outbox'[u] = outbox[u]
         /\ outbox'[v].status = "processing"
         /\ outbox'[v].retryCount = outbox[v].retryCount
         /\ outbox'[v].expired = FALSE
  <1>1. outbox[v] \in Row /\ "processing" \in Status
    BY DEF TypeOK, Status, Settled
  <1>2. /\ WithStatus(outbox[v], "processing") \in Row
        /\ WithStatus(outbox[v], "processing").status = "processing"
        /\ WithStatus(outbox[v], "processing").retryCount = outbox[v].retryCount
        /\ WithStatus(outbox[v], "processing").expired = FALSE
    BY <1>1, WithStatusFact
  <1> QED
    BY <1>2 DEF ClaimWins, TypeOK

LEMMA MarkPublishedRow ==
  ASSUME TypeOK, NEW w \in Workers, NEW v \in Videos, MarkPublished(w, v)
  PROVE  /\ outbox' \in [Videos -> Row]
         /\ \A u \in Videos \ {v} : outbox'[u] = outbox[u]
         /\ outbox'[v].status = "published"
         /\ outbox'[v].retryCount = outbox[v].retryCount
         /\ outbox'[v].expired = FALSE
  <1>1. outbox[v] \in Row /\ "published" \in Status
    BY DEF TypeOK, Status, Settled
  <1>2. /\ WithStatus(outbox[v], "published") \in Row
        /\ WithStatus(outbox[v], "published").status = "published"
        /\ WithStatus(outbox[v], "published").retryCount = outbox[v].retryCount
        /\ WithStatus(outbox[v], "published").expired = FALSE
    BY <1>1, WithStatusFact
  <1> QED
    BY <1>2 DEF MarkPublished, TypeOK

LEMMA MarkPublishFailedRow ==
  ASSUME TypeOK, NEW w \in Workers, NEW v \in Videos, MarkPublishFailed(w, v)
  PROVE  /\ outbox' \in [Videos -> Row]
         /\ \A u \in Videos \ {v} : outbox'[u] = outbox[u]
         /\ outbox'[v].retryCount = seen[w][v] + 1
         /\ outbox'[v].status = IF seen[w][v] + 1 > MaxOutboxRetry THEN "failed" ELSE "pending"
         /\ outbox'[v].expired = FALSE
  <1>1. outbox[v] \in Row /\ seen[w][v] \in Nat
    BY DEF TypeOK, Status, Settled
  <1>2. /\ FailedRow(outbox[v], seen[w][v]) \in Row
        /\ FailedRow(outbox[v], seen[w][v]).retryCount = seen[w][v] + 1
        /\ FailedRow(outbox[v], seen[w][v]).status = IF seen[w][v] + 1 > MaxOutboxRetry THEN "failed" ELSE "pending"
        /\ FailedRow(outbox[v], seen[w][v]).expired = FALSE
    BY <1>1, FailedRowFact
  <1> QED
    BY <1>2 DEF MarkPublishFailed, TypeOK

-----------------------------------------------------------------------------
(* Types and retry counts.                                                 *)

LEMMA CountInit == Init => CountInv
  BY OutboxConstants DEF Init, CountInv, TypeOK, RetryBudget, FreshRows, SeenBudget,
     CountsRecorded, Row, NoRow, Status, Settled

LEMMA CountStep == CountInv /\ [Next]_vars => CountInv'
  <1> SUFFICES ASSUME CountInv, [Next]_vars PROVE CountInv'
    OBVIOUS
  <1> USE OutboxConstants DEF CountInv, TypeOK, RetryBudget, FreshRows, SeenBudget,
          CountsRecorded, Status, Settled, Holding, workerVars, brokerVars, histVars, Fault
  <1>1. ASSUME NEW v \in Videos, Publish(v) PROVE CountInv'
    <2>1. /\ outbox' \in [Videos -> Row]
          /\ \A u \in Videos \ {v} : outbox'[u] = outbox[u]
          /\ outbox'[v].status = "pending"
          /\ outbox'[v].retryCount = outbox[v].retryCount
      BY <1>1, PublishRow
    <2> QED
      BY <1>1, <2>1 DEF Publish
  <1>2. ASSUME NEW v \in Videos, ClaimExpires(v) PROVE CountInv'
    <2>1. /\ outbox' \in [Videos -> Row]
          /\ \A u \in Videos \ {v} : outbox'[u] = outbox[u]
          /\ outbox'[v].status = outbox[v].status
          /\ outbox'[v].retryCount = outbox[v].retryCount
      BY <1>2, ClaimExpiresRow
    <2> QED
      BY <1>2, <2>1 DEF ClaimExpires
  <1>3. ASSUME NEW w \in Workers, ResetExpired(w) PROVE CountInv'
    <2>1. /\ outbox' \in [Videos -> Row]
          /\ \A v \in Videos :
                /\ outbox'[v].retryCount = outbox[v].retryCount
                /\ \/ outbox'[v] = outbox[v]
                   \/ /\ outbox[v].status = "processing" /\ outbox[v].expired
                      /\ outbox'[v].status = "pending" /\ ~outbox'[v].expired
      BY <1>3, ResetStep
    <2> QED
      BY <1>3, <2>1 DEF ResetExpired
  <1>4. ASSUME NEW w \in Workers, Scan(w) PROVE CountInv'
    BY <1>4 DEF Scan, OldestPending, Pending, Row
  <1>5. ASSUME NEW w \in Workers, NEW v \in Videos, ClaimWins(w, v) PROVE CountInv'
    <2>1. /\ outbox' \in [Videos -> Row]
          /\ \A u \in Videos \ {v} : outbox'[u] = outbox[u]
          /\ outbox'[v].status = "processing"
          /\ outbox'[v].retryCount = outbox[v].retryCount
      BY <1>5, ClaimWinsRow
    <2> QED
      BY <1>5, <2>1 DEF ClaimWins
  <1>6. ASSUME NEW w \in Workers, NEW v \in Videos, Done(w, v),
               UNCHANGED <<outbox, chOpen, queue, written, failures, slow>>, faults' \in Nat
        PROVE  CountInv'
    BY <1>6 DEF Done
  <1>7. ASSUME NEW w \in Workers, NEW v \in Videos, PublishOK(w, v) PROVE CountInv'
    BY <1>7 DEF PublishOK
  <1>8. ASSUME NEW w \in Workers, NEW v \in Videos, PublishLost(w, v) PROVE CountInv'
    BY <1>8 DEF PublishLost
  <1>9. ASSUME NEW w \in Workers, NEW v \in Videos, PublishFails(w, v) PROVE CountInv'
    BY <1>9 DEF PublishFails
  <1>10. ASSUME NEW w \in Workers, NEW v \in Videos, MarkPublished(w, v) PROVE CountInv'
    <2>1. /\ outbox' \in [Videos -> Row]
          /\ \A u \in Videos \ {v} : outbox'[u] = outbox[u]
          /\ outbox'[v].status = "published"
          /\ outbox'[v].retryCount = outbox[v].retryCount
      BY <1>10, MarkPublishedRow
    <2> QED
      BY <1>10, <2>1 DEF MarkPublished, Done
  <1>11. ASSUME NEW w \in Workers, NEW v \in Videos, MarkPublishFailed(w, v) PROVE CountInv'
    <2>1. /\ outbox' \in [Videos -> Row]
          /\ \A u \in Videos \ {v} : outbox'[u] = outbox[u]
          /\ outbox'[v].retryCount = seen[w][v] + 1
          /\ outbox'[v].status = IF seen[w][v] + 1 > MaxOutboxRetry THEN "failed" ELSE "pending"
      BY <1>11, MarkPublishFailedRow
    <2> QED
      BY <1>11, <2>1 DEF MarkPublishFailed, Done
  <1>12. ASSUME NEW w \in Workers, PollFails(w) PROVE CountInv'
    BY <1>12 DEF PollFails
  <1>13. ASSUME NEW w \in Workers, ChannelCloses(w) PROVE CountInv'
    BY <1>13 DEF ChannelCloses
  <1>14. ASSUME NEW w \in Workers, Crash(w) \/ Exit(w) PROVE CountInv'
    <2>1. /\ Restarted(w)
          /\ UNCHANGED <<outbox, queue, written, failures, slow>>
          /\ faults' \in Nat
      BY <1>14 DEF Crash, Exit
    <2>2. /\ seen' \in [Workers -> [Videos -> Nat]]
          /\ \A x \in Workers, v \in Videos : seen'[x][v] <= seen[x][v]
      BY <2>1 DEF Restarted
    <2>3. TypeOK'
      BY <2>1, <2>2 DEF Restarted
    <2>4. SeenBudget'
      BY <2>2
    <2>5. CountsRecorded'
      BY <2>1, <2>2
    <2> QED
      BY <2>1, <2>3, <2>4, <2>5
  <1>15. CASE UNCHANGED vars
    BY <1>15 DEF vars
  <1>16. ASSUME NEW w \in Workers, NEW v \in Videos, ClaimLoses(w, v) \/ ClaimFails(w, v) \/ MarkFails(w, v)
         PROVE  CountInv'
    BY <1>6, <1>16 DEF ClaimLoses, ClaimFails, MarkFails
  <1> QED
    BY <1>1, <1>2, <1>3, <1>4, <1>5, <1>7, <1>8, <1>9, <1>10, <1>11, <1>12, <1>13, <1>14, <1>15,
       <1>16
       DEF Next, WorkerStep, Environment, HandleRow, RowFault

-----------------------------------------------------------------------------
(* Published rows.                                                         *)

LEMMA WrittenInit == Init => WrittenInv
  BY DEF Init, WrittenInv, PublishedWasWritten, MarkedWasWritten, NoRow

LEMMA WrittenStep == TypeOK /\ WrittenInv /\ [Next]_vars => WrittenInv'
  <1> SUFFICES ASSUME TypeOK, WrittenInv, [Next]_vars PROVE WrittenInv'
    OBVIOUS
  <1> USE DEF WrittenInv, PublishedWasWritten, MarkedWasWritten, workerVars, brokerVars, histVars
  <1>1. ASSUME NEW v \in Videos, Publish(v) PROVE WrittenInv'
    <2>1. outbox'[v].status = "pending" /\ \A u \in Videos \ {v} : outbox'[u] = outbox[u]
      BY <1>1, PublishRow
    <2> QED
      BY <1>1, <2>1 DEF Publish
  <1>2. ASSUME NEW v \in Videos, ClaimExpires(v) PROVE WrittenInv'
    <2>1. outbox'[v].status = outbox[v].status /\ \A u \in Videos \ {v} : outbox'[u] = outbox[u]
      BY <1>2, ClaimExpiresRow
    <2> QED
      BY <1>2, <2>1 DEF ClaimExpires
  <1>3. ASSUME NEW w \in Workers, ResetExpired(w) PROVE WrittenInv'
    <2>1. \A v \in Videos : outbox'[v] = outbox[v] \/ outbox'[v].status = "pending"
      BY <1>3, ResetStep
    <2> QED
      BY <1>3, <2>1 DEF ResetExpired, TypeOK
  <1>4. ASSUME NEW w \in Workers, NEW v \in Videos, ClaimWins(w, v) PROVE WrittenInv'
    <2>1. outbox'[v].status = "processing" /\ \A u \in Videos \ {v} : outbox'[u] = outbox[u]
      BY <1>4, ClaimWinsRow
    <2> QED
      BY <1>4, <2>1 DEF ClaimWins, TypeOK
  <1>5. ASSUME NEW w \in Workers, NEW v \in Videos, MarkPublished(w, v) PROVE WrittenInv'
    <2>1. \A u \in Videos \ {v} : outbox'[u] = outbox[u]
      BY <1>5, MarkPublishedRow
    <2> QED
      BY <1>5, <2>1 DEF MarkPublished, Done, TypeOK
  <1>6. ASSUME NEW w \in Workers, NEW v \in Videos, MarkPublishFailed(w, v) PROVE WrittenInv'
    <2>1. /\ \A u \in Videos \ {v} : outbox'[u] = outbox[u]
          /\ outbox'[v].status \in {"failed", "pending"}
      BY <1>6, MarkPublishFailedRow
    <2> QED
      BY <1>6, <2>1 DEF MarkPublishFailed, Done, TypeOK
  <1>7. ASSUME NEW w \in Workers, NEW v \in Videos, PublishOK(w, v) \/ PublishLost(w, v) PROVE WrittenInv'
    BY <1>7 DEF PublishOK, PublishLost, TypeOK
  <1>8. ASSUME NEW w \in Workers, NEW v \in Videos, PublishFails(w, v) PROVE WrittenInv'
    BY <1>8 DEF PublishFails, TypeOK
  <1>9. ASSUME NEW w \in Workers, NEW v \in Videos,
               ClaimLoses(w, v) \/ ClaimFails(w, v) \/ MarkFails(w, v)
        PROVE  WrittenInv'
    BY <1>9 DEF ClaimLoses, ClaimFails, MarkFails, Done, TypeOK
  <1>10. ASSUME NEW w \in Workers, Scan(w) \/ PollFails(w) \/ ChannelCloses(w) PROVE WrittenInv'
    BY <1>10 DEF Scan, PollFails, ChannelCloses, TypeOK
  <1>11. ASSUME NEW w \in Workers, Crash(w) \/ Exit(w) PROVE WrittenInv'
    BY <1>11 DEF Crash, Exit, Restarted, TypeOK
  <1>12. CASE UNCHANGED vars
    BY <1>12 DEF vars
  <1> QED
    BY <1>1, <1>2, <1>3, <1>4, <1>5, <1>6, <1>7, <1>8, <1>9, <1>10, <1>11, <1>12
       DEF Next, WorkerStep, Environment, HandleRow, RowFault

-----------------------------------------------------------------------------
(* Holders.                                                                *)

LEMMA HoldersFinite ==
  ASSUME NEW v \in Videos
  PROVE  /\ IsFiniteSet(Holders(v)) /\ Cardinality(Holders(v)) \in Nat
         /\ IsFiniteSet(Holders(v)') /\ Cardinality(Holders(v)') \in Nat
  <1>1. Holders(v) \subseteq Workers /\ Holders(v)' \subseteq Workers
    BY DEF Holders
  <1> QED
    BY <1>1, OutboxConstants, FS_Subset, FS_CardinalityType

\* A worker that gives a row up leaves the row's holders, or was not one.
LEMMA HoldersShrink ==
  ASSUME TypeOK, NEW w \in Workers, NEW v \in Videos, Holders(v)' = Holders(v) \ {w}
  PROVE  Cardinality(Holders(v)') = IF w \in Holders(v) THEN Cardinality(Holders(v)) - 1
                                                         ELSE Cardinality(Holders(v))
  BY HoldersFinite, FS_RemoveElement

LEMMA HoldersGrow ==
  ASSUME NEW w \in Workers, NEW v \in Videos, Holders(v)' = Holders(v) \cup {w}, w \notin Holders(v)
  PROVE  Cardinality(Holders(v)') = Cardinality(Holders(v)) + 1
  BY HoldersFinite, FS_AddElement

LEMMA TokenInit == Init => TokenInv
  <1> SUFFICES ASSUME Init PROVE TokenInv
    OBVIOUS
  <1>1. \A v \in Videos : Holders(v) = {}
    BY DEF Init, Holders, Holding
  <1>2. \A v \in Videos : Token(outbox[v]) = 0 /\ slow[v] = 0
    BY DEF Init, Token, NoRow, Settled
  <1>3. Cardinality({}) = 0
    BY FS_EmptySet
  <1> QED
    BY <1>1, <1>2, <1>3 DEF TokenInv, HeldExists, ClaimTokens

\* A step keeps the token count of a row unless it adds more holders and tokens
\* than it takes away.
LEMMA TokenStep == TypeOK /\ TokenInv /\ [Next]_vars => TokenInv'
  <1> SUFFICES ASSUME TypeOK, TokenInv, [Next]_vars PROVE TokenInv'
    OBVIOUS
  <1> USE DEF workerVars, brokerVars, histVars
  <1>0. \A u \in Videos : /\ Cardinality(Holders(u)) \in Nat
                          /\ Cardinality(Holders(u)') \in Nat
                          /\ slow[u] \in Nat
                          /\ Cardinality(Holders(u)) + Token(outbox[u]) <= 1 + slow[u]
                          /\ outbox[u].status = "none" => Holders(u) = {}
                          /\ outbox[u] \in Row
    BY HoldersFinite DEF TokenInv, ClaimTokens, HeldExists, TypeOK
  <1>a. Cardinality({}) = 0
    BY FS_EmptySet
  <1>b. ASSUME UNCHANGED <<outbox, slow>>, \A u \in Videos : Holders(u)' = Holders(u)
        PROVE  TokenInv'
    BY <1>0, <1>b DEF TokenInv, ClaimTokens, HeldExists, Token
  <1>1. ASSUME NEW v \in Videos, Publish(v) PROVE TokenInv'
    <2>1. /\ outbox'[v].status = "pending" /\ outbox[v].status = "none"
          /\ \A u \in Videos \ {v} : outbox'[u] = outbox[u]
          /\ slow' = slow
      BY <1>1, PublishRow DEF Publish
    <2>2. \A u \in Videos : Holders(u)' = Holders(u)
      BY <1>1 DEF Publish, Holders
    <2>3. Token(outbox'[v]) = 1 /\ Cardinality(Holders(v)') = 0
      BY <1>0, <1>a, <2>1, <2>2 DEF Token, Settled
    <2> QED
      BY <1>0, <2>1, <2>2, <2>3 DEF TokenInv, ClaimTokens, HeldExists, Token
  <1>2. ASSUME NEW v \in Videos, ClaimExpires(v) PROVE TokenInv'
    <2>1. /\ outbox[v].status = "processing" /\ ~outbox[v].expired
          /\ outbox'[v].status = "processing"
          /\ \A u \in Videos \ {v} : outbox'[u] = outbox[u] /\ slow'[u] = slow[u]
          /\ (Holders(v) = {} /\ slow'[v] = slow[v]) \/ slow'[v] = slow[v] + 1
      BY <1>2, ClaimExpiresRow DEF ClaimExpires, TypeOK
    <2>2. \A u \in Videos : Holders(u)' = Holders(u)
      BY <1>2 DEF ClaimExpires, Holders
    <2>3. Token(outbox[v]) = 0 /\ Token(outbox'[v]) \in {0, 1}
      BY <2>1 DEF Token, Settled
    <2>4. Cardinality(Holders(v)') + Token(outbox'[v]) <= 1 + slow'[v]
      BY <1>0, <1>a, <2>1, <2>2, <2>3
    <2> QED
      BY <1>0, <2>1, <2>2, <2>4 DEF TokenInv, ClaimTokens, HeldExists, Token
  <1>3. ASSUME NEW w \in Workers, ResetExpired(w) PROVE TokenInv'
    <2>1. \A u \in Videos :
            \/ outbox'[u] = outbox[u]
            \/ outbox[u].expired /\ outbox'[u].status = "pending"
      BY <1>3, ResetStep
    <2>2. \A u \in Videos : Holders(u)' = Holders(u)
      BY <1>3 DEF ResetExpired, Holders, Holding, TypeOK
    <2>3. \A u \in Videos : Token(outbox'[u]) = Token(outbox[u])
      BY <2>1 DEF Token
    <2>4. slow' = slow
      BY <1>3 DEF ResetExpired
    <2>5. HeldExists'
      BY <1>0, <2>1, <2>2 DEF HeldExists
    <2> QED
      BY <1>0, <2>2, <2>3, <2>4, <2>5 DEF TokenInv, ClaimTokens
  <1>4. ASSUME NEW w \in Workers, NEW v \in Videos, ClaimWins(w, v) PROVE TokenInv'
    <2>1. /\ outbox'[v].status = "processing" /\ outbox'[v].expired = FALSE
          /\ outbox[v].status = "pending"
          /\ \A u \in Videos \ {v} : outbox'[u] = outbox[u]
          /\ slow' = slow
      BY <1>4, ClaimWinsRow DEF ClaimWins
    <2>2. /\ Holders(v)' = Holders(v) \cup {w} /\ w \notin Holders(v)
          /\ \A u \in Videos \ {v} : Holders(u)' = Holders(u)
      BY <1>4 DEF ClaimWins, Holders, Holding, TypeOK
    <2>3. Token(outbox[v]) = 1 /\ Token(outbox'[v]) = 0
      BY <2>1 DEF Token, Settled
    <2>4. Cardinality(Holders(v)') = Cardinality(Holders(v)) + 1
      BY <2>2, HoldersGrow
    <2>5. HeldExists'
      BY <1>0, <2>1, <2>2 DEF HeldExists
    <2>6. Cardinality(Holders(v)') + Token(outbox'[v]) <= 1 + slow'[v]
      BY <1>0, <2>1, <2>2, <2>3, <2>4
    <2>7. \A u \in Videos \ {v} : Cardinality(Holders(u)') + Token(outbox'[u]) <= 1 + slow'[u]
      BY <1>0, <2>1, <2>2
    <2> QED
      BY <2>5, <2>6, <2>7 DEF TokenInv, ClaimTokens
  <1>5. ASSUME NEW w \in Workers, NEW v \in Videos, MarkPublished(w, v) \/ MarkPublishFailed(w, v)
        PROVE  TokenInv'
    <2>1. /\ outbox'[v].status \in {"published", "failed", "pending"}
          /\ \A u \in Videos \ {v} : outbox'[u] = outbox[u]
      BY <1>5, MarkPublishedRow, MarkPublishFailedRow
    <2>2. /\ Holders(v)' = Holders(v) \ {w} /\ w \in Holders(v)
          /\ \A u \in Videos \ {v} : Holders(u)' = Holders(u)
          /\ slow' = slow
      BY <1>5 DEF MarkPublished, MarkPublishFailed, Done, Holders, Holding, TypeOK
    <2>3. Token(outbox'[v]) = 1 /\ Token(outbox[v]) \in {0, 1}
      BY <2>1 DEF Token, Settled
    <2>4. Cardinality(Holders(v)') = Cardinality(Holders(v)) - 1
      BY <2>2, HoldersShrink
    <2>5. HeldExists'
      BY <1>0, <2>1, <2>2 DEF HeldExists
    <2>6. Cardinality(Holders(v)') + Token(outbox'[v]) <= 1 + slow'[v]
      BY <1>0, <2>1, <2>2, <2>3, <2>4
    <2>7. \A u \in Videos \ {v} : Cardinality(Holders(u)') + Token(outbox'[u]) <= 1 + slow'[u]
      BY <1>0, <2>1, <2>2
    <2> QED
      BY <2>5, <2>6, <2>7 DEF TokenInv, ClaimTokens
  <1>6. ASSUME NEW w \in Workers, UNCHANGED <<outbox, slow>>,
               \A u \in Videos : Holders(u)' = Holders(u) \ {w}
        PROVE  TokenInv'
    <2>1. \A u \in Videos : Cardinality(Holders(u)') <= Cardinality(Holders(u))
      BY <1>0, <1>6, HoldersShrink
    <2>2. \A u \in Videos : Token(outbox'[u]) = Token(outbox[u]) /\ Token(outbox[u]) \in {0, 1}
      BY <1>6 DEF Token
    <2>3. HeldExists'
      BY <1>0, <1>6 DEF HeldExists
    <2>4. ClaimTokens'
      BY <1>0, <1>6, <2>1, <2>2 DEF ClaimTokens
    <2> QED
      BY <2>3, <2>4 DEF TokenInv
  <1>7. ASSUME NEW w \in Workers, NEW v \in Videos, MarkFails(w, v) PROVE TokenInv'
    <2>1. \A u \in Videos : Holders(u)' = Holders(u) \ {w}
      BY <1>7 DEF MarkFails, Done, Holders, Holding, TypeOK
    <2> QED
      BY <1>6, <1>7, <2>1 DEF MarkFails
  <1>8. ASSUME NEW w \in Workers, Crash(w) \/ Exit(w) PROVE TokenInv'
    <2>1. \A u \in Videos : Holders(u)' = Holders(u) \ {w}
      BY <1>8 DEF Crash, Exit, Restarted, Holders, Holding, TypeOK
    <2> QED
      BY <1>6, <1>8, <2>1 DEF Crash, Exit
  <1>9. ASSUME NEW w \in Workers, NEW v \in Videos, ClaimLoses(w, v) \/ ClaimFails(w, v) PROVE TokenInv'
    <2>1. \A u \in Videos : Holders(u)' = Holders(u)
      BY <1>9 DEF ClaimLoses, ClaimFails, Done, Holders, Holding, TypeOK
    <2> QED
      BY <1>b, <1>9, <2>1 DEF ClaimLoses, ClaimFails
  <1>10. ASSUME NEW w \in Workers, NEW v \in Videos, PublishOK(w, v) \/ PublishLost(w, v) \/ PublishFails(w, v)
         PROVE  TokenInv'
    <2>1. \A u \in Videos : Holders(u)' = Holders(u)
      BY <1>10 DEF PublishOK, PublishLost, PublishFails, Holders, Holding, TypeOK
    <2> QED
      BY <1>b, <1>10, <2>1 DEF PublishOK, PublishLost, PublishFails
  <1>11. ASSUME NEW w \in Workers, Scan(w) \/ PollFails(w) \/ ChannelCloses(w) PROVE TokenInv'
    <2>1. \A u \in Videos : Holders(u)' = Holders(u)
      BY <1>11 DEF Scan, PollFails, ChannelCloses, Holders, Holding, TypeOK
    <2> QED
      BY <1>b, <1>11, <2>1 DEF Scan, PollFails, ChannelCloses
  <1>12. CASE UNCHANGED vars
    <2>1. \A u \in Videos : Holders(u)' = Holders(u)
      BY <1>12 DEF vars, Holders
    <2> QED
      BY <1>b, <1>12, <2>1 DEF vars
  <1> QED
    BY <1>1, <1>2, <1>3, <1>4, <1>5, <1>7, <1>8, <1>9, <1>10, <1>11, <1>12
       DEF Next, WorkerStep, Environment, HandleRow, RowFault

-----------------------------------------------------------------------------
(* The theorems.                                                           *)

LEMMA Invariance == Spec => []IInv
  <1>1. Init => IInv
    BY CountInit, WrittenInit, TokenInit DEF IInv
  <1>2. IInv /\ [Next]_vars => IInv'
    BY CountStep, WrittenStep, TokenStep DEF IInv, CountInv
  <1> QED
    BY <1>1, <1>2, PTL DEF Spec

\* The types of the rows, the workers' local state and the histories.
THEOREM TypeCorrect == Spec => []TypeOK
  <1>1. IInv => TypeOK
    BY DEF IInv, CountInv
  <1> QED
    BY <1>1, Invariance, PTL

\* A row that can be picked up is within the retry budget of outbox_worker.go,
\* and one that was given up is exactly past it.
THEOREM BudgetKept == Spec => []RetryBudget
  <1>1. IInv => RetryBudget
    BY DEF IInv, CountInv
  <1> QED
    BY <1>1, Invariance, PTL

\* No worker's stale mark makes a row fail before MaxOutboxRetry + 1 failed
\* publishes of its video were recorded.
THEOREM GivenUpLate == Spec => []GivenUpAfterAllFailures
  <1>1. IInv => GivenUpAfterAllFailures
    BY OutboxConstants DEF IInv, CountInv, GivenUpAfterAllFailures, RetryBudget, CountsRecorded,
       TypeOK
  <1> QED
    BY <1>1, Invariance, PTL

\* markPublished is only ever run after a publish of the same video returned nil.
THEOREM PublishedHonest == Spec => []PublishedWasWritten
  <1>1. IInv => PublishedWasWritten
    BY DEF IInv, WrittenInv
  <1> QED
    BY <1>1, Invariance, PTL

\* At most one worker holds a row, plus one for each claim that expired under a
\* live holder.
THEOREM ClaimExclusive == Spec => []ClaimTokens
  <1>1. IInv => ClaimTokens
    BY DEF IInv, TokenInv
  <1> QED
    BY <1>1, Invariance, PTL

\* As long as no claim of a row expired under a live worker, the row is final
\* once it is published or failed: nobody is left who could mark it.
THEOREM SettledForGood == Spec => SettledIsFinal
  <1> DEFINE Kept == \A v \in Videos :
                       outbox[v].status \in Settled /\ slow[v] = 0 => outbox'[v] = outbox[v]
  <1>1. IInv /\ [Next]_vars => [Kept]_vars
    <2> SUFFICES ASSUME IInv, Next, NEW u \in Videos, outbox[u].status \in Settled, slow[u] = 0
                 PROVE  outbox'[u] = outbox[u]
      BY DEF vars
    <2> USE DEF workerVars, brokerVars, histVars
    <2>1. TypeOK /\ Token(outbox[u]) = 1 /\ Cardinality(Holders(u)) + Token(outbox[u]) <= 1
      BY DEF IInv, CountInv, TokenInv, ClaimTokens, Token
    <2>2. Holders(u) = {}
      <3>1. Cardinality(Holders(u)) = 0
        BY <2>1, HoldersFinite
      <3> QED
        BY <3>1, HoldersFinite, FS_EmptySet
    <2>3. ASSUME NEW v \in Videos, Publish(v) \/ ClaimExpires(v) PROVE outbox'[u] = outbox[u]
      <3>1. u # v
        BY <2>3 DEF Publish, ClaimExpires, Settled
      <3> QED
        BY <2>1, <2>3, <3>1, PublishRow, ClaimExpiresRow
    <2>4. ASSUME NEW w \in Workers, NEW v \in Videos, ClaimWins(w, v) PROVE outbox'[u] = outbox[u]
      <3>1. u # v
        BY <2>4 DEF ClaimWins, Settled
      <3> QED
        BY <2>1, <2>4, <3>1, ClaimWinsRow
    <2>5. ASSUME NEW w \in Workers, NEW v \in Videos, MarkPublished(w, v) \/ MarkPublishFailed(w, v)
          PROVE  outbox'[u] = outbox[u]
      <3>1. u # v
        BY <2>2, <2>5 DEF MarkPublished, MarkPublishFailed, Holders, Holding
      <3> QED
        BY <2>1, <2>5, <3>1, MarkPublishedRow, MarkPublishFailedRow
    <2>6. ASSUME NEW w \in Workers, ResetExpired(w) PROVE outbox'[u] = outbox[u]
      BY <2>1, <2>6, ResetStep DEF Settled
    <2>7. ASSUME NEW w \in Workers, NEW v \in Videos,
                 \/ ClaimLoses(w, v) \/ ClaimFails(w, v) \/ MarkFails(w, v)
                 \/ PublishOK(w, v) \/ PublishLost(w, v) \/ PublishFails(w, v)
          PROVE  outbox'[u] = outbox[u]
      BY <2>7 DEF ClaimLoses, ClaimFails, MarkFails, PublishOK, PublishLost, PublishFails
    <2>8. ASSUME NEW w \in Workers, Scan(w) \/ PollFails(w) \/ ChannelCloses(w) \/ Crash(w) \/ Exit(w)
          PROVE  outbox'[u] = outbox[u]
      BY <2>8 DEF Scan, PollFails, ChannelCloses, Crash, Exit
    <2> QED
      BY <2>3, <2>4, <2>5, <2>6, <2>7, <2>8
         DEF Next, WorkerStep, Environment, HandleRow, RowFault
  <1> QED
    BY <1>1, Invariance, PTL DEF Spec, SettledIsFinal

=============================================================================
