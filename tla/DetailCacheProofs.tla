-------------------------- MODULE DetailCacheProofs --------------------------
(***************************************************************************)
(* Proofs about GetDetail for every number of processes, requests, polls,  *)
(* changes, faults and expiries.                                           *)
(***************************************************************************)
EXTENDS DetailCache, TLAPS

\* The leader of a process's call is one of its own requests and on its way,
\* and whoever waits has one.
LeaderInv ==
    /\ \A n \in Nodes : flight[n] # NoReader =>
          Home[flight[n]] = n /\ pc[flight[n]] \notin {"start", "join", "wait", "done"}
    /\ \A r \in Readers : pc[r] = "wait" => flight[Home[r]] # NoReader

\* A request that is about to write the entry has a version; one that leaves
\* without a version has lost its client, while MySQL answers; and only those
\* that are done have an answer.
ErrorInv ==
    /\ \A r \in Readers : pc[r] = "set" => val[r] # 0
    /\ ~dbFailed => \A r \in Readers : pc[r] \in {"unlock", "return"} /\ val[r] = 0 => r \in left
    /\ \A r \in Readers : answer[r] # "none" => pc[r] = "done"
    /\ ErrorsFromLeavers

\* When the last delete has come, MySQL is up to date unless that delete raced;
\* then neither the entry nor a request about to write it is old.
FreshInv ==
    deletes = 0 /\ ~raced =>
        /\ writes = 0
        /\ cache \in {0, db}
        /\ \A r \in Readers : pc[r] = "set" => val[r] = db

USE CacheConstants

\* GetDetail, its caches and the workers keep every variable within its type:
\* versions in Redis and in the hands of requests are versions MySQL has had.
THEOREM TypeCorrect == Spec => []TypeOK
<1>1. Init => TypeOK
  <2> SUFFICES ASSUME Init PROVE TypeOK
    OBVIOUS
  <2>1. dbFailed \in BOOLEAN /\ raced \in BOOLEAN
    BY Zenon DEF Init
  <2> QED
    BY <2>1 DEF Init, TypeOK, Stages
<1>2. TypeOK /\ [Next]_vars => TypeOK'
  <2> SUFFICES ASSUME TypeOK, [Next]_vars PROVE TypeOK'
    OBVIOUS
  <2> USE DEF TypeOK, Stages, Goto, Got, Fault, NoFault, redisVars, readVars, writeVars, histVars
  <2>1. ASSUME NEW r \in Readers, Request(r) PROVE TypeOK'
    <3>1. CASE Get(r)
      BY <3>1 DEF Get
    <3>2. CASE Join(r)
      BY <3>2 DEF Join
    <3>3. CASE LookAgain(r)
      BY <3>3 DEF LookAgain
    <3>4. CASE LockTaken(r)
      BY <3>4 DEF LockTaken
    <3>5. CASE LockBusy(r)
      BY <3>5 DEF LockBusy
    <3>6. CASE LockFails(r)
      BY <3>6 DEF LockFails
    <3>7. CASE LookDouble(r)
      BY <3>7 DEF LookDouble
    <3>8. CASE Poll(r)
      BY <3>8 DEF Poll
    <3>9. CASE FindByID(r)
      BY <3>9 DEF FindByID
    <3>10. CASE QueryFails(r)
      BY <3>10 DEF QueryFails, Leaving
    <3>11. CASE SetCache(r)
      BY <3>11 DEF SetCache, Leaving
    <3>12. CASE ContextError(r)
      BY <3>12 DEF ContextError, Leaving
    <3>13. CASE Unlock(r)
      BY <3>13 DEF Unlock, UnlockedBy
    <3>14. CASE Return(r)
      BY <3>14 DEF Return
    <3> QED
      BY <2>1, <3>1, <3>2, <3>3, <3>4, <3>5, <3>6, <3>7, <3>8, <3>9,
         <3>10, <3>11, <3>12, <3>13, <3>14 DEF Request
  <2>2. ASSUME NEW r \in Readers, ClientLeaves(r) PROVE TypeOK'
    BY <2>2 DEF ClientLeaves
  <2>3. CASE Change
    BY <2>3 DEF Change
  <2>4. CASE WriteDB
    BY <2>4 DEF WriteDB
  <2>5. CASE DeleteEntry
    <3>1. Race \in BOOLEAN
      BY DEF Race
    <3>2. raced' \in BOOLEAN
      BY <2>5, <3>1, Zenon DEF DeleteEntry
    <3> QED
      BY <2>5, <3>2 DEF DeleteEntry
  <2>6. CASE EntryExpires
    BY <2>6 DEF EntryExpires, Expiry
  <2>7. CASE LockExpires
    BY <2>7 DEF LockExpires, Expiry
  <2>8. CASE UNCHANGED vars
    BY <2>8 DEF vars
  <2> QED
    BY <2>1, <2>2, <2>3, <2>4, <2>5, <2>6, <2>7, <2>8 DEF Next
<1> QED
  BY <1>1, <1>2, PTL DEF Spec

\* The lock of GetDetail: whoever holds it and has not outlived its time to live
\* is the one whose token Redis has, since unlockScript compares the token.
THEOREM LockOwnership == Spec => []LockIsOwned
<1>1. Init => LockIsOwned
  BY DEF Init, LockIsOwned
<1>2. TypeOK /\ LockIsOwned /\ [Next]_vars => LockIsOwned'
  <2> SUFFICES ASSUME TypeOK, LockIsOwned, [Next]_vars PROVE LockIsOwned'
    OBVIOUS
  <2> USE DEF TypeOK, Stages, LockIsOwned, Goto, Got, Fault, NoFault, redisVars, readVars, writeVars, histVars
  <2>1. ASSUME NEW r \in Readers, Request(r) PROVE LockIsOwned'
    <3>1. CASE Get(r)
      BY <3>1 DEF Get
    <3>2. CASE Join(r)
      BY <3>2 DEF Join
    <3>3. CASE LookAgain(r)
      BY <3>3 DEF LookAgain
    <3>4. CASE LockTaken(r)
      BY <3>4 DEF LockTaken
    <3>5. CASE LockBusy(r)
      BY <3>5 DEF LockBusy
    <3>6. CASE LockFails(r)
      BY <3>6 DEF LockFails
    <3>7. CASE LookDouble(r)
      BY <3>7 DEF LookDouble
    <3>8. CASE Poll(r)
      BY <3>8 DEF Poll
    <3>9. CASE FindByID(r)
      BY <3>9 DEF FindByID
    <3>10. CASE QueryFails(r)
      BY <3>10 DEF QueryFails, Leaving
    <3>11. CASE SetCache(r)
      BY <3>11 DEF SetCache, Leaving
    <3>12. CASE ContextError(r)
      BY <3>12 DEF ContextError, Leaving
    <3>13. CASE Unlock(r)
      BY <3>13 DEF Unlock, UnlockedBy
    <3>14. CASE Return(r)
      BY <3>14 DEF Return, Party, Followers
    <3> QED
      BY <2>1, <3>1, <3>2, <3>3, <3>4, <3>5, <3>6, <3>7, <3>8, <3>9,
         <3>10, <3>11, <3>12, <3>13, <3>14 DEF Request
  <2>2. ASSUME NEW r \in Readers, ClientLeaves(r) PROVE LockIsOwned'
    BY <2>2 DEF ClientLeaves
  <2>3. CASE Change
    BY <2>3 DEF Change
  <2>4. CASE WriteDB
    BY <2>4 DEF WriteDB
  <2>5. CASE DeleteEntry
    BY <2>5 DEF DeleteEntry, Race
  <2>6. CASE EntryExpires
    BY <2>6 DEF EntryExpires, Expiry
  <2>7. CASE LockExpires
    BY <2>7 DEF LockExpires, Expiry
  <2>8. CASE UNCHANGED vars
    BY <2>8 DEF vars
  <2> QED
    BY <2>1, <2>2, <2>3, <2>4, <2>5, <2>6, <2>7, <2>8 DEF Next
<1> QED
  BY <1>1, <1>2, TypeCorrect, PTL DEF Spec

\* Whoever waits in the singleflight group waits for a request of its own
\* process that is still on its way, on every path out of the call.
THEOREM NoFollowerLeftBehind == Spec => []FollowersHaveLeader
<1>1. Init => LeaderInv
  BY DEF Init, LeaderInv
<1>2. TypeOK /\ LeaderInv /\ [Next]_vars => LeaderInv'
  <2> SUFFICES ASSUME TypeOK, LeaderInv, [Next]_vars PROVE LeaderInv'
    OBVIOUS
  <2> USE DEF TypeOK, Stages, LeaderInv, Goto, Got, Fault, NoFault, redisVars, readVars, writeVars, histVars
  <2>1. ASSUME NEW r \in Readers, Request(r) PROVE LeaderInv'
    <3>1. CASE Get(r)
      BY <3>1 DEF Get
    <3>2. CASE Join(r)
      BY <3>2 DEF Join
    <3>3. CASE LookAgain(r)
      BY <3>3 DEF LookAgain
    <3>4. CASE LockTaken(r)
      BY <3>4 DEF LockTaken
    <3>5. CASE LockBusy(r)
      BY <3>5 DEF LockBusy
    <3>6. CASE LockFails(r)
      BY <3>6 DEF LockFails
    <3>7. CASE LookDouble(r)
      BY <3>7 DEF LookDouble
    <3>8. CASE Poll(r)
      BY <3>8 DEF Poll
    <3>9. CASE FindByID(r)
      BY <3>9 DEF FindByID
    <3>10. CASE QueryFails(r)
      BY <3>10 DEF QueryFails, Leaving
    <3>11. CASE SetCache(r)
      BY <3>11 DEF SetCache, Leaving
    <3>12. CASE ContextError(r)
      BY <3>12 DEF ContextError, Leaving
    <3>13. CASE Unlock(r)
      BY <3>13 DEF Unlock, UnlockedBy
    <3>14. CASE Return(r)
      BY <3>14 DEF Return, Party, Followers
    <3> QED
      BY <2>1, <3>1, <3>2, <3>3, <3>4, <3>5, <3>6, <3>7, <3>8, <3>9,
         <3>10, <3>11, <3>12, <3>13, <3>14 DEF Request
  <2>2. ASSUME NEW r \in Readers, ClientLeaves(r) PROVE LeaderInv'
    BY <2>2 DEF ClientLeaves
  <2>3. CASE Change
    BY <2>3 DEF Change
  <2>4. CASE WriteDB
    BY <2>4 DEF WriteDB
  <2>5. CASE DeleteEntry
    BY <2>5 DEF DeleteEntry, Race
  <2>6. CASE EntryExpires
    BY <2>6 DEF EntryExpires, Expiry
  <2>7. CASE LockExpires
    BY <2>7 DEF LockExpires, Expiry
  <2>8. CASE UNCHANGED vars
    BY <2>8 DEF vars
  <2> QED
    BY <2>1, <2>2, <2>3, <2>4, <2>5, <2>6, <2>7, <2>8 DEF Next
<1>3. TypeOK /\ LeaderInv => FollowersHaveLeader
  BY DEF LeaderInv, FollowersHaveLeader, TypeOK
<1> QED
  BY <1>1, <1>2, <1>3, TypeCorrect, PTL DEF Spec

\* While MySQL answers, GetDetail fails only for those who share a call with a
\* client that left.
THEOREM OnlyLeaversFail == Spec => []ErrorsFromLeavers
<1>1. Init => ErrorInv
  BY DEF Init, ErrorInv, ErrorsFromLeavers
<1>2. TypeOK /\ ErrorInv /\ [Next]_vars => ErrorInv'
  <2> SUFFICES ASSUME TypeOK, ErrorInv, [Next]_vars PROVE ErrorInv'
    OBVIOUS
  <2> USE DEF TypeOK, Stages, ErrorInv, ErrorsFromLeavers, Goto, Got, Fault, NoFault, redisVars, readVars, writeVars, histVars
  <2>1. ASSUME NEW r \in Readers, Request(r) PROVE ErrorInv'
    <3>1. CASE Get(r)
      BY <3>1 DEF Get
    <3>2. CASE Join(r)
      BY <3>2 DEF Join
    <3>3. CASE LookAgain(r)
      BY <3>3 DEF LookAgain
    <3>4. CASE LockTaken(r)
      BY <3>4 DEF LockTaken
    <3>5. CASE LockBusy(r)
      BY <3>5 DEF LockBusy
    <3>6. CASE LockFails(r)
      BY <3>6 DEF LockFails
    <3>7. CASE LookDouble(r)
      BY <3>7 DEF LookDouble
    <3>8. CASE Poll(r)
      BY <3>8 DEF Poll
    <3>9. CASE FindByID(r)
      BY <3>9 DEF FindByID
    <3>10. CASE QueryFails(r)
      BY <3>10 DEF QueryFails, Leaving
    <3>11. CASE SetCache(r)
      BY <3>11 DEF SetCache, Leaving
    <3>12. CASE ContextError(r)
      BY <3>12 DEF ContextError, Leaving
    <3>13. CASE Unlock(r)
      BY <3>13 DEF Unlock, UnlockedBy
    <3>14. CASE Return(r)
      BY <3>14 DEF Return, Party, Followers
    <3> QED
      BY <2>1, <3>1, <3>2, <3>3, <3>4, <3>5, <3>6, <3>7, <3>8, <3>9,
         <3>10, <3>11, <3>12, <3>13, <3>14 DEF Request
  <2>2. ASSUME NEW r \in Readers, ClientLeaves(r) PROVE ErrorInv'
    BY <2>2 DEF ClientLeaves
  <2>3. CASE Change
    BY <2>3 DEF Change
  <2>4. CASE WriteDB
    BY <2>4 DEF WriteDB
  <2>5. CASE DeleteEntry
    BY <2>5 DEF DeleteEntry, Race
  <2>6. CASE EntryExpires
    BY <2>6 DEF EntryExpires, Expiry
  <2>7. CASE LockExpires
    BY <2>7 DEF LockExpires, Expiry
  <2>8. CASE UNCHANGED vars
    BY <2>8 DEF vars
  <2> QED
    BY <2>1, <2>2, <2>3, <2>4, <2>5, <2>6, <2>7, <2>8 DEF Next
<1>3. TypeOK /\ ErrorInv => ErrorsFromLeavers
  BY DEF ErrorInv
<1> QED
  BY <1>1, <1>2, <1>3, TypeCorrect, PTL DEF Spec

\* When the changes of a video are in MySQL and the deletes of its entry are
\* done, an old version is cached only if the last delete raced.
THEOREM StaleEntryWasRaced == Spec => []StaleOnlyByRace
<1>1. Init => FreshInv
  BY DEF Init, FreshInv
<1>2. TypeOK /\ FreshInv /\ [Next]_vars => FreshInv'
  <2> SUFFICES ASSUME TypeOK, FreshInv, [Next]_vars PROVE FreshInv'
    OBVIOUS
  <2> USE DEF TypeOK, Stages, FreshInv, Goto, Got, Fault, NoFault, redisVars, readVars, writeVars, histVars
  <2>1. ASSUME NEW r \in Readers, Request(r) PROVE FreshInv'
    <3>1. CASE Get(r)
      BY <3>1 DEF Get
    <3>2. CASE Join(r)
      BY <3>2 DEF Join
    <3>3. CASE LookAgain(r)
      BY <3>3 DEF LookAgain
    <3>4. CASE LockTaken(r)
      BY <3>4 DEF LockTaken
    <3>5. CASE LockBusy(r)
      BY <3>5 DEF LockBusy
    <3>6. CASE LockFails(r)
      BY <3>6 DEF LockFails
    <3>7. CASE LookDouble(r)
      BY <3>7 DEF LookDouble
    <3>8. CASE Poll(r)
      BY <3>8 DEF Poll
    <3>9. CASE FindByID(r)
      BY <3>9 DEF FindByID
    <3>10. CASE QueryFails(r)
      BY <3>10 DEF QueryFails, Leaving
    <3>11. CASE SetCache(r)
      BY <3>11 DEF SetCache, Leaving
    <3>12. CASE ContextError(r)
      BY <3>12 DEF ContextError, Leaving
    <3>13. CASE Unlock(r)
      BY <3>13 DEF Unlock, UnlockedBy
    <3>14. CASE Return(r)
      BY <3>14 DEF Return, Party, Followers
    <3> QED
      BY <2>1, <3>1, <3>2, <3>3, <3>4, <3>5, <3>6, <3>7, <3>8, <3>9,
         <3>10, <3>11, <3>12, <3>13, <3>14 DEF Request
  <2>2. ASSUME NEW r \in Readers, ClientLeaves(r) PROVE FreshInv'
    BY <2>2 DEF ClientLeaves
  <2>3. CASE Change
    BY <2>3 DEF Change
  <2>4. CASE WriteDB
    BY <2>4 DEF WriteDB
  <2>5. CASE DeleteEntry
    <3> SUFFICES ASSUME ~raced'
                 PROVE  /\ writes' = 0 /\ cache' \in {0, db'}
                        /\ \A r \in Readers : (pc[r] = "set" => val[r] = db)'
      BY Zenon DEF FreshInv
    <3>1. cache' = 0 /\ ~Race
      <4>1. (cache' = 0 /\ raced' = Race) \/ raced' = TRUE
        BY <2>5 DEF DeleteEntry
      <4>2. raced' # TRUE
        OBVIOUS
      <4>3. Race \in BOOLEAN
        BY DEF Race
      <4>4. Race # TRUE
        BY <4>1, <4>2, Zenon
      <4> QED
        BY <4>1, <4>2, <4>3, <4>4, Zenon
    <3>2. /\ UNCHANGED <<db, pc, val, writes>>
          /\ ~(writes > 0)
          /\ \A r \in Readers : pc[r] = "set" => val[r] = db
      BY <2>5, <3>1 DEF DeleteEntry, Race
    <3> QED
      BY <3>1, <3>2
  <2>6. CASE EntryExpires
    BY <2>6 DEF EntryExpires, Expiry
  <2>7. CASE LockExpires
    BY <2>7 DEF LockExpires, Expiry
  <2>8. CASE UNCHANGED vars
    BY <2>8 DEF vars
  <2> QED
    BY <2>1, <2>2, <2>3, <2>4, <2>5, <2>6, <2>7, <2>8 DEF Next
<1>3. TypeOK /\ FreshInv => StaleOnlyByRace
  BY DEF FreshInv, StaleOnlyByRace
<1> QED
  BY <1>1, <1>2, <1>3, TypeCorrect, PTL DEF Spec

-----------------------------------------------------------------------------
(* A request cannot go on for ever.                                        *)

\* How far a request is from its answer: the stages that may still come, and
\* the polls.  One that waits has only the result of its leader ahead of it.
StagesAhead ==
    [start |-> 10, join |-> 9, again |-> 8, lock |-> 7, double |-> 6, poll |-> 6,
     read |-> 5, set |-> 4, unlock |-> 3, return |-> 2, wait |-> 1, done |-> 0]
Distance(r) == StagesAhead[pc[r]] + polls[r]

\* Whatever a step does, no request is further from its answer than before; and
\* a step of a request brings it nearer.
MovesOn ==
    \A r \in Readers : /\ Distance(r)' \in 0 .. Distance(r)
                       /\ Request(r) => Distance(r)' < Distance(r)
RequestsMoveOn == [][MovesOn]_vars

\* The steps of GetDetail (video/service.go) form no loop but the polls, which are
\* counted: an entry that disappears, a lock that is lost, a client that leaves
\* or a shared call never sends a request back to a stage it has passed.  With
\* FollowersHaveLeader this is the argument for EveryRequestAnswered, and a
\* request takes at most MaxPolls + 10 steps of its own.
THEOREM NoRequestGoesBack == Spec => RequestsMoveOn
<1> DEFINE Nearer(r) == Distance(r)' \in 0 .. Distance(r)
<1>1. TypeOK /\ TypeOK' /\ [Next]_vars => [MovesOn]_vars
  <2> SUFFICES ASSUME TypeOK, TypeOK', [Next]_vars PROVE MovesOn
    OBVIOUS
  <2>t. /\ pc \in [Readers -> Stages] /\ pc' \in [Readers -> Stages]
        /\ polls \in [Readers -> Nat] /\ polls' \in [Readers -> Nat]
    BY DEF TypeOK
  <2>n. \A r \in Readers : Distance(r) \in Nat /\ Distance(r)' \in Nat
    BY <2>t DEF Distance, StagesAhead, Stages
  <2>k. ASSUME NEW s \in Readers, pc'[s] = pc[s], polls'[s] = polls[s] PROVE Nearer(s)
    BY <2>n, <2>k DEF Distance
  <2>1. ASSUME NEW r \in Readers, Request(r)
        PROVE  /\ Distance(r)' < Distance(r)
               /\ \A s \in Readers : Nearer(s)
    <3> USE <2>t DEF Stages, Goto, Got
    <3> SUFFICES ASSUME TRUE
                 PROVE  /\ Distance(r)' < Distance(r)
                        /\ \A s \in Readers \ {r} :
                              \/ pc'[s] = pc[s] /\ polls'[s] = polls[s]
                              \/ pc[s] = "wait" /\ pc'[s] = "done" /\ polls'[s] = polls[s]
      <4>1. ASSUME NEW s \in Readers, pc[s] = "wait", pc'[s] = "done", polls'[s] = polls[s] PROVE Nearer(s)
        BY <4>1, <2>n DEF Distance, StagesAhead
      <4>2. Distance(r)' < Distance(r) => Nearer(r)
        BY <2>n
      <4> QED BY <2>k, <4>1, <4>2
    <3>1. CASE Get(r)
      BY <3>1 DEF Get, Distance, StagesAhead
    <3>2. CASE Join(r)
      BY <3>2 DEF Join, Distance, StagesAhead
    <3>3. CASE LookAgain(r)
      BY <3>3 DEF LookAgain, Distance, StagesAhead
    <3>4. CASE LockTaken(r)
      BY <3>4 DEF LockTaken, Distance, StagesAhead
    <3>5. CASE LockBusy(r)
      BY <3>5 DEF LockBusy, Distance, StagesAhead
    <3>6. CASE LockFails(r)
      BY <3>6 DEF LockFails, Distance, StagesAhead
    <3>7. CASE LookDouble(r)
      BY <3>7 DEF LookDouble, Distance, StagesAhead
    <3>8. CASE Poll(r)
      BY <3>8 DEF Poll, Distance, StagesAhead
    <3>9. CASE FindByID(r)
      BY <3>9 DEF FindByID, Distance, StagesAhead
    <3>10. CASE QueryFails(r)
      BY <3>10 DEF QueryFails, Leaving, Distance, StagesAhead
    <3>11. CASE SetCache(r)
      BY <3>11 DEF SetCache, Leaving, Distance, StagesAhead
    <3>12. CASE ContextError(r)
      BY <3>12 DEF ContextError, Leaving, Distance, StagesAhead
    <3>13. CASE Unlock(r)
      BY <3>13 DEF Unlock, UnlockedBy, Distance, StagesAhead
    <3>14. CASE Return(r)
      BY <3>14 DEF Return, Party, Followers, Distance, StagesAhead
    <3> QED
      BY <2>1, <3>1, <3>2, <3>3, <3>4, <3>5, <3>6, <3>7, <3>8, <3>9,
         <3>10, <3>11, <3>12, <3>13, <3>14 DEF Request
  <2>2. SUFFICES \A r \in Readers : Nearer(r)
    BY <2>1 DEF MovesOn
  <2>3. SUFFICES ASSUME \A r \in Readers : ~Request(r) PROVE UNCHANGED <<pc, polls>>
    BY <2>1, <2>k
  <2>4. ASSUME NEW r \in Readers, ClientLeaves(r) PROVE UNCHANGED <<pc, polls>>
    BY <2>4 DEF ClientLeaves
  <2>5. CASE Change
    BY <2>5 DEF Change, readVars
  <2>6. CASE WriteDB
    BY <2>6 DEF WriteDB, readVars
  <2>7. CASE DeleteEntry
    BY <2>7 DEF DeleteEntry, readVars
  <2>8. CASE EntryExpires
    BY <2>8 DEF EntryExpires, Expiry, readVars
  <2>9. CASE LockExpires
    BY <2>9 DEF LockExpires, Expiry, readVars
  <2>10. CASE UNCHANGED vars
    BY <2>10 DEF vars, readVars
  <2> QED
    BY <2>3, <2>4, <2>5, <2>6, <2>7, <2>8, <2>9, <2>10 DEF Next
<1> QED
  BY <1>1, TypeCorrect, PTL DEF Spec, RequestsMoveOn

=============================================================================
