----------------------------- MODULE DetailCache ----------------------------
(***************************************************************************)
(* VideoService.GetDetail for one video: a Redis entry in front of MySQL,  *)
(* rebuilt behind a singleflight group in each API process and a Redis     *)
(* lock with a time to live across processes; and the two consumers that   *)
(* change what it caches: LikeWorker or CommentWorker writes MySQL, and    *)
(* PopularityWorker deletes the entry (UpdatePopularityCache).             *)
(*                                                                         *)
(* The video is a version number.  Every Redis command and every query of  *)
(* a request is a step of its own.                                         *)
(***************************************************************************)
EXTENDS Integers, FiniteSets

CONSTANTS
    Nodes,        \* API processes
    Readers,      \* bound: calls of GetDetail
    Home,         \* Home[r]: the process that serves r
    NoReader,
    MaxPolls,     \* polls of a request that did not get the lock
    MaxChanges,   \* bound: likes, unlikes and comments of the video
    MaxFaults,    \* bound: commands and queries that fail, clients that leave
    MaxExpiries   \* bound: locks and entries whose time to live runs out

ASSUME CacheConstants ==
    /\ Home \in [Readers -> Nodes] /\ NoReader \notin Readers
    /\ MaxPolls \in Nat /\ MaxChanges \in Nat
    /\ MaxFaults \in Nat /\ MaxExpiries \in Nat

VARIABLES
    db,         \* version of the video in MySQL
    cache,      \* version in video:detail:id, 0 when absent
    lock,       \* token in lock:video:detail:id
    flight,     \* leader of each process's singleflight call
    pc,         \* where each request is
    val,        \* the version it has got, 0 for none
    polls,      \* polls it has left
    locked,     \* requests inside the if branch that holds the lock
    left,       \* requests whose client has gone (the context is cancelled)
    answer,     \* what each request returned
    changes,    \* history: changes published by the API
    writes,     \* ... still to be written to MySQL
    deletes,    \* ... whose delete of the entry is still to come
    outlived,   \* history: requests whose lock ran out under them
    faults,     \* history: faults taken so far
    expiries,   \* history: times to live that ran out
    dbFailed,   \* history: has a query of MySQL failed
    raced       \* history: could the last delete of the entry miss an old version

redisVars == <<cache, lock>>
readVars  == <<flight, pc, val, polls, locked, left, answer>>
writeVars == <<changes, writes, deletes>>
histVars  == <<outlived, faults, expiries, dbFailed, raced>>
vars      == <<db, redisVars, readVars, writeVars, histVars>>

Stages == {"start", "join", "wait", "again", "lock", "double", "poll", "read", "set",
           "unlock", "return", "done"}

TypeOK ==
    /\ db \in Nat \ {0} /\ cache \in 0 .. db
    /\ lock \in Readers \cup {NoReader}
    /\ flight \in [Nodes -> Readers \cup {NoReader}]
    /\ pc \in [Readers -> Stages]
    /\ val \in [Readers -> 0 .. db]
    /\ polls \in [Readers -> 0 .. MaxPolls]
    /\ locked \subseteq Readers /\ left \subseteq Readers /\ outlived \subseteq Readers
    /\ answer \in [Readers -> {"none", "video", "error"}]
    /\ writes \in 0 .. changes /\ deletes \in 0 .. changes
    /\ changes \in Nat /\ faults \in Nat /\ expiries \in Nat
    /\ dbFailed \in BOOLEAN /\ raced \in BOOLEAN

Init ==
    /\ db = 1 /\ cache = 0 /\ lock = NoReader
    /\ flight = [n \in Nodes |-> NoReader]
    /\ pc = [r \in Readers |-> "start"]
    /\ val = [r \in Readers |-> 0]
    /\ polls = [r \in Readers |-> MaxPolls]
    /\ locked = {} /\ left = {} /\ outlived = {}
    /\ answer = [r \in Readers |-> "none"]
    /\ changes = 0 /\ writes = 0 /\ deletes = 0
    /\ faults = 0 /\ expiries = 0 /\ dbFailed = FALSE /\ raced = FALSE

Fault == faults < MaxFaults /\ faults' = faults + 1
NoFault == UNCHANGED faults

Goto(r, stage) == pc' = [pc EXCEPT ![r] = stage]
Got(r, v) == val' = [val EXCEPT ![r] = v]

-----------------------------------------------------------------------------
(* The first lookup and the singleflight group.                            *)

\* Hit: return it.  Miss: go to the group.  Any other Redis error: straight to
\* MySQL, outside the group.
Get(r) ==
    /\ pc[r] = "start"
    /\ \/ cache # 0 /\ Got(r, cache) /\ Goto(r, "return") /\ NoFault
       \/ cache = 0 /\ Goto(r, "join") /\ UNCHANGED val /\ NoFault
       \/ Fault /\ Goto(r, "read") /\ UNCHANGED val
    /\ UNCHANGED <<db, redisVars, flight, polls, locked, left, answer, writeVars, outlived, expiries, dbFailed, raced>>

\* requestGroup.Do: one call at a time runs in each process.
Join(r) ==
    /\ pc[r] = "join"
    /\ IF flight[Home[r]] = NoReader
       THEN flight' = [flight EXCEPT ![Home[r]] = r] /\ Goto(r, "again")
       ELSE Goto(r, "wait") /\ UNCHANGED flight
    /\ UNCHANGED <<db, redisVars, val, polls, locked, left, answer, writeVars, histVars>>

\* getCacheFunc at the start of the call: an error counts as a miss.
LookAgain(r) ==
    /\ pc[r] = "again" /\ r \notin left
    /\ \/ cache # 0 /\ Got(r, cache) /\ Goto(r, "return") /\ NoFault
       \/ cache = 0 /\ Goto(r, "lock") /\ UNCHANGED val /\ NoFault
       \/ Fault /\ Goto(r, "lock") /\ UNCHANGED val
    /\ UNCHANGED <<db, redisVars, flight, polls, locked, left, answer, writeVars, outlived, expiries, dbFailed, raced>>

-----------------------------------------------------------------------------
(* The Redis lock.                                                         *)

\* SETNX wins.
LockTaken(r) ==
    /\ pc[r] = "lock" /\ r \notin left /\ lock = NoReader
    /\ lock' = r
    /\ locked' = locked \cup {r}
    /\ Goto(r, "double")
    /\ UNCHANGED <<db, cache, flight, val, polls, left, answer, writeVars, histVars>>

LockBusy(r) ==
    /\ pc[r] = "lock" /\ r \notin left /\ lock # NoReader
    /\ Goto(r, "poll")
    /\ UNCHANGED <<db, redisVars, flight, val, polls, locked, left, answer, writeVars, histVars>>

\* The command times out, before or after Redis has set the key: in the second
\* case nobody will delete it.
LockFails(r) ==
    /\ pc[r] = "lock" /\ r \notin left
    /\ Fault
    /\ lock' \in {lock, IF lock = NoReader THEN r ELSE lock}
    /\ Goto(r, "read")
    /\ UNCHANGED <<db, cache, flight, val, polls, locked, left, answer, writeVars, outlived, expiries, dbFailed, raced>>

\* The second look, with the lock held.
LookDouble(r) ==
    /\ pc[r] = "double" /\ r \notin left
    /\ \/ cache # 0 /\ Got(r, cache) /\ Goto(r, "unlock") /\ NoFault
       \/ cache = 0 /\ Goto(r, "read") /\ UNCHANGED val /\ NoFault
       \/ Fault /\ Goto(r, "read") /\ UNCHANGED val
    /\ UNCHANGED <<db, redisVars, flight, polls, locked, left, answer, writeVars, outlived, expiries, dbFailed, raced>>

\* Mutant of Poll: the loop has no limit.
BugPollForever(r) ==
    /\ pc[r] = "poll" /\ r \notin left
    /\ cache # 0 /\ Got(r, cache) /\ Goto(r, "return")
    /\ UNCHANGED <<db, redisVars, flight, polls, locked, left, answer, writeVars, histVars>>

\* Mutant of Poll: the loop ends without reading MySQL.
BugGiveUp(r) ==
    /\ pc[r] = "poll" /\ r \notin left
    /\ \/ /\ polls[r] > 0 /\ cache # 0 /\ NoFault
          /\ Got(r, cache) /\ Goto(r, "return") /\ UNCHANGED polls
       \/ /\ polls[r] > 0
          /\ IF cache = 0 THEN NoFault ELSE Fault
          /\ polls' = [polls EXCEPT ![r] = @ - 1] /\ UNCHANGED <<val, pc>>
       \/ polls[r] = 0 /\ Goto(r, "return") /\ UNCHANGED <<val, polls>> /\ NoFault
    /\ UNCHANGED <<db, redisVars, flight, locked, left, answer, writeVars, outlived, expiries, dbFailed, raced>>

\* Without the lock: look every 20 ms, five times, then read MySQL.  A look
\* that fails counts as a miss.
Poll(r) ==
    /\ pc[r] = "poll" /\ r \notin left
    /\ \/ /\ polls[r] > 0 /\ cache # 0 /\ NoFault
          /\ Got(r, cache) /\ Goto(r, "return") /\ UNCHANGED polls
       \/ /\ polls[r] > 0
          /\ IF cache = 0 THEN NoFault ELSE Fault
          /\ polls' = [polls EXCEPT ![r] = @ - 1] /\ UNCHANGED <<val, pc>>
       \/ polls[r] = 0 /\ Goto(r, "read") /\ UNCHANGED <<val, polls>> /\ NoFault
    /\ UNCHANGED <<db, redisVars, flight, locked, left, answer, writeVars, outlived, expiries, dbFailed, raced>>

\* Mutant of UnlockedBy: the token is not compared.
BugAnyToken(r) == NoReader

\* unlockScript: delete the key only if it holds the caller's token.
UnlockedBy(r) == IF lock = r THEN NoReader ELSE lock

\* The deferred Unlock; its error is ignored.
Unlock(r) ==
    /\ pc[r] = "unlock"
    /\ \/ lock' = UnlockedBy(r) /\ NoFault
       \/ Fault /\ UNCHANGED lock
    /\ locked' = locked \ {r}
    /\ Goto(r, "return")
    /\ UNCHANGED <<db, cache, flight, val, polls, left, answer, writeVars, outlived, expiries, dbFailed, raced>>

-----------------------------------------------------------------------------
(* MySQL, the entry and the answer.                                        *)

Leaving(r) == IF r \in locked THEN "unlock" ELSE "return"

FindByID(r) ==
    /\ pc[r] = "read" /\ r \notin left
    /\ Got(r, db)
    /\ Goto(r, "set")
    /\ UNCHANGED <<db, redisVars, flight, polls, locked, left, answer, writeVars, histVars>>

\* The query fails: the call returns its error.
QueryFails(r) ==
    /\ pc[r] = "read" /\ r \notin left
    /\ Fault
    /\ dbFailed' = TRUE
    /\ Goto(r, Leaving(r))
    /\ UNCHANGED <<db, redisVars, flight, val, polls, locked, left, answer, writeVars, outlived, expiries, raced>>

\* setCacheFunc: a failure is ignored, that of a cancelled context as well.
SetCache(r) ==
    /\ pc[r] = "set"
    /\ \/ r \notin left /\ cache' = val[r] /\ NoFault
       \/ r \in left /\ UNCHANGED <<cache, faults>>
       \/ Fault /\ UNCHANGED cache
    /\ Goto(r, Leaving(r))
    /\ UNCHANGED <<db, lock, flight, val, polls, locked, left, answer, writeVars, outlived, expiries, dbFailed, raced>>

\* Mutant of ContextError: the handler leaves and its call never returns.
BugAbandons(r) ==
    /\ r \in left /\ pc[r] \in {"again", "lock", "double", "poll", "read"}
    /\ Goto(r, "done")
    /\ UNCHANGED <<db, redisVars, flight, val, polls, locked, left, answer, writeVars, histVars>>

\* With its context cancelled every Redis command fails, and the call comes to
\* the poll or the query that returns the context's error.
ContextError(r) ==
    /\ r \in left /\ pc[r] \in {"again", "lock", "double", "poll", "read"}
    /\ Goto(r, Leaving(r))
    /\ UNCHANGED <<db, redisVars, flight, val, polls, locked, left, answer, writeVars, histVars>>

\* Those that wait for the result of r's call.
Followers(r) == {s \in Readers : pc[s] = "wait" /\ Home[s] = Home[r] /\ flight[Home[r]] = r}

\* Whom the result of r's call is for.
Party(r) == {r} \cup Followers(r)

\* The call returns: the group forgets it, and everyone in it has its result.
Return(r) ==
    /\ pc[r] = "return"
    /\ pc' = [s \in Readers |-> IF s \in Party(r) THEN "done" ELSE pc[s]]
    /\ val' = [s \in Readers |-> IF s \in Party(r) THEN val[r] ELSE val[s]]
    /\ answer' = [s \in Readers |->
                    IF s \in Party(r) THEN IF val[r] = 0 THEN "error" ELSE "video" ELSE answer[s]]
    /\ flight' = IF flight[Home[r]] = r THEN [flight EXCEPT ![Home[r]] = NoReader] ELSE flight
    /\ UNCHANGED <<db, redisVars, polls, locked, left, writeVars, histVars>>

-----------------------------------------------------------------------------
(* The environment.                                                        *)

\* The client of a request disconnects.
ClientLeaves(r) ==
    /\ pc[r] \notin {"start", "done"} /\ r \notin left
    /\ Fault
    /\ left' = left \cup {r}
    /\ UNCHANGED <<db, redisVars, flight, pc, val, polls, locked, answer, writeVars, outlived, expiries, dbFailed, raced>>

\* A like, unlike or comment: the API publishes an event for the tables and
\* one for the popularity cache.
Change ==
    /\ changes < MaxChanges
    /\ changes' = changes + 1 /\ writes' = writes + 1 /\ deletes' = deletes + 1
    /\ UNCHANGED <<db, redisVars, readVars, histVars>>

\* LikeWorker or CommentWorker.
WriteDB ==
    /\ writes > 0
    /\ db' = db + 1 /\ writes' = writes - 1
    /\ UNCHANGED <<redisVars, readVars, changes, deletes, histVars>>

\* A delete that comes now can be followed by an old version: MySQL is still to
\* be written, or a request is about to set what it has read before the write.
Race == writes > 0 \/ \E r \in Readers : pc[r] = "set" /\ val[r] # db

\* Mutant of DeleteEntry: only the minute window is touched.
BugKeepsEntry ==
    /\ deletes > 0
    /\ deletes' = deletes - 1
    /\ raced' = Race
    /\ UNCHANGED <<db, redisVars, readVars, changes, writes, outlived, faults, expiries, dbFailed>>

\* PopularityWorker: UpdatePopularityCache deletes the entry.  The error of the
\* command is ignored.
DeleteEntry ==
    /\ deletes > 0
    /\ deletes' = deletes - 1
    /\ \/ cache' = 0 /\ raced' = Race /\ NoFault
       \/ Fault /\ raced' = TRUE /\ UNCHANGED cache
    /\ UNCHANGED <<db, lock, readVars, changes, writes, outlived, expiries, dbFailed>>

Expiry == expiries < MaxExpiries /\ expiries' = expiries + 1

EntryExpires ==
    /\ cache # 0 /\ Expiry
    /\ cache' = 0
    /\ UNCHANGED <<db, lock, readVars, writeVars, outlived, faults, dbFailed, raced>>

LockExpires ==
    /\ lock # NoReader /\ Expiry
    /\ lock' = NoReader
    /\ outlived' = outlived \cup ({lock} \cap locked)
    /\ UNCHANGED <<db, cache, readVars, writeVars, faults, dbFailed, raced>>

-----------------------------------------------------------------------------

Request(r) ==
    \/ Get(r) \/ Join(r) \/ LookAgain(r)
    \/ LockTaken(r) \/ LockBusy(r) \/ LockFails(r) \/ LookDouble(r) \/ Poll(r)
    \/ FindByID(r) \/ QueryFails(r) \/ SetCache(r) \/ ContextError(r) \/ Unlock(r) \/ Return(r)

Next ==
    \/ \E r \in Readers : Request(r) \/ ClientLeaves(r)
    \/ Change \/ WriteDB \/ DeleteEntry
    \/ EntryExpires \/ LockExpires

Spec == Init /\ [][Next]_vars

\* A goroutine that is not blocked runs on.
FairSpec == Spec /\ \A r \in Readers : WF_vars(Request(r))

-----------------------------------------------------------------------------
(* Properties.                                                             *)

\* A request that holds the lock and has not outlived its time to live still
\* has its token in Redis: no other request's Unlock deletes it, so two such
\* requests never rebuild the entry together.
LockIsOwned == \A r \in locked \ outlived : lock = r

\* A request waits only for a leader of its own process that is still on its
\* way: neither an error path nor a direct read can leave followers behind.
FollowersHaveLeader ==
    \A r \in Readers : pc[r] = "wait" =>
        LET leader == flight[Home[r]]
        IN  leader # NoReader /\ pc[leader] \notin {"start", "join", "wait", "done"}

\* Every request is answered, with locks that nobody deletes, leaders whose
\* client leaves and entries that disappear under a poll.
EveryRequestAnswered == \A r \in Readers : <>(pc[r] = "done")

\* popularity_cache.go deletes the entry of a video that a like or a comment has
\* changed, without waiting for the worker that writes MySQL.  When both are
\* done, an old version is cached only if the last delete failed, came before
\* its write, or passed a request with an old version in hand: neither the
\* lock, nor the polls, nor a shared call brings one back otherwise.
StaleOnlyByRace ==
    (writes = 0 /\ deletes = 0 /\ cache \notin {0, db}) => raced

\* While MySQL answers, GetDetail fails only for a client that left and for
\* those that shared its singleflight call in the same process: a lock that
\* cannot be had, a failing Redis or an expired entry degrade to a query.
ErrorsFromLeavers ==
    ~dbFailed => \A r \in Readers : answer[r] = "error" =>
        \E s \in left : Home[s] = Home[r] /\ answer[s] = "error"

=============================================================================
