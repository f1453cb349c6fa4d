----------------------------- MODULE RateLimit -----------------------------
(***************************************************************************)
(* The sliding-window rate limiter: middleware ratelimit.Limit and the Lua *)
(* script behind SlidingWindowAllow.                                       *)
(*                                                                         *)
(* Redis runs the script atomically.  It compares times of different API   *)
(* processes: `now' is the clock of the process that calls, which is ahead *)
(* of true time by at most Skew.  Expiry of the two keys of a subject is   *)
(* decided by the clock of Redis, taken as true time.                      *)
(***************************************************************************)
EXTENDS Integers, Sequences, FiniteSets

CONSTANTS
    Keys,         \* keys built from a route's prefix and a subject
    MaxRequests,  \* maxRequests of the route
    Window,       \* window of the route
    Margin,       \* the second that ttl adds to the window
    Skew,         \* how far the clocks of API processes are apart
    MaxTime       \* bound: true time

ASSUME LimitConstants ==
    /\ MaxRequests \in Nat \ {0}
    /\ Window \in Nat \ {0}
    /\ Margin \in Nat \ {0}
    /\ Skew \in Nat
    /\ MaxTime \in Nat

VARIABLES
    clock,     \* true time
    zset,      \* zset[k]: members <<now, seq>>, with score now
    seq,       \* seq[k]: value of the key k:seq
    expireAt,  \* expireAt[k]: when both keys of k expire
    log,       \* history: log[k]: true times of the script's admissions
    slot,      \* history: slot[k]: the member each of them added
    answer     \* history: the last answer of the script

vars == <<clock, zset, seq, expireAt, log, slot, answer>>

Member == Nat \X Nat

TypeOK ==
    /\ clock \in Nat
    /\ zset \in [Keys -> SUBSET Member]
    /\ seq \in [Keys -> Nat]
    /\ expireAt \in [Keys -> Nat]
    /\ log \in [Keys -> Seq(Nat)]
    /\ slot \in [Keys -> Seq(Member)]

Init ==
    /\ clock = 0
    /\ zset = [k \in Keys |-> {}]
    /\ seq = [k \in Keys |-> 0]
    /\ expireAt = [k \in Keys |-> 0]
    /\ log = [k \in Keys |-> <<>>]
    /\ slot = [k \in Keys |-> <<>>]
    /\ answer = [key |-> "none", verdict |-> "none", passed |-> 0]

-----------------------------------------------------------------------------
(* The keys as a command sees them: PEXPIRE has removed both together.     *)

Live(k) == clock < expireAt[k]
Entries(k) == IF Live(k) THEN zset[k] ELSE {}
Seq0(k) == IF Live(k) THEN seq[k] ELSE 0

\* Mutant of Kept: the window is trimmed too far.
BugTrimsOne(k, now) == {m \in Entries(k) : m[1] > now - Window + 1}

\* ZREMRANGEBYSCORE key 0 now-window.
Kept(k, now) == {m \in Entries(k) : m[1] > now - Window}

\* INCR seqKey makes the member unique within a millisecond.
NewMember(k, now) == <<now, Seq0(k) + 1>>

\* PEXPIRE of both keys, in either branch.
Touch(k) == expireAt' = [expireAt EXCEPT ![k] = clock + Window + Margin]

Answered(k, v) == answer' = [key |-> k, verdict |-> v, passed |-> Len(log'[k])]

\* The script finds room: {1, count + 1}.
Admit(k, now) ==
    /\ Cardinality(Kept(k, now)) < MaxRequests
    /\ zset' = [zset EXCEPT ![k] = Kept(k, now) \cup {NewMember(k, now)}]
    /\ seq' = [seq EXCEPT ![k] = Seq0(k) + 1]
    /\ Touch(k)
    /\ log' = [log EXCEPT ![k] = Append(@, clock)]
    /\ slot' = [slot EXCEPT ![k] = Append(@, NewMember(k, now))]
    /\ Answered(k, "pass")
    /\ UNCHANGED clock

\* Mutant of Refuse: a refused request is counted too.
BugCountsRefused(k, now) ==
    /\ Cardinality(Kept(k, now)) >= MaxRequests
    /\ zset' = [zset EXCEPT ![k] = Kept(k, now) \cup {NewMember(k, now)}]
    /\ seq' = [seq EXCEPT ![k] = Seq0(k) + 1]
    /\ Touch(k)
    /\ UNCHANGED <<clock, log, slot>>
    /\ Answered(k, "refuse")

\* The window is full: {0, count}, and nothing is added.
Refuse(k, now) ==
    /\ Cardinality(Kept(k, now)) >= MaxRequests
    /\ zset' = [zset EXCEPT ![k] = Kept(k, now)]
    /\ seq' = [seq EXCEPT ![k] = Seq0(k)]
    /\ Touch(k)
    /\ UNCHANGED <<clock, log, slot>>
    /\ Answered(k, "refuse")

\* Limit for a request of key k on a process whose clock shows now.  A request
\* without a subject, and one whose script call fails, is let through: then
\* the script either did not run, or ran as here with nobody reading its
\* answer.
Limit(k, now) == Admit(k, now) \/ Refuse(k, now)

Tick ==
    /\ clock < MaxTime
    /\ clock' = clock + 1
    /\ UNCHANGED <<zset, seq, expireAt, log, slot, answer>>

Next ==
    \/ Tick
    \/ \E k \in Keys : \E now \in clock .. clock + Skew : Limit(k, now)

Spec == Init /\ [][Next]_vars

-----------------------------------------------------------------------------
(* Properties.                                                             *)

\* Admissions of k within the last d units of true time.
Recent(k, d) == {i \in DOMAIN log[k] : log[k][i] > clock - d}

\* No clock that runs ahead, no expiry and no second request in the same
\* millisecond lets the script admit more than MaxRequests requests of a key
\* within Window - Skew units of true time.
AtMostLimit == \A k \in Keys : Cardinality(Recent(k, Window - Skew)) <= MaxRequests

\* The limiter keeps the promise of SlidingWindow with both windows off by
\* Skew: it never admits too many, it refuses only when MaxRequests requests
\* passed lately, and a refused request counts for nothing.
Contract == INSTANCE SlidingWindow WITH
    now <- clock, Strict <- Window - Skew, Lenient <- Window + Skew
KeepsContract == Contract!Spec

=============================================================================
