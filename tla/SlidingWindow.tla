--------------------------- MODULE SlidingWindow ---------------------------
(***************************************************************************)
(* What a sliding-window limiter promises, in true time and without its    *)
(* sorted set: at most MaxRequests requests of a key pass within Strict    *)
(* time units, and a request is refused only when MaxRequests others have  *)
(* passed within the last Lenient units.  An exact limiter has             *)
(* Strict = Lenient.                                                       *)
(***************************************************************************)
EXTENDS Integers, Sequences, FiniteSets

CONSTANTS Keys, MaxRequests, Strict, Lenient

VARIABLES
    now,    \* true time
    log,    \* log[k]: when the requests of k passed, in order
    answer  \* the last answer given, with how many had passed by then

Passed(k, d) == {i \in DOMAIN log[k] : log[k][i] > now - d}

Answer(k, v) == answer' = [key |-> k, verdict |-> v, passed |-> Len(log'[k])]

Init ==
    /\ now = 0
    /\ log = [k \in Keys |-> <<>>]
    /\ answer = [key |-> "none", verdict |-> "none", passed |-> 0]

Tick ==
    /\ now' > now
    /\ UNCHANGED <<log, answer>>

Pass(k) ==
    /\ Cardinality(Passed(k, Strict)) < MaxRequests
    /\ log' = [log EXCEPT ![k] = Append(@, now)]
    /\ Answer(k, "pass")
    /\ UNCHANGED now

Refuse(k) ==
    /\ Cardinality(Passed(k, Lenient)) >= MaxRequests
    /\ log' = log
    /\ Answer(k, "refuse")
    /\ UNCHANGED now

Next == Tick \/ \E k \in Keys : Pass(k) \/ Refuse(k)

Spec == Init /\ [][Next]_<<now, log, answer>>

=============================================================================
