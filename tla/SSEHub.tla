------------------------------- MODULE SSEHub -------------------------------
(***************************************************************************)
(* The connection table of one user in the SSEHub of an API process: a Go  *)
(* slice of channels.  Subscribe and Unsubscribe hold the write lock; Push *)
(* copies the slice HEADER under the read lock, releases it and walks the  *)
(* backing array while others change it.  Push runs in several goroutines: *)
(* the Redis subscriber and the notification consumers.                    *)
(*                                                                         *)
(* The backing arrays are modelled because the code's behaviour depends on *)
(* them: Unsubscribe shifts the array in place, element by element as far  *)
(* as an unlocked reader can tell; Subscribe writes in place while the     *)
(* array has room and moves to an array of twice the size when it has not. *)
(***************************************************************************)
EXTENDS Integers, Sequences

CONSTANTS
    Channels,   \* bound: SSE connections of the user, each opened once
    Pushers,    \* goroutines that call Push
    Notifs,     \* bound: notifications for the user, each pushed once
    Buffer,     \* capacity of a connection's channel
    NoConn,     \* an array slot never written, and a Push between two elements
    NoNotif     \* what an idle goroutine pushes

ASSUME HubConstants ==
    /\ NoConn \notin Channels /\ NoNotif \notin Notifs
    /\ Buffer \in Nat \ {0}

VARIABLES
    heap,       \* backing arrays, oldest first
    slice,      \* h.clients[userID]: an array of heap and a length
    unsub,      \* the Unsubscribe that holds the lock: its connection and index
    state,      \* of each connection's channel
    filled,     \* notifications in each channel
    push,       \* what each Push is doing
    pushed,     \* notifications that have been pushed
    copies,     \* history: times a notification was sent to a connection
    dropped,    \* history: ... or met a full channel
    raced,      \* history: pushes during which an Unsubscribe ran
    panicked    \* a send on a closed channel has ended the process

hubVars == <<heap, slice, unsub, state, filled, push, pushed, copies, dropped, raced, panicked>>

Slice   == [array : Nat, len : Nat]
Idle    == [notif |-> NoNotif, seen |-> [array |-> 0, len |-> 0], index |-> 0,
            conn |-> NoConn, targets |-> {}]
NoUnsub == [conn |-> NoConn, index |-> 0]

HubTypeOK ==
    /\ heap \in Seq(Seq(Channels \cup {NoConn}))
    /\ slice \in Slice /\ slice.array <= Len(heap)
    /\ unsub \in [conn : Channels \cup {NoConn}, index : Nat]
    /\ state \in [Channels -> {"new", "open", "closed"}]
    /\ filled \in [Channels -> 0 .. Buffer]
    /\ push \in [Pushers -> [notif : Notifs \cup {NoNotif}, seen : Slice, index : Nat,
                             conn : Channels \cup {NoConn}, targets : SUBSET Channels]]
    /\ pushed \subseteq Notifs
    /\ copies \in [Channels -> [Notifs -> Nat]] /\ dropped \in [Channels -> [Notifs -> Nat]]
    /\ raced \subseteq Pushers
    /\ panicked \in BOOLEAN

HubInit ==
    /\ heap = <<>> /\ slice = [array |-> 0, len |-> 0]
    /\ unsub = NoUnsub
    /\ state = [c \in Channels |-> "new"]
    /\ filled = [c \in Channels |-> 0]
    /\ push = [p \in Pushers |-> Idle]
    /\ pushed = {}
    /\ copies = [c \in Channels |-> [n \in Notifs |-> 0]]
    /\ dropped = [c \in Channels |-> [n \in Notifs |-> 0]]
    /\ raced = {}
    /\ panicked = FALSE

Unlocked == unsub = NoUnsub
Active(p) == push[p] # Idle

-----------------------------------------------------------------------------
(* Subscribe and Unsubscribe, called by SSEHandler.                        *)

Elements == [i \in 1 .. slice.len |-> heap[slice.array][i]]
Capacity == IF slice.array = 0 THEN 0 ELSE Len(heap[slice.array])

\* append without room: an array of twice the capacity, with the elements
\* copied over.
Grown(c) ==
    LET cap == IF Capacity = 0 THEN 1 ELSE 2 * Capacity
    IN  [i \in 1 .. cap |-> IF i <= slice.len THEN Elements[i]
                            ELSE IF i = slice.len + 1 THEN c ELSE NoConn]

\* Mutant of Subscribe: the new channel replaces the list.
BugOneConnection(c) ==
    /\ Unlocked /\ state[c] = "new"
    /\ state' = [state EXCEPT ![c] = "open"]
    /\ heap' = Append(heap, <<c>>)
    /\ slice' = [array |-> Len(heap) + 1, len |-> 1]
    /\ UNCHANGED <<unsub, filled, push, pushed, copies, dropped, raced, panicked>>

Subscribe(c) ==
    /\ Unlocked /\ state[c] = "new"
    /\ state' = [state EXCEPT ![c] = "open"]
    /\ IF slice.len < Capacity
       THEN /\ heap' = [heap EXCEPT ![slice.array][slice.len + 1] = c]
            /\ slice' = [slice EXCEPT !.len = @ + 1]
       ELSE /\ heap' = Append(heap, Grown(c))
            /\ slice' = [array |-> Len(heap) + 1, len |-> slice.len + 1]
    /\ UNCHANGED <<unsub, filled, push, pushed, copies, dropped, raced, panicked>>

\* The client went away; the handler takes the lock and finds its channel.
UnsubscribeBegins(c) ==
    /\ Unlocked /\ state[c] = "open"
    /\ \E i \in 1 .. slice.len :
          /\ Elements[i] = c
          /\ \A j \in 1 .. i - 1 : Elements[j] # c
          /\ unsub' = [conn |-> c, index |-> i]
    /\ raced' = {p \in Pushers : Active(p)}
    /\ UNCHANGED <<heap, slice, state, filled, push, pushed, copies, dropped, panicked>>

\* append(chs[:i], chs[i+1:]...) moves the rest down, in the same array.
UnsubscribeShifts ==
    /\ ~Unlocked /\ unsub.index < slice.len
    /\ heap' = [heap EXCEPT ![slice.array][unsub.index] = heap[slice.array][unsub.index + 1]]
    /\ unsub' = [unsub EXCEPT !.index = @ + 1]
    /\ UNCHANGED <<slice, state, filled, push, pushed, copies, dropped, raced, panicked>>

\* The shorter slice is stored, the channel closed and the lock released.
UnsubscribeEnds ==
    /\ ~Unlocked /\ unsub.index = slice.len
    /\ slice' = [slice EXCEPT !.len = @ - 1]
    /\ state' = [state EXCEPT ![unsub.conn] = "closed"]
    /\ unsub' = NoUnsub
    /\ UNCHANGED <<heap, filled, push, pushed, copies, dropped, raced, panicked>>

\* SSEHandler takes a notification and writes it to the response.
Receive(c) ==
    /\ state[c] = "open" /\ unsub.conn # c /\ filled[c] > 0
    /\ filled' = [filled EXCEPT ![c] = @ - 1]
    /\ UNCHANGED <<heap, slice, unsub, state, push, pushed, copies, dropped, raced, panicked>>

-----------------------------------------------------------------------------
(* Push.                                                                   *)

\* chs, ok := h.clients[userID] under the read lock.
PushBegins(p, n) ==
    /\ Unlocked /\ ~Active(p) /\ n \notin pushed
    /\ pushed' = pushed \cup {n}
    /\ push' = [push EXCEPT ![p] = [notif |-> n, seen |-> slice, index |-> 1, conn |-> NoConn,
                                    targets |-> {Elements[i] : i \in 1 .. slice.len}]]
    /\ raced' = raced \ {p}
    /\ UNCHANGED <<heap, slice, unsub, state, filled, copies, dropped, panicked>>

\* range reads the next element of the array as it is now.
PushReads(p) ==
    /\ Active(p) /\ push[p].conn = NoConn /\ push[p].index <= push[p].seen.len
    /\ push' = [push EXCEPT ![p].conn = heap[push[p].seen.array][push[p].index]]
    /\ UNCHANGED <<heap, slice, unsub, state, filled, pushed, copies, dropped, raced, panicked>>

\* The loop has a channel; it goes on with the next element.
Advance(p) == push' = [push EXCEPT ![p].conn = NoConn, ![p].index = @ + 1]

\* Mutant of PushSends: it advances by two.
BugSkipsOne(p) ==
    LET c == push[p].conn IN
    /\ Active(p) /\ c # NoConn /\ state[c] # "closed" /\ filled[c] < Buffer
    /\ filled' = [filled EXCEPT ![c] = @ + 1]
    /\ copies' = [copies EXCEPT ![c][push[p].notif] = @ + 1]
    /\ push' = [push EXCEPT ![p].conn = NoConn, ![p].index = @ + 2]
    /\ UNCHANGED <<heap, slice, unsub, state, pushed, dropped, raced, panicked>>

\* case ch <- n
PushSends(p) ==
    LET c == push[p].conn IN
    /\ Active(p) /\ c # NoConn /\ state[c] # "closed" /\ filled[c] < Buffer
    /\ filled' = [filled EXCEPT ![c] = @ + 1]
    /\ copies' = [copies EXCEPT ![c][push[p].notif] = @ + 1]
    /\ Advance(p)
    /\ UNCHANGED <<heap, slice, unsub, state, pushed, dropped, raced, panicked>>

\* default: the channel is full.
PushDrops(p) ==
    LET c == push[p].conn IN
    /\ Active(p) /\ c # NoConn /\ state[c] # "closed" /\ filled[c] = Buffer
    /\ dropped' = [dropped EXCEPT ![c][push[p].notif] = @ + 1]
    /\ Advance(p)
    /\ UNCHANGED <<heap, slice, unsub, state, filled, pushed, copies, raced, panicked>>

\* A send on a closed channel panics, in a select as well, and nothing
\* recovers: the process ends.
PushPanics(p) ==
    LET c == push[p].conn IN
    /\ Active(p) /\ c # NoConn /\ state[c] = "closed"
    /\ panicked' = TRUE
    /\ UNCHANGED <<heap, slice, unsub, state, filled, push, pushed, copies, dropped, raced>>

Finished(p) == Active(p) /\ push[p].conn = NoConn /\ push[p].index > push[p].seen.len

PushEnds(p) ==
    /\ Finished(p)
    /\ push' = [push EXCEPT ![p] = Idle]
    /\ UNCHANGED <<heap, slice, unsub, state, filled, pushed, copies, dropped, raced, panicked>>

-----------------------------------------------------------------------------

Handler(c) == Subscribe(c) \/ UnsubscribeBegins(c) \/ Receive(c)

PushStep(p) ==
    \/ PushReads(p) \/ PushSends(p) \/ PushDrops(p) \/ PushPanics(p) \/ PushEnds(p)

HubNext ==
    /\ ~panicked
    /\ \/ \E c \in Channels : Handler(c)
       \/ UnsubscribeShifts \/ UnsubscribeEnds
       \/ \E p \in Pushers : PushStep(p) \/ \E n \in Notifs : PushBegins(p, n)

HubSpec == HubInit /\ [][HubNext]_hubVars

-----------------------------------------------------------------------------
(* Properties.                                                             *)

\* Between two critical sections the slice lists every open connection once
\* and no other, although arrays are shared with the headers that running
\* pushes hold, shifted in place and written into again.
TableMatchesConnections ==
    Unlocked =>
        /\ {Elements[i] : i \in 1 .. slice.len} = {c \in Channels : state[c] = "open"}
        /\ \A i, j \in 1 .. slice.len : Elements[i] = Elements[j] => i = j

\* A push that no Unsubscribe overlaps reaches each connection it found
\* exactly once, or meets its full channel, whatever subscribes meanwhile.
QuietPushReachesAll ==
    \A p \in Pushers :
        Finished(p) /\ p \notin raced =>
            \A c \in push[p].targets :
                copies[c][push[p].notif] + dropped[c][push[p].notif] = 1

\* docs/interview-QA.md: when the client disconnects the handler leaves and
\* unsubscribes, which ends nothing but that connection.
DisconnectIsHarmless == ~panicked

=============================================================================
