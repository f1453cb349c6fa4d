--------------------------- MODULE MCNotification ---------------------------
(* Two API processes; a like by somebody else or one of the author's own,  *)
(* with two connections of the author.                                     *)
EXTENDS Notification, TLC

MCEvents == {"like", "own"}
MCSender == [e \in Events |-> IF e = "own" THEN "author" ELSE "fan"]
MCRecipient == [e \in Events |-> "author"]
MCOwner == [c \in Conns |-> "author"]

Symmetry == Permutations(Nodes) \cup Permutations(Conns)

\* Bound: events have nothing in common but the processes, and either is looked
\* at by itself.
OneEvent == Cardinality(sent) <= 1

=============================================================================
