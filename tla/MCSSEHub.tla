------------------------------ MODULE MCSSEHub ------------------------------
EXTENDS SSEHub, TLC

Symmetry == Permutations(Channels) \cup Permutations(Pushers) \cup Permutations(Notifs)

=============================================================================
