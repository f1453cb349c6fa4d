--------------------------- MODULE MCLikePipeline ---------------------------
EXTENDS LikePipeline, TLC

Symmetry == Permutations(Users) \cup Permutations(Requests) \cup Permutations(LikeWorkers)

=============================================================================
