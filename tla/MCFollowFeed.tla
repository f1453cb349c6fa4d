---------------------------- MODULE MCFollowFeed ----------------------------
(* Three videos of two authors, two of them in the same second.            *)
EXTENDS FollowFeed, TLC

MCVideos == 1 .. 3
MCTime == <<2, 3, 4>>
MCAuthor == <<"a", "b", "a">>
Symmetry == Permutations(Accounts) \cup Permutations(Reads)

\* Bounds on what goes on beside the reads: all requests but the last, and one
\* worker with one delivery at a time.  As long as nobody reads, the workers have
\* all that the constants allow.
NobodyReads == \A r, q \in Reads : stage[r] = "ready" /\ viewer[r] = viewer[q]
OneDelivery == Len(buf["w1"]) <= 1 /\ buf["w2"] = <<>>
Beside ==
    \/ requests < MaxRequests - 1 /\ Asks
    \/ Sends
    \/ Worker("w1") /\ OneDelivery'

MCNext ==
    \/ NobodyReads /\ Social
    \/ ~NobodyReads /\ Beside
    \/ requests < MaxRequests /\ OneDelivery /\ Clients

MCSpec == Init /\ [][MCNext]_vars

=============================================================================
