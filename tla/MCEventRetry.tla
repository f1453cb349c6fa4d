---------------------------- MODULE MCEventRetry ----------------------------
(* The like exchange: like.events takes like.*, notification.like takes    *)
(* like.like.  A worker process consumes the first, an API process the     *)
(* second.                                                                 *)
EXTENDS EventRetry

MCQueues == {"like.events", "notification.like"}
MCEvents == {"like", "unlike"}
MCBound ==
    [q \in MCQueues |-> IF q = "like.events" THEN {"like", "unlike"} ELSE {"like"}]

MCConsumers == {"worker", "api"}
MCSource ==
    [c \in MCConsumers |-> IF c = "api" THEN "notification.like" ELSE "like.events"]
MCSupervised == {"worker"}

=============================================================================
