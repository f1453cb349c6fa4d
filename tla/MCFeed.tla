------------------------------- MODULE MCFeed -------------------------------
(* Four videos, two of them of the same millisecond.                       *)
EXTENDS Feed

MCVideos == 1 .. 4
MCTime == <<1, 2, 2, 3>>

=============================================================================
