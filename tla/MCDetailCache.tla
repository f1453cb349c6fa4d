---------------------------- MODULE MCDetailCache ---------------------------
(* Two API processes; the first serves all requests but one.               *)
EXTENDS DetailCache

MCNodes == {1, 2}
MCReaders == {"r1", "r2", "r3"}
MCHome == [r \in MCReaders |-> IF r = "r3" THEN 2 ELSE 1]

=============================================================================
