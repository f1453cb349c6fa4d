------------------------------ MODULE MCOutbox ------------------------------
(* Small instances of Outbox for TLC; their constants are all in the .cfg  *)
(* files.                                                                  *)
EXTENDS Outbox

=============================================================================
