---------------------------- MODULE MCRateLimit ----------------------------
(* One route and one subject; all constants are in the .cfg file.         *)
EXTENDS RateLimit

=============================================================================
