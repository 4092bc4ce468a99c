--------------------------- MODULE MCLimitedBatch ---------------------------
(***************************************************************************)
(* Instances of LimitedBatch for TLC: three items, of which two run at a   *)
(* time, at a platform that allows two requests in a window of four         *)
(* seconds; for the herd, three at a time and one request in a window.     *)
(***************************************************************************)
EXTENDS LimitedBatch

MCWaiters == 1..3
=============================================================================
