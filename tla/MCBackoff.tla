------------------------------ MODULE MCBackoff ------------------------------
(* Backoff for TLC, at the real scale in units of 30 seconds: 1 is the
   default delay, 10 the cap, and 307445734 units are 2^63 - 1 ns. *)
EXTENDS Backoff
MCMaxDuration == 307445734
=============================================================================
