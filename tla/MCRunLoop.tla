------------------------------ MODULE MCRunLoop ------------------------------
(* RunLoop for TLC: two clients, the current one and one whose keepAlive is
   still closing. *)
EXTENDS RunLoop
CONSTANTS c1, c2
=============================================================================
