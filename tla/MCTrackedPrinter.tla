-------------------------- MODULE MCTrackedPrinter --------------------------
(* TrackedPrinter for TLC: two error codes, an HMS entry and two trays.     *)
(* Nothing tells the trays apart but that one is not the other.            *)
EXTENDS TrackedPrinter, TLC
CONSTANTS runout, jam, hmsA, tray1, tray2
MCTrays == {tray1, tray2}
MCSymmetry == Permutations(MCTrays)
=============================================================================
