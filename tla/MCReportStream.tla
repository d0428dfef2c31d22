--------------------------- MODULE MCReportStream ---------------------------
(* ReportStream for TLC: every report of a small vocabulary.  The texts are
   only compared with each other, and so are the trays. *)
EXTENDS ReportStream, TLC
CONSTANTS runout, jam, hmsA, hmsB, tray1, tray2
MCCodes == {runout, jam}
MCHMSTexts == {hmsA, hmsB}
MCTrays == {tray1, tray2}
MCPauseStages == {"filament"}
MCSymmetry == Permutations(MCHMSTexts) \cup Permutations(MCTrays)
MCOtherStates == {"SLICING"}
=============================================================================
