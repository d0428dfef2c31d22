----------------------------- MODULE MCPrinter -----------------------------
(* Printer for TLC: one notifier, a batch with an event it does not accept,
   and both cameras.  Of the delays one grows to the cap, and its product
   overflows at the fourth attempt (3 * 8 > 20); a negative one overflows the
   other way at the second (-12 * 2 < -21). *)
EXTENDS Printer
CONSTANTS c1, slack
MCService == [n \in {slack} |-> "slack"]
MCAllowed == [n \in {slack} |-> {"print_failed"}]
MCCameras == {[rtsp |-> TRUE, port |-> 0], [rtsp |-> FALSE, port |-> 6000]}
MCBases == {-12, 3}
MCBatches == {<<"print_failed", "hms_alert">>}
=============================================================================
