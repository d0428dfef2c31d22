-------------------------- MODULE MCHandleMessage --------------------------
(* HandleMessage for TLC: a notifier without a filter, one with a list and
   one whose list misses most of what is sent. *)
EXTENDS HandleMessage
CONSTANTS discord, slack, telegram
MCNotifiers == {discord, slack, telegram}
MCService == [n \in MCNotifiers |->
                CASE n = discord  -> "discord"
                  [] n = slack    -> "slack"
                  [] n = telegram -> "telegram"]
MCAllowed == [n \in MCNotifiers |->
                CASE n = discord  -> {}
                  [] n = slack    -> {"print_started", "print_failed"}
                  [] n = telegram -> {"critical_error"}]
\* Pictures from the RTSP stream, from the chamber-image port, none.
MCCameras == {[rtsp |-> TRUE, port |-> 0], [rtsp |-> FALSE, port |-> 6000],
              [rtsp |-> FALSE, port |-> 0]}
\* Batches that update returns: none, one and several events, a twin, with
\* and without a reason for a snapshot.
MCBatches == {<<>>, <<"print_started">>, <<"ams_change">>,
              <<"hms_alert", "hms_alert">>,
              <<"print_failed", "critical_error", "hms_alert">>}
=============================================================================
