------------------------------- MODULE Events -------------------------------
(***************************************************************************)
(* The vocabulary of the daemon (internal/event/event.go): the print       *)
(* states a printer reports, and the events the state tracker derives from *)
(* them.  Every other module speaks of printers in these words.            *)
(***************************************************************************)
EXTENDS Naturals, Sequences

\* The empty gcode_state: a tracker that has seen no state yet, or a report
\* without the field.
StateUnknown == ""

\* The gcode states event.go names.  A printer may report others (SLICING,
\* OFFLINE, ...): they are a parameter of the modules that need them.
NamedStates == {"RUNNING", "FINISH", "FAILED", "PAUSE", "IDLE", "PREPARE"}

\* The events about the life of a print job ...
LifecycleTypes == {"print_started", "print_finished", "print_failed",
                   "print_paused", "print_resumed"}

\* ... the events that raise an alert ...
AlertTypes == {"critical_error", "filament_runout", "ams_change",
               "nozzle_temp_anomaly", "hms_alert"}

\* ... and all of them.
Types == LifecycleTypes \cup AlertTypes

\* An event, with the one field of its payload that the properties tell
\* apart: the error code, the HMS text or the pause reason it is about.
NoDetail == ""
Event(type, about) == [type |-> type, about |-> about]

\* The types among wanted of the last k of a batch, in their order, for each k.
Before(type, wanted, rest) == IF type \in wanted THEN <<type>> \o rest ELSE rest
Wanted(types, wanted) ==
  LET last[k \in 0..Len(types)] ==
        IF k = 0 THEN <<>>
        ELSE Before(types[Len(types) + 1 - k], wanted, last[k - 1])
  IN  last
=============================================================================
