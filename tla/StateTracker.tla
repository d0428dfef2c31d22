---------------------------- MODULE StateTracker ----------------------------
(***************************************************************************)
(* The state tracker of one printer (internal/printer/state.go): what it   *)
(* remembers of the reports of the current connection, and the batch of    *)
(* events that the next report makes it emit.                              *)
(*                                                                         *)
(* Batch(st, r) and Updated(st, r) are the events that update returns and  *)
(* the tracker it leaves behind.  Two specifications use them:             *)
(* ReportStream, where any report may follow any other, and                *)
(* TrackedPrinter, where the reports show a printer that changes.          *)
(***************************************************************************)
EXTENDS Events, Naturals, Sequences, FiniteSets

CONSTANTS
  OtherStates,   \* gcode states outside the six that event.go names
  Codes,         \* non-zero values of print_error
  RunoutCode,    \* the one that means a filament runout, 0x07008001
  HMSTexts,      \* texts of HMS alerts
  MaxHMS,        \* bound: HMS entries in one report
  Trays,         \* AMS trays
  PauseStages,   \* values of stg_cur that name a pause reason
  Targets,       \* bound: nozzle targets a report may carry
  Actuals        \* bound: nozzle temperatures a report may carry

NoCode  == "0"
NoTray  == ""
NoStage == "-"

ASSUME CodesAssumption == RunoutCode \in Codes /\ NoCode \notin Codes
ASSUME StatesAssumption ==
  OtherStates \cap (NamedStates \cup {StateUnknown}) = {}
ASSUME TraysAssumption == NoTray \notin Trays
ASSUME HMSAssumption == MaxHMS \in Nat
ASSUME TempsAssumption == Targets \subseteq Nat /\ Actuals \subseteq Nat

States == NamedStates \cup OtherStates \cup {StateUnknown}

-----------------------------------------------------------------------------
(* Reports and the tracker's memory. *)

\* A parsed report, down to the fields update reads.  A field the printer
\* left out has its zero value: StateUnknown, NoCode, <<>>, NoTray, 0.
Report == [state  : States,
           code   : Codes \cup {NoCode},
           hms    : UNION {[1..n -> HMSTexts] : n \in 0..MaxHMS},
           tray   : Trays \cup {NoTray},
           stage  : PauseStages \cup {NoStage},
           target : Targets,
           actual : Actuals]

Tracker == [prevState      : States,
            prevErrorCode  : Codes \cup {NoCode},
            prevAMSTray    : Trays \cup {NoTray},
            prevHMS        : SUBSET HMSTexts,
            anomalyEmitted : BOOLEAN]

\* Mutant: the error code starts from an empty value instead of no code.
FreshTrackerUnset == [prevState      |-> StateUnknown,
                      prevErrorCode  |-> "",
                      prevAMSTray    |-> NoTray,
                      prevHMS        |-> {},
                      anomalyEmitted |-> FALSE]

\* newStateTracker and reset leave the same memory.
FreshTracker == [prevState      |-> StateUnknown,
                 prevErrorCode  |-> NoCode,
                 prevAMSTray    |-> NoTray,
                 prevHMS        |-> {},
                 anomalyEmitted |-> FALSE]

-----------------------------------------------------------------------------
(* Transitions of gcode_state. *)

\* Mutant: a report without a state counts as a move.
MovedToNothing(st, r) == r.state # st.prevState

Moved(st, r) == r.state # st.prevState /\ r.state # StateUnknown

\* Mutant: a pause is told only if the tracker saw the print run.
TransitionTypesPauseFromRunning(from, to) ==
  CASE to = "RUNNING" -> IF from = "PAUSE" THEN {"print_resumed"}
                                           ELSE {"print_started"}
    [] to = "FINISH"  -> {"print_finished"}
    [] to = "FAILED"  -> {"print_failed"}
    [] to = "PAUSE" /\ from = "RUNNING" -> {"print_paused"}
    [] to = "PREPARE" /\ from \in {"IDLE", "FINISH", StateUnknown}
                      -> {"print_started"}
    [] OTHER          -> {}

\* Mutant: a print whose preparation was seen is resumed, not started.
TransitionTypesResumedFromPrepare(from, to) ==
  CASE to = "RUNNING" -> IF from \in {"PAUSE", "PREPARE"}
                           THEN {"print_resumed"} ELSE {"print_started"}
    [] to = "FINISH"  -> {"print_finished"}
    [] to = "FAILED"  -> {"print_failed"}
    [] to = "PAUSE"   -> {"print_paused"}
    [] to = "PREPARE" /\ from \in {"IDLE", "FINISH", StateUnknown}
                      -> {"print_started"}
    [] OTHER          -> {}

\* The event types a move announces: one, or none.
TransitionTypes(from, to) ==
  CASE to = "RUNNING" -> IF from = "PAUSE" THEN {"print_resumed"}
                                           ELSE {"print_started"}
    [] to = "FINISH"  -> {"print_finished"}
    [] to = "FAILED"  -> {"print_failed"}
    [] to = "PAUSE"   -> {"print_paused"}
    [] to = "PREPARE" /\ from \in {"IDLE", "FINISH", StateUnknown}
                      -> {"print_started"}
    [] OTHER          -> {}

\* Why the printer paused: its stage, else its first HMS alert, else its
\* error code, else nothing.
PauseReason(r) ==
  CASE r.stage # NoStage -> r.stage
    [] r.stage = NoStage /\ r.hms # <<>> -> r.hms[1]
    [] r.stage = NoStage /\ r.hms = <<>> /\ r.code # NoCode -> r.code
    [] OTHER -> NoDetail

\* The sequence of the events of one type of a set that holds at most one.
Each(types, about) ==
  IF types = {} THEN <<>>
  ELSE << Event(CHOOSE t \in types : TRUE, about) >>

When(condition, type, about) ==
  IF condition THEN << Event(type, about) >> ELSE <<>>

TransitionPart(st, r) ==
  LET types == IF Moved(st, r) THEN TransitionTypes(st.prevState, r.state)
                               ELSE {}
  IN  Each(types, IF types = {"print_paused"} THEN PauseReason(r)
                                              ELSE NoDetail)

-----------------------------------------------------------------------------
(* Alerts. *)

RunoutPart(st, r) ==
  When(/\ r.code = RunoutCode
       /\ st.prevErrorCode # RunoutCode
       /\ r.state \in {"RUNNING", "PAUSE"},
       "filament_runout", RunoutCode)

CriticalPart(st, r) ==
  When(r.code # NoCode /\ r.code # st.prevErrorCode, "critical_error", r.code)

\* The HMS entries of a report that the previous one did not have, in the
\* report's order; a text that is new and occurs twice counts twice.
NewHMS(st, r) == {i \in DOMAIN r.hms : r.hms[i] \notin st.prevHMS}
NthOf(places, n) ==
  CHOOSE i \in places : Cardinality({j \in places : j <= i}) = n
HMSPart(st, r) ==
  LET new == NewHMS(st, r)
  IN  [n \in 1..Cardinality(new) |->
         Event("hms_alert", r.hms[NthOf(new, n)])]

\* Mutant: a type that event.go does not know.
AMSPartMisnamed(st, r) ==
  When(r.tray # NoTray /\ r.tray # st.prevAMSTray /\ st.prevAMSTray # NoTray,
       "ams_changed", r.tray)

AMSPart(st, r) ==
  When(r.tray # NoTray /\ r.tray # st.prevAMSTray /\ st.prevAMSTray # NoTray,
       "ams_change", r.tray)

\* The nozzle counts only while it is heated for a print.
nozzleTempDeviationThreshold == 20
Heated(r)   == r.state = "RUNNING" /\ r.target > 0
Deviates(r) == \/ r.actual > r.target + nozzleTempDeviationThreshold
               \/ r.target > r.actual + nozzleTempDeviationThreshold
\* A move clears the flag before the nozzle is looked at.
Warned(st, r) == st.anomalyEmitted /\ ~Moved(st, r)

AnomalyPart(st, r) ==
  When(Heated(r) /\ Deviates(r) /\ ~Warned(st, r),
       "nozzle_temp_anomaly", NoDetail)

-----------------------------------------------------------------------------
(* update: the events of a report, in order, and the memory it leaves. *)

AlertPart(st, r) ==
  RunoutPart(st, r) \o CriticalPart(st, r) \o HMSPart(st, r)
    \o AMSPart(st, r) \o AnomalyPart(st, r)

\* Mutant: the alerts before the transition.
BatchAlertsFirst(st, r) == AlertPart(st, r) \o TransitionPart(st, r)

Batch(st, r) == TransitionPart(st, r) \o AlertPart(st, r)

\* Mutant: a code that was cleared is kept.
UpdatedKeepsCode(st, r) ==
  [prevState      |-> IF Moved(st, r) THEN r.state ELSE st.prevState,
   prevErrorCode  |-> IF r.code # NoCode THEN r.code ELSE st.prevErrorCode,
   prevAMSTray    |-> IF r.tray # NoTray THEN r.tray ELSE st.prevAMSTray,
   prevHMS        |-> {r.hms[i] : i \in DOMAIN r.hms},
   anomalyEmitted |-> IF Heated(r) THEN Deviates(r) ELSE Warned(st, r)]

Updated(st, r) ==
  [prevState      |-> IF Moved(st, r) THEN r.state ELSE st.prevState,
   prevErrorCode  |-> r.code,
   prevAMSTray    |-> IF r.tray # NoTray THEN r.tray ELSE st.prevAMSTray,
   prevHMS        |-> {r.hms[i] : i \in DOMAIN r.hms},
   anomalyEmitted |-> IF Heated(r) THEN Deviates(r) ELSE Warned(st, r)]
=============================================================================
