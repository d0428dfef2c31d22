--------------------------- MODULE TrackedPrinter ---------------------------
(***************************************************************************)
(* A tracker (StateTracker) behind the parser (Parser), together with the  *)
(* printer it listens to.  The printer is external: it goes through the    *)
(* states of a print, raises and clears alerts, and reports its state at   *)
(* moments of its own choosing, so the tracker samples a history it does   *)
(* not see.  A report shows every field or, if Partial, leaves some out;   *)
(* it may be one that cannot be parsed; the connection may be replaced by  *)
(* a new one, if Reconnects, which resets the tracker.                     *)
(*                                                                         *)
(* The specification remembers which facts about the printer are news, to  *)
(* compare the events with.                                                *)
(***************************************************************************)
EXTENDS Parser

CONSTANTS
  Partial,    \* whether reports may leave fields out
  Reconnects  \* whether the connection may be replaced

ASSUME FlagsAssumption == Partial \in BOOLEAN /\ Reconnects \in BOOLEAN

VARIABLES
  phys,      \* the printer: state, code, hms, tray, actual
  st,        \* the tracker
  fresh,     \* facts that hold and have not been told since they arose
  forgotten, \* facts the tracker may have forgotten that it told
  repeated   \* facts the latest report told that were not fresh

trackedVars == <<phys, st, fresh, forgotten, repeated>>

-----------------------------------------------------------------------------
(* Facts: what an event tells, <<type, about>>. *)

Fact(e) == <<e.type, IF e.type \in {"critical_error", "hms_alert"}
                     THEN e.about ELSE NoDetail>>
Plain(type) == <<type, NoDetail>>

FactsOf(events) == {Fact(events[i]) : i \in DOMAIN events}

\* The target is set while a print is on.
Target(p) == IF p.state \in {"RUNNING", "PAUSE"}
             THEN CHOOSE t \in Targets : t > 0 ELSE 0

\* The report that shows the whole printer.
Shown(p) == [state  |-> p.state,
             code   |-> p.code,
             hms    |-> p.hms,
             tray   |-> p.tray,
             stage  |-> NoStage,
             target |-> Target(p),
             actual |-> p.actual]

Stray(p) == Heated(Shown(p)) /\ Deviates(Shown(p))

\* What the move of a print to a state is called by README's event table.
MoveFacts(from, to) ==
  CASE to = "PAUSE"   -> {Plain("print_paused")}
    [] to = "FINISH"  -> {Plain("print_finished")}
    [] to = "FAILED"  -> {Plain("print_failed")}
    [] to \in {"PREPARE", "RUNNING"} /\ from # "PAUSE"
                      -> {Plain("print_started")}
    [] OTHER          -> {}

AlertFacts(p) ==
  ({"critical_error"} \X ({p.code} \ {NoCode}))
    \cup ({"hms_alert"} \X {p.hms[i] : i \in DOMAIN p.hms})
    \cup (IF Stray(p) THEN {Plain("nozzle_temp_anomaly")} ELSE {})
    \cup (IF p.code = RunoutCode THEN {Plain("filament_runout")} ELSE {})

-----------------------------------------------------------------------------
TrackedInit ==
  /\ \E t \in Trays, a \in Actuals :
       phys = [state |-> "IDLE", code |-> NoCode, hms |-> <<>>,
               tray |-> t, actual |-> a]
  /\ st = FreshTracker
  /\ fresh = {}
  /\ forgotten = {}
  /\ repeated = {}

\* The life of a print, as the states of event.go name it.
LegalMoves ==
  {<<"IDLE", "PREPARE">>, <<"IDLE", "RUNNING">>, <<"PREPARE", "RUNNING">>,
   <<"PREPARE", "FAILED">>, <<"RUNNING", "PAUSE">>, <<"PAUSE", "RUNNING">>,
   <<"PAUSE", "FAILED">>, <<"RUNNING", "FINISH">>, <<"RUNNING", "FAILED">>,
   <<"FINISH", "IDLE">>, <<"FINISH", "PREPARE">>, <<"FINISH", "RUNNING">>,
   <<"FAILED", "IDLE">>, <<"FAILED", "PREPARE">>}

\* A change of the printer.  An alert that ceased is no news any more; one
\* that arose is.
Becomes(p, lasting, news) ==
  LET holds == {f \in lasting : f[1] \in AlertTypes \ {"ams_change"}
                                   => f \in AlertFacts(p)}
  IN  /\ phys' = p
      /\ fresh' = (fresh \cap holds) \cup (AlertFacts(p) \ AlertFacts(phys))
                    \cup news
      /\ forgotten' = (forgotten \cap holds) \ fresh'
      /\ repeated' = {}
      /\ UNCHANGED st

Changes(p, news) == Becomes(p, fresh \cup forgotten, news)

\* A move of the print outdates the news of the one before it, but the start
\* of a print can be told as long as the print is on.
PrintMoves(to) ==
  LET p == [phys EXCEPT !.state = to]
      outdated == LifecycleTypes \ (IF to \in {"RUNNING", "PAUSE"}
                                      THEN {"print_started"} ELSE {})
  IN  /\ <<phys.state, to>> \in LegalMoves
      /\ Becomes(p, {f \in fresh \cup forgotten : f[1] \notin outdated},
                 MoveFacts(phys.state, to)
                   \cup (IF Stray(p) THEN {Plain("nozzle_temp_anomaly")}
                                     ELSE {}))

ErrorCodeChanges(c) ==
  /\ c # phys.code
  /\ Changes([phys EXCEPT !.code = c], {})

HMSRaised(e) ==
  /\ \A i \in DOMAIN phys.hms : phys.hms[i] # e
  /\ Len(phys.hms) < MaxHMS
  /\ Changes([phys EXCEPT !.hms = Append(@, e)], {})

HMSCleared ==
  /\ phys.hms # <<>>
  /\ Changes([phys EXCEPT !.hms = Tail(@)], {})

TraySwitched(t) ==
  /\ t # phys.tray
  /\ Changes([phys EXCEPT !.tray = t], {Plain("ams_change")})

NozzleDrifts(a) ==
  /\ a # phys.actual
  /\ Changes([phys EXCEPT !.actual = a], {})

\* handleMessage is given a report in which nothing can be seen of the facts
\* missing.  One that cannot be parsed leaves everything as it was.
Received(raw, missing) ==
  /\ UNCHANGED phys
  /\ LET r == ParseReport(raw)
         told == FactsOf(Batch(st, r)) \ {Plain("print_resumed")}
     IN  \/ /\ r = Unparseable
            /\ repeated' = {}
            /\ UNCHANGED <<st, fresh, forgotten>>
         \/ /\ r # Unparseable
            /\ st' = Updated(st, r)
            /\ fresh' = fresh \ told
            /\ forgotten' = ((forgotten \ told) \cup missing) \ fresh'
            /\ repeated' = told \ fresh

\* Whatever its firmware, a printer reports all of its state, ...
AllFields == DOMAIN Shown(phys)
FullReport(firmware) == Received(Sent(Shown(phys), firmware, AllFields), {})

\* ... something that cannot be parsed ...
GarbledReport ==
  \E raw \in Garbled(Shown(phys), AllFields) : Received(raw, {})

\* ... or a part of it.  What update compares with the previous report only
\* is cleared by a report without it.
Comparative == {"critical_error", "filament_runout", "hms_alert"}
PartialReport(fields) ==
  /\ Partial
  /\ Received(Sent(Shown(phys), Plainest, fields),
              IF "code" \in fields THEN {}
              ELSE {f \in AlertFacts(phys) : f[1] \in Comparative})

\* Fields that are left out are parsed as zero values.
Blank == [state |-> StateUnknown, code |-> NoCode, hms |-> <<>>,
          tray |-> NoTray, stage |-> NoStage, target |-> 0, actual |-> 0]

\* The groups of fields that may be missing independently of each other.
FieldGroups == {{"state"}, {"tray"}, {"code", "hms"}}

\* runLoop resets the tracker for each new connection (printer.go:153).
\* Everything that holds may then be told once more, and a print under way
\* may be told as started: a pause the tracker forgot makes the resumption
\* look like a start.
Reconnected ==
  /\ Reconnects
  /\ st' = FreshTracker
  /\ repeated' = {}
  /\ forgotten' = (AlertFacts(phys) \cup MoveFacts(StateUnknown, phys.state)
                      \cup (IF phys.state = "PAUSE"
                              THEN {Plain("print_started")} ELSE {})) \ fresh
  /\ UNCHANGED <<phys, fresh>>

TrackedNext ==
  \/ \E to \in NamedStates : PrintMoves(to)
  \/ \E c \in Codes \cup {NoCode} : ErrorCodeChanges(c)
  \/ \E e \in HMSTexts : HMSRaised(e)
  \/ HMSCleared
  \/ \E t \in Trays : TraySwitched(t)
  \/ \E a \in Actuals : NozzleDrifts(a)
  \/ GarbledReport
  \/ \E firmware \in Firmwares : FullReport(firmware)
  \/ \E groups \in (SUBSET FieldGroups) \ {FieldGroups} :
       PartialReport((UNION groups) \cup {"target", "actual"})
  \/ Reconnected

TrackedSpec == TrackedInit /\ [][TrackedNext]_trackedVars

-----------------------------------------------------------------------------
(* Properties.  print_resumed is left to ReportStream: a tracker that       *)
(* missed the end of a print and the start of the next cannot tell a        *)
(* resumed print from a new one.                                            *)

\* Type invariant: the tracker, and facts that name real events.
TrackedTypeOK ==
  /\ st \in Tracker
  /\ phys.hms \in UNION {[1..n -> HMSTexts] : n \in 0..MaxHMS}
  /\ \A f \in fresh \cup forgotten : f[1] \in Types

\* Whatever types its firmware has for them, and whichever fields it leaves
\* out, the tracker is given what the printer reports, with zero values for
\* the rest (the flex types of parser.go, made so that "one odd field must
\* not drop the whole report", parser_test.go:236).
FirmwareDoesNotMatter ==
  \A firmware \in Firmwares, groups \in SUBSET FieldGroups :
    LET fields == (UNION groups) \cup {"target", "actual"}
    IN  ParseReport(Sent(Shown(phys), firmware, fields)) =
          [f \in DOMAIN Blank |->
             IF f \in fields THEN Shown(phys)[f] ELSE Blank[f]]

\* README.md:82, "All events are deduplicated — repeated identical states
\* do not re-fire": an event is sent only for something that happened on
\* the printer since that event was last sent.
EventsAreNews == repeated = {}

\* An event is repeated only because the tracker forgot that it told it, and
\* then once: at a reconnection, or when a report leaves out the error code
\* and the HMS list.  The previous values that update keeps (the state, the
\* tray and the anomaly flag through reports without them) leave no other
\* way to tell the same thing twice, whatever moments the reports show.
RepeatsOnlyWhatItForgot == [][repeated' \subseteq forgotten]_trackedVars

\* README.md:77, filament_runout is sent when "Error code 0x07008001
\* detected": once the tracker has seen the code of a runout during a print
\* the runout has been told.
RunoutTold ==
  (/\ st.prevErrorCode = RunoutCode
   /\ phys.code = RunoutCode
   /\ st.prevState = phys.state
   /\ phys.state \in {"RUNNING", "PAUSE"})
     => Plain("filament_runout") \notin fresh
=============================================================================
