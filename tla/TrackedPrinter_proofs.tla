------------------------ MODULE TrackedPrinter_proofs ------------------------
(***************************************************************************)
(* The tracker together with its parser and its printer, for any error     *)
(* codes, HMS texts, trays and temperatures and any length of life:        *)
(* whatever update would tell of the printer as it is now is news, or the  *)
(* tracker may have forgotten that it told it (Untold).                    *)
(***************************************************************************)
EXTENDS TrackedPrinter, StateTracker_proofs

\* The facts that may be told without being a repetition of something the
\* tracker knows.
Tellable == fresh \cup forgotten

\* The printer as the specification moves it.
Fits(p) ==
  /\ DOMAIN p = {"state", "code", "hms", "tray", "actual"}
  /\ p.state \in NamedStates
  /\ p.code \in Codes \cup {NoCode}
  /\ p.hms \in Seq(HMSTexts) /\ Len(p.hms) <= MaxHMS
  /\ p.tray \in Trays

PrinterFits == Fits(phys)

\* A report with some of the fields of the printer.
Seen(fields) ==
  [state  |-> IF "state" \in fields THEN phys.state ELSE StateUnknown,
   code   |-> IF "code" \in fields THEN phys.code ELSE NoCode,
   hms    |-> IF "hms" \in fields THEN phys.hms ELSE <<>>,
   tray   |-> IF "tray" \in fields THEN phys.tray ELSE NoTray,
   stage  |-> IF "stage" \in fields THEN NoStage ELSE NoStage,
   target |-> IF "target" \in fields THEN Target(phys) ELSE 0,
   actual |-> IF "actual" \in fields THEN phys.actual ELSE 0]

-----------------------------------------------------------------------------
(* The parser. *)

\* A field that is among those that are sent, or left out.
Scalar(field, fields, kind, says) ==
  IF field \in fields THEN JSON(kind, says) ELSE Absent

\* It is parsed as what it says, or as the zero value.
LEMMA NumbersAreParsed ==
  ASSUME NEW field, NEW fields, NEW kind, NEW says, NEW zero,
         kind \in {"number", "numeral"} \/ says = zero
  PROVE  FlexInt(Scalar(field, fields, kind, says), zero)
           = IF field \in fields THEN says ELSE zero
BY DEF Scalar, JSON, Absent, FlexInt

LEMMA StringsAreParsed ==
  ASSUME NEW field, NEW fields, NEW kind, NEW says, kind \in {"text", "number"}
  PROVE  /\ FlexString(Scalar(field, fields, kind, says))
               = IF field \in fields THEN says ELSE FlexString(Absent)
         /\ kind = "text" => IsString(Scalar(field, fields, kind, says))
BY DEF Scalar, JSON, Absent, FlexString, IsString

LEMMA AbsentIsEmpty ==
  FlexString(Absent) = StateUnknown /\ FlexString(Absent) = NoTray
<1>1. Absent.kind = "absent"
  BY DEF Absent, JSON
<1> QED BY <1>1, Zenon DEF FlexString, StateUnknown, NoTray

\* The list of alerts of a firmware is parsed as the list of their texts.
LEMMA AlertsAreParsed ==
  ASSUME NEW hms \in Seq(HMSTexts), NEW firmware \in Firmwares
  PROVE  LET Entry(text) ==
               [msg |-> Absent, code |-> JSON(firmware.number, text)]
         IN  \A i \in DOMAIN hms : HMSText(Entry(hms[i])) = hms[i]
<1> USE DEF Firmwares, Firmware, Plainest
<1>1. firmware.number \in {"number", "numeral"}
  OBVIOUS
<1> QED BY <1>1 DEF HMSText, FlexString, FlexInt, JSON, Absent

\* However a firmware writes it, and whatever it leaves out, what is parsed is
\* what the printer shows (parseReport).
LEMMA SentIsSeen ==
  ASSUME PrinterFits, NEW firmware \in Firmwares, NEW fields
  PROVE  ParseReport(Sent(Shown(phys), firmware, fields)) = Seen(fields)
<1> DEFINE raw == Sent(Shown(phys), firmware, fields)
           Entry(text) ==
             [msg |-> Absent, code |-> JSON(firmware.number, text)]
<1>1. /\ firmware.number \in {"number", "numeral"}
      /\ firmware.id \in {"text", "number"}
  BY DEF Firmwares, Firmware, Plainest
<1>2. /\ raw.gcode_state = Scalar("state", fields, "text", phys.state)
      /\ raw.print_error = Scalar("code", fields,
                             IF phys.code = NoCode THEN firmware.nothing
                                                   ELSE firmware.number,
                             phys.code)
      /\ raw.hms = IF "hms" \notin fields THEN Absent
                   ELSE JSON("list",
                             [i \in DOMAIN phys.hms |-> Entry(phys.hms[i])])
      /\ raw.tray_now = Scalar("tray", fields, firmware.id, phys.tray)
      /\ raw.stg_cur = Scalar("stage", fields, firmware.number, NoStage)
      /\ raw.nozzle_target_temper =
           Scalar("target", fields, firmware.number, Target(phys))
      /\ raw.nozzle_temper =
           Scalar("actual", fields, firmware.number, phys.actual)
  BY DEF Sent, Shown, Scalar
<1>0. IsString(raw.texts) /\ IsObject(raw.parts)
  BY DEF Sent, JSON, IsString, IsObject
<1>3. raw # Null
  <2>1. "gcode_state" \in DOMAIN raw
    BY DEF Sent
  <2>2. "gcode_state" \notin DOMAIN Null
    BY DEF Null, JSON
  <2> QED BY <2>1, <2>2
<1> HIDE DEF raw
<1>4. /\ FlexString(raw.gcode_state)
           = IF "state" \in fields THEN phys.state ELSE StateUnknown
      /\ IsString(raw.gcode_state)
  BY <1>2, StringsAreParsed, AbsentIsEmpty
<1>5. FlexInt(raw.print_error, NoCode)
        = IF "code" \in fields THEN phys.code ELSE NoCode
  <2> DEFINE kind == IF phys.code = NoCode THEN firmware.nothing
                                           ELSE firmware.number
  <2>1. kind \in {"number", "numeral"} \/ phys.code = NoCode
    BY <1>1
  <2>2. raw.print_error = Scalar("code", fields, kind, phys.code)
    BY <1>2
  <2> HIDE DEF kind
  <2> QED BY <2>1, <2>2, NumbersAreParsed
<1>6. /\ IsList(raw.hms)
      /\ (IF raw.hms.kind = "list"
            THEN [i \in DOMAIN raw.hms.says |-> HMSText(raw.hms.says[i])]
            ELSE <<>>) = IF "hms" \in fields THEN phys.hms ELSE <<>>
  <2>1. CASE "hms" \notin fields
    <3>1. raw.hms = Absent
      BY <1>2, <2>1
    <3>2. Absent.kind = "absent"
      BY DEF Absent, JSON
    <3> QED BY ONLY <2>1, <3>1, <3>2 DEF IsList
  <2>2. CASE "hms" \in fields
    <3> DEFINE entries == [i \in DOMAIN phys.hms |-> Entry(phys.hms[i])]
    <3>1. raw.hms.kind = "list" /\ raw.hms.says = entries
      BY <1>2, <2>2 DEF JSON
    <3>2. phys.hms \in Seq(HMSTexts)
      BY DEF PrinterFits, Fits
    <3>3. \A i \in DOMAIN phys.hms : HMSText(Entry(phys.hms[i])) = phys.hms[i]
      BY <3>2, AlertsAreParsed
    <3> HIDE DEF Entry
    <3>4. [i \in DOMAIN entries |-> HMSText(entries[i])]
            = [i \in DOMAIN phys.hms |-> phys.hms[i]]
      BY <3>3
    <3>5. [i \in DOMAIN phys.hms |-> phys.hms[i]] = phys.hms
      BY <3>2
    <3> HIDE DEF entries
    <3> QED BY <2>2, <3>1, <3>4, <3>5 DEF IsList
  <2> QED BY <2>1, <2>2
<1>7. FlexString(raw.tray_now) = IF "tray" \in fields THEN phys.tray ELSE NoTray
  BY <1>1, <1>2, StringsAreParsed, AbsentIsEmpty
<1>8. FlexInt(raw.stg_cur, NoStage)
        = IF "stage" \in fields THEN NoStage ELSE NoStage
  BY <1>1, <1>2, NumbersAreParsed
<1>9. /\ FlexInt(raw.nozzle_target_temper, 0)
           = IF "target" \in fields THEN Target(phys) ELSE 0
      /\ FlexInt(raw.nozzle_temper, 0)
           = IF "actual" \in fields THEN phys.actual ELSE 0
  BY <1>1, <1>2, NumbersAreParsed
<1> QED BY <1>0, <1>3, <1>4, <1>5, <1>6, <1>7, <1>8, <1>9
           DEF ParseReport, Seen, raw

\* FirmwareDoesNotMatter, of any printer.
LEMMA FirmwaresAgreeNow == ASSUME PrinterFits PROVE FirmwareDoesNotMatter
<1> SUFFICES ASSUME NEW firmware \in Firmwares,
                    NEW groups \in SUBSET FieldGroups
             PROVE  LET fields == (UNION groups) \cup {"target", "actual"}
                    IN  Seen(fields) = [f \in DOMAIN Blank |->
                          IF f \in fields THEN Shown(phys)[f] ELSE Blank[f]]
  BY SentIsSeen DEF FirmwareDoesNotMatter
<1> DEFINE fields == (UNION groups) \cup {"target", "actual"}
<1> HIDE DEF fields
<1>1. DOMAIN Blank = {"state", "code", "hms", "tray", "stage", "target", "actual"}
  BY DEF Blank
<1>2. Seen(fields) = [f \in DOMAIN Blank |->
                        IF f \in fields THEN Shown(phys)[f] ELSE Blank[f]]
  BY <1>1 DEF Seen, Shown, Blank
<1> QED BY <1>2 DEF fields

\* What is not a report does not get as far as update.
LEMMA GarbledIsUnparseable ==
  ASSUME NEW fields, NEW raw \in Garbled(Shown(phys), fields)
  PROVE  ParseReport(raw) = Unparseable
<1> DEFINE sent == Sent(Shown(phys), Plainest, fields)
<1>1. CASE raw = Null
  BY <1>1 DEF ParseReport
<1>2. CASE raw = [sent EXCEPT !.gcode_state = JSON("number", phys.state)]
  <2>1. raw.gcode_state.kind = "number"
    BY <1>2 DEF Sent, JSON
  <2> QED BY <2>1 DEF ParseReport, IsString
<1>3. CASE raw = [sent EXCEPT !.hms = JSON("text", "")]
  <2>1. raw.hms = JSON("text", "")
    BY <1>3, Zenon DEF Sent
  <2>2. JSON("text", "").kind = "text"
    BY Zenon DEF JSON
  <2> QED BY <2>1, <2>2 DEF ParseReport, IsList
<1>4. CASE raw = [sent EXCEPT !.texts = JSON("number", "0.4")]
  <2>1. raw.texts = JSON("number", "0.4")
    BY <1>4, Zenon DEF Sent
  <2>2. JSON("number", "0.4").kind = "number"
    BY Zenon DEF JSON
  <2> QED BY <2>1, <2>2 DEF ParseReport, IsString
<1>5. CASE raw = [sent EXCEPT !.parts = JSON("list", << >>)]
  <2>1. raw.parts = JSON("list", << >>)
    BY <1>5, Zenon DEF Sent
  <2>2. JSON("list", << >>).kind = "list"
    BY Zenon DEF JSON
  <2> QED BY <2>1, <2>2 DEF ParseReport, IsObject
<1> QED BY <1>1, <1>2, <1>3, <1>4, <1>5 DEF Garbled, Shown

-----------------------------------------------------------------------------
(* What happens on the printer, and what a batch tells of it. *)

\* The alerts that hold of a printer.
LEMMA AlertsThatHold ==
  ASSUME NEW p
  PROVE  /\ \A c : <<"critical_error", c>> \in AlertFacts(p)
                     <=> c = p.code /\ c # NoCode
         /\ \A h : <<"hms_alert", h>> \in AlertFacts(p)
                     <=> \E i \in DOMAIN p.hms : p.hms[i] = h
         /\ Plain("nozzle_temp_anomaly") \in AlertFacts(p) <=> Stray(p)
         /\ Plain("filament_runout") \in AlertFacts(p) <=> p.code = RunoutCode
         /\ \A f \in AlertFacts(p) : f[1] \in AlertTypes \ {"ams_change"}
<1> USE DEF AlertFacts, Plain
<1>1. \A c : <<"critical_error", c>> \in AlertFacts(p)
               <=> c = p.code /\ c # NoCode
  OBVIOUS
<1>2. \A h : <<"hms_alert", h>> \in AlertFacts(p)
               <=> \E i \in DOMAIN p.hms : p.hms[i] = h
  OBVIOUS
<1>3. Plain("nozzle_temp_anomaly") \in AlertFacts(p) <=> Stray(p)
  OBVIOUS
<1>4. Plain("filament_runout") \in AlertFacts(p) <=> p.code = RunoutCode
  OBVIOUS
<1>5. \A f \in AlertFacts(p) : f[1] \in AlertTypes \ {"ams_change"}
  BY DEF AlertTypes
<1> QED BY <1>1, <1>2, <1>3, <1>4, <1>5

\* The news that a move of the print is.
LEMMA NewsOfAMove ==
  ASSUME NEW from, NEW to
  PROVE  /\ to = "PAUSE" => Plain("print_paused") \in MoveFacts(from, to)
         /\ to = "FINISH" => Plain("print_finished") \in MoveFacts(from, to)
         /\ to = "FAILED" => Plain("print_failed") \in MoveFacts(from, to)
         /\ to \in {"PREPARE", "RUNNING"} /\ from # "PAUSE"
              => Plain("print_started") \in MoveFacts(from, to)
         /\ \A f \in MoveFacts(from, to) : f[1] \in LifecycleTypes
BY DEF MoveFacts, Plain, LifecycleTypes

\* What update announces of a move, resumptions apart (transitionEvent).
LEMMA AnnouncedOfAMove ==
  ASSUME NEW from, NEW to, NEW type \in TransitionTypes(from, to)
  PROVE  \/ type = "print_resumed"
         \/ type = "print_paused" /\ to = "PAUSE"
         \/ type = "print_finished" /\ to = "FINISH"
         \/ type = "print_failed" /\ to = "FAILED"
         \/ type = "print_started" /\ to = "PREPARE"
         \/ type = "print_started" /\ to = "RUNNING" /\ from # "PAUSE"
BY DEF TransitionTypes

\* What a batch tells has a cause in the report.
LEMMA ToldForACause ==
  ASSUME NEW s, NEW r, r.hms \in Seq(HMSTexts),
         NEW fact \in FactsOf(Batch(s, r))
  PROVE  \/ \E type \in Announced(s, r) : fact = Plain(type)
         \/ /\ fact = Plain("filament_runout")
            /\ r.code = RunoutCode /\ s.prevErrorCode # RunoutCode
         \/ /\ fact = <<"critical_error", r.code>>
            /\ r.code # NoCode /\ r.code # s.prevErrorCode
         \/ \E i \in NewHMS(s, r) : fact = <<"hms_alert", r.hms[i]>>
         \/ /\ fact = Plain("ams_change")
            /\ r.tray # NoTray /\ r.tray # s.prevAMSTray
            /\ s.prevAMSTray # NoTray
         \/ /\ fact = Plain("nozzle_temp_anomaly")
            /\ Heated(r) /\ Deviates(r) /\ ~Warned(s, r)
<1>1. PICK e : /\ fact = Fact(e)
               /\ \/ e.type \in Announced(s, r)
                  \/ e \in Alerts(s, r)
  BY EventsHaveCauses DEF FactsOf
<1>2. CASE e.type \in Announced(s, r)
  <2>1. e.type \in LifecycleTypes
    BY <1>2, OneAnnounced
  <2>2. e.type # "critical_error" /\ e.type # "hms_alert"
    BY <2>1 DEF LifecycleTypes
  <2> QED BY <1>1, <1>2, <2>2 DEF Fact, Plain
<1>3. CASE e \in Alerts(s, r)
  BY <1>1, <1>3 DEF Alerts, Fact, Plain, Event
<1> QED BY <1>1, <1>2, <1>3

-----------------------------------------------------------------------------
(* The invariant. *)

\* What update would announce of the print may be told.  A print that is
\* paused and was never seen to run may still be told as started.
PrintUntold ==
  /\ phys.state # st.prevState =>
       /\ phys.state = "PAUSE" => Plain("print_paused") \in Tellable
       /\ phys.state = "FINISH" => Plain("print_finished") \in Tellable
       /\ phys.state = "FAILED" => Plain("print_failed") \in Tellable
       /\ phys.state = "PREPARE" => Plain("print_started") \in Tellable
       /\ phys.state = "RUNNING" /\ st.prevState # "PAUSE"
            => Plain("print_started") \in Tellable
  /\ phys.state = "PAUSE" /\ st.prevState \notin {"RUNNING", "PAUSE"}
       => Plain("print_started") \in Tellable

\* So may the alerts that it would make of what holds.
AlertsUntold ==
  /\ phys.code # NoCode /\ phys.code # st.prevErrorCode
       => <<"critical_error", phys.code>> \in Tellable
  /\ phys.code = RunoutCode /\ st.prevErrorCode # RunoutCode
       => Plain("filament_runout") \in Tellable
  /\ \A i \in DOMAIN phys.hms : phys.hms[i] \notin st.prevHMS
       => <<"hms_alert", phys.hms[i]>> \in Tellable
  /\ st.prevAMSTray # NoTray /\ st.prevAMSTray # phys.tray
       => Plain("ams_change") \in Tellable
  /\ Stray(phys) /\ (~st.anomalyEmitted \/ phys.state # st.prevState)
       => Plain("nozzle_temp_anomaly") \in Tellable

Untold == PrintUntold /\ AlertsUntold

FactsFit == \A f \in Tellable : f[1] \in Types

TrackedInv == PrinterFits /\ st \in Tracker /\ FactsFit /\ Untold

-----------------------------------------------------------------------------
(* Steps of the printer. *)

\* What may be told after a change of the printer.
LEMMA TellableAfterChange ==
  ASSUME NEW p, NEW lasting, NEW news, Becomes(p, lasting, news)
  PROVE  /\ phys' = p /\ st' = st
         /\ \A f \in news : f \in Tellable'
         /\ \A f \in AlertFacts(p) : f \in AlertFacts(phys) \/ f \in Tellable'
         /\ \A f \in Tellable \cap lasting :
              (f[1] \in AlertTypes \ {"ams_change"} => f \in AlertFacts(p))
                => f \in Tellable'
         /\ \A f \in Tellable' : f \in Tellable \cup AlertFacts(p) \cup news
BY DEF Becomes, Tellable

\* The alerts may be told whatever changes: what arose is news, what lasts
\* stays as it was.
LEMMA AlertsFollow ==
  ASSUME TrackedInv, NEW p, NEW lasting, NEW news, Becomes(p, lasting, news),
         \A f \in Tellable : f[1] \in AlertTypes => f \in lasting,
         p.tray # phys.tray => Plain("ams_change") \in news,
         Stray(p) /\ p.state # phys.state
           => Plain("nozzle_temp_anomaly") \in news
  PROVE  AlertsUntold'
<1>1. /\ phys' = p /\ st' = st
      /\ \A f \in news : f \in Tellable'
      /\ \A f \in AlertFacts(p) : f \in AlertFacts(phys) \/ f \in Tellable'
      /\ \A f \in Tellable \cap lasting :
           (f[1] \in AlertTypes \ {"ams_change"} => f \in AlertFacts(p))
             => f \in Tellable'
  BY TellableAfterChange
<1>2. \A f \in AlertFacts(p) : f \in Tellable => f \in Tellable'
  BY <1>1, AlertsThatHold
<1>3. ASSUME p.code # NoCode, p.code # st.prevErrorCode
      PROVE  <<"critical_error", p.code>> \in Tellable'
  <2>1. <<"critical_error", p.code>> \in AlertFacts(p)
    BY <1>3, AlertsThatHold
  <2>2. <<"critical_error", p.code>> \in AlertFacts(phys) => phys.code = p.code
    BY AlertsThatHold
  <2> QED BY <1>1, <1>2, <1>3, <2>1, <2>2 DEF TrackedInv, Untold, AlertsUntold
<1>4. ASSUME p.code = RunoutCode, st.prevErrorCode # RunoutCode
      PROVE  Plain("filament_runout") \in Tellable'
  <2>1. Plain("filament_runout") \in AlertFacts(p)
    BY <1>4, AlertsThatHold
  <2>2. Plain("filament_runout") \in AlertFacts(phys) => phys.code = RunoutCode
    BY AlertsThatHold
  <2> QED BY <1>1, <1>2, <1>4, <2>1, <2>2 DEF TrackedInv, Untold, AlertsUntold
<1>5. ASSUME NEW i \in DOMAIN p.hms, p.hms[i] \notin st.prevHMS
      PROVE  <<"hms_alert", p.hms[i]>> \in Tellable'
  <2>1. <<"hms_alert", p.hms[i]>> \in AlertFacts(p)
    BY AlertsThatHold
  <2>2. CASE <<"hms_alert", p.hms[i]>> \in AlertFacts(phys)
    <3>1. PICK j \in DOMAIN phys.hms : phys.hms[j] = p.hms[i]
      BY <2>2, AlertsThatHold
    <3>2. <<"hms_alert", phys.hms[j]>> \in Tellable
      BY <1>5, <3>1 DEF TrackedInv, Untold, AlertsUntold
    <3> QED BY <1>2, <2>1, <3>1, <3>2
  <2> QED BY <1>1, <2>1, <2>2
<1>6. ASSUME st.prevAMSTray # NoTray, st.prevAMSTray # p.tray
      PROVE  Plain("ams_change") \in Tellable'
  <2>1. CASE p.tray = phys.tray
    <3>1. Plain("ams_change") \in Tellable
      BY <1>6, <2>1 DEF TrackedInv, Untold, AlertsUntold
    <3>2. Plain("ams_change")[1] = "ams_change"
      BY DEF Plain
    <3>3. "ams_change" \in AlertTypes
      BY DEF AlertTypes
    <3> QED BY <1>1, <3>1, <3>2, <3>3
  <2> QED BY <1>1, <2>1
<1>7. ASSUME Stray(p), ~st.anomalyEmitted \/ p.state # st.prevState
      PROVE  Plain("nozzle_temp_anomaly") \in Tellable'
  <2>1. CASE p.state = phys.state
    <3>1. Plain("nozzle_temp_anomaly") \in AlertFacts(p)
      BY <1>7, AlertsThatHold
    <3>2. Plain("nozzle_temp_anomaly") \in AlertFacts(phys) => Stray(phys)
      BY AlertsThatHold
    <3> QED BY <1>1, <1>2, <1>7, <2>1, <3>1, <3>2
            DEF TrackedInv, Untold, AlertsUntold
  <2> QED BY <1>1, <1>7, <2>1
<1> QED BY <1>1, <1>3, <1>4, <1>5, <1>6, <1>7 DEF AlertsUntold

\* A plain fact is about its type.
LEMMA PlainTellsType == ASSUME NEW type PROVE Plain(type)[1] = type
BY DEF Plain

\* A change of the printer that is no move of the print keeps the invariant.
LEMMA ChangeKeepsInv ==
  ASSUME TrackedInv, NEW p, NEW news, Changes(p, news), Fits(p),
         p.state = phys.state,
         p.tray # phys.tray => Plain("ams_change") \in news,
         \A f \in news : f[1] \in Types
  PROVE  TrackedInv'
<1> DEFINE lasting == fresh \cup forgotten
<1>0. Becomes(p, lasting, news) /\ lasting = Tellable
  BY DEF Changes, Tellable
<1> HIDE DEF lasting
<1>1. /\ phys' = p /\ st' = st
      /\ \A f \in Tellable \cap lasting :
           (f[1] \in AlertTypes \ {"ams_change"} => f \in AlertFacts(p))
             => f \in Tellable'
      /\ \A f \in Tellable' : f \in Tellable \cup AlertFacts(p) \cup news
  BY <1>0, TellableAfterChange
<1>2. PrinterFits' /\ (st \in Tracker)'
  BY <1>1 DEF PrinterFits, Fits, TrackedInv
<1>3. FactsFit'
  BY <1>1, AlertsThatHold DEF FactsFit, TrackedInv, Types
<1>4. AlertsUntold'
  BY <1>0, AlertsFollow
<1>5. ASSUME NEW type \in LifecycleTypes, Plain(type) \in Tellable
      PROVE  Plain(type) \in Tellable'
  <2>1. type \notin AlertTypes
    BY DEF LifecycleTypes, AlertTypes
  <2> QED BY <1>0, <1>1, <1>5, <2>1, PlainTellsType
<1>6. PrintUntold'
  <2>1. {"print_started", "print_paused", "print_finished", "print_failed"}
          \subseteq LifecycleTypes
    BY DEF LifecycleTypes
  <2> QED BY <1>1, <1>5, <2>1 DEF PrintUntold, TrackedInv, Untold
<1> QED BY <1>2, <1>3, <1>4, <1>6 DEF TrackedInv, Untold

\* Alerts come and go, trays are switched and temperatures drift.
LEMMA ChangesKeepInv ==
  ASSUME TrackedInv,
         \/ \E c \in Codes \cup {NoCode} : ErrorCodeChanges(c)
         \/ \E e \in HMSTexts : HMSRaised(e)
         \/ HMSCleared
         \/ \E t \in Trays : TraySwitched(t)
         \/ \E a \in Actuals : NozzleDrifts(a)
  PROVE  TrackedInv'
<1>0. Fits(phys)
  BY DEF TrackedInv, PrinterFits
<1>1. ASSUME NEW c \in Codes \cup {NoCode}, ErrorCodeChanges(c)
      PROVE  TrackedInv'
  <2> DEFINE p == [phys EXCEPT !.code = c]
  <2>1. Changes(p, {}) /\ Fits(p) /\ p.state = phys.state /\ p.tray = phys.tray
    BY <1>0, <1>1 DEF ErrorCodeChanges, Fits
  <2> HIDE DEF p
  <2> QED BY <2>1, ChangeKeepsInv
<1>2. ASSUME NEW e \in HMSTexts, HMSRaised(e)
      PROVE  TrackedInv'
  <2> DEFINE p == [phys EXCEPT !.hms = Append(@, e)]
  <2>1. /\ Append(phys.hms, e) \in Seq(HMSTexts)
        /\ Len(Append(phys.hms, e)) <= MaxHMS
    BY <1>0, <1>2, HMSAssumption DEF HMSRaised, Fits
  <2>2. Changes(p, {}) /\ Fits(p) /\ p.state = phys.state /\ p.tray = phys.tray
    BY <1>0, <1>2, <2>1 DEF HMSRaised, Fits
  <2> HIDE DEF p
  <2> QED BY <2>2, ChangeKeepsInv
<1>3. ASSUME HMSCleared PROVE TrackedInv'
  <2> DEFINE p == [phys EXCEPT !.hms = Tail(@)]
  <2>1. Tail(phys.hms) \in Seq(HMSTexts) /\ Len(Tail(phys.hms)) <= MaxHMS
    BY <1>0, <1>3, HMSAssumption DEF HMSCleared, Fits
  <2>2. Changes(p, {}) /\ Fits(p) /\ p.state = phys.state /\ p.tray = phys.tray
    BY <1>0, <1>3, <2>1 DEF HMSCleared, Fits
  <2> HIDE DEF p
  <2> QED BY <2>2, ChangeKeepsInv
<1>4. ASSUME NEW t \in Trays, TraySwitched(t)
      PROVE  TrackedInv'
  <2> DEFINE p == [phys EXCEPT !.tray = t]
             news == {Plain("ams_change")}
  <2>1. Changes(p, news) /\ Fits(p) /\ p.state = phys.state
    BY <1>0, <1>4 DEF TraySwitched, Fits
  <2>2. Plain("ams_change") \in news /\ \A f \in news : f[1] \in Types
    BY PlainTellsType DEF Types, AlertTypes
  <2> HIDE DEF p, news
  <2> QED BY <2>1, <2>2, ChangeKeepsInv
<1>5. ASSUME NEW a \in Actuals, NozzleDrifts(a)
      PROVE  TrackedInv'
  <2> DEFINE p == [phys EXCEPT !.actual = a]
  <2>1. Changes(p, {}) /\ Fits(p) /\ p.state = phys.state /\ p.tray = phys.tray
    BY <1>0, <1>5 DEF NozzleDrifts, Fits
  <2> HIDE DEF p
  <2> QED BY <2>1, ChangeKeepsInv
<1> QED BY <1>1, <1>2, <1>3, <1>4, <1>5

\* So does a move of the print: its news is what update will make of it.
LEMMA MovesKeepInv ==
  ASSUME TrackedInv, NEW to \in NamedStates, PrintMoves(to)
  PROVE  TrackedInv'
<1> DEFINE p == [phys EXCEPT !.state = to]
           outdated == LifecycleTypes \ (IF to \in {"RUNNING", "PAUSE"}
                                           THEN {"print_started"} ELSE {})
           lasting == {f \in fresh \cup forgotten : f[1] \notin outdated}
           news == MoveFacts(phys.state, to)
                     \cup (IF Stray(p) THEN {Plain("nozzle_temp_anomaly")}
                                       ELSE {})
<1>1. Becomes(p, lasting, news) /\ <<phys.state, to>> \in LegalMoves
  BY DEF PrintMoves
<1>2. Fits(p) /\ p.state = to /\ p.tray = phys.tray
  BY DEF TrackedInv, PrinterFits, Fits
<1>3. /\ \A f \in MoveFacts(phys.state, to) : f \in news
      /\ Stray(p) => Plain("nozzle_temp_anomaly") \in news
      /\ \A f \in news : f[1] \in Types
  BY NewsOfAMove, PlainTellsType DEF Types, AlertTypes
<1>4. /\ \A f \in Tellable : f[1] \in AlertTypes => f \in lasting
      /\ \A f \in Tellable : to \in {"RUNNING", "PAUSE"}
                                 /\ f[1] = "print_started" => f \in lasting
  <2>1. AlertTypes \cap LifecycleTypes = {}
    BY DEF AlertTypes, LifecycleTypes
  <2> QED BY <2>1 DEF Tellable
<1> HIDE DEF p, lasting, news
<1>5. /\ phys' = p /\ st' = st
      /\ \A f \in news : f \in Tellable'
      /\ \A f \in Tellable \cap lasting :
           (f[1] \in AlertTypes \ {"ams_change"} => f \in AlertFacts(p))
             => f \in Tellable'
      /\ \A f \in Tellable' : f \in Tellable \cup AlertFacts(p) \cup news
  BY <1>1, TellableAfterChange
<1>6. PrinterFits' /\ (st \in Tracker)' /\ phys'.state = to
  BY <1>2, <1>5 DEF PrinterFits, Fits, TrackedInv
<1>7. FactsFit'
  BY <1>3, <1>5, AlertsThatHold DEF FactsFit, TrackedInv, Types
<1>8. AlertsUntold'
  BY <1>1, <1>2, <1>3, <1>4, AlertsFollow
<1>9. Plain("print_started") \in Tellable /\ to \in {"RUNNING", "PAUSE"}
        => Plain("print_started") \in Tellable'
  <2>1. "print_started" \notin AlertTypes
    BY DEF AlertTypes
  <2> QED BY <1>4, <1>5, <2>1, PlainTellsType
<1>10. PrintUntold'
  <2>1. /\ to = "PAUSE" => Plain("print_paused") \in Tellable'
        /\ to = "FINISH" => Plain("print_finished") \in Tellable'
        /\ to = "FAILED" => Plain("print_failed") \in Tellable'
        /\ to \in {"PREPARE", "RUNNING"} /\ phys.state # "PAUSE"
             => Plain("print_started") \in Tellable'
    BY <1>3, <1>5, NewsOfAMove
  <2>2. /\ to = "PAUSE" => phys.state = "RUNNING"
        /\ to = "PREPARE" => phys.state # "PAUSE"
    BY <1>1 DEF LegalMoves
  <2>3. /\ phys.state # st.prevState /\ phys.state = "RUNNING"
             /\ st.prevState # "PAUSE" => Plain("print_started") \in Tellable
        /\ phys.state = "PAUSE" /\ st.prevState \notin {"RUNNING", "PAUSE"}
             => Plain("print_started") \in Tellable
    BY DEF TrackedInv, Untold, PrintUntold
  <2>4. to = "PAUSE" /\ st.prevState \notin {"RUNNING", "PAUSE"}
          => Plain("print_started") \in Tellable'
    BY <1>9, <2>2, <2>3
  <2>5. to = "RUNNING" /\ st.prevState \notin {"RUNNING", "PAUSE"}
          => Plain("print_started") \in Tellable'
    BY <1>9, <2>1, <2>3
  <2>6. st' = st /\ phys'.state = to
    BY <1>5, <1>6
  <2> QED BY <2>1, <2>2, <2>4, <2>5, <2>6 DEF PrintUntold
<1> QED BY <1>6, <1>7, <1>8, <1>10 DEF TrackedInv, Untold

-----------------------------------------------------------------------------
(* Reports. *)

\* What a report does not show is not told.
LEMMA NotTold ==
  ASSUME NEW s, NEW r, r.hms \in Seq(HMSTexts)
  PROVE  /\ ~Moved(s, r) => \A type \in LifecycleTypes :
                              Plain(type) \notin FactsOf(Batch(s, r))
         /\ r.tray = NoTray => Plain("ams_change") \notin FactsOf(Batch(s, r))
         /\ ~Heated(r)
              => Plain("nozzle_temp_anomaly") \notin FactsOf(Batch(s, r))
<1>1. ASSUME NEW type, Plain(type) \in FactsOf(Batch(s, r))
      PROVE  \/ type \in Announced(s, r)
             \/ type \in {"filament_runout", "critical_error", "hms_alert"}
             \/ type = "ams_change" /\ r.tray # NoTray
             \/ type = "nozzle_temp_anomaly" /\ Heated(r)
  BY <1>1, ToldForACause DEF Plain
<1>2. /\ Announced(s, r) \subseteq LifecycleTypes
      /\ ~Moved(s, r) => Announced(s, r) = {}
  BY OneAnnounced DEF Announced
<1> QED BY <1>1, <1>2 DEF LifecycleTypes

\* A report shows fields of the printer as they are, and no others.
LEMMA SeenShows ==
  ASSUME PrinterFits, NEW fields, {"target", "actual"} \subseteq fields
  PROVE  LET r == Seen(fields)
         IN  /\ r.hms \in Seq(HMSTexts)
             /\ r.state \in States
             /\ r.code \in Codes \cup {NoCode}
             /\ r.tray \in Trays \cup {NoTray}
             /\ "state" \in fields
                  => r.state = phys.state /\ r.state # StateUnknown
             /\ "state" \notin fields => r.state = StateUnknown
             /\ "code" \in fields => r.code = phys.code
             /\ "code" \notin fields => r.code = NoCode
             /\ "hms" \in fields => r.hms = phys.hms
             /\ "hms" \notin fields => r.hms = <<>>
             /\ "tray" \in fields => r.tray = phys.tray /\ r.tray # NoTray
             /\ "tray" \notin fields => r.tray = NoTray
             /\ Heated(r) /\ Deviates(r) => Stray(phys)
             /\ "state" \notin fields => ~Heated(r)
             /\ "state" \in fields /\ Stray(phys) => Heated(r) /\ Deviates(r)
<1>1. StateUnknown \notin NamedStates /\ StateUnknown # "RUNNING"
  BY Zenon DEF StateUnknown, NamedStates
<1>2. /\ phys.state \in NamedStates
      /\ phys.code \in Codes \cup {NoCode}
      /\ phys.hms \in Seq(HMSTexts)
      /\ phys.tray \in Trays
  BY DEF PrinterFits, Fits
<1>3. NoTray \notin Trays
  BY TraysAssumption
<1> DEFINE r == Seen(fields)
<1>4. /\ r.state = IF "state" \in fields THEN phys.state ELSE StateUnknown
      /\ r.code = IF "code" \in fields THEN phys.code ELSE NoCode
      /\ r.hms = IF "hms" \in fields THEN phys.hms ELSE <<>>
      /\ r.tray = IF "tray" \in fields THEN phys.tray ELSE NoTray
      /\ r.target = Target(phys) /\ r.actual = phys.actual
  BY DEF Seen
<1>5. /\ Shown(phys).state = phys.state
      /\ Shown(phys).target = Target(phys)
      /\ Shown(phys).actual = phys.actual
  BY DEF Shown
<1> HIDE DEF r
<1>6. /\ Heated(r) /\ Deviates(r) => Stray(phys)
      /\ "state" \notin fields => ~Heated(r)
      /\ "state" \in fields /\ Stray(phys) => Heated(r) /\ Deviates(r)
  BY <1>1, <1>4, <1>5 DEF Heated, Deviates, Stray
<1>7. r.hms \in Seq(HMSTexts)
  BY <1>2, <1>4
<1>8. r.state \in States
  BY <1>2, <1>4 DEF States
<1> QED BY <1>1, <1>2, <1>3, <1>4, <1>6, <1>7, <1>8 DEF r

\* Whatever a report tells, resumptions apart, was still to be told or may
\* have been forgotten.
LEMMA ReportTellsTheUntold ==
  ASSUME TrackedInv, NEW fields, {"target", "actual"} \subseteq fields,
         NEW fact \in FactsOf(Batch(st, Seen(fields))) \ {Plain("print_resumed")}
  PROVE  fact \in Tellable
<1> DEFINE r == Seen(fields)
<1>0. PrinterFits /\ Untold
  BY DEF TrackedInv
<1>1. /\ r.hms \in Seq(HMSTexts)
      /\ r.state # StateUnknown => r.state = phys.state
      /\ r.code # NoCode => r.code = phys.code
      /\ \A i \in DOMAIN r.hms : i \in DOMAIN phys.hms /\ r.hms[i] = phys.hms[i]
      /\ r.tray # NoTray => r.tray = phys.tray
      /\ Heated(r) /\ Deviates(r) => Stray(phys)
  <2>1. r.hms = phys.hms \/ r.hms = <<>>
    BY <1>0, SeenShows
  <2> QED BY <1>0, <2>1, SeenShows
<1>2. RunoutCode # NoCode
  BY CodesAssumption
<1> HIDE DEF r
<1>3. CASE \E type \in Announced(st, r) : fact = Plain(type)
  <2>1. PICK type \in Announced(st, r) : fact = Plain(type)
    BY <1>3
  <2>2. r.state # st.prevState /\ r.state # StateUnknown
        /\ type \in TransitionTypes(st.prevState, r.state)
    BY <2>1 DEF Announced, Moved
  <2>3. type # "print_resumed"
    BY <2>1
  <2>4. phys.state = r.state
    BY <1>1, <2>2
  <2> QED BY <1>0, <2>1, <2>2, <2>3, <2>4, AnnouncedOfAMove
          DEF Untold, PrintUntold
<1>4. CASE /\ fact = Plain("filament_runout")
           /\ r.code = RunoutCode /\ st.prevErrorCode # RunoutCode
  BY <1>0, <1>1, <1>2, <1>4 DEF Untold, AlertsUntold
<1>5. CASE /\ fact = <<"critical_error", r.code>>
           /\ r.code # NoCode /\ r.code # st.prevErrorCode
  BY <1>0, <1>1, <1>5 DEF Untold, AlertsUntold
<1>6. CASE \E i \in NewHMS(st, r) : fact = <<"hms_alert", r.hms[i]>>
  BY <1>0, <1>1, <1>6 DEF Untold, AlertsUntold, NewHMS
<1>7. CASE /\ fact = Plain("ams_change")
           /\ r.tray # NoTray /\ r.tray # st.prevAMSTray
           /\ st.prevAMSTray # NoTray
  BY <1>0, <1>1, <1>7 DEF Untold, AlertsUntold
<1>8. CASE /\ fact = Plain("nozzle_temp_anomaly")
           /\ Heated(r) /\ Deviates(r) /\ ~Warned(st, r)
  <2>1. r.state = phys.state
    BY <1>0, <1>8, SeenShows DEF r
  <2>2. Stray(phys)
    BY <1>1, <1>8
  <2>3. st.anomalyEmitted => phys.state # st.prevState
    BY <1>8, <2>1 DEF Warned, Moved
  <2> QED BY <1>0, <1>8, <2>2, <2>3 DEF Untold, AlertsUntold
<1> QED BY <1>1, <1>3, <1>4, <1>5, <1>6, <1>7, <1>8, ToldForACause DEF r

\* A report that is parsed keeps the invariant, if what it makes the tracker
\* forget counts as missing, and repeats only what was forgotten before.
LEMMA ReportKeepsInv ==
  ASSUME TrackedInv, NEW raw, NEW missing, Received(raw, missing),
         NEW fields, {"target", "actual"} \subseteq fields,
         "code" \in fields <=> "hms" \in fields,
         ParseReport(raw) = Seen(fields),
         missing \subseteq AlertFacts(phys),
         "code" \in fields
           \/ \A f \in AlertFacts(phys) : f[1] \in Comparative => f \in missing
  PROVE  TrackedInv' /\ repeated' \subseteq forgotten
<1> DEFINE r == Seen(fields)
           told == FactsOf(Batch(st, r)) \ {Plain("print_resumed")}
<1>0. PrinterFits /\ Untold /\ st \in Tracker /\ FactsFit
  BY DEF TrackedInv
<1>1. r # Unparseable
  <2>1. DOMAIN r # DOMAIN Unparseable
    BY DEF Seen, Unparseable
  <2> QED BY <2>1
<1>2. /\ UNCHANGED phys
      /\ st' = Updated(st, r)
      /\ fresh' = fresh \ told
      /\ forgotten' = ((forgotten \ told) \cup missing) \ fresh'
      /\ repeated' = told \ fresh
  BY <1>1 DEF Received
<1>3. \A f \in told : f \in Tellable
  BY ReportTellsTheUntold
<1> HIDE DEF told
<1>4. /\ repeated' \subseteq forgotten
      /\ \A f \in missing : f \in Tellable'
      /\ \A f \in Tellable : f \notin told => f \in Tellable'
      /\ \A f \in Tellable' : f \in Tellable \cup AlertFacts(phys)
  BY <1>2, <1>3 DEF Tellable
<1>5. /\ r.hms \in Seq(HMSTexts)
      /\ r.state \in States
      /\ r.code \in Codes \cup {NoCode}
      /\ r.tray \in Trays \cup {NoTray}
      /\ "state" \in fields => r.state = phys.state /\ r.state # StateUnknown
      /\ "state" \notin fields => r.state = StateUnknown /\ ~Heated(r)
      /\ "state" \in fields /\ Stray(phys) => Heated(r) /\ Deviates(r)
      /\ "code" \in fields => r.code = phys.code /\ r.hms = phys.hms
      /\ "tray" \in fields => r.tray = phys.tray /\ r.tray # NoTray
      /\ "tray" \notin fields => r.tray = NoTray
  BY <1>0, SeenShows
<1>6. st' \in Tracker
  BY <1>0, <1>2, <1>5, UpdatedFits
<1>7. /\ "state" \notin fields =>
           /\ \A type \in LifecycleTypes : Plain(type) \notin told
           /\ Plain("nozzle_temp_anomaly") \notin told
      /\ "tray" \notin fields => Plain("ams_change") \notin told
  BY <1>5, NotTold DEF told, Moved
<1> HIDE DEF r
<1>8. /\ st'.prevState = IF Moved(st, r) THEN r.state ELSE st.prevState
      /\ st'.prevErrorCode = r.code
      /\ st'.prevAMSTray = IF r.tray # NoTray THEN r.tray ELSE st.prevAMSTray
      /\ st'.prevHMS = {r.hms[i] : i \in DOMAIN r.hms}
      /\ st'.anomalyEmitted = IF Heated(r) THEN Deviates(r) ELSE Warned(st, r)
  BY <1>2 DEF Updated
<1>9. /\ "state" \in fields => st'.prevState = phys.state
      /\ "state" \notin fields => /\ st'.prevState = st.prevState
                                  /\ st'.anomalyEmitted <=> st.anomalyEmitted
  BY <1>5, <1>8 DEF Moved, Warned
<1>10. PrintUntold'
  <2>1. CASE "state" \in fields
    BY <1>2, <1>9, <2>1 DEF PrintUntold
  <2>2. CASE "state" \notin fields
    <3>1. ASSUME NEW type \in {"print_started", "print_paused",
                               "print_finished", "print_failed"},
                 Plain(type) \in Tellable
          PROVE  Plain(type) \in Tellable'
      BY <1>4, <1>7, <2>2, <3>1 DEF LifecycleTypes
    <3> QED BY <1>0, <1>2, <1>9, <2>2, <3>1 DEF Untold, PrintUntold
  <2> QED BY <2>1, <2>2
<1>11. AlertsUntold'
  <2>1. ASSUME phys.code # NoCode, phys.code # st'.prevErrorCode
        PROVE  <<"critical_error", phys.code>> \in Tellable'
    <3>1. "code" \notin fields
      BY <1>5, <1>8, <2>1
    <3>2. <<"critical_error", phys.code>> \in AlertFacts(phys)
      BY <2>1, AlertsThatHold
    <3> QED BY <1>4, <3>1, <3>2 DEF Comparative
  <2>2. ASSUME phys.code = RunoutCode, st'.prevErrorCode # RunoutCode
        PROVE  Plain("filament_runout") \in Tellable'
    <3>1. "code" \notin fields
      BY <1>5, <1>8, <2>2
    <3>2. Plain("filament_runout") \in AlertFacts(phys)
      BY <2>2, AlertsThatHold
    <3> QED BY <1>4, <3>1, <3>2, PlainTellsType DEF Comparative
  <2>3. ASSUME NEW i \in DOMAIN phys.hms, phys.hms[i] \notin st'.prevHMS
        PROVE  <<"hms_alert", phys.hms[i]>> \in Tellable'
    <3>1. "code" \notin fields
      BY <1>5, <1>8, <2>3
    <3>2. <<"hms_alert", phys.hms[i]>> \in AlertFacts(phys)
      BY <2>3, AlertsThatHold
    <3> QED BY <1>4, <3>1, <3>2 DEF Comparative
  <2>4. ASSUME st'.prevAMSTray # NoTray, st'.prevAMSTray # phys.tray
        PROVE  Plain("ams_change") \in Tellable'
    <3>1. "tray" \notin fields /\ st'.prevAMSTray = st.prevAMSTray
      BY <1>5, <1>8, <2>4
    <3> QED BY <1>0, <1>4, <1>7, <2>4, <3>1 DEF Untold, AlertsUntold
  <2>5. ASSUME Stray(phys), ~st'.anomalyEmitted \/ phys.state # st'.prevState
        PROVE  Plain("nozzle_temp_anomaly") \in Tellable'
    <3>1. "state" \notin fields
      BY <1>5, <1>8, <1>9, <2>5
    <3> QED BY <1>0, <1>4, <1>7, <1>9, <2>5, <3>1 DEF Untold, AlertsUntold
  <2> QED BY <1>2, <2>1, <2>2, <2>3, <2>4, <2>5 DEF AlertsUntold
<1>12. FactsFit'
  BY <1>0, <1>4, AlertsThatHold DEF FactsFit, Types
<1>13. PrinterFits'
  BY <1>0, <1>2 DEF PrinterFits, Fits
<1> QED BY <1>4, <1>6, <1>10, <1>11, <1>12, <1>13 DEF TrackedInv, Untold

\* A report of all fields forgets nothing, one without the error code and the
\* HMS list what it counts as missing, one that is garbled changes nothing.
LEMMA ReportsKeepInv ==
  ASSUME TrackedInv,
         \/ GarbledReport
         \/ \E firmware \in Firmwares : FullReport(firmware)
         \/ \E groups \in (SUBSET FieldGroups) \ {FieldGroups} :
              PartialReport((UNION groups) \cup {"target", "actual"})
  PROVE  TrackedInv' /\ repeated' \subseteq forgotten
<1>0. PrinterFits
  BY DEF TrackedInv
<1>1. CASE GarbledReport
  <2>1. PICK raw \in Garbled(Shown(phys), AllFields) : Received(raw, {})
    BY <1>1 DEF GarbledReport
  <2>2. ParseReport(raw) = Unparseable
    BY GarbledIsUnparseable
  <2>3. UNCHANGED <<phys, st, fresh, forgotten>> /\ repeated' = {}
    BY <2>1, <2>2 DEF Received
  <2> QED BY <2>3 DEF TrackedInv, PrinterFits, FactsFit, Untold, PrintUntold,
                      AlertsUntold, Tellable
<1>2. ASSUME NEW firmware \in Firmwares, FullReport(firmware)
      PROVE  TrackedInv' /\ repeated' \subseteq forgotten
  <2>1. AllFields = {"state", "code", "hms", "tray", "stage", "target", "actual"}
    BY DEF AllFields, Shown
  <2>2. ParseReport(Sent(Shown(phys), firmware, AllFields)) = Seen(AllFields)
    BY <1>0, SentIsSeen
  <2> QED BY <1>2, <2>1, <2>2, ReportKeepsInv DEF FullReport
<1>3. ASSUME NEW groups \in SUBSET FieldGroups,
             PartialReport((UNION groups) \cup {"target", "actual"})
      PROVE  TrackedInv' /\ repeated' \subseteq forgotten
  <2> DEFINE fields == (UNION groups) \cup {"target", "actual"}
             missing == IF "code" \in fields THEN {}
                        ELSE {f \in AlertFacts(phys) : f[1] \in Comparative}
  <2>1. "code" \in fields <=> "hms" \in fields
    <3>1. \A g \in groups : "code" \in g <=> "hms" \in g
      BY DEF FieldGroups
    <3>2. \A f \in {"code", "hms"} : f \in fields <=> \E g \in groups : f \in g
      BY Zenon
    <3> HIDE DEF fields
    <3> QED BY <3>1, <3>2
  <2>2. Received(Sent(Shown(phys), Plainest, fields), missing)
    BY <1>3 DEF PartialReport
  <2>3. {"target", "actual"} \subseteq fields
    OBVIOUS
  <2>4. /\ missing \subseteq AlertFacts(phys)
        /\ "code" \in fields
             \/ \A f \in AlertFacts(phys) : f[1] \in Comparative => f \in missing
    OBVIOUS
  <2> HIDE DEF fields, missing
  <2>5. ParseReport(Sent(Shown(phys), Plainest, fields)) = Seen(fields)
    BY <1>0, SentIsSeen DEF Firmwares
  <2> QED BY <2>1, <2>2, <2>3, <2>4, <2>5, ReportKeepsInv
<1> QED BY <1>1, <1>2, <1>3

-----------------------------------------------------------------------------
(* The beginning, of the daemon and of each connection. *)

\* A tracker that knows nothing and an idle printer without alerts.
LEMMA InitTrackedInv == ASSUME TrackedInit PROVE TrackedInv
<1>1. PICK t \in Trays, a \in Actuals :
             phys = [state |-> "IDLE", code |-> NoCode, hms |-> <<>>,
                     tray |-> t, actual |-> a]
  BY DEF TrackedInit
<1>2. /\ DOMAIN phys = {"state", "code", "hms", "tray", "actual"}
      /\ phys.state = "IDLE" /\ phys.code = NoCode
      /\ phys.hms = <<>> /\ phys.tray \in Trays
  BY <1>1
<1>3. st = FreshTracker /\ Tellable = {}
  BY DEF TrackedInit, Tellable
<1>4. PrinterFits
  BY <1>2, HMSAssumption DEF PrinterFits, Fits, NamedStates
<1>5. st \in Tracker
  BY <1>3, FreshTrackerIsTracker
<1>6. /\ ~Stray(phys)
      /\ RunoutCode # NoCode
      /\ st.prevAMSTray = NoTray
  <2>1. Shown(phys).state = "IDLE"
    BY <1>2 DEF Shown
  <2> QED BY <1>3, <2>1, CodesAssumption DEF Stray, Heated, FreshTracker
<1>7. PrintUntold /\ AlertsUntold /\ FactsFit
  BY <1>2, <1>3, <1>6 DEF PrintUntold, AlertsUntold, FactsFit
<1> QED BY <1>4, <1>5, <1>7 DEF TrackedInv, Untold

\* What a new tracker will make of the printer as it is counts as forgotten.
LEMMA ReconnectionKeepsInv ==
  ASSUME TrackedInv, Reconnected
  PROVE  TrackedInv' /\ repeated' = {}
<1> DEFINE moved == MoveFacts(StateUnknown, phys.state)
           started == IF phys.state = "PAUSE" THEN {Plain("print_started")}
                                              ELSE {}
<1>1. /\ st' = FreshTracker /\ repeated' = {} /\ phys' = phys
      /\ Tellable' = fresh \cup AlertFacts(phys) \cup moved \cup started
  BY DEF Reconnected, Tellable
<1>2. StateUnknown # "PAUSE" /\ StateUnknown # phys.state
  <2>1. StateUnknown \notin NamedStates /\ StateUnknown # "PAUSE"
    BY Zenon DEF StateUnknown, NamedStates
  <2> QED BY <2>1 DEF TrackedInv, PrinterFits, Fits
<1>3. /\ phys.state = "PAUSE" => Plain("print_paused") \in moved
      /\ phys.state = "FINISH" => Plain("print_finished") \in moved
      /\ phys.state = "FAILED" => Plain("print_failed") \in moved
      /\ phys.state \in {"PREPARE", "RUNNING"} => Plain("print_started") \in moved
      /\ \A f \in moved : f[1] \in LifecycleTypes
  BY <1>2, NewsOfAMove
<1>4. /\ phys.state = "PAUSE" => Plain("print_started") \in started
      /\ \A f \in started : f[1] \in LifecycleTypes
  BY PlainTellsType DEF LifecycleTypes
<1> HIDE DEF moved, started
<1>5. PrintUntold'
  BY <1>1, <1>3, <1>4 DEF PrintUntold
<1>6. AlertsUntold'
  <2>1. st'.prevAMSTray = NoTray
    BY <1>1 DEF FreshTracker
  <2>2. /\ phys.code # NoCode
             => <<"critical_error", phys.code>> \in AlertFacts(phys)
        /\ phys.code = RunoutCode => Plain("filament_runout") \in AlertFacts(phys)
        /\ \A i \in DOMAIN phys.hms :
             <<"hms_alert", phys.hms[i]>> \in AlertFacts(phys)
        /\ Stray(phys) => Plain("nozzle_temp_anomaly") \in AlertFacts(phys)
    BY AlertsThatHold
  <2> QED BY <1>1, <2>1, <2>2 DEF AlertsUntold
<1>7. FactsFit'
  BY <1>1, <1>3, <1>4, AlertsThatHold DEF TrackedInv, FactsFit, Tellable, Types
<1>8. PrinterFits' /\ (st \in Tracker)'
  BY <1>1, FreshTrackerIsTracker DEF TrackedInv, PrinterFits, Fits
<1> QED BY <1>1, <1>5, <1>6, <1>7, <1>8 DEF TrackedInv, Untold

-----------------------------------------------------------------------------
(* Theorems. *)

\* Every step keeps the invariant.
LEMMA StepsKeepTrackedInv ==
  ASSUME TrackedInv, [TrackedNext]_trackedVars PROVE TrackedInv'
<1>1. ASSUME NEW to \in NamedStates, PrintMoves(to) PROVE TrackedInv'
  BY <1>1, MovesKeepInv
<1>2. CASE UNCHANGED trackedVars
  BY <1>2 DEF trackedVars, TrackedInv, PrinterFits, FactsFit, Untold,
              PrintUntold, AlertsUntold, Tellable
<1> QED BY <1>1, <1>2, ChangesKeepInv, ReportsKeepInv, ReconnectionKeepsInv
        DEF TrackedNext

\* The invariant, of every behaviour.
LEMMA TrackedInvHolds == TrackedSpec => []TrackedInv
BY InitTrackedInv, StepsKeepTrackedInv, PTL DEF TrackedSpec

\* The tracker keeps its type, and what the specification remembers are facts
\* that name events of event.go.
THEOREM TrackedTypeCorrect == TrackedSpec => []TrackedTypeOK
<1>1. ASSUME TrackedInv PROVE TrackedTypeOK
  <2>1. st \in Tracker /\ \A f \in fresh \cup forgotten : f[1] \in Types
    BY <1>1 DEF TrackedInv, FactsFit, Tellable
  <2>2. phys.hms \in Seq(HMSTexts) /\ Len(phys.hms) <= MaxHMS
    BY <1>1 DEF TrackedInv, PrinterFits, Fits
  <2>3. phys.hms \in [1..Len(phys.hms) -> HMSTexts]
    BY <2>2
  <2>4. Len(phys.hms) \in 0..MaxHMS
    BY <2>2, HMSAssumption
  <2>5. phys.hms \in UNION {[1..n -> HMSTexts] : n \in 0..MaxHMS}
    BY <2>3, <2>4, Zenon
  <2> QED BY <2>1, <2>5 DEF TrackedTypeOK
<1> QED BY <1>1, TrackedInvHolds, PTL

\* Whatever its firmware and whichever fields a report has, what update is
\* given is what the printer shows (the flex types of parser.go).
THEOREM FirmwaresAgree == TrackedSpec => []FirmwareDoesNotMatter
<1>1. ASSUME TrackedInv PROVE FirmwareDoesNotMatter
  BY <1>1, FirmwaresAgreeNow DEF TrackedInv
<1> QED BY <1>1, TrackedInvHolds, PTL

\* update repeats an event only because the tracker forgot that it sent it:
\* no moments of reporting make it send again what it still knows.
THEOREM RepetitionsAreForgotten == TrackedSpec => RepeatsOnlyWhatItForgot
<1>1. ASSUME TrackedInv, TrackedNext PROVE repeated' \subseteq forgotten
  <2>1. ASSUME NEW p, NEW lasting, NEW news, Becomes(p, lasting, news)
        PROVE  repeated' = {}
    BY <2>1 DEF Becomes
  <2>2. ASSUME \E to \in NamedStates : PrintMoves(to) PROVE repeated' = {}
    BY <2>1, <2>2 DEF PrintMoves
  <2>3. ASSUME \/ \E c \in Codes \cup {NoCode} : ErrorCodeChanges(c)
               \/ \E e \in HMSTexts : HMSRaised(e)
               \/ HMSCleared
               \/ \E t \in Trays : TraySwitched(t)
               \/ \E a \in Actuals : NozzleDrifts(a)
        PROVE  repeated' = {}
    BY <2>1, <2>3 DEF ErrorCodeChanges, HMSRaised, HMSCleared, TraySwitched,
                      NozzleDrifts, Changes
  <2> QED BY <1>1, <2>2, <2>3, ReportsKeepInv, ReconnectionKeepsInv
          DEF TrackedNext
<1>2. TrackedInv /\ [TrackedNext]_trackedVars
        => [repeated' \subseteq forgotten]_trackedVars
  BY <1>1
<1> QED BY <1>2, TrackedInvHolds, PTL DEF TrackedSpec, RepeatsOnlyWhatItForgot
=============================================================================
