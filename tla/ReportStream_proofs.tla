------------------------- MODULE ReportStream_proofs -------------------------
(***************************************************************************)
(* The safety properties of ReportStream for any error codes, HMS texts,   *)
(* trays and gcode states, and reports of any length.  BatchShape says     *)
(* what a batch looks like: at most one lifecycle event, first, and alerts *)
(* after it.  StreamInv, that the tracker has its type and a subscriber    *)
(* believes what the tracker knows, is inductive.                          *)
(*                                                                         *)
(* The alerts implement AlertLatch: ToldByReport says that a batch tells   *)
(* exactly the conditions its report shows and the tracker does not        *)
(* remember, and Remembered, an invariant, that the tracker remembers what *)
(* the report before it showed.                                            *)
(***************************************************************************)
EXTENDS ReportStream, StateTracker_proofs

\* The shape of a batch (update): the announcement, then alerts.
LEMMA BatchShape ==
  ASSUME NEW s, NEW r \in Report
  PROVE  /\ DOMAIN Batch(s, r) \subseteq Nat
         /\ \A i \in DOMAIN Batch(s, r) : Batch(s, r)[i].type \in Types
         /\ Announced(s, r) = {} => LifecycleAt(Batch(s, r)) = {}
         /\ \A type \in LifecycleTypes : Announced(s, r) = {type} =>
              /\ LifecycleAt(Batch(s, r)) = {1}
              /\ Batch(s, r)[1].type = type
<1> DEFINE alerts == AlertPart(s, r)
           S == Alerts(s, r)
<1>1. alerts \in Seq(S)
  BY AlertPartIsAlerts, ReportsListTheirHMS
<1>2. \A i \in 1..Len(alerts) : alerts[i].type \in AlertTypes
  <2>1. \A e \in S : e.type \in AlertTypes
    BY DEF Alerts
  <2> HIDE DEF alerts, S
  <2> QED BY <1>1, <2>1
<1>3. AlertTypes \cap LifecycleTypes = {}
  BY DEF AlertTypes, LifecycleTypes
<1>4. CASE Announced(s, r) = {}
  <2>1. TransitionPart(s, r) = <<>>
    BY <1>4 DEF TransitionPart, Announced, Each
  <2>2. Batch(s, r) = alerts
    BY <2>1, <1>1, ConcatEmptySeq DEF Batch
  <2> HIDE DEF alerts, S
  <2> QED BY <2>2, <1>1, <1>2, <1>3, <1>4 DEF LifecycleAt, Types
<1>5. ASSUME NEW type \in LifecycleTypes, Announced(s, r) = {type}
      PROVE  /\ DOMAIN Batch(s, r) \subseteq Nat
             /\ \A i \in DOMAIN Batch(s, r) : Batch(s, r)[i].type \in Types
             /\ LifecycleAt(Batch(s, r)) = {1}
             /\ Batch(s, r)[1].type = type
  <2>1. PICK about : TransitionPart(s, r) = << Event(type, about) >>
    BY <1>5 DEF TransitionPart, Announced, Each
  <2> DEFINE e == Event(type, about)
             all == Batch(s, r)
  <2>2. e.type = type
    BY DEF Event
  <2>3. /\ DOMAIN all = 1..Len(alerts) + 1
        /\ all[1] = e
        /\ \A i \in 2..Len(alerts) + 1 : all[i] = alerts[i - 1]
    <3> HIDE DEF e, alerts, S
    <3>1. all = <<e>> \o alerts
      BY <2>1 DEF Batch, e, alerts
    <3>2. alerts \in Seq(S \cup {e}) /\ <<e>> \in Seq(S \cup {e})
      BY <1>1
    <3> QED BY <3>1, <3>2, ConcatProperties
  <2>4. Len(alerts) \in Nat
    BY <1>1
  <2>5. \A i \in 2..Len(alerts) + 1 : all[i].type \in AlertTypes
    BY <2>3, <2>4, <1>2
  <2> HIDE DEF e, alerts, all
  <2>6. LifecycleAt(all) = {1}
    BY <1>3, <2>2, <2>3, <2>4, <2>5 DEF LifecycleAt
  <2> QED BY <2>2, <2>3, <2>4, <2>5, <2>6 DEF Types, all
<1> QED BY <1>4, <1>5, OneAnnounced

\* A subscriber believes what the announcement says.
LEMMA BelievedIsAnnounced ==
  ASSUME NEW s, NEW r \in Report, NEW before
  PROVE  /\ Announced(s, r) = {} => Believed(before, Batch(s, r)) = before
         /\ \A type \in LifecycleTypes : Announced(s, r) = {type} =>
              Believed(before, Batch(s, r)) = ViewOf[type]
<1>1. ASSUME Announced(s, r) = {}
      PROVE  Believed(before, Batch(s, r)) = before
  BY <1>1, BatchShape DEF Believed
<1>2. ASSUME NEW type \in LifecycleTypes, Announced(s, r) = {type}
      PROVE  Believed(before, Batch(s, r)) = ViewOf[type]
  <2>1. LifecycleAt(Batch(s, r)) = {1} /\ Batch(s, r)[1].type = type
    BY <1>2, BatchShape
  <2>2. (CHOOSE i \in {1} : \A j \in {1} : j <= i) = 1
    OBVIOUS
  <2> QED BY <2>1, <2>2 DEF Believed
<1> QED BY <1>1, <1>2

-----------------------------------------------------------------------------
(* The invariant. *)

\* The types, the shape of the latest batch, and the subscriber's belief.
StreamInv == StreamTypeOK /\ LifecycleFirst /\ SubscriberAgrees

\* A new tracker knows nothing that a subscriber could miss.
LEMMA FreshTrackerFits ==
  FreshTracker \in Tracker /\ FreshTracker.prevState \notin DOMAIN Telling
BY FreshTrackerIsTracker DEF FreshTracker, StateUnknown, Telling

\* A move to a state that tells where the print is announces just that.
LEMMA MovesAreTold ==
  ASSUME NEW s, NEW r, Moved(s, r), r.state \in DOMAIN Telling
  PROVE  \E type \in LifecycleTypes :
           Announced(s, r) = {type} /\ ViewOf[type] = Telling[r.state]
BY DEF Announced, TransitionTypes, Telling, LifecycleTypes, ViewOf

\* Reports preserve the invariant.
LEMMA ReportStep ==
  ASSUME StreamInv, NEW r \in Report, ReportArrives(r)
  PROVE  StreamInv'
<1> USE DEF StreamInv, ReportArrives
<1>1. StreamTypeOK'
  <2>1. st' \in Tracker
    BY UpdatedFits, ReportsListTheirHMS DEF StreamTypeOK, Report
  <2>2. view' \in Views
    BY BelievedIsAnnounced, OneAnnounced
       DEF StreamTypeOK, ViewOf, Views, LifecycleTypes
  <2>3. shown' \subseteq Conditions
    BY DEF ConditionsOf, Conditions, Report
  <2> QED BY <2>1, <2>2, <2>3, BatchShape DEF StreamTypeOK
<1>2. LifecycleFirst'
  BY BatchShape, OneAnnounced DEF LifecycleFirst
<1>3. SubscriberAgrees'
  <2>1. CASE Moved(st, r)
    <3>1. st'.prevState = r.state
      BY <2>1 DEF Updated
    <3> QED BY <2>1, <3>1, MovesAreTold, BelievedIsAnnounced
            DEF SubscriberAgrees
  <2>2. CASE ~Moved(st, r)
    <3>1. st'.prevState = st.prevState
      BY <2>2 DEF Updated
    <3>2. view' = view
      BY <2>2, BelievedIsAnnounced DEF Announced
    <3> QED BY <3>1, <3>2 DEF SubscriberAgrees
  <2> QED BY <2>1, <2>2
<1> QED BY <1>1, <1>2, <1>3

\* The invariant holds in every state of every behaviour.
THEOREM StreamInvAlways == StreamSpec => []StreamInv
<1>1. StreamInit => StreamInv
  <2> SUFFICES ASSUME StreamInit PROVE StreamInv
    OBVIOUS
  <2>1. StreamTypeOK /\ LifecycleFirst
    BY FreshTrackerFits
       DEF StreamInit, StreamTypeOK, Views, LifecycleFirst, LifecycleAt
  <2> QED BY <2>1, FreshTrackerFits
          DEF StreamInit, StreamInv, SubscriberAgrees
<1>2. StreamInv /\ [StreamNext]_streamVars => StreamInv'
  <2> SUFFICES ASSUME StreamInv, [StreamNext]_streamVars PROVE StreamInv'
    OBVIOUS
  <2>1. CASE Reconnected
    <3>1. (StreamTypeOK /\ LifecycleFirst)'
      BY <2>1, FreshTrackerFits DEF Reconnected, StreamInv, StreamTypeOK,
         LifecycleFirst, LifecycleAt
    <3> QED BY <2>1, <3>1, FreshTrackerFits
            DEF Reconnected, StreamInv, SubscriberAgrees
  <2>2. ASSUME NEW r \in Report, ReportArrives(r) PROVE StreamInv'
    BY <2>2, ReportStep
  <2>3. CASE UNCHANGED streamVars
    BY <2>3 DEF streamVars, StreamInv, StreamTypeOK, LifecycleFirst,
       LifecycleAt, SubscriberAgrees
  <2> QED BY <2>1, <2>2, <2>3 DEF StreamNext
<1> QED BY <1>1, <1>2, PTL DEF StreamSpec

-----------------------------------------------------------------------------
(* What follows. *)

\* The tracker, its batches and a subscriber keep their types (state.go).
THEOREM StreamTypeCorrect == StreamSpec => []StreamTypeOK
<1>1. StreamInv => StreamTypeOK
  BY DEF StreamInv
<1> QED BY <1>1, StreamInvAlways, PTL

\* A batch has one lifecycle event at most, in front of its alerts (the
\* order of the blocks of update).
THEOREM LifecycleComesFirst == StreamSpec => []LifecycleFirst
<1>1. StreamInv => LifecycleFirst
  BY DEF StreamInv
<1> QED BY <1>1, StreamInvAlways, PTL

\* Whatever a printer reports, and however often the connection to it is
\* lost, a subscriber believes what the tracker has seen (transitionEvent
\* and update).
THEOREM SubscribersAgree == StreamSpec => []SubscriberAgrees
<1>1. StreamInv => SubscriberAgrees
  BY DEF StreamInv
<1> QED BY <1>1, StreamInvAlways, PTL

\* print_resumed reaches only subscribers that know of the pause
\* (transitionEvent, the case of RUNNING).
THEOREM ResumptionsFollowPauses == StreamSpec => ResumedOnlyFromPause
<1> DEFINE Resumes == \E i \in DOMAIN batch' : batch'[i].type = "print_resumed"
<1>1. ASSUME StreamInv, [StreamNext]_streamVars
      PROVE  [Resumes => view = "paused"]_streamVars
  <2>1. CASE Reconnected
    BY <2>1 DEF Reconnected
  <2>2. ASSUME NEW r \in Report, ReportArrives(r), Resumes
        PROVE  view = "paused"
    <3>1. PICK i \in DOMAIN batch' : batch'[i].type = "print_resumed"
      BY <2>2
    <3>2. i \in LifecycleAt(batch')
      BY <3>1 DEF LifecycleAt, LifecycleTypes
    <3>3. Announced(st, r) = {"print_resumed"}
      BY <2>2, <3>1, <3>2, BatchShape, OneAnnounced DEF ReportArrives
    <3>4. st.prevState = "PAUSE"
      BY <3>3 DEF Announced, TransitionTypes
    <3> QED BY <1>1, <3>4 DEF StreamInv, SubscriberAgrees, Telling
  <2> QED BY <1>1, <2>1, <2>2 DEF StreamNext
<1> QED BY <1>1, StreamInvAlways, PTL DEF StreamSpec, ResumedOnlyFromPause

-----------------------------------------------------------------------------
(* What a sequence of events tells. *)

LatchedTypes == {"critical_error", "hms_alert"}

ToldIn(events) ==
  {<<events[i].about, events[i].type>> :
     i \in {j \in DOMAIN events : events[j].type \in LatchedTypes}}

\* What two sequences tell together, one after the other.
LEMMA ToldOneAfterTheOther ==
  ASSUME NEW S, NEW before \in Seq(S), NEW after \in Seq(S)
  PROVE  ToldIn(before \o after) = ToldIn(before) \cup ToldIn(after)
<1> DEFINE all == before \o after
           b == Len(before)
           a == Len(after)
<1>1. /\ b \in Nat /\ a \in Nat
      /\ DOMAIN before = 1..b /\ DOMAIN after = 1..a
      /\ DOMAIN all = 1..b + a
      /\ \A i \in 1..b : all[i] = before[i]
      /\ \A i \in 1..a : all[b + i] = after[i]
  BY ConcatProperties
<1> HIDE DEF all, b, a
<1>2. ASSUME NEW told \in ToldIn(all)
      PROVE  told \in ToldIn(before) \cup ToldIn(after)
  <2>1. PICK i \in DOMAIN all : /\ all[i].type \in LatchedTypes
                                /\ told = <<all[i].about, all[i].type>>
    BY <1>2 DEF ToldIn
  <2>2. CASE i <= b
    <3>1. i \in DOMAIN before /\ all[i] = before[i]
      BY <1>1, <2>1, <2>2
    <3> QED BY <2>1, <3>1 DEF ToldIn
  <2>3. CASE ~(i <= b)
    <3>1. i - b \in 1..a /\ i = b + (i - b)
      BY <1>1, <2>1, <2>3
    <3>2. i - b \in DOMAIN after /\ all[i] = after[i - b]
      BY <1>1, <3>1
    <3> QED BY <2>1, <3>2 DEF ToldIn
  <2> QED BY <2>2, <2>3
<1>3. ASSUME NEW told \in ToldIn(before)
      PROVE  told \in ToldIn(all)
  <2>1. PICK i \in DOMAIN before :
          /\ before[i].type \in LatchedTypes
          /\ told = <<before[i].about, before[i].type>>
    BY <1>3 DEF ToldIn
  <2>2. i \in DOMAIN all /\ all[i] = before[i]
    BY <1>1, <2>1
  <2> QED BY <2>1, <2>2 DEF ToldIn
<1>4. ASSUME NEW told \in ToldIn(after)
      PROVE  told \in ToldIn(all)
  <2>1. PICK i \in DOMAIN after :
          /\ after[i].type \in LatchedTypes
          /\ told = <<after[i].about, after[i].type>>
    BY <1>4 DEF ToldIn
  <2>2. b + i \in DOMAIN all /\ all[b + i] = after[i]
    BY <1>1, <2>1
  <2> QED BY <2>1, <2>2 DEF ToldIn
<1> QED BY <1>2, <1>3, <1>4 DEF all

\* What an alert with its condition tells.
LEMMA ToldByWhen ==
  ASSUME NEW condition \in BOOLEAN, NEW type, NEW about
  PROVE  ToldIn(When(condition, type, about))
           = IF condition /\ type \in LatchedTypes
               THEN {<<about, type>>} ELSE {}
BY DEF ToldIn, When, Event

\* Transitions are no alerts.
LEMMA ToldByTransition ==
  ASSUME NEW s, NEW r
  PROVE  /\ ToldIn(TransitionPart(s, r)) = {}
         /\ \E e : TransitionPart(s, r) \in Seq({e})
<1>1. LatchedTypes \cap LifecycleTypes = {}
  BY DEF LatchedTypes, LifecycleTypes
<1>2. CASE Announced(s, r) = {}
  BY <1>2 DEF TransitionPart, Announced, Each, ToldIn
<1>3. ASSUME NEW type \in LifecycleTypes, Announced(s, r) = {type}
      PROVE  /\ ToldIn(TransitionPart(s, r)) = {}
             /\ \E e : TransitionPart(s, r) \in Seq({e})
  <2>1. PICK about : TransitionPart(s, r) = << Event(type, about) >>
    BY <1>3 DEF TransitionPart, Announced, Each
  <2> QED BY <1>1, <2>1 DEF ToldIn, Event
<1> QED BY <1>2, <1>3, OneAnnounced

\* The HMS alerts of a report are its new texts.
LEMMA ToldByHMS ==
  ASSUME NEW s, NEW r \in Report
  PROVE  ToldIn(HMSPart(s, r))
           = ({r.hms[i] : i \in DOMAIN r.hms} \ s.prevHMS) \X {"hms_alert"}
<1> DEFINE new == NewHMS(s, r)
           places == 1..Cardinality(new)
<1>1. ToldIn(HMSPart(s, r))
        = {<<r.hms[NthOf(new, k)], "hms_alert">> : k \in places}
  BY DEF HMSPart, ToldIn, Event, LatchedTypes
<1>2. {NthOf(new, k) : k \in places} = new
  BY EachNewEntryOnce, ReportsListTheirHMS
<1> HIDE DEF places
<1>3. {<<r.hms[NthOf(new, k)], "hms_alert">> : k \in places}
        = {<<r.hms[i], "hms_alert">> : i \in new}
  BY <1>2
<1>4. {<<r.hms[i], "hms_alert">> : i \in new}
        = ({r.hms[i] : i \in DOMAIN r.hms} \ s.prevHMS) \X {"hms_alert"}
  BY DEF NewHMS
<1> QED BY <1>1, <1>3, <1>4

-----------------------------------------------------------------------------
(* The refinement. *)

\* The conditions a tracker remembers.
ConditionsIn(s) ==
  (({s.prevErrorCode} \ {NoCode}) \X {"critical_error"})
    \cup (s.prevHMS \X {"hms_alert"})

\* A batch tells what its report shows and the tracker does not remember.
LEMMA ToldByReport ==
  ASSUME NEW s, NEW r \in Report
  PROVE  ToldIn(Batch(s, r)) = ConditionsOf(r) \ ConditionsIn(s)
<1>1. /\ ToldIn(RunoutPart(s, r)) = {}
      /\ ToldIn(AMSPart(s, r)) = {}
      /\ ToldIn(AnomalyPart(s, r)) = {}
  BY ToldByWhen DEF RunoutPart, AMSPart, AnomalyPart, LatchedTypes
<1>2. ToldIn(CriticalPart(s, r))
        = (({r.code} \ {NoCode}) \ {s.prevErrorCode}) \X {"critical_error"}
  <2>1. ToldIn(CriticalPart(s, r))
          = IF r.code # NoCode /\ r.code # s.prevErrorCode
              THEN {<<r.code, "critical_error">>} ELSE {}
    BY ToldByWhen DEF CriticalPart, LatchedTypes
  <2> QED BY <2>1
<1>3. PICK e : TransitionPart(s, r) \in Seq({e})
  BY ToldByTransition
<1>4. ToldIn(AlertPart(s, r))
        = ToldIn(CriticalPart(s, r)) \cup ToldIn(HMSPart(s, r))
  <2> DEFINE S == Alerts(s, r)
             one == RunoutPart(s, r) \o CriticalPart(s, r)
             two == one \o HMSPart(s, r)
             three == two \o AMSPart(s, r)
  <2>0. r.hms \in Seq(HMSTexts)
    BY ReportsListTheirHMS
  <2>1. one \in Seq(S) /\ two \in Seq(S) /\ three \in Seq(S)
    BY <2>0, AlertPartsAreAlerts, ConcatProperties
  <2>2. ToldIn(one)
          = ToldIn(RunoutPart(s, r)) \cup ToldIn(CriticalPart(s, r))
    BY <2>0, AlertPartsAreAlerts, ToldOneAfterTheOther
  <2> HIDE DEF S, one
  <2>3. ToldIn(two) = ToldIn(one) \cup ToldIn(HMSPart(s, r))
    BY <2>0, <2>1, AlertPartsAreAlerts, ToldOneAfterTheOther DEF S
  <2> HIDE DEF two
  <2>4. ToldIn(three) = ToldIn(two) \cup ToldIn(AMSPart(s, r))
    BY <2>0, <2>1, AlertPartsAreAlerts, ToldOneAfterTheOther DEF S
  <2> HIDE DEF three
  <2>5. ToldIn(three \o AnomalyPart(s, r))
          = ToldIn(three) \cup ToldIn(AnomalyPart(s, r))
    BY <2>0, <2>1, AlertPartsAreAlerts, ToldOneAfterTheOther DEF S
  <2>6. AlertPart(s, r) = three \o AnomalyPart(s, r)
    BY DEF AlertPart, one, two, three
  <2> QED BY <1>1, <2>2, <2>3, <2>4, <2>5, <2>6
<1>5. ToldIn(Batch(s, r))
        = ToldIn(CriticalPart(s, r)) \cup ToldIn(HMSPart(s, r))
  <2> DEFINE S == {e} \cup Alerts(s, r)
  <2>1. TransitionPart(s, r) \in Seq(S) /\ AlertPart(s, r) \in Seq(S)
    BY <1>3, AlertPartIsAlerts, ReportsListTheirHMS
  <2>2. ToldIn(Batch(s, r))
          = ToldIn(TransitionPart(s, r)) \cup ToldIn(AlertPart(s, r))
    BY <2>1, ToldOneAfterTheOther DEF Batch
  <2> QED BY <1>4, <2>2, ToldByTransition
<1> QED BY <1>2, <1>5, ToldByHMS DEF ConditionsOf, ConditionsIn

\* The tracker remembers the conditions of the latest report.
Remembered == shown = ConditionsIn(st)

\* The alerts of any number of reports and reconnections are those of the
\* latch: told when a condition appears, never while it lasts, again when it
\* is back (update, its blocks on print_error and on hms).
THEOREM AlertsAreLatched == StreamSpec => LatchedAlerts
<1>1. StreamInit => Remembered /\ Latch!LatchInit
  BY DEF StreamInit, Remembered, ConditionsIn, FreshTracker,
     Latch!LatchInit, ToldConditions
<1>2. Remembered /\ [StreamNext]_streamVars => Remembered'
  <2> SUFFICES ASSUME Remembered, [StreamNext]_streamVars PROVE Remembered'
    OBVIOUS
  <2>1. CASE Reconnected
    BY <2>1 DEF Reconnected, Remembered, ConditionsIn, FreshTracker
  <2>2. ASSUME NEW r \in Report, ReportArrives(r) PROVE Remembered'
    BY <2>2 DEF ReportArrives, Remembered, ConditionsIn, ConditionsOf, Updated
  <2>3. CASE UNCHANGED streamVars
    BY <2>3 DEF streamVars, Remembered, ConditionsIn
  <2> QED BY <2>1, <2>2, <2>3 DEF StreamNext
<1>3. Remembered /\ [StreamNext]_streamVars
        => [Latch!LatchNext]_<<shown, ToldConditions>>
  <2> SUFFICES ASSUME Remembered, [StreamNext]_streamVars
               PROVE  [Latch!LatchNext]_<<shown, ToldConditions>>
    OBVIOUS
  <2>1. CASE Reconnected
    <3>1. Latch!Forget
      BY <2>1 DEF Reconnected, Latch!Forget, ToldConditions
    <3> QED BY <3>1 DEF Latch!LatchNext
  <2>2. ASSUME NEW r \in Report, ReportArrives(r)
        PROVE  Latch!LatchNext
    <3>1. ToldConditions' = ToldIn(Batch(st, r))
      BY <2>2 DEF ReportArrives, ToldConditions, ToldIn, LatchedTypes
    <3>2. ToldConditions' = ConditionsOf(r) \ shown
      BY <3>1, ToldByReport DEF Remembered
    <3>3. ConditionsOf(r) \in SUBSET Conditions
      BY DEF ConditionsOf, Conditions, Report
    <3>4. Latch!Observe(ConditionsOf(r))
      BY <2>2, <3>2 DEF ReportArrives, Latch!Observe
    <3> QED BY <3>3, <3>4 DEF Latch!LatchNext
  <2>3. CASE UNCHANGED streamVars
    BY <2>3 DEF streamVars, ToldConditions
  <2> QED BY <2>1, <2>2, <2>3 DEF StreamNext
<1> QED BY <1>1, <1>2, <1>3, PTL
        DEF StreamSpec, LatchedAlerts, Latch!LatchSpec, Latch!latchVars
=============================================================================
