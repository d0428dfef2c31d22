---------------------------- MODULE ReportStream ----------------------------
(***************************************************************************)
(* One tracker under ANY sequence of reports and reconnections: nothing is *)
(* assumed of what the printer sends, so fields may be missing and states  *)
(* may be skipped.  Beside the tracker the specification keeps what a      *)
(* subscriber that receives every event believes about the print.          *)
(***************************************************************************)
EXTENDS StateTracker

VARIABLES st,      \* the tracker's memory
          batch,   \* the events the latest report made it return
          view,    \* what a subscriber believes (history)
          shown    \* the alert conditions the latest report shows (history)

streamVars == <<st, batch, view, shown>>

-----------------------------------------------------------------------------
(* The subscriber: reads the lifecycle events of each batch in order. *)

Views == {"unaware", "printing", "paused", "finished", "failed"}

ViewOf == [type \in LifecycleTypes |->
             CASE type = "print_paused"   -> "paused"
               [] type = "print_finished" -> "finished"
               [] type = "print_failed"   -> "failed"
               [] OTHER                   -> "printing"]

LifecycleAt(events) == {i \in DOMAIN events : events[i].type \in LifecycleTypes}

\* The belief after a batch: that of its last lifecycle event.
Believed(before, events) ==
  IF LifecycleAt(events) = {} THEN before
  ELSE LET last == CHOOSE i \in LifecycleAt(events) :
                     \A j \in LifecycleAt(events) : j <= i
       IN  ViewOf[events[last].type]

-----------------------------------------------------------------------------
\* The error code and the HMS texts of reports, as alert conditions.
Conditions == (Codes \X {"critical_error"}) \cup (HMSTexts \X {"hms_alert"})

ConditionsOf(r) ==
  (({r.code} \ {NoCode}) \X {"critical_error"})
    \cup ({r.hms[i] : i \in DOMAIN r.hms} \X {"hms_alert"})

-----------------------------------------------------------------------------
StreamInit ==
  /\ st = FreshTracker
  /\ batch = <<>>
  /\ view = "unaware"
  /\ shown = {}

\* A report is parsed and handed to update.
ReportArrives(r) ==
  /\ st' = Updated(st, r)
  /\ batch' = Batch(st, r)
  /\ view' = Believed(view, batch')
  /\ shown' = ConditionsOf(r)

\* A new connection to the printer resets the tracker; subscribers are not
\* told of it.
Reconnected ==
  /\ st' = FreshTracker
  /\ batch' = <<>>
  /\ shown' = {}
  /\ UNCHANGED view

StreamNext == Reconnected \/ \E r \in Report : ReportArrives(r)

StreamSpec == StreamInit /\ [][StreamNext]_streamVars

-----------------------------------------------------------------------------
(* Properties. *)

\* Type invariant of the tracker and its events (state.go, stateTracker).
StreamTypeOK ==
  /\ st \in Tracker
  /\ DOMAIN batch \subseteq Nat
  /\ \A i \in DOMAIN batch : batch[i].type \in Types
  /\ view \in Views
  /\ shown \subseteq Conditions

\* The states in which a subscriber must know where the print is.
Telling == [s \in {"RUNNING", "PAUSE", "FINISH", "FAILED"} |->
              CASE s = "RUNNING" -> "printing"
                [] s = "PAUSE"   -> "paused"
                [] s = "FINISH"  -> "finished"
                [] s = "FAILED"  -> "failed"]

\* Whatever reports were skipped, repeated or incomplete and however often
\* the connection was lost, once the tracker has seen the print run, pause,
\* finish or fail, the events it emitted leave a subscriber believing
\* exactly that (the transition rules of transitionEvent together with when
\* update stores prevState).
SubscriberAgrees ==
  st.prevState \in DOMAIN Telling => view = Telling[st.prevState]

\* print_resumed is only ever sent to subscribers that believe the print is
\* paused: a print that was paused across a reconnection is announced as
\* started, never as resumed (transitionEvent's RUNNING case after reset).
ResumedOnlyFromPause ==
  [][ (\E i \in DOMAIN batch' : batch'[i].type = "print_resumed")
        => view = "paused" ]_streamVars

\* A batch changes a subscriber's belief at most once, and before any alert
\* of the same report: the alerts that explain a failure or a pause come
\* after the news of it (the order of the blocks of update).
LifecycleFirst == LifecycleAt(batch) \subseteq {1}

ToldConditions ==
  {<<batch[i].about, batch[i].type>> :
     i \in {j \in DOMAIN batch :
              batch[j].type \in {"critical_error", "hms_alert"}}}

Latch == INSTANCE AlertLatch WITH known <- shown,
                                  told <- ToldConditions

\* The two alert mechanisms of update implement the latch: told on a rising
\* edge, silent while the condition lasts, told again after it cleared.
LatchedAlerts == Latch!LatchSpec
=============================================================================
