------------------------- MODULE StateTracker_proofs -------------------------
(***************************************************************************)
(* What update returns and leaves behind, for any tracker and any report   *)
(* with a finite list of HMS entries: the lemmas on Batch and Updated that *)
(* the proofs about ReportStream and TrackedPrinter rest on.               *)
(***************************************************************************)
EXTENDS StateTracker, TLAPS, SequenceTheorems, FiniteSetTheorems

\* What the move a report makes, if it makes one, announces.
Announced(s, r) ==
  IF Moved(s, r) THEN TransitionTypes(s.prevState, r.state) ELSE {}

\* The alerts that report r gives rise to, each with its cause.
Alerts(s, r) ==
  {e \in [type  : AlertTypes,
          about : {RunoutCode, r.code, r.tray, NoDetail}
                    \cup {r.hms[i] : i \in DOMAIN r.hms}] :
     \/ /\ e.type = "filament_runout"
        /\ r.code = RunoutCode /\ s.prevErrorCode # RunoutCode
     \/ /\ e = Event("critical_error", r.code)
        /\ r.code # NoCode /\ r.code # s.prevErrorCode
     \/ \E i \in NewHMS(s, r) : e = Event("hms_alert", r.hms[i])
     \/ /\ e.type = "ams_change"
        /\ r.tray # NoTray /\ r.tray # s.prevAMSTray /\ s.prevAMSTray # NoTray
     \/ /\ e.type = "nozzle_temp_anomaly"
        /\ Heated(r) /\ Deviates(r) /\ ~Warned(s, r)}

\* Every report of the bounded vocabulary has such a list.
LEMMA ReportsListTheirHMS ==
  ASSUME NEW r \in Report PROVE r.hms \in Seq(HMSTexts)
<1>1. PICK n \in 0..MaxHMS : r.hms \in [1..n -> HMSTexts]
  BY HMSAssumption DEF Report
<1>2. n \in Nat
  BY HMSAssumption
<1> QED BY <1>1, <1>2

-----------------------------------------------------------------------------
(* The n-th place of a set of places. *)

Rank(places, i) == Cardinality({j \in places : j <= i})

\* Ranks are different and go from one to the number of places.
LEMMA RankIsInjection ==
  ASSUME NEW n \in Nat, NEW places \in SUBSET (1..n)
  PROVE  /\ IsFiniteSet(places) /\ Cardinality(places) \in Nat
         /\ [i \in places |-> Rank(places, i)]
              \in Injection(places, 1..Cardinality(places))
<1> DEFINE upTo(i) == {j \in places : j <= i}
<1>1. IsFiniteSet(places) /\ Cardinality(places) \in Nat
  <2>1. IsFiniteSet(1..n)
    BY FS_Interval
  <2> QED BY <2>1, FS_Subset, FS_CardinalityType
<1>2. ASSUME NEW i \in places
      PROVE  Rank(places, i) \in 1..Cardinality(places)
  <2>1. upTo(i) \in SUBSET places /\ i \in upTo(i)
    OBVIOUS
  <2> HIDE DEF upTo
  <2>2. /\ IsFiniteSet(upTo(i))
        /\ Cardinality(upTo(i)) <= Cardinality(places)
        /\ Cardinality(upTo(i)) \in Nat
    BY <1>1, <2>1, FS_Subset, FS_CardinalityType
  <2>3. Cardinality(upTo(i)) # 0
    BY <2>1, <2>2, FS_EmptySet
  <2> QED BY <1>1, <2>2, <2>3 DEF Rank, upTo
<1>3. ASSUME NEW h \in places, NEW i \in places, h < i
      PROVE  Rank(places, h) # Rank(places, i)
  <2>0. h \in Int /\ i \in Int /\ \A j \in places : j \in Int
    OBVIOUS
  <2>1. /\ \A j \in places : j <= h => j <= i
        /\ i <= i /\ ~(i <= h)
    BY <1>3, <2>0
  <2>2. upTo(h) \in SUBSET upTo(i) /\ i \in upTo(i) /\ i \notin upTo(h)
    BY <2>1
  <2>3. upTo(i) \in SUBSET places
    OBVIOUS
  <2> HIDE DEF upTo
  <2>4. IsFiniteSet(upTo(i))
    BY <1>1, <2>3, FS_Subset
  <2>5. Cardinality(upTo(h)) # Cardinality(upTo(i))
    BY <2>2, <2>4, FS_Subset
  <2> QED BY <2>5 DEF Rank, upTo
<1>4. ASSUME NEW h \in places, NEW i \in places,
             Rank(places, h) = Rank(places, i)
      PROVE  h = i
  <2>1. h \in Nat /\ i \in Nat
    OBVIOUS
  <2> QED BY <1>3, <1>4, <2>1
<1> QED BY <1>1, <1>2, <1>4 DEF Injection, IsInjective

\* NthOf goes through all places, and only through those.
LEMMA NthOfIsOnto ==
  ASSUME NEW n \in Nat, NEW places \in SUBSET (1..n)
  PROVE  {NthOf(places, k) : k \in 1..Cardinality(places)} = places
<1> DEFINE c == Cardinality(places)
           rank == [i \in places |-> Rank(places, i)]
<1>1. IsFiniteSet(places) /\ c \in Nat /\ rank \in Injection(places, 1..c)
  BY RankIsInjection
<1>2. \A h, i \in places : rank[h] = rank[i] => h = i
  <2> HIDE DEF rank, c
  <2> QED BY <1>1 DEF Injection, IsInjective
<1>3. \A k \in 1..c : \E i \in places : rank[i] = k
  <2>1. IsFiniteSet(1..c) /\ Cardinality(1..c) = c
    BY <1>1, FS_Interval
  <2> HIDE DEF rank
  <2>2. rank \in Surjection(places, 1..c)
    BY <1>1, <2>1, FS_Injection
  <2> QED BY <2>2 DEF Surjection
<1>4. \A i \in places : rank[i] \in 1..c
  <2> HIDE DEF rank, c
  <2> QED BY <1>1 DEF Injection
<1>5. \A i \in places : NthOf(places, rank[i]) = i
  BY <1>2 DEF NthOf, Rank
<1> HIDE DEF rank, c
<1>6. ASSUME NEW k \in 1..c PROVE NthOf(places, k) \in places
  BY <1>3, <1>5
<1>7. ASSUME NEW i \in places PROVE \E k \in 1..c : NthOf(places, k) = i
  BY <1>4, <1>5
<1> QED BY <1>6, <1>7 DEF c

\* HMSPart goes through the new entries: all of them, and no others.
LEMMA EachNewEntryOnce ==
  ASSUME NEW s, NEW r, r.hms \in Seq(HMSTexts)
  PROVE  LET new == NewHMS(s, r)
         IN  /\ Cardinality(new) \in Nat
             /\ {NthOf(new, k) : k \in 1..Cardinality(new)} = new
<1>1. Len(r.hms) \in Nat /\ NewHMS(s, r) \in SUBSET (1..Len(r.hms))
  BY DEF NewHMS
<1> QED BY <1>1, NthOfIsOnto, RankIsInjection

-----------------------------------------------------------------------------
(* Batches. *)

\* An alert with its condition is a sequence of at most one event.
LEMMA WhenIsSequence ==
  ASSUME NEW S, NEW condition, NEW type, NEW about,
         condition => Event(type, about) \in S
  PROVE  When(condition, type, about) \in Seq(S)
BY DEF When

\* Each of the five blocks of update after the transition appends alerts,
\* and only if there is a cause.
LEMMA AlertPartsAreAlerts ==
  ASSUME NEW s, NEW r, r.hms \in Seq(HMSTexts)
  PROVE  /\ RunoutPart(s, r) \in Seq(Alerts(s, r))
         /\ CriticalPart(s, r) \in Seq(Alerts(s, r))
         /\ HMSPart(s, r) \in Seq(Alerts(s, r))
         /\ AMSPart(s, r) \in Seq(Alerts(s, r))
         /\ AnomalyPart(s, r) \in Seq(Alerts(s, r))
<1> DEFINE S == Alerts(s, r)
<1>1. RunoutPart(s, r) \in Seq(S)
  <2> ASSUME r.code = RunoutCode, s.prevErrorCode # RunoutCode
      PROVE  Event("filament_runout", RunoutCode) \in S
    BY DEF Event, Alerts, AlertTypes
  <2> HIDE DEF S
  <2> QED BY WhenIsSequence DEF RunoutPart
<1>2. CriticalPart(s, r) \in Seq(S)
  <2> ASSUME r.code # NoCode, r.code # s.prevErrorCode
      PROVE  Event("critical_error", r.code) \in S
    BY DEF Event, Alerts, AlertTypes
  <2> HIDE DEF S
  <2> QED BY WhenIsSequence DEF CriticalPart
<1>3. HMSPart(s, r) \in Seq(S)
  <2> DEFINE new == NewHMS(s, r)
             entry(n) == Event("hms_alert", r.hms[NthOf(new, n)])
  <2>1. \A i \in new : i \in DOMAIN r.hms
    BY DEF NewHMS
  <2>2. \A i \in new : Event("hms_alert", r.hms[i]) \in S
    BY <2>1 DEF Event, Alerts, AlertTypes
  <2>3. \A n \in 1..Cardinality(new) : NthOf(new, n) \in new
    BY EachNewEntryOnce
  <2>4. HMSPart(s, r) = [n \in 1..Cardinality(new) |-> entry(n)]
    BY DEF HMSPart
  <2>5. Cardinality(new) \in Nat
    BY EachNewEntryOnce
  <2>6. \A n \in 1..Cardinality(new) : entry(n) \in S
    BY <2>2, <2>3
  <2> HIDE DEF entry, S, new
  <2> QED BY <2>4, <2>5, <2>6
<1>4. AMSPart(s, r) \in Seq(S)
  <2> ASSUME r.tray # NoTray, r.tray # s.prevAMSTray, s.prevAMSTray # NoTray
      PROVE  Event("ams_change", r.tray) \in S
    BY DEF Event, Alerts, AlertTypes
  <2> HIDE DEF S
  <2> QED BY WhenIsSequence DEF AMSPart
<1>5. AnomalyPart(s, r) \in Seq(S)
  <2> ASSUME Heated(r), Deviates(r), ~Warned(s, r)
      PROVE  Event("nozzle_temp_anomaly", NoDetail) \in S
    BY DEF Event, Alerts, AlertTypes
  <2> HIDE DEF S
  <2> QED BY WhenIsSequence DEF AnomalyPart
<1> QED BY <1>1, <1>2, <1>3, <1>4, <1>5

\* All that update appends after the transition is alerts.
LEMMA AlertPartIsAlerts ==
  ASSUME NEW s, NEW r, r.hms \in Seq(HMSTexts)
  PROVE  AlertPart(s, r) \in Seq(Alerts(s, r))
BY AlertPartsAreAlerts, ConcatProperties DEF AlertPart

\* A move announces one lifecycle event or none (transitionEvent).
LEMMA OneAnnounced ==
  ASSUME NEW s, NEW r
  PROVE  \/ Announced(s, r) = {}
         \/ \E type \in LifecycleTypes : Announced(s, r) = {type}
BY DEF Announced, TransitionTypes, LifecycleTypes

\* Before the alerts comes what is announced, or nothing.
LEMMA TransitionPartAnnounces ==
  ASSUME NEW s, NEW r
  PROVE  \E about : TransitionPart(s, r) \in
                      Seq([type : Announced(s, r), about : {about}])
<1>1. CASE Announced(s, r) = {}
  BY <1>1 DEF TransitionPart, Announced, Each
<1>2. ASSUME NEW type \in LifecycleTypes, Announced(s, r) = {type}
      PROVE  \E about : TransitionPart(s, r) \in
                          Seq([type : Announced(s, r), about : {about}])
  <2>1. PICK about : TransitionPart(s, r) = << Event(type, about) >>
    BY <1>2 DEF TransitionPart, Announced, Each
  <2>2. Event(type, about) \in [type : Announced(s, r), about : {about}]
    BY <1>2 DEF Event
  <2> QED BY <2>1, <2>2
<1> QED BY <1>1, <1>2, OneAnnounced

\* Every event of a batch is announced by a move or has a cause.
LEMMA EventsHaveCauses ==
  ASSUME NEW s, NEW r, r.hms \in Seq(HMSTexts)
  PROVE  \A i \in DOMAIN Batch(s, r) :
           \/ Batch(s, r)[i].type \in Announced(s, r)
           \/ Batch(s, r)[i] \in Alerts(s, r)
<1>1. PICK about : TransitionPart(s, r) \in
                     Seq([type : Announced(s, r), about : {about}])
  BY TransitionPartAnnounces
<1> DEFINE T == [type : Announced(s, r), about : {about}]
           S == T \cup Alerts(s, r)
<1>2. \A e \in T : e.type \in Announced(s, r)
  OBVIOUS
<1> HIDE DEF T
<1>3. TransitionPart(s, r) \in Seq(S) /\ AlertPart(s, r) \in Seq(S)
  <2>1. TransitionPart(s, r) \in Seq(T)
    BY <1>1 DEF T
  <2>2. AlertPart(s, r) \in Seq(Alerts(s, r))
    BY AlertPartIsAlerts
  <2>3. T \subseteq S /\ Alerts(s, r) \subseteq S
    OBVIOUS
  <2> HIDE DEF S
  <2> QED BY ONLY <2>1, <2>2, <2>3
<1> HIDE DEF S
<1>4. Batch(s, r) \in Seq(S)
  BY <1>3, ConcatProperties DEF Batch
<1>5. \A i \in DOMAIN Batch(s, r) : Batch(s, r)[i] \in S
  BY <1>4
<1> QED BY <1>2, <1>5 DEF S

\* A new tracker has its type.
LEMMA FreshTrackerIsTracker == FreshTracker \in Tracker
BY DEF FreshTracker, Tracker, States, StateUnknown, NoCode, NoTray

\* The memory that update leaves has its type.
LEMMA UpdatedFits ==
  ASSUME NEW s \in Tracker, NEW r, r.hms \in Seq(HMSTexts),
         r.state \in States, r.code \in Codes \cup {NoCode},
         r.tray \in Trays \cup {NoTray}
  PROVE  Updated(s, r) \in Tracker
<1>1. {r.hms[i] : i \in DOMAIN r.hms} \subseteq HMSTexts
  OBVIOUS
<1>2. Deviates(r) \in BOOLEAN /\ Warned(s, r) \in BOOLEAN
  BY DEF Deviates, Warned
<1> QED BY <1>1, <1>2 DEF Updated, Tracker
=============================================================================
