------------------------ MODULE HandleMessage_proofs ------------------------
(***************************************************************************)
(* The safety properties of HandleMessage for any number of notifiers, any *)
(* batches, cameras and sizes of pictures.  They follow from one inductive *)
(* invariant, HandlerInv: the types, and what each place of the handler    *)
(* says of the batch, the sends, the picture and the refusals.             *)
(***************************************************************************)
EXTENDS HandleMessage, TLAPS, WellFoundedInduction

\* Between two reports nothing is left of the last one.
BetweenReports == pc = "idle" => events = <<>> /\ at = 1 /\ ~snap

\* A failure is logged by a send that has ended, while the others are waited
\* for.
LogsFit ==
  /\ pc # "waiting" => logged = {}
  /\ \A n \in logged : sends[n] # Pending

\* What the capture has read so far, and which camera it reads from.
PictureFits ==
  /\ frame \in [size : Nat, got : Nat, jpeg : BOOLEAN]
  /\ capturing \in {"ffmpeg", "ffmpeg not found"} => camera.rtsp
  /\ capturing \in {"dial"} \cup Reading => ~camera.rtsp
  /\ capturing = "payload" =>
       /\ frame.size <= maxPayloadSize /\ frame.got < frame.size
       /\ frame.jpeg => frame.got >= 2
  /\ capturing = "captured" =>
       /\ frame.got = frame.size /\ frame.size > 0
       /\ ~camera.rtsp => frame.jpeg
       /\ ~camera.rtsp => frame.size \in 2..maxPayloadSize

\* A camera that has refused is not asked again.
RefusalsFit ==
  /\ pc = "capture" => ~snapshotDisabled
  /\ refusals = IF snapshotDisabled THEN 1 ELSE 0

HandlerInv == /\ HandlerTypeOK /\ BetweenReports /\ LogsFit /\ PictureFits
              /\ RefusalsFit /\ NothingLostSilently

\* Outside the wait a send has not begun or is decided as the last wait left
\* it, so every step but those of fanOut keeps LogsFit and NothingLostSilently.
LEMMA SendsKept ==
  ASSUME LogsFit, NothingLostSilently, UNCHANGED <<sends, logged>>,
         pc' = "waiting" <=> pc = "waiting"
  PROVE  LogsFit' /\ NothingLostSilently'
BY DEF LogsFit, NothingLostSilently

LEMMA NoFrameFits == NoFrame \in Frames
BY DEF NoFrame, Frames

LEMMA InvInit == HandlerInit => HandlerInv
<1> SUFFICES ASSUME HandlerInit PROVE HandlerInv
  OBVIOUS
<1>1. HandlerTypeOK
  <2>1. /\ events \in Batches \cup {<<>>} /\ at \in 1..Len(events) + 1
    BY DEF HandlerInit
  <2>0. refusals \in 0..2
    BY DEF HandlerInit
  <2>a. /\ snapshotDisabled \in BOOLEAN /\ snap \in BOOLEAN
        /\ logged \subseteq Notifiers
        /\ pc \in {"idle", "capture", "fanOut", "waiting"} /\ pc # "waiting"
    BY DEF HandlerInit
  <2>b. rtspURL \in URLs \cup {NoURL}
    BY Zenon DEF HandlerInit
  <2>2. DOMAIN sends = Notifiers /\ CameraTypeOK
    BY NoFrameFits DEF HandlerInit, CameraTypeOK
  <2>3. camera \in Cameras /\ (capturing # "off" <=> pc = "capture")
    BY DEF HandlerInit
  <2> QED BY ONLY <2>0, <2>1, <2>2, <2>3, <2>a, <2>b, Zenon DEF HandlerTypeOK
<1>2. PictureFits
  BY DEF HandlerInit, PictureFits, NoFrame, Reading
<1>3. NothingLostSilently
  BY DEF HandlerInit, NothingLostSilently, NotSent
<1>4. BetweenReports /\ LogsFit /\ RefusalsFit
  BY DEF HandlerInit, BetweenReports, LogsFit, RefusalsFit
<1> QED BY <1>1, <1>2, <1>3, <1>4 DEF HandlerInv

-----------------------------------------------------------------------------
(* One lemma per part of the handler. *)

\* A report with events begins a batch, of which nothing has been sent.
LEMMA ReportStep ==
  ASSUME HandlerInv, NEW types \in Batches, NEW url \in URLs \cup {NoURL},
         EventfulReport(types, url)
  PROVE  HandlerInv'
<1> USE DEF HandlerInv, EventfulReport
<1>1. Len(types) \in Nat /\ types \in Seq(Types)
  BY BatchesAssumption
<1>2. HandlerTypeOK'
  BY <1>1 DEF HandlerTypeOK, CameraTypeOK, BetweenReports
<1>3. BetweenReports'
  BY DEF BetweenReports
<1>4. PictureFits'
  BY DEF PictureFits, HandlerTypeOK, Reading
<1>5. RefusalsFit'
  BY DEF RefusalsFit, SnapshotEnabled
<1>6. LogsFit' /\ NothingLostSilently'
  BY SendsKept
<1> QED BY <1>2, <1>3, <1>4, <1>5, <1>6

\* Reading a frame keeps to its announced size, and only a picture that is
\* whole and begins like one ends as captured.
LEMMA CaptureStep ==
  ASSUME HandlerInv, CaptureRuns
  PROVE  HandlerInv'
<1> USE DEF HandlerInv, CaptureRuns, batchVars, cameraVars
<1>a. /\ maxPayloadSize \in Nat
      /\ \A size \in Sizes : size \in Nat
  BY SMT, SizesAssumption DEF maxPayloadSize
<1>b. \A size : SaneSize(size) => size <= maxPayloadSize
  BY DEF SaneSize
<1> DEFINE Kinds == {"dial", "ffmpeg", "captured"} \cup Reading \cup Errors
           FrameFits == /\ capturing' \in Kinds
                        /\ frame' \in Frames
                        /\ PictureFits'
                        /\ capturing \in Kinds
<1>1. FrameFits
  <2> USE <1>a, <1>b DEF PictureFits, HandlerTypeOK, CameraTypeOK, Reading, Errors
  <2>1. CASE \/ CameraDialFails \/ CameraAnswers \/ CameraCloses
             \/ CameraFallsSilent \/ FfmpegMissing
    BY <2>1 DEF CameraDialFails, CameraAnswers, CameraCloses,
                CameraFallsSilent, FfmpegMissing, CaptureEnds
  <2>2. ASSUME NEW size \in Sizes, HeaderArrives(size) PROVE FrameFits
    BY <2>2 DEF HeaderArrives, SaneSize, Frames, NoFrame
  <2>3. ASSUME NEW error \in Errors, NEW got \in Sizes, FfmpegFails(error, got)
        PROVE  FrameFits
    BY <2>3 DEF FfmpegFails, Frames, NoFrame
  <2>4. ASSUME NEW got \in Sizes, NEW jpeg \in BOOLEAN, PayloadArrives(got, jpeg)
        PROVE  FrameFits
    <3>1. /\ capturing = "payload" /\ frame.got < got /\ got <= frame.size
          /\ capturing' = IF got < frame.size THEN "payload"
                          ELSE IF frame'.jpeg THEN "captured" ELSE "other"
      BY <2>4 DEF PayloadArrives, PayloadGrows
    <3>a. PICK b \in BOOLEAN : b = IF frame.jpeg \/ frame.got >= 2 THEN frame.jpeg
                                ELSE jpeg /\ got >= 2
      OBVIOUS
    <3>b. /\ frame \in Frames /\ frame' = [frame EXCEPT !.got = got, !.jpeg = b]
          /\ got \in Nat /\ frame.got \in Nat
      BY <2>4, <3>a DEF PayloadArrives, PayloadGrows
    <3>c. b => got >= 2
      <4>1. (frame.got >= 2 => got >= 2) /\ (frame.jpeg => frame.got >= 2)
        BY <3>b, <3>1
      <4> QED BY <3>a, <4>1, Zenon
    <3>d. /\ frame' \in Frames
          /\ frame'.size = frame.size /\ frame'.got = got /\ frame'.jpeg = b
      BY ONLY <3>b, got \in Sizes, b \in BOOLEAN DEF Frames
    <3>2. /\ frame' \in Frames /\ frame' \in [size : Nat, got : Nat, jpeg : BOOLEAN]
          /\ frame'.size = frame.size /\ frame'.got = got
          /\ frame'.jpeg => got >= 2
      <4>1. frame' \in [size : Nat, got : Nat, jpeg : BOOLEAN]
        BY ONLY <3>d, <1>a DEF Frames
      <4> QED BY ONLY <3>c, <3>d, <4>1, Zenon
    <3>3. got = frame.size /\ frame'.jpeg => frame'.size \in 2..maxPayloadSize
      BY <3>1, <3>2
    <3> QED BY <2>4, <3>1, <3>2, <3>3
  <2>5. ASSUME NEW size \in Sizes, NEW jpeg \in BOOLEAN, FfmpegEnds(size, jpeg)
        PROVE  FrameFits
    BY <2>5 DEF FfmpegEnds, Frames
  <2> QED BY <2>1, <2>2, <2>3, <2>4, <2>5 DEF CameraMoves
<1>2. HandlerTypeOK'
  BY <1>1 DEF HandlerTypeOK, CameraTypeOK, Reading, Errors
<1>3. BetweenReports' /\ RefusalsFit'
  BY DEF BetweenReports, RefusalsFit
<1>4. LogsFit' /\ NothingLostSilently'
  BY SendsKept
<1> QED BY <1>1, <1>2, <1>3, <1>4

\* However a capture ends, the batch goes on; a refusal is counted once.
LEMMA CaptureEndStep ==
  ASSUME HandlerInv,
         CaptureSucceeds \/ \E error \in Errors : CaptureFails(error)
  PROVE  HandlerInv'
<1> USE DEF HandlerInv, cameraVars, batchVars
<1>1. CASE CaptureSucceeds
  <2> USE <1>1 DEF CaptureSucceeds
  <2>1. HandlerTypeOK'
    BY NoFrameFits DEF HandlerTypeOK, CameraTypeOK
  <2>2. PictureFits'
    BY DEF PictureFits, NoFrame, Reading
  <2>3. BetweenReports' /\ RefusalsFit'
    BY DEF BetweenReports, RefusalsFit
  <2> QED BY <2>1, <2>2, <2>3, SendsKept
<1>2. ASSUME NEW error \in Errors, CaptureFails(error) PROVE HandlerInv'
  <2> USE <1>2 DEF CaptureFails
  <2>1. refusals \in 0..2
    BY DEF HandlerTypeOK
  <2>b. \/ refusals' = refusals
        \/ refusals < 2 /\ refusals' = refusals + 1
    OBVIOUS
  <2>a. snapshotDisabled' = (snapshotDisabled \/ SwitchesOff(error))
    OBVIOUS
  <2>2. HandlerTypeOK'
    <3>1. refusals' \in 0..2
      BY ONLY <2>1, <2>b
    <3>2. snapshotDisabled' \in BOOLEAN
      BY ONLY <2>a, HandlerInv DEF HandlerInv, HandlerTypeOK, SwitchesOff
    <3> QED BY <3>1, <3>2, NoFrameFits DEF HandlerTypeOK, CameraTypeOK
  <2>3. PictureFits'
    BY DEF PictureFits, NoFrame, Reading
  <2>4. RefusalsFit'
    <3>1. pc = "capture" /\ pc' = "fanOut" /\ UNCHANGED camera
      OBVIOUS
    <3>2. ~snapshotDisabled /\ refusals = 0
      BY <3>1 DEF RefusalsFit
    <3>3. SwitchesOff(error) <=> error = Hopeless
      BY <3>1 DEF SwitchesOff, Hopeless, PictureFits
    <3>4. CASE error = Hopeless
      <4>1. refusals' = 1
        <5>1. refusals < 2
          BY ONLY <3>2
        <5>2. refusals' = refusals + 1
          BY <5>1, <3>4
        <5> QED BY ONLY <5>2, <3>2
      <4>2. snapshotDisabled'
        BY ONLY <2>a, <3>3, <3>4
      <4> QED BY <3>1, <4>1, <4>2 DEF RefusalsFit
    <3>5. CASE error # Hopeless
      <4>1. ~snapshotDisabled'
        BY ONLY <2>a, <3>2, <3>3, <3>5
      <4> QED BY <3>1, <3>2, <3>5, <4>1 DEF RefusalsFit
    <3> QED BY <3>4, <3>5
  <2>5. BetweenReports'
    BY DEF BetweenReports
  <2> QED BY <2>2, <2>3, <2>4, <2>5, SendsKept
<1> QED BY <1>1, <1>2

\* What may come of a send, seen from the handler: a success is a message
\* taken, unless a redirect hid its loss.
LEMMA OutcomesKnown ==
  ASSUME NEW request, NEW outcome \in Outcomes(request), ~Fails(outcome)
  PROVE  outcome.taken \/ outcome = Redirected
<1>1. CASE outcome = Outcome("2xx", TRUE)
  BY <1>1 DEF Outcome
<1>2. CASE outcome \in {Outcome("5xx", FALSE), Outcome("none", FALSE),
                        Outcome("none", TRUE), Outcome("413", FALSE)}
  BY <1>2 DEF Fails, Outcome
<1> QED BY <1>1, <1>2 DEF Outcomes

\* One goroutine of fanOut ends: only its notifier's send and log change.
LEMMA SendStep ==
  ASSUME HandlerInv, NEW n \in Notifiers, NEW outcome, SendEnds(n, outcome),
         outcome # Pending,
         \/ outcome = Dropped /\ logged' = logged
         \/ Fails(outcome) /\ logged' = logged \cup {n}
         \/ (outcome.taken \/ outcome = Redirected) /\ logged' = logged
  PROVE  HandlerInv'
<1> USE DEF SendEnds, cameraVars, captureVars
<1>1. /\ DOMAIN sends' = Notifiers /\ sends'[n] = outcome
      /\ \A m \in Notifiers \ {n} : sends'[m] = sends[m]
      /\ logged \subseteq Notifiers /\ logged' \subseteq Notifiers
      /\ n \notin logged /\ pc = "waiting"
  BY DEF HandlerInv, HandlerTypeOK, LogsFit
<1>2. HandlerTypeOK'
  BY <1>1 DEF HandlerInv, HandlerTypeOK, CameraTypeOK
<1>3. BetweenReports' /\ RefusalsFit' /\ PictureFits'
  BY DEF HandlerInv, BetweenReports, RefusalsFit, PictureFits
<1>4. LogsFit'
  <2>1. \A m \in logged : sends[m] # Pending
    BY DEF HandlerInv, LogsFit
  <2>2. \A m \in logged' : sends'[m] # Pending
    BY <1>1, <2>1
  <2> QED BY <1>1, <2>2 DEF LogsFit
<1>5. NothingLostSilently'
  <2> SUFFICES ASSUME NEW m \in Notifiers
               PROVE /\ m \in logged' => sends'[m].status # "2xx"
                     /\ sends'[m] \notin {NotSent, Pending, Dropped, Redirected}
                          => sends'[m].taken \/ m \in logged'
    BY DEF NothingLostSilently
  <2>1. CASE m = n
    BY <1>1, <2>1 DEF Fails
  <2>2. CASE m # n
    <3>1. sends'[m] = sends[m] /\ (m \in logged' <=> m \in logged)
      BY <1>1, <2>2
    <3> QED BY <3>1 DEF HandlerInv, NothingLostSilently
  <2> QED BY <2>1, <2>2
<1> QED BY <1>2, <1>3, <1>4, <1>5 DEF HandlerInv

\* The wait of fanOut is over before the next event, and the last event ends
\* the batch.
LEMMA FanOutStep ==
  ASSUME HandlerInv, FanOutStarts \/ FanOutReturns \/ HandlerReturns
  PROVE  HandlerInv'
<1> USE DEF HandlerInv, cameraVars, captureVars
<1>0. Len(events) \in Nat
  <2>1. CASE events \in Batches
    BY ONLY <2>1, BatchesAssumption
  <2>2. CASE events = <<>>
    BY ONLY <2>2
  <2> QED BY <2>1, <2>2 DEF HandlerTypeOK
<1>1. CASE FanOutStarts
  <2> USE <1>1 DEF FanOutStarts
  <2>1. HandlerTypeOK'
    BY DEF HandlerTypeOK, CameraTypeOK
  <2>2. logged = {} /\ sends' = [n \in Notifiers |-> Pending]
    BY DEF LogsFit
  <2>3. BetweenReports' /\ RefusalsFit' /\ PictureFits'
    BY DEF BetweenReports, RefusalsFit, PictureFits
  <2>4. LogsFit' /\ NothingLostSilently'
    BY <2>2 DEF LogsFit, NothingLostSilently
  <2> QED BY <2>1, <2>3, <2>4
<1>2. CASE FanOutReturns
  <2> USE <1>2 DEF FanOutReturns
  <2>1. at' \in 1..Len(events') + 1
    BY <1>0 DEF HandlerTypeOK
  <2>2. HandlerTypeOK'
    BY <2>1 DEF HandlerTypeOK, CameraTypeOK
  <2>3. BetweenReports' /\ RefusalsFit' /\ PictureFits'
    BY DEF BetweenReports, RefusalsFit, PictureFits
  <2>4. LogsFit' /\ NothingLostSilently'
    BY DEF LogsFit, NothingLostSilently
  <2> QED BY <2>2, <2>3, <2>4
<1>3. CASE HandlerReturns
  <2> USE <1>3 DEF HandlerReturns
  <2>1. at' \in 1..Len(events') + 1
    OBVIOUS
  <2>2. HandlerTypeOK'
    BY <2>1 DEF HandlerTypeOK, CameraTypeOK
  <2>3. BetweenReports' /\ RefusalsFit' /\ PictureFits'
    BY DEF BetweenReports, RefusalsFit, PictureFits
  <2>4. LogsFit' /\ NothingLostSilently'
    BY SendsKept
  <2> QED BY <2>2, <2>3, <2>4
<1> QED BY <1>1, <1>2, <1>3

LEMMA InvStep == HandlerInv /\ [HandlerNext]_handlerVars => HandlerInv'
<1> SUFFICES ASSUME HandlerInv, [HandlerNext]_handlerVars PROVE HandlerInv'
  OBVIOUS
<1>1. CASE UNCHANGED handlerVars
  <2> USE <1>1 DEF handlerVars, batchVars, cameraVars, captureVars, HandlerInv
  <2>1. HandlerTypeOK' /\ BetweenReports' /\ PictureFits' /\ RefusalsFit'
    BY DEF HandlerTypeOK, CameraTypeOK, BetweenReports, PictureFits, RefusalsFit
  <2> QED BY <2>1, SendsKept
<1>2. CASE Reports
  BY <1>1, <1>2, ReportStep DEF Reports, QuietReport
<1>3. CASE CaptureRuns
  BY <1>3, CaptureStep
<1>4. CASE CaptureSucceeds \/ \E error \in Errors : CaptureFails(error)
  BY <1>4, CaptureEndStep
<1>5. CASE FanOutStarts \/ FanOutReturns \/ HandlerReturns
  BY <1>5, FanOutStep
<1>6. ASSUME NEW n \in Notifiers, SendFiltered(n) PROVE HandlerInv'
  <2>1. Dropped # Pending
    BY DEF Dropped, Pending, Outcome
  <2> QED BY <1>6, <2>1, SendStep DEF SendFiltered
<1>7. ASSUME NEW n \in Notifiers,
             NEW o \in Outcomes(Request(Service[n], snap)), SendReturns(n, o)
      PROVE  HandlerInv'
  <2>1. o # Pending
    BY DEF Outcomes, Redirected, Outcome, Pending
  <2>2. Fails(o) \/ o.taken \/ o = Redirected
    BY OutcomesKnown
  <2> QED BY <1>7, <2>1, <2>2, SendStep DEF SendReturns
<1> QED
  BY <1>1, <1>2, <1>3, <1>4, <1>5, <1>6, <1>7 DEF HandlerNext, Handling

-----------------------------------------------------------------------------
(* The theorems. *)

LEMMA HandlerAlways == HandlerSpec => []HandlerInv
<1>1. HandlerInv /\ [HandlerNext]_handlerVars => HandlerInv'
  BY InvStep
<1> QED BY InvInit, <1>1, PTL DEF HandlerSpec

\* Type correctness of the handler and of the capture in it.
THEOREM HandlerTypeCorrect == HandlerSpec => []HandlerTypeOK
<1>1. HandlerInv => HandlerTypeOK
  BY DEF HandlerInv
<1> QED BY <1>1, HandlerAlways, PTL

\* CHANGELOG 1.2.2 holds: a camera that refuses the handshake is asked once in
\* the life of the printer, whatever reports and errors follow, and without a
\* refusal the snapshots of the chamber-image port stay on.
THEOREM RefusedCamerasAreNotAskedAgain == HandlerSpec => []RefusedOnce
<1>1. HandlerInv => RefusedOnce
  <2> SUFFICES ASSUME RefusalsFit PROVE RefusedOnce
    BY DEF HandlerInv
  <2> QED BY DEF RefusalsFit, RefusedOnce
<1> QED BY <1>1, HandlerAlways, PTL

\* The log misses no message that a service did not take, but those behind a
\* redirect, and blames no filter for one.
THEOREM LossesAreLogged == HandlerSpec => []NothingLostSilently
<1>1. HandlerInv => NothingLostSilently
  BY DEF HandlerInv
<1> QED BY <1>1, HandlerAlways, PTL

\* What is attached is a picture that was read to its announced end, in
\* however many parts, whatever size the camera announces and wherever it
\* breaks off; of ffmpeg's output, one that ffmpeg ended by itself.
THEOREM OnlyWholePicturesAreSent == HandlerSpec => PicturesAreWhole
<1> DEFINE Whole == snap' /\ ~snap =>
                      /\ frame.got = frame.size /\ frame.size > 0
                      /\ ~camera.rtsp => /\ frame.jpeg
                                         /\ frame.size \in 2..maxPayloadSize
<1>1. ASSUME HandlerInv, [HandlerNext]_handlerVars PROVE [Whole]_handlerVars
  <2>1. CASE CaptureSucceeds
    BY <1>1, <2>1 DEF HandlerInv, PictureFits, CaptureSucceeds
  <2>2. CASE HandlerReturns
    BY <2>2 DEF HandlerReturns
  <2>3. CASE UNCHANGED snap
    BY <2>3
  <2>4. CASE Reports
    BY <2>3, <2>4 DEF Reports, QuietReport, EventfulReport, handlerVars, batchVars
  <2>5. CASE Handling
    BY <2>1, <2>2, <2>3, <2>5
       DEF Handling, CaptureRuns, CaptureFails, FanOutStarts, SendFiltered,
           SendReturns, SendEnds, FanOutReturns, batchVars
  <2> QED BY <1>1, <2>4, <2>5 DEF HandlerNext
<1>2. HandlerSpec => [][Whole]_handlerVars
  BY <1>1, HandlerAlways, PTL DEF HandlerSpec
<1>3. Whole <=> (snap' /\ ~snap =>
         /\ frame.got = frame.size /\ frame.size > 0
         /\ ~camera.rtsp => frame.jpeg /\ frame.size \in 2..maxPayloadSize)
  BY Zenon
<1> QED BY <1>2, <1>3, PTL DEF PicturesAreWhole

-----------------------------------------------------------------------------
(* Induction over the events of a batch, in the form that the provers      *)
(* take: over a set; and a function that is defined step by step exists.   *)

\* A set of natural numbers that is not empty has a least element.
LEMMA LeastNatural ==
  ASSUME NEW T, T \subseteq Nat, T # {}
  PROVE  \E x \in T : \A y \in T : x <= y
<1>1. \E x \in T : \A y \in T : ~(<<y, x>> \in OpToRel(<, Nat))
  BY NatLessThanWellFounded, WFMin
<1>2. PICK x \in T : \A y \in T : ~(y < x)
  BY <1>1, Zenon DEF OpToRel
<1> QED BY <1>2

\* A set that has 0, and with each number the next, has them all.
LEMMA SetInduction ==
  ASSUME NEW S, 0 \in S, \A n \in Nat : n \in S => n + 1 \in S
  PROVE  Nat \subseteq S
<1> DEFINE T == Nat \ S
<1>1. SUFFICES ASSUME T # {} PROVE FALSE
  OBVIOUS
<1>2. PICK x \in T : \A y \in T : x <= y
  BY <1>1, LeastNatural
<1>3. x \in Nat /\ x # 0 /\ x - 1 \in Nat /\ ~(x <= x - 1)
  OBVIOUS
<1>4. x - 1 \in S
  BY <1>2, <1>3
<1>5. x - 1 + 1 = x
  BY <1>3
<1> QED BY <1>3, <1>4, <1>5

\* ... and the same up to a bound.
LEMMA InductionUpTo ==
  ASSUME NEW n \in Nat, NEW S, 0 \in S,
         \A i \in 1..n : i - 1 \in S => i \in S
  PROVE  0..n \subseteq S
<1> DEFINE T == {i \in Nat : i <= n => i \in S}
<1>1. \A i \in Nat : i \in T => i + 1 \in T
  <2>1. ASSUME NEW i \in Nat, i \in T, i + 1 <= n PROVE i + 1 \in S
    <3>1. i + 1 \in 1..n /\ i + 1 - 1 = i /\ i \in S
      BY <2>1
    <3> QED BY <3>1
  <2> QED BY <2>1
<1>2. Nat \subseteq T
  <2> HIDE DEF T
  <2>1. 0 \in T
    BY DEF T
  <2> QED BY <1>1, <2>1, SetInduction
<1> QED BY <1>2

\* The functions that start with base and go on as step says.
Courses(X, base, n, step) ==
  {f \in [0..n -> X] :
     f[0] = base /\ \A i \in 1..n : f[i] = step[i][f[i - 1]]}

\* There is such a function.
LEMMA StepByStep ==
  ASSUME NEW X, NEW base \in X, NEW n \in Nat, NEW step \in [1..n -> [X -> X]]
  PROVE  Courses(X, base, n, step) # {}
<1> DEFINE Good(f, m) == \A i \in 0..m :
                            f[i] = IF i = 0 THEN base ELSE step[i][f[i - 1]]
           S == {m \in Nat : m > n \/ \E f \in [0..m -> X] : Good(f, m)}
<1>1. 0 \in S
  <2> DEFINE f == [i \in 0..0 |-> base]
  <2>1. f \in [0..0 -> X] /\ Good(f, 0)
    OBVIOUS
  <2> QED BY <2>1
<1>2. ASSUME NEW m \in Nat, m \in S PROVE m + 1 \in S
  <2>1. CASE m + 1 > n
    BY <2>1
  <2>2. CASE m + 1 <= n
    <3>1. PICK f \in [0..m -> X] : Good(f, m)
      BY <1>2, <2>2
    <3> DEFINE g == [i \in 0..(m + 1) |->
                       IF i = m + 1 THEN step[m + 1][f[m]] ELSE f[i]]
    <3>2. f[m] \in X /\ m + 1 \in 1..n /\ step[m + 1][f[m]] \in X
      BY <2>2
    <3>3. g \in [0..(m + 1) -> X]
      BY <3>2
    <3>4. ASSUME NEW i \in 0..(m + 1)
          PROVE  g[i] = IF i = 0 THEN base ELSE step[i][g[i - 1]]
      <4>1. CASE i = m + 1
        BY <4>1
      <4>2. CASE i # m + 1 /\ i # 0
        <5>1. i \in 0..m /\ i - 1 \in 0..m /\ i - 1 \in 0..(m + 1) /\ i - 1 # m + 1
          BY <4>2
        <5>2. g[i] = f[i] /\ g[i - 1] = f[i - 1]
          BY <5>1
        <5> QED BY <4>2, <5>1, <5>2, <3>1
      <4>3. CASE i = 0
        BY <4>3, <3>1
      <4> QED BY <4>1, <4>2, <4>3
    <3>5. \E h \in [0..(m + 1) -> X] : Good(h, m + 1)
      <4> HIDE DEF g
      <4> QED BY <3>3, <3>4
    <3> QED BY <3>5
  <2> QED BY <2>1, <2>2
<1>3. Nat \subseteq S
  <2> HIDE DEF S
  <2> QED BY <1>1, <1>2, SetInduction
<1>4. PICK f \in [0..n -> X] : Good(f, n)
  BY <1>3
<1> QED BY <1>4 DEF Courses

-----------------------------------------------------------------------------
(* The queues of the notifiers. *)

\* What a notifier wants of the last k types of a batch is what it wants of
\* the last k - 1, behind the one before them if it wants that.
LEMMA WantedStepwise ==
  ASSUME NEW types \in Seq(Types), NEW W
  PROVE  /\ Wanted(types, W) \in [0..Len(types) -> Seq(Types)]
         /\ Wanted(types, W)[0] = <<>>
         /\ \A k \in 1..Len(types) :
              Wanted(types, W)[k]
                = Before(types[Len(types) + 1 - k], W, Wanted(types, W)[k - 1])
<1>1. PICK X : X = Seq(Types)
  OBVIOUS
<1>2. Len(types) \in Nat /\ <<>> \in X
  BY <1>1
<1>3. ASSUME NEW k \in 1..Len(types), NEW x \in X
      PROVE  Before(types[Len(types) + 1 - k], W, x) \in X
  <2>1. types[Len(types) + 1 - k] \in Types
    BY <1>2
  <2> QED BY <1>1, <2>1 DEF Before
<1>4. PICK step : step = [k \in 1..Len(types) |->
                     [x \in X |-> Before(types[Len(types) + 1 - k], W, x)]]
  OBVIOUS
<1>5. step \in [1..Len(types) -> [X -> X]]
  <2>1. ASSUME NEW k \in 1..Len(types)
        PROVE  [x \in X |-> Before(types[Len(types) + 1 - k], W, x)] \in [X -> X]
    BY <1>3
  <2>2. [k \in 1..Len(types) |->
           [x \in X |-> Before(types[Len(types) + 1 - k], W, x)]]
          \in [1..Len(types) -> [X -> X]]
    BY <2>1, Zenon
  <2> QED BY <1>4, <2>2, Zenon
<1>6. PICK f \in [0..Len(types) -> X] :
        f[0] = <<>> /\ \A k \in 1..Len(types) : f[k] = step[k][f[k - 1]]
  <2>1. Courses(X, <<>>, Len(types), step) # {}
    BY <1>2, <1>5, StepByStep, Zenon
  <2> QED BY <2>1 DEF Courses
<1>7. ASSUME NEW k \in 1..Len(types)
      PROVE  f[k] = Before(types[Len(types) + 1 - k], W, f[k - 1])
  <2>1. k - 1 \in 0..Len(types)
    BY <1>2
  <2> QED BY <1>4, <1>6, <2>1
<1>8. f = [k \in 0..Len(types) |->
             IF k = 0 THEN <<>>
             ELSE Before(types[Len(types) + 1 - k], W, f[k - 1])]
  BY <1>2, <1>6, <1>7
<1>9. Wanted(types, W)
        = [k \in 0..Len(types) |->
             IF k = 0 THEN <<>>
             ELSE Before(types[Len(types) + 1 - k], W, Wanted(types, W)[k - 1])]
  BY <1>8, Zenon DEF Wanted
<1>10. PICK w : w = Wanted(types, W)
  OBVIOUS
<1>11. w = [k \in 0..Len(types) |->
              IF k = 0 THEN <<>>
              ELSE Before(types[Len(types) + 1 - k], W, w[k - 1])]
  BY <1>9, <1>10, Zenon
<1>12. w[0] = <<>> /\ \A k \in 1..Len(types) :
                        w[k] = Before(types[Len(types) + 1 - k], W, w[k - 1])
  BY <1>2, <1>11
<1>13. w \in [0..Len(types) -> X]
  <2> DEFINE S == {k \in 0..Len(types) : w[k] \in X}
  <2>1. 0 \in S
    BY <1>2, <1>12
  <2>2. ASSUME NEW k \in 1..Len(types), k - 1 \in S PROVE k \in S
    BY <1>2, <1>3, <1>12, <2>2
  <2>3. 0..Len(types) \subseteq S
    <3> HIDE DEF S
    <3> QED BY <1>2, <2>1, <2>2, InductionUpTo
  <2> QED BY <1>11, <2>3
<1> QED BY <1>1, <1>10, <1>12, <1>13

\* The rest of a sequence that begins with t.
LEMMA TailOfBefore ==
  ASSUME NEW S, NEW t \in S, NEW x \in Seq(S), NEW y, y = <<t>> \o x
  PROVE  y # <<>> /\ Tail(y) = x
<1>1. PICK l : l = <<t>>
  OBVIOUS
<1>2. l \in Seq(S) /\ Len(l) = 1
  BY <1>1
<1>3. y = l \o x /\ y \in Seq(S) /\ Len(y) = 1 + Len(x)
  BY <1>1, <1>2
<1>4. y # <<>>
  BY <1>3
<1>5. Tail(y) \in Seq(S) /\ Len(Tail(y)) = Len(x)
  BY <1>3, <1>4
<1>6. ASSUME NEW j \in 1..Len(x) PROVE Tail(y)[j] = x[j]
  <2>1. Tail(y)[j] = y[j + 1]
    BY <1>3, <1>4, <1>5
  <2>2. y[j + 1] = x[j]
    BY <1>2, <1>3
  <2> QED BY <2>1, <2>2
<1>7. Tail(y) = x
  BY <1>5, <1>6
<1> QED BY <1>4, <1>7

\* What is wanted from the i-th type on begins with it or not.
LEMMA WantedFrom ==
  ASSUME NEW types \in Seq(Types), NEW W, NEW i \in 1..Len(types),
         NEW w, w = Wanted(types, W)
  PROVE  /\ types[i] \in W => /\ w[Len(types) + 1 - i] # <<>>
                              /\ Tail(w[Len(types) + 1 - i]) = w[Len(types) - i]
         /\ types[i] \notin W => w[Len(types) + 1 - i] = w[Len(types) - i]
<1>1. PICK k : k = Len(types) + 1 - i
  OBVIOUS
<1>2. k \in 1..Len(types) /\ k - 1 \in 0..Len(types) /\ k - 1 = Len(types) - i
        /\ Len(types) + 1 - k = i
  BY <1>1
<1>3. w[k - 1] \in Seq(Types) /\ w[k] = Before(types[i], W, w[k - 1])
  BY <1>2, WantedStepwise
<1>4. types[i] \in Types
  OBVIOUS
<1>5. CASE types[i] \in W
  <2>1. w[k] = <<types[i]>> \o w[k - 1]
    BY <1>3, <1>5 DEF Before
  <2>2. w[k] # <<>> /\ Tail(w[k]) = w[k - 1]
    BY <1>3, <1>4, <2>1, TailOfBefore
  <2> QED BY <1>1, <1>2, <1>5, <2>2
<1>6. CASE types[i] \notin W
  BY <1>1, <1>2, <1>3, <1>6 DEF Before
<1> QED BY <1>5, <1>6

\* What the invariant says of the batch.
LEMMA BatchTyped ==
  ASSUME HandlerInv
  PROVE  /\ events \in Seq(Types) /\ Len(events) \in Nat /\ at \in Nat
         /\ at \in 1..(Len(events) + 1)
         /\ pc = "waiting" => at \in 1..Len(events)
<1>1. events \in Seq(Types)
  <2>1. events \in Batches \/ events = <<>>
    BY DEF HandlerInv, HandlerTypeOK
  <2>2. CASE events \in Batches
    BY ONLY <2>2, BatchesAssumption
  <2>3. CASE events = <<>>
    BY ONLY <2>3
  <2> QED BY ONLY <2>1, <2>2, <2>3
<1>2. Len(events) \in Nat
  BY <1>1
<1> QED BY <1>1, <1>2 DEF HandlerInv, HandlerTypeOK

\* As long as the place in the batch stays, nobody is owed anything else.
LEMMA StaysOwed ==
  ASSUME UNCHANGED <<events, at>>,
         \A n \in Notifiers :
           (pc = "waiting" /\ sends[n] # Pending)
             <=> (pc' = "waiting" /\ sends'[n] # Pending)
  PROVE  Unsent' = Unsent
<1>1. ASSUME NEW n \in Notifiers PROVE Owed(n)' = Owed(n)
  BY DEF Owed, AcceptedTypes, Accepts
<1> QED BY <1>1, Zenon DEF Unsent

\* A report with events puts what each notifier wants of them in its queue.
LEMMA ReportPublishes ==
  ASSUME HandlerInv, NEW types \in Batches, NEW url, EventfulReport(types, url)
  PROVE  Queues!Publish(types)
<1>1. /\ events = <<>> /\ at = 1 /\ events' = types /\ at' = 1
      /\ pc # "waiting" /\ pc' # "waiting"
  BY DEF EventfulReport, HandlerInv, BetweenReports
<1>2. types \in Seq(Types)
  BY BatchesAssumption
<1>3. ASSUME NEW n \in Notifiers
      PROVE  Owed(n)' = Owed(n) \o Wanted(types, AcceptedTypes(n))[Len(types)]
  <2>1. PICK W : W = AcceptedTypes(n)
    OBVIOUS
  <2>2. AcceptedTypes(n)' = W
    BY <2>1 DEF AcceptedTypes, Accepts
  <2>3. Owed(n) = Wanted(<<>>, W)[Len(<<>>) + 1 - 1]
    BY <1>1, <2>1, Zenon DEF Owed
  <2>4. Owed(n)' = Wanted(types, W)[Len(types) + 1 - 1]
    BY <1>1, <2>2, Zenon DEF Owed
  <2>5. PICK w : w = Wanted(types, W)
    OBVIOUS
  <2>6. w[Len(types)] \in Seq(Types)
    BY <1>2, <2>5, WantedStepwise
  <2>7. Owed(n)' = w[Len(types)]
    BY <1>2, <2>4, <2>5
  <2>8. Owed(n) = <<>>
    <3>1. PICK v : v = Wanted(<<>>, W)
      OBVIOUS
    <3>2. <<>> \in Seq(Types) /\ Len(<<>>) + 1 - 1 = 0
      OBVIOUS
    <3>3. v[0] = <<>>
      BY <3>1, <3>2, WantedStepwise
    <3> QED BY <2>3, <3>1, <3>2, <3>3
  <2> QED BY <2>1, <2>5, <2>6, <2>7, <2>8
<1> DEFINE Wants == [n \in Notifiers |-> AcceptedTypes(n)]
<1>4. \A n \in Notifiers :
        Owed(n)' = Unsent[n] \o Wanted(types, Wants[n])[Len(types)]
  BY <1>3 DEF Unsent
<1>5. Unsent' = [n \in Notifiers |->
                   Unsent[n] \o Wanted(types, Wants[n])[Len(types)]]
  BY <1>4, Zenon DEF Unsent
<1>6. \A W : Queues!Wanted(types, W) = Wanted(types, W)
  BY Zenon DEF Queues!Wanted, Queues!Before, Wanted, Before
<1>7. \A n \in Notifiers :
        Queues!Accepted(n, types) = Wanted(types, Wants[n])[Len(types)]
  BY <1>6, Zenon DEF Queues!Accepted
<1> QED BY <1>5, <1>7, Zenon DEF Queues!Publish

\* A send takes what the notifier is owed first from its queue.
LEMMA SendTakes ==
  ASSUME HandlerInv, NEW n \in Notifiers,
         NEW outcome, outcome # Pending, SendReturns(n, outcome)
  PROVE  Queues!Send(n)
<1>1. /\ pc = "waiting" /\ pc' = "waiting" /\ sends[n] = Pending
      /\ sends' = [sends EXCEPT ![n] = outcome]
      /\ UNCHANGED <<events, at>> /\ Accepts(n, events[at])
  BY DEF SendReturns, SendEnds
<1>2. sends'[n] # Pending /\ \A m \in Notifiers \ {n} : sends'[m] = sends[m]
  BY <1>1 DEF HandlerInv, HandlerTypeOK
<1>3. events \in Seq(Types) /\ Len(events) \in Nat /\ at \in 1..Len(events)
  BY <1>1, BatchTyped
<1>4. PICK W : W = AcceptedTypes(n)
  OBVIOUS
<1>5. PICK w : w = Wanted(events, W)
  OBVIOUS
<1>6. W' = W /\ AcceptedTypes(n)' = W
  BY <1>4 DEF AcceptedTypes, Accepts
<1>7. Owed(n) = w[Len(events) + 1 - at]
  BY <1>1, <1>4, <1>5, Zenon DEF Owed
<1>8. Owed(n)' = w[Len(events) + 1 - (at + 1)]
  BY <1>1, <1>2, <1>5, <1>6, Zenon DEF Owed
<1>9. Len(events) + 1 - (at + 1) = Len(events) - at
  BY <1>3
<1>10. events[at] \in W
  <2>1. events[at] \in Types
    BY <1>3
  <2> QED BY <1>1, <1>4, <2>1, Zenon DEF AcceptedTypes
<1>11. Owed(n) # <<>> /\ Owed(n)' = Tail(Owed(n))
  <2>1. w[Len(events) + 1 - at] # <<>>
          /\ Tail(w[Len(events) + 1 - at]) = w[Len(events) - at]
    BY <1>3, <1>5, <1>10, WantedFrom
  <2> QED BY <1>7, <1>8, <1>9, <2>1
<1>12. ASSUME NEW m \in Notifiers \ {n} PROVE Owed(m)' = Owed(m)
  BY <1>1, <1>2 DEF Owed, AcceptedTypes, Accepts
<1>13. Unsent' = [Unsent EXCEPT ![n] = Tail(Unsent[n])] /\ Unsent[n] # <<>>
  BY <1>11, <1>12 DEF Unsent
<1> QED BY <1>13, Zenon DEF Queues!Send

\* One whose filter does not accept the event was not owed it.
LEMMA FilterTakesNothing ==
  ASSUME HandlerInv, NEW n \in Notifiers, SendFiltered(n)
  PROVE  Unsent' = Unsent
<1>1. /\ pc = "waiting" /\ pc' = "waiting" /\ sends[n] = Pending
      /\ sends' = [sends EXCEPT ![n] = Dropped] /\ Dropped # Pending
      /\ UNCHANGED <<events, at>> /\ ~Accepts(n, events[at])
  BY DEF SendFiltered, SendEnds, Dropped, Pending, Outcome
<1>2. sends'[n] # Pending /\ \A m \in Notifiers \ {n} : sends'[m] = sends[m]
  BY <1>1 DEF HandlerInv, HandlerTypeOK
<1>3. events \in Seq(Types) /\ Len(events) \in Nat /\ at \in 1..Len(events)
  BY <1>1, BatchTyped
<1>4. PICK W : W = AcceptedTypes(n)
  OBVIOUS
<1>5. PICK w : w = Wanted(events, W)
  OBVIOUS
<1>6. AcceptedTypes(n)' = W
  BY <1>4 DEF AcceptedTypes, Accepts
<1>7. Owed(n) = w[Len(events) + 1 - at]
  BY <1>1, <1>4, <1>5, Zenon DEF Owed
<1>8. Owed(n)' = w[Len(events) + 1 - (at + 1)]
  BY <1>1, <1>2, <1>5, <1>6, Zenon DEF Owed
<1>9. Len(events) + 1 - (at + 1) = Len(events) - at
  BY <1>3
<1>10. events[at] \notin W
  BY <1>1, <1>4, Zenon DEF AcceptedTypes
<1>11. Owed(n)' = Owed(n)
  BY <1>3, <1>5, <1>7, <1>8, <1>9, <1>10, WantedFrom
<1>12. ASSUME NEW m \in Notifiers \ {n} PROVE Owed(m)' = Owed(m)
  BY <1>1, <1>2 DEF Owed, AcceptedTypes, Accepts
<1>13. \A m \in Notifiers : Owed(m)' = Owed(m)
  BY <1>11, <1>12
<1> QED BY <1>13, Zenon DEF Unsent

\* The wait of fanOut and its end owe nobody anything new, and a batch ends
\* when nobody is owed anything of it.
LEMMA FanOutKeepsQueues ==
  ASSUME HandlerInv, FanOutStarts \/ FanOutReturns \/ HandlerReturns
  PROVE  Unsent' = Unsent
<1>1. CASE FanOutStarts
  <2>1. /\ pc # "waiting" /\ UNCHANGED <<events, at>>
        /\ \A n \in Notifiers : sends'[n] = Pending
    BY <1>1 DEF FanOutStarts
  <2> QED BY <2>1, StaysOwed
<1>2. CASE FanOutReturns
  <2>1. /\ pc = "waiting" /\ pc' # "waiting" /\ events' = events /\ at' = at + 1
        /\ \A n \in Notifiers : sends[n] # Pending
    BY <1>2 DEF FanOutReturns, AllSent
  <2>2. ASSUME NEW n \in Notifiers PROVE Owed(n)' = Owed(n)
    BY <2>1 DEF Owed, AcceptedTypes, Accepts
  <2> QED BY <2>2, Zenon DEF Unsent
<1>3. CASE HandlerReturns
  <2>1. /\ pc # "waiting" /\ pc' # "waiting" /\ events' = <<>> /\ at' = 1
        /\ at > Len(events)
    BY <1>3 DEF HandlerReturns
  <2>2. events \in Seq(Types) /\ Len(events) \in Nat /\ Len(events) + 1 - at = 0
    BY <2>1, BatchTyped
  <2>3. ASSUME NEW n \in Notifiers PROVE Owed(n)' = Owed(n)
    <3>1. PICK W : W = AcceptedTypes(n)
      OBVIOUS
    <3>2. AcceptedTypes(n)' = W
      BY <3>1 DEF AcceptedTypes, Accepts
    <3>3. Owed(n) = Wanted(events, W)[Len(events) + 1 - at]
      BY <2>1, <3>1, Zenon DEF Owed
    <3>4. Owed(n)' = Wanted(<<>>, W)[Len(<<>>) + 1 - 1]
      BY <2>1, <3>2, Zenon DEF Owed
    <3>5. <<>> \in Seq(Types) /\ Len(<<>>) + 1 - 1 = 0
      OBVIOUS
    <3>6. Wanted(<<>>, W)[0] = <<>> /\ Wanted(events, W)[0] = <<>>
      BY <2>2, <3>5, WantedStepwise, Zenon
    <3> QED BY <2>2, <3>3, <3>4, <3>5, <3>6, Zenon
  <2> QED BY <2>3, Zenon DEF Unsent
<1> QED BY <1>1, <1>2, <1>3

\* Every step of the handler is a step of the queues or leaves them alone.
LEMMA QueueStep ==
  ASSUME HandlerInv, [HandlerNext]_handlerVars
  PROVE  [Queues!QueuesNext]_Unsent
<1>1. CASE UNCHANGED handlerVars
  <2>1. UNCHANGED <<events, at, pc, sends>>
    BY <1>1 DEF handlerVars, batchVars
  <2> QED BY <2>1, StaysOwed
<1>2. ASSUME NEW types \in Batches, NEW url, EventfulReport(types, url)
      PROVE  Queues!QueuesNext
  BY <1>2, ReportPublishes, Zenon DEF Queues!QueuesNext
<1>3. CASE \/ CaptureRuns \/ CaptureSucceeds
           \/ \E error \in Errors : CaptureFails(error)
  <2>1. /\ UNCHANGED <<events, at, sends>>
        /\ pc = "waiting" <=> pc' = "waiting"
    BY <1>3 DEF CaptureRuns, CaptureSucceeds, CaptureFails, batchVars
  <2> QED BY <2>1, StaysOwed
<1>4. CASE FanOutStarts \/ FanOutReturns \/ HandlerReturns
  BY <1>4, FanOutKeepsQueues
<1>5. ASSUME NEW n \in Notifiers, SendFiltered(n) PROVE Unsent' = Unsent
  BY <1>5, FilterTakesNothing
<1>6. ASSUME NEW n \in Notifiers,
             NEW o \in Outcomes(Request(Service[n], snap)), SendReturns(n, o)
      PROVE  Queues!QueuesNext
  <2>1. o # Pending
    BY DEF Outcomes, Redirected, Outcome, Pending
  <2> QED BY <1>6, <2>1, SendTakes, Zenon DEF Queues!QueuesNext
<1>7. CASE Reports
  <2>1. CASE QuietReport
    BY <1>1, <2>1 DEF QuietReport
  <2>2. CASE ~QuietReport
    BY <1>2, <1>7, <2>2, Zenon DEF Reports
  <2> QED BY <2>1, <2>2
<1>8. CASE Handling
  BY <1>3, <1>4, <1>5, <1>6, <1>8, Zenon DEF Handling
<1> QED BY <1>1, <1>7, <1>8 DEF HandlerNext

\* For any notifiers, filters and batches, the loop over the batch and the
\* goroutines of fanOut are one queue per notifier (printer.go:264-277,
\* 375-395): no event is skipped, repeated or overtaken.
THEOREM HandlerImplementsQueues == HandlerSpec => ImplementsQueues
<1>1. HandlerInit => Queues!QueuesInit
  <2> SUFFICES ASSUME HandlerInit PROVE Queues!QueuesInit
    OBVIOUS
  <2>1. events = <<>> /\ at = 1 /\ pc # "waiting"
    BY DEF HandlerInit
  <2>2. ASSUME NEW n \in Notifiers PROVE Owed(n) = <<>>
    <3>1. Owed(n) = Wanted(<<>>, AcceptedTypes(n))[Len(<<>>) + 1 - 1]
      BY <2>1, Zenon DEF Owed
    <3>2. <<>> \in Seq(Types) /\ Len(<<>>) + 1 - 1 = 0
      OBVIOUS
    <3>3. Wanted(<<>>, AcceptedTypes(n))[0] = <<>>
      BY <3>2, WantedStepwise, Zenon
    <3> QED BY <3>1, <3>2, <3>3, Zenon
  <2> QED BY <2>2, Zenon DEF Queues!QueuesInit, Unsent
<1>2. HandlerInv /\ [HandlerNext]_handlerVars => [Queues!QueuesNext]_Unsent
  BY QueueStep
<1> QED
  BY <1>1, <1>2, HandlerAlways, PTL
     DEF HandlerSpec, ImplementsQueues, Queues!QueuesSpec
=============================================================================
