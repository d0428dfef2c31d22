---------------------------- MODULE Printer_proofs ----------------------------
(***************************************************************************)
(* What holds of a whole printer for any number of clients, notifiers and  *)
(* batches.  Every step of the printer is a step or a stutter of each of   *)
(* its parts, so that what is proved of a part holds of the whole; and     *)
(* what no part can say alone: nothing is sent after Stop, and the parts   *)
(* of the state fit each other.                                            *)
(***************************************************************************)
EXTENDS Printer, TLAPS

(* What becomes of the waits in any series of failures, for every delay,   *)
(* cap and integer width: also past the attempt at which the product of    *)
(* backoff no longer fits.                                                 *)

\* What one computation of the delay yields (backoff, printer.go:424-429):
\* never more than the cap, ...
LEMMA DelaysAreCapped ==
  ASSUME BackoffTypeOK, NEW f \in 1..MaxFactor, NEW d \in Delays(f)
  PROVE  d \in Int /\ d <= Cap
<1>1. /\ base \in Int /\ Cap \in Nat /\ MaxDuration \in Nat /\ f \in Nat
      /\ base * f \in Int
  BY BackoffAssumption DEF BackoffTypeOK, MinDuration
<1>2. PICK c \in Converted(base * f) : d = Capped(c)
  BY DEF Delays
<1>3. c \in Int
  BY <1>1, <1>2 DEF Converted, MinDuration
<1> QED BY <1>1, <1>2, <1>3 DEF Capped

\* ... and as long as it fits, the product itself.
LEMMA DelaysAreProducts ==
  ASSUME BackoffTypeOK, NEW f \in 1..MaxFactor, NEW d \in Delays(f),
         base * f \in MinDuration..MaxDuration
  PROVE  d = Capped(base * f)
<1>1. Converted(base * f) = {base * f}
  BY DEF Converted
<1> QED BY <1>1 DEF Delays

\* A product is not less than a positive delay.
LEMMA ProductsGrow ==
  ASSUME BackoffTypeOK, NEW f \in 1..MaxFactor, base > 0
  PROVE  base * f \in Nat /\ base <= base * f
<1>1. base \in Nat /\ MaxFactor \in Nat
  BY BackoffAssumption DEF BackoffTypeOK, MinDuration
<1>2. PICK j \in Nat : f = 1 + j
  <2>1. f - 1 \in Nat /\ f = 1 + (f - 1)
    BY <1>1
  <2> QED BY <2>1
<1>3. base * j \in Nat /\ base * f = base + base * j
  BY <1>1, <1>2
<1> QED BY <1>1, <1>3

\* Type correctness of the waits (the local variables of runLoop).
THEOREM BackoffTypeCorrect == BackoffSpec => []BackoffTypeOK
<1> USE BackoffAssumption DEF BackoffTypeOK
<1>1. BackoffInit => BackoffTypeOK
  BY DEF BackoffInit
<1>2. BackoffTypeOK /\ [BackoffNext]_backoffVars => BackoffTypeOK'
  <2> SUFFICES ASSUME BackoffTypeOK, [BackoffNext]_backoffVars
               PROVE  BackoffTypeOK'
    OBVIOUS
  <2>1. \A f \in 1..MaxFactor : Delays(f) \subseteq Int
    BY DEF Delays, Converted, Capped, MinDuration
  <2>2. CASE ConnectFails
    BY <2>1, <2>2 DEF ConnectFails
  <2>3. CASE RetryWaitEnds
    BY <2>3 DEF RetryWaitEnds
  <2>4. CASE Connects
    BY <2>4 DEF Connects
  <2>5. CASE SessionEnds
    BY <2>1, <2>5 DEF SessionEnds
  <2>6. CASE RejoinWaitEnds
    BY <2>6 DEF RejoinWaitEnds
  <2>7. CASE UNCHANGED backoffVars
    BY <2>7 DEF backoffVars
  <2> QED BY <2>2, <2>3, <2>4, <2>5, <2>6, <2>7 DEF BackoffNext
<1> QED BY <1>1, <1>2, PTL DEF BackoffSpec

\* What a wait was set to, and that attempt counts only failures to connect.
Growing ==
  /\ phase \in {"retryWait", "rejoinWait"} => delay <= Cap
  /\ phase = "retryWait" /\ Fits => delay = Capped(base * factor)
  /\ phase = "connecting" /\ factor > 1 /\ Fits => delay <= Capped(base * factor)
  /\ phase \in {"session", "rejoinWait"} => factor = 1
  /\ phase = "rejoinWait" => delay = Capped(base)

\* The wait after a failed attempt, and the one after a session.
LEMMA WaitsAreSet ==
  ASSUME BackoffTypeOK, Growing
  PROVE  /\ ConnectFails => /\ delay' <= Cap
                            /\ Fits => delay' = Capped(base * factor)
         /\ SessionEnds => delay' <= Cap /\ delay' = Capped(base)
<1>1. /\ factor \in 1..MaxFactor /\ 1 \in 1..MaxFactor /\ base \in Int
      /\ base \in MinDuration..MaxDuration /\ MaxDuration \in Nat
      /\ MinDuration \in Int /\ MinDuration <= 0
  BY BackoffAssumption DEF BackoffTypeOK, MinDuration
<1>2. ASSUME ConnectFails, Fits PROVE delay' = Capped(base * factor)
  <2>1. base * factor \in Nat
    BY <1>1, <1>2, ProductsGrow DEF Fits
  <2>2. base * factor \in MinDuration..MaxDuration
    BY <1>1, <1>2, <2>1 DEF Fits
  <2> QED BY <1>1, <1>2, <2>2, DelaysAreProducts DEF ConnectFails
<1>3. ASSUME SessionEnds PROVE delay' = Capped(base)
  <2>1. base * 1 = base
    BY <1>1
  <2>2. base * 1 \in MinDuration..MaxDuration
    BY <1>1, <2>1
  <2>3. delay' = Capped(base * 1)
    BY <1>1, <1>3, <2>2, DelaysAreProducts DEF SessionEnds
  <2> QED BY <2>1, <2>3
<1>4. ConnectFails \/ SessionEnds => delay' <= Cap
  BY <1>1, DelaysAreCapped DEF ConnectFails, SessionEnds
<1> QED BY <1>2, <1>3, <1>4

\* The next attempt's product is no less, if that one fits.
LEMMA FactorGrows ==
  ASSUME BackoffTypeOK, RetryWaitEnds, base > 0,
         base * factor' <= MaxDuration
  PROVE  Fits /\ Capped(base * factor) <= Capped(base * factor')
<1>1. /\ base \in Nat /\ factor \in 1..MaxFactor /\ MaxFactor \in Nat /\ Cap \in Nat
      /\ MaxDuration \in Nat
      /\ factor' = factor \/ factor' = 2 * factor
  BY BackoffAssumption DEF BackoffTypeOK, MinDuration, RetryWaitEnds
<1>2. base * factor \in Nat
  BY <1>1, ProductsGrow
<1>3. base * factor <= base * factor' /\ base * factor' \in Nat
  <2>1. base * (2 * factor) = base * factor + base * factor
    BY <1>1
  <2> QED BY <1>1, <1>2, <2>1
<1> QED BY <1>1, <1>2, <1>3 DEF Fits, Capped

LEMMA BackoffGrowing == BackoffSpec => []Growing
<1>1. BackoffInit => Growing
  BY DEF BackoffInit, Growing
<1>2. BackoffTypeOK /\ Growing /\ [BackoffNext]_backoffVars => Growing'
  <2> SUFFICES ASSUME BackoffTypeOK, Growing, [BackoffNext]_backoffVars
               PROVE  Growing'
    OBVIOUS
  <2> USE DEF Growing
  <2>1. CASE ConnectFails
    <3>1. /\ phase' = "retryWait" /\ base' = base /\ factor' = factor
          /\ delay' <= Cap
          /\ Fits => delay' = Capped(base * factor)
      BY <2>1, WaitsAreSet DEF ConnectFails
    <3> QED BY <3>1 DEF Fits, Capped
  <2>2. CASE RetryWaitEnds
    <3>1. phase' = "connecting" /\ base' = base /\ delay' = delay
            /\ phase = "retryWait"
      BY <2>2 DEF RetryWaitEnds
    <3>2. ASSUME Fits' PROVE delay' <= Capped(base * factor)'
      <4>1. base > 0 /\ base * factor' <= MaxDuration
        BY <3>1, <3>2 DEF Fits
      <4>2. Fits /\ Capped(base * factor) <= Capped(base * factor')
        BY <2>2, <4>1, FactorGrows
      <4>3. delay = Capped(base * factor)
        BY <3>1, <4>2
      <4>4. Capped(base * factor)' = Capped(base * factor')
        BY <3>1 DEF Capped
      <4> QED BY <3>1, <4>2, <4>3, <4>4
    <3> QED BY <3>1, <3>2
  <2>3. CASE Connects
    BY <2>3 DEF Connects
  <2>4. CASE SessionEnds
    <3>1. /\ phase' = "rejoinWait" /\ base' = base /\ factor' = factor
          /\ delay' <= Cap /\ delay' = Capped(base) /\ phase = "session"
      BY <2>4, WaitsAreSet DEF SessionEnds
    <3> QED BY <3>1 DEF Capped
  <2>5. CASE RejoinWaitEnds
    BY <2>5 DEF RejoinWaitEnds
  <2>6. CASE UNCHANGED backoffVars
    BY <2>6 DEF backoffVars, Fits, Capped
  <2> QED BY <2>1, <2>2, <2>3, <2>4, <2>5, <2>6 DEF BackoffNext
<1> QED BY <1>1, <1>2, BackoffTypeCorrect, PTL DEF BackoffSpec

\* DOCS.md:87 as far as it is true, for every delay and any number of
\* attempts: the cap always holds, and only an overflow of the product makes
\* a wait shorter than the configured delay (printer.go:424-429).
THEOREM WaitsInRange == BackoffSpec => []WaitsInRangeUntilOverflow
<1>1. BackoffTypeOK /\ Growing => WaitsInRangeUntilOverflow
  <2> SUFFICES ASSUME BackoffTypeOK, Growing, phase = "retryWait", Fits
               PROVE  Capped(base) <= delay
    BY DEF Growing, WaitsInRangeUntilOverflow
  <2>1. base \in Int /\ Cap \in Nat /\ factor \in 1..MaxFactor
    BY BackoffAssumption DEF BackoffTypeOK, MinDuration
  <2>2. base * factor \in Nat /\ base <= base * factor
    BY <2>1, ProductsGrow DEF Fits
  <2>3. delay = Capped(base * factor)
    BY DEF Growing
  <2> QED BY <2>1, <2>2, <2>3 DEF Capped
<1> QED BY <1>1, BackoffTypeCorrect, BackoffGrowing, PTL

\* In a series of failures no wait is shorter than the one before it up to
\* the attempt whose product overflows, for every delay (printer.go:128-134).
THEOREM WaitsDoGrow == BackoffSpec => WaitsGrowUntilOverflow
<1>1. BackoffTypeOK /\ Growing /\ [BackoffNext]_backoffVars
        => [ (phase' = "retryWait" /\ phase = "connecting" /\ factor > 1 /\ Fits)
               => delay' >= delay ]_backoffVars
  <2> SUFFICES ASSUME BackoffTypeOK, Growing, BackoffNext, phase' = "retryWait",
                      phase = "connecting", factor > 1, Fits
               PROVE  delay' >= delay
    BY DEF backoffVars
  <2>1. ConnectFails
    BY DEF BackoffNext, RetryWaitEnds, Connects, SessionEnds, RejoinWaitEnds
  <2>2. delay' = Capped(base * factor) /\ delay <= Capped(base * factor)
    BY <2>1, WaitsAreSet DEF Growing
  <2>3. base * factor \in Int /\ Cap \in Int
    BY BackoffAssumption DEF BackoffTypeOK, MinDuration
  <2>4. Capped(base * factor) \in Int /\ delay \in Int
    BY <2>3 DEF Capped, BackoffTypeOK
  <2> QED BY <2>2, <2>4
<1> QED BY <1>1, BackoffTypeCorrect, BackoffGrowing, PTL
       DEF BackoffSpec, WaitsGrowUntilOverflow

-----------------------------------------------------------------------------
(* The joined parts. *)

\* Every step leaves each part alone or is one of its steps.
LEMMA StepsOfTheParts ==
  ASSUME [PrinterNext]_printerVars
  PROVE  /\ [BackoffNext]_backoffVars
         /\ [Loop!RunLoopNext]_Loop!vars
         /\ [Handler!HandlerNext]_Handler!handlerVars
<1> USE DEF printerVars, connectionVars, handlingVars, Aside
<1>a. UNCHANGED connectionVars => UNCHANGED Loop!vars
  BY DEF Loop!vars, Loop!mainVars, Loop!loopVars, Loop!clientVars
<1>b. UNCHANGED handlingVars => UNCHANGED Handler!handlerVars
  BY DEF Handler!handlerVars, Handler!batchVars, Handler!cameraVars,
         Handler!captureVars
<1> HIDE DEF connectionVars, handlingVars
<1>1. CASE LoopWaits
  BY <1>1, <1>b DEF LoopWaits, BackoffNext, Loop!RunLoopNext, Loop!LoopNext
<1>2. CASE LoopConnects
  BY <1>2, <1>b DEF LoopConnects, BackoffNext, Loop!RunLoopNext, Loop!LoopNext
<1>3. CASE LoopCalls
  BY <1>3 DEF LoopCalls, Loop!RunLoopNext, Loop!LoopNext, Handler!HandlerNext
<1>4. CASE LoopGoesOn
  BY <1>4, <1>b DEF LoopGoesOn, Loop!RunLoopNext, Loop!LoopNext
<1>5. CASE LoopByItself
  BY <1>5, <1>b DEF LoopByItself, Loop!RunLoopNext, Loop!LoopNext
<1>6. CASE HandlerSteps
  BY <1>6, <1>a DEF HandlerSteps, Handler!HandlerNext
<1>7. CASE (Loop!Interrupt \/ Loop!StartNext \/ Loop!StopNext \/ Loop!Exited)
             /\ Aside
  BY <1>7, <1>b DEF Loop!RunLoopNext
<1>8. ASSUME NEW c \in Conns,
             Loop!KeepAliveNext(c) \/ Loop!PeerLost(c) \/ Loop!PeerHangs(c)
               \/ Loop!PeerSends(c),
             Aside
      PROVE  [BackoffNext]_backoffVars /\ Loop!RunLoopNext
               /\ UNCHANGED Handler!handlerVars
  BY <1>8, <1>b DEF Loop!RunLoopNext
<1>9. CASE UNCHANGED printerVars
  BY <1>9, <1>a, <1>b
<1> QED
  BY <1>1, <1>2, <1>3, <1>4, <1>5, <1>6, <1>7, <1>8, <1>9
     DEF PrinterNext, LoopSteps

\* The printer implements RunLoop, HandleMessage and Backoff: joining them
\* took nothing from any of them but freedom (printer.go as a whole).
THEOREM PartsAreImplemented ==
  PrinterSpec => Loop!RunLoopSpec /\ Handler!HandlerSpec /\ BackoffSpec
<1>1. PrinterInit => Loop!RunLoopInit /\ Handler!HandlerInit /\ BackoffInit
  BY DEF PrinterInit
<1> QED
  BY <1>1, StepsOfTheParts, PTL
     DEF PrinterSpec, Loop!RunLoopSpec, Handler!HandlerSpec, BackoffSpec

\* In the whole printer, with its sessions, reports and stops, the waits keep
\* to the cap, and to the configured delay until the product overflows.
THEOREM PrinterWaitsInRange == PrinterSpec => []WaitsInRangeUntilOverflow
<1> QED BY PartsAreImplemented, WaitsInRange, PTL

\* In the printer, too, a series of failures waits longer and longer until
\* then.
THEOREM PrinterWaitsGrow == PrinterSpec => WaitsGrowUntilOverflow
<1> QED BY PartsAreImplemented, WaitsDoGrow, PTL

-----------------------------------------------------------------------------
(* Nothing is sent after Stop. *)

\* The inductive invariant: the handler runs only inside readLoop, on the
\* goroutine that Stop waits for; and a loop that starts when Stop has
\* already returned finds its context done before it makes a client.
HandledInTheLoop ==
  /\ pc # "idle" => loopPc = "handle"
  /\ capturing # "off" => pc = "capture"
  /\ loopPc \notin {"idle", "done"} => "loop" \in wg
  /\ startPc # "returned" => loopPc = "idle"
  /\ stopPc # "serving" => interrupted
  /\ stopPc \in {"stopped", "exited"} => loopPc \in {"idle", "top", "done"}

\* The steps of the loop's goroutine: one that moves from or to "handle" is
\* a call of the handler or its return.
LEMMA LoopStepsHandleInTheLoop ==
  ASSUME HandledInTheLoop, LoopSteps
  PROVE  HandledInTheLoop'
<1> USE DEF HandledInTheLoop, handlingVars, Aside, Loop!LoopMoves, Loop!mainVars,
            Loop!clientVars, Loop!loopVars, Loop!CtxDone
<1>1. CASE LoopWaits
  BY <1>1 DEF LoopWaits, Loop!DialFails, Loop!ConnectFails, Loop!SubscribeFails,
              Loop!Rejoins, Loop!RetryWaitEnds, Loop!RejoinWaitEnds
<1>2. CASE LoopConnects
  BY <1>2 DEF LoopConnects, Loop!ConnAckArrives
<1>3. CASE LoopCalls
  <2>1. loopPc = "read" /\ loopPc' = "handle" /\ UNCHANGED <<Loop!mainVars, wg>>
    BY <1>3 DEF LoopCalls, Loop!ReadsReport, Loop!Takes
  <2>2. capturing' # "off" => pc' = "capture"
    BY <1>3, <2>1 DEF LoopCalls, Handler!Reports, Handler!QuietReport,
            Handler!EventfulReport, Handler!handlerVars, Handler!captureVars
  <2> QED BY <2>1, <2>2
<1>4. CASE LoopGoesOn
  BY <1>4 DEF LoopGoesOn, Loop!HandlerReturns
<1>5. CASE LoopByItself
  <2>1. CASE Loop!LoopReturns("top") \/ Loop!LoopReturns("left")
    BY <1>5, <2>1 DEF LoopByItself, Loop!LoopReturns
  <2>2. ASSUME NEW c \in Conns, Loop!NewClient(c) PROVE HandledInTheLoop'
    BY <1>5, <2>2 DEF LoopByItself, Loop!NewClient
  <2>3. CASE \/ Loop!DialSucceeds \/ Loop!SubAckArrives \/ Loop!AsksForAll
             \/ Loop!ResetsTracker \/ Loop!SpawnsKeepAlive
    BY <1>5, <2>3 DEF LoopByItself, Loop!DialSucceeds, Loop!SubAckArrives,
         Loop!AsksForAll, Loop!ResetsTracker, Loop!SpawnsKeepAlive
  <2>4. CASE \/ Loop!ChecksClosed \/ Loop!ReadsOther \/ Loop!ReadFails
             \/ Loop!CancelsConn \/ Loop!LoopCloses \/ Loop!LoopShuts
    BY <1>5, <2>4 DEF LoopByItself, Loop!ChecksClosed, Loop!ReadsOther,
         Loop!Takes, Loop!ReadFails, Loop!CancelsConn, Loop!LoopCloses,
         Loop!LoopShuts
  <2> QED BY <1>5, <2>1, <2>2, <2>3, <2>4 DEF LoopByItself
<1> QED BY <1>1, <1>2, <1>3, <1>4, <1>5 DEF LoopSteps

\* The handler's own steps leave the loop where it is, and take snapshots
\* only in "capture".
LEMMA HandlerStepsHandleInTheLoop ==
  ASSUME HandledInTheLoop, HandlerSteps
  PROVE  HandledInTheLoop'
<1> USE DEF HandledInTheLoop, Handler!captureVars
<1>1. UNCHANGED <<loopPc, wg, startPc, stopPc, interrupted>>
  BY DEF HandlerSteps, connectionVars
<1>2. pc # "idle" /\ (capturing' # "off" => pc' = "capture")
  <2>1. CASE Handler!CaptureRuns
    BY <2>1 DEF Handler!CaptureRuns, Handler!CameraMoves, Handler!CaptureEnds,
         Handler!CameraDialFails, Handler!CameraAnswers, Handler!CameraCloses,
         Handler!CameraFallsSilent, Handler!HeaderArrives, Handler!FfmpegEnds,
         Handler!PayloadArrives, Handler!PayloadGrows,
         Handler!FfmpegMissing, Handler!FfmpegFails
  <2>2. CASE Handler!CaptureSucceeds
    BY <2>2 DEF Handler!CaptureSucceeds
  <2>3. ASSUME NEW error \in Handler!Errors, Handler!CaptureFails(error)
        PROVE  pc # "idle" /\ capturing' = "off"
    BY <2>3 DEF Handler!CaptureFails
  <2>4. CASE \/ Handler!FanOutStarts
             \/ Handler!FanOutReturns
             \/ Handler!HandlerReturns
    BY <2>4 DEF Handler!FanOutStarts, Handler!FanOutReturns,
                Handler!HandlerReturns
  <2>5. ASSUME NEW n \in Notifiers, NEW o, Handler!SendEnds(n, o)
        PROVE  pc # "idle" /\ (capturing' # "off" => pc' = "capture")
    BY <2>5 DEF Handler!SendEnds
  <2> QED BY <2>1, <2>2, <2>3, <2>4, <2>5
          DEF HandlerSteps, Handler!Handling, Handler!SendFiltered,
              Handler!SendReturns
<1> QED BY <1>1, <1>2

\* The other goroutines: none of them moves the loop, but Start, which puts
\* it at its top; and "loop" is no client, so no keepAlive counts it off.
LEMMA OtherStepsHandleInTheLoop ==
  ASSUME HandledInTheLoop, Aside,
         \/ Loop!Interrupt \/ Loop!StartNext \/ Loop!StopNext \/ Loop!Exited
         \/ \E c \in Conns : Loop!KeepAliveNext(c) \/ Loop!PeerLost(c)
                                \/ Loop!PeerHangs(c) \/ Loop!PeerSends(c)
  PROVE  HandledInTheLoop'
<1> USE DEF HandledInTheLoop, handlingVars, Aside, Loop!mainVars, Loop!loopVars,
            Loop!clientVars
<1>1. CASE Loop!Interrupt \/ Loop!Exited
  BY <1>1 DEF Loop!Interrupt, Loop!Exited, Loop!vars
<1>2. CASE Loop!StartNext
  BY <1>2 DEF Loop!StartNext, Loop!StartSetsCancel, Loop!StartSpawns
<1>3. CASE Loop!StopNext
  BY <1>3 DEF Loop!StopNext, Loop!StopCancels, Loop!StopReturns, Loop!RunReturns
<1>4. ASSUME NEW c \in Conns, Loop!KeepAliveNext(c) PROVE HandledInTheLoop'
  <2>1. c # "loop"
    BY ClientsAssumption
  <2>2. UNCHANGED <<loopPc, startPc, stopPc, interrupted>>
    BY <1>4 DEF Loop!KeepAliveNext, Loop!KeepAliveMoves, Loop!KeepAliveTicks,
         Loop!PingSent, Loop!PingFails, Loop!KeepAliveDone,
         Loop!KeepAliveFindsClosed, Loop!KeepAliveCloses, Loop!KeepAliveShuts
  <2>3. wg' = wg \/ wg' = wg \ {c}
    BY <1>4 DEF Loop!KeepAliveNext, Loop!KeepAliveTicks, Loop!PingSent,
         Loop!PingFails, Loop!KeepAliveDone, Loop!KeepAliveFindsClosed,
         Loop!KeepAliveCloses, Loop!KeepAliveShuts
  <2> QED BY <2>1, <2>2, <2>3
<1>5. ASSUME NEW c \in Conns,
             Loop!PeerLost(c) \/ Loop!PeerHangs(c) \/ Loop!PeerSends(c)
      PROVE  HandledInTheLoop'
  BY <1>5 DEF Loop!PeerLost, Loop!PeerHangs, Loop!PeerSends, Loop!PeerMoves
<1> QED BY <1>1, <1>2, <1>3, <1>4, <1>5

\* The handler runs in readLoop in every state.
LEMMA AlwaysHandledInTheLoop == PrinterSpec => []HandledInTheLoop
<1>1. PrinterInit => HandledInTheLoop
  BY DEF PrinterInit, Loop!RunLoopInit, Handler!HandlerInit, HandledInTheLoop
<1>2. HandledInTheLoop /\ [PrinterNext]_printerVars => HandledInTheLoop'
  <2> SUFFICES ASSUME HandledInTheLoop, [PrinterNext]_printerVars
               PROVE  HandledInTheLoop'
    OBVIOUS
  <2>1. CASE UNCHANGED printerVars
    BY <2>1 DEF HandledInTheLoop, printerVars, connectionVars, handlingVars
  <2> QED BY <2>1, LoopStepsHandleInTheLoop, HandlerStepsHandleInTheLoop,
             OtherStepsHandleInTheLoop DEF PrinterNext
<1> QED BY <1>1, <1>2, PTL DEF PrinterSpec

\* Once Stop has returned no snapshot is taken and no event is on its way,
\* for any number of connections, notifiers and events.
THEOREM NothingIsSentAfterStop == PrinterSpec => []NothingSentAfterStop
<1>1. HandledInTheLoop => NothingSentAfterStop
  BY DEF HandledInTheLoop, NothingSentAfterStop
<1> QED BY <1>1, AlwaysHandledInTheLoop, PTL

-----------------------------------------------------------------------------
(* The types of the whole. *)

\* The induction principles of HandleMessage_proofs.
LEMMA StepByStep ==
  ASSUME NEW X, NEW b \in X, NEW n \in Nat, NEW step \in [1..n -> [X -> X]]
  PROVE  Handler!Courses(X, b, n, step) # {}
BY Handler!StepByStep, ServiceAssumption, AllowedAssumption, CamerasAssumption,
   SizesAssumption, BatchesAssumption, URLsAssumption

LEMMA InductionUpTo ==
  ASSUME NEW n \in Nat, NEW S, 0 \in S, \A i \in 1..n : i - 1 \in S => i \in S
  PROVE  0..n \subseteq S
BY Handler!InductionUpTo, ServiceAssumption, AllowedAssumption,
   CamerasAssumption, SizesAssumption, BatchesAssumption, URLsAssumption

\* The factor of an attempt is twice that of the one before.
LEMMA FactorsStepwise ==
  /\ Factors \in [0..MaxAttempt -> Nat]
  /\ Factors[0] = 1
  /\ \A k \in 1..MaxAttempt : Factors[k] = 2 * Factors[k - 1]
<1>1. MaxAttempt \in Nat
  BY BoundsAssumption
<1>2. PICK step : step = [k \in 1..MaxAttempt |-> [x \in Nat |-> 2 * x]]
  OBVIOUS
<1>3. step \in [1..MaxAttempt -> [Nat -> Nat]]
  <2>1. [x \in Nat |-> 2 * x] \in [Nat -> Nat]
    OBVIOUS
  <2> QED BY <1>2, <2>1, Zenon
<1>4. PICK f \in [0..MaxAttempt -> Nat] :
        f[0] = 1 /\ \A k \in 1..MaxAttempt : f[k] = step[k][f[k - 1]]
  <2>1. Handler!Courses(Nat, 1, MaxAttempt, step) # {}
    BY <1>1, <1>3, StepByStep
  <2> QED BY <2>1 DEF Handler!Courses
<1>5. \A k \in 1..MaxAttempt : f[k] = 2 * f[k - 1]
  <2> SUFFICES ASSUME NEW k \in 1..MaxAttempt PROVE f[k] = 2 * f[k - 1]
    OBVIOUS
  <2>1. k - 1 \in 0..MaxAttempt
    BY <1>1
  <2>2. f[k - 1] \in Nat
    BY <2>1
  <2> QED BY <1>2, <1>4, <2>2
<1>6. f = [k \in 0..MaxAttempt |-> IF k = 0 THEN 1 ELSE 2 * f[k - 1]]
  BY <1>1, <1>4, <1>5
<1>7. Factors = [k \in 0..MaxAttempt |-> IF k = 0 THEN 1 ELSE 2 * Factors[k - 1]]
  BY <1>6, Zenon DEF Factors
<1>8. PICK c : c = Factors
  OBVIOUS
<1>9. c = [k \in 0..MaxAttempt |-> IF k = 0 THEN 1 ELSE 2 * c[k - 1]]
  BY <1>7, <1>8, Zenon
<1>10. c[0] = 1 /\ \A k \in 1..MaxAttempt : c[k] = 2 * c[k - 1]
  BY <1>1, <1>9
<1>11. 0..MaxAttempt \subseteq {k \in 0..MaxAttempt : c[k] \in Nat}
  <2> DEFINE S == {k \in 0..MaxAttempt : c[k] \in Nat}
  <2>1. 0 \in S
    BY <1>1, <1>10
  <2>2. \A k \in 1..MaxAttempt : k - 1 \in S => k \in S
    BY <1>1, <1>10
  <2> HIDE DEF S
  <2>3. 0..MaxAttempt \subseteq S
    BY <1>1, <2>1, <2>2, InductionUpTo
  <2> QED BY <2>3 DEF S
<1>12. c \in [0..MaxAttempt -> Nat]
  BY <1>9, <1>11
<1> QED BY <1>8, <1>10, <1>12, Zenon

\* The factors of the attempts that are counted fit MaxFactor.
LEMMA FactorsFit ==
  \A k \in 0..MaxAttempt : Factors[k] \in 1..MaxFactor
<1>0. PICK c : c = Factors
  OBVIOUS
<1>1. /\ MaxAttempt \in Nat /\ MaxFactor = c[MaxAttempt]
      /\ c \in [0..MaxAttempt -> Nat]
      /\ c[0] = 1 /\ \A k \in 1..MaxAttempt : c[k] = 2 * c[k - 1]
  BY <1>0, BoundsAssumption, AttemptsAssumption, FactorsStepwise
<1>2. 0..MaxAttempt \subseteq {k \in 0..MaxAttempt : c[k] >= 1}
  <2> DEFINE S == {k \in 0..MaxAttempt : c[k] >= 1}
  <2>1. 0 \in S
    BY <1>1
  <2>2. \A k \in 1..MaxAttempt : k - 1 \in S => k \in S
    BY <1>1
  <2> HIDE DEF S
  <2>3. 0..MaxAttempt \subseteq S
    BY <1>1, <2>1, <2>2, InductionUpTo
  <2> QED BY <2>3 DEF S
<1>3. 0..MaxAttempt
        \subseteq {k \in 0..MaxAttempt : c[MaxAttempt - k] <= c[MaxAttempt]}
  <2> DEFINE S == {k \in 0..MaxAttempt : c[MaxAttempt - k] <= c[MaxAttempt]}
  <2>1. 0 \in S
    <3>1. MaxAttempt - 0 = MaxAttempt /\ MaxAttempt \in 0..MaxAttempt
      BY <1>1
    <3> QED BY <1>1, <3>1
  <2>2. ASSUME NEW k \in 1..MaxAttempt, k - 1 \in S PROVE k \in S
    <3>1. PICK j \in 1..MaxAttempt : j = MaxAttempt - (k - 1)
      BY <1>1
    <3>2. j - 1 = MaxAttempt - k /\ j \in 0..MaxAttempt /\ j - 1 \in 0..MaxAttempt
      BY <1>1, <3>1
    <3>3. c[j] <= c[MaxAttempt]
      BY <2>2, <3>1
    <3>4. c[j] = 2 * c[j - 1] /\ c[j - 1] \in Nat /\ c[MaxAttempt] \in Nat
      BY <1>1, <3>2
    <3>5. c[j - 1] <= c[MaxAttempt]
      BY <3>3, <3>4
    <3> QED BY <3>2, <3>5
  <2> HIDE DEF S
  <2>3. 0..MaxAttempt \subseteq S
    BY <1>1, <2>1, <2>2, InductionUpTo
  <2> QED BY <2>3 DEF S
<1>4. ASSUME NEW k \in 0..MaxAttempt PROVE c[k] \in 1..MaxFactor
  <2>1. MaxAttempt - k \in 0..MaxAttempt /\ MaxAttempt - (MaxAttempt - k) = k
    BY <1>1
  <2>2. c[k] <= MaxFactor
    BY <1>1, <1>3, <2>1
  <2>3. c[k] \in Nat /\ c[k] >= 1 /\ MaxFactor \in Nat
    BY <1>1, <1>2
  <2> QED BY <2>2, <2>3
<1> QED BY <1>0, <1>4, Zenon

\* attempt and its power of two are counted together.
LEMMA CountedTogether ==
  ASSUME attempt \in 0..MaxAttempt, factor = Factors[attempt],
         RetryWaitEnds, Loop!RetryWaitEnds
  PROVE  factor' = Factors[attempt']
<1>0. PICK c : c = Factors
  OBVIOUS
<1>1. /\ MaxAttempt \in Nat /\ MaxFactor = c[MaxAttempt]
      /\ \A k \in 1..MaxAttempt : c[k] = 2 * c[k - 1]
      /\ \A k \in 0..MaxAttempt : c[k] \in 1..MaxFactor
      /\ MaxFactor \in Nat
  BY <1>0, BoundsAssumption, BackoffAssumption, AttemptsAssumption,
     FactorsStepwise, FactorsFit
<1>2. /\ factor = c[attempt]
      /\ factor' = IF 2 * factor <= MaxFactor THEN 2 * factor ELSE factor
      /\ attempt' = IF attempt < MaxAttempt THEN attempt + 1 ELSE attempt
  BY <1>0 DEF RetryWaitEnds, Loop!RetryWaitEnds
<1>3. CASE attempt < MaxAttempt
  <2>1. attempt + 1 \in 1..MaxAttempt /\ attempt + 1 - 1 = attempt
    BY <1>1, <1>3
  <2>2. c[attempt + 1] = 2 * factor /\ c[attempt + 1] <= MaxFactor
    BY <1>1, <1>2, <2>1
  <2> QED BY <1>0, <1>2, <1>3, <2>2
<1>4. CASE ~(attempt < MaxAttempt)
  <2>1. attempt = MaxAttempt
    BY <1>1, <1>4
  <2>2. factor = MaxFactor /\ MaxFactor \in 1..MaxFactor
    BY <1>1, <1>2, <2>1
  <2>3. ~(2 * factor <= MaxFactor)
    BY <1>1, <2>2
  <2> QED BY <1>0, <1>2, <1>4, <2>3
<1> QED BY <1>3, <1>4

\* Where runLoop is tells what the waits know of it; before Start has spawned
\* it, a connection is due.
PartsMeet ==
  /\ factor = Factors[attempt]
  /\ loopPc \in {"idle", "top", "dial", "connack"} => phase = "connecting"
  /\ loopPc \in Loop!Subscribed \cup Loop!Leaving \cup {"suback", "left"}
       => phase = "session"
  /\ loopPc \in Loop!Waiting => phase = loopPc

\* The steps of the loop's goroutine that the waits take part in, and those
\* that leave them alone.
LEMMA WaitsMeetTheLoop ==
  ASSUME PartsMeet, attempt \in 0..MaxAttempt, LoopWaits \/ LoopConnects
  PROVE  PartsMeet'
<1> USE DEF PartsMeet, Loop!LoopMoves, Loop!Subscribed, Loop!Session,
            Loop!Leaving, Loop!Waiting
<1>1. CASE LoopConnects
  <2>1. /\ loopPc' = "suback" /\ attempt' = 0
        /\ phase' = "session" /\ factor' = 1
    BY <1>1 DEF LoopConnects, Loop!ConnAckArrives, Connects
  <2> QED BY <2>1, FactorsStepwise
<1>2. CASE Loop!RetryWaitEnds /\ RetryWaitEnds
  <2>1. factor' = Factors[attempt']
    BY <1>2, CountedTogether
  <2>2. loopPc' = "top" /\ phase' = "connecting"
    BY <1>2 DEF Loop!RetryWaitEnds, RetryWaitEnds
  <2> QED BY <2>1, <2>2
<1>3. CASE (Loop!DialFails \/ Loop!ConnectFails) /\ ConnectFails
  BY <1>3 DEF Loop!DialFails, Loop!ConnectFails, ConnectFails
<1>4. CASE (Loop!SubscribeFails \/ Loop!Rejoins) /\ SessionEnds
  BY <1>4 DEF Loop!SubscribeFails, Loop!Rejoins, SessionEnds
<1>5. CASE Loop!RejoinWaitEnds /\ RejoinWaitEnds
  BY <1>5 DEF Loop!RejoinWaitEnds, RejoinWaitEnds
<1> QED BY <1>1, <1>2, <1>3, <1>4, <1>5 DEF LoopWaits

LEMMA LoopKeepsTheWaits ==
  ASSUME PartsMeet, LoopCalls \/ LoopGoesOn \/ LoopByItself
  PROVE  PartsMeet'
<1> USE DEF PartsMeet, Loop!LoopMoves, Loop!Subscribed, Loop!Session,
            Loop!Leaving, Loop!Waiting
<1>0. UNCHANGED <<factor, phase>>
  BY DEF LoopCalls, LoopGoesOn, LoopByItself, Aside, backoffVars
<1>1. CASE LoopCalls \/ LoopGoesOn
  BY <1>0, <1>1 DEF LoopCalls, LoopGoesOn, Loop!ReadsReport, Loop!Takes,
                    Loop!HandlerReturns
<1>2. CASE LoopByItself
  <2>1. CASE Loop!LoopReturns("top") \/ Loop!LoopReturns("left")
    BY <1>0, <2>1 DEF Loop!LoopReturns
  <2>2. ASSUME NEW c \in Conns, Loop!NewClient(c) PROVE PartsMeet'
    BY <1>0, <2>2 DEF Loop!NewClient
  <2>3. CASE \/ Loop!DialSucceeds \/ Loop!SubAckArrives \/ Loop!AsksForAll
             \/ Loop!ResetsTracker \/ Loop!SpawnsKeepAlive
    BY <1>0, <2>3 DEF Loop!DialSucceeds, Loop!SubAckArrives,
         Loop!AsksForAll, Loop!ResetsTracker, Loop!SpawnsKeepAlive
  <2>4. CASE \/ Loop!ChecksClosed \/ Loop!ReadsOther \/ Loop!ReadFails
             \/ Loop!CancelsConn \/ Loop!LoopCloses \/ Loop!LoopShuts
    BY <1>0, <2>4 DEF Loop!ChecksClosed, Loop!ReadsOther, Loop!Takes,
         Loop!ReadFails, Loop!CancelsConn, Loop!LoopCloses, Loop!LoopShuts
  <2> QED BY <1>2, <2>1, <2>2, <2>3, <2>4 DEF LoopByItself
<1> QED BY <1>1, <1>2

\* The others do not move the loop, but for Start, which puts it at its top.
LEMMA OthersKeepTheWaits ==
  ASSUME PartsMeet, HandledInTheLoop,
         \/ HandlerSteps
         \/ /\ Aside
            /\ \/ Loop!Interrupt \/ Loop!StartNext \/ Loop!StopNext \/ Loop!Exited
               \/ \E c \in Conns : Loop!KeepAliveNext(c) \/ Loop!PeerLost(c)
                                      \/ Loop!PeerHangs(c) \/ Loop!PeerSends(c)
  PROVE  PartsMeet'
<1> USE DEF PartsMeet
<1>0. UNCHANGED <<factor, phase>>
  BY DEF HandlerSteps, Aside, backoffVars
<1>1. CASE UNCHANGED <<loopPc, attempt>>
  BY <1>0, <1>1
<1>2. CASE Loop!StartSpawns
  <2>1. loopPc = "idle"
    BY <1>2 DEF HandledInTheLoop, Loop!StartSpawns
  <2>2. loopPc' = "top" /\ attempt' = attempt
    BY <1>2 DEF Loop!StartSpawns
  <2> QED BY <1>0, <2>1, <2>2
       DEF Loop!Subscribed, Loop!Session, Loop!Leaving, Loop!Waiting
<1>3. CASE HandlerSteps
  BY <1>1, <1>3 DEF HandlerSteps, connectionVars
<1>4. CASE Loop!Interrupt \/ Loop!StartSetsCancel \/ Loop!StopNext \/ Loop!Exited
  <2>1. UNCHANGED <<loopPc, attempt>>
    BY <1>4 DEF Loop!Interrupt, Loop!StartSetsCancel, Loop!StopNext,
         Loop!StopCancels, Loop!StopReturns, Loop!RunReturns, Loop!Exited,
         Loop!vars, Loop!loopVars
  <2> QED BY <1>1, <2>1
<1>5. ASSUME NEW c \in Conns,
             Loop!KeepAliveNext(c) \/ Loop!PeerLost(c) \/ Loop!PeerHangs(c)
               \/ Loop!PeerSends(c)
      PROVE  PartsMeet'
  <2>1. UNCHANGED <<loopPc, attempt>>
    BY <1>5 DEF Loop!KeepAliveNext, Loop!KeepAliveMoves, Loop!KeepAliveTicks,
         Loop!PingSent, Loop!PingFails, Loop!KeepAliveDone,
         Loop!KeepAliveFindsClosed, Loop!KeepAliveCloses, Loop!KeepAliveShuts,
         Loop!PeerLost, Loop!PeerHangs, Loop!PeerSends, Loop!PeerMoves,
         Loop!loopVars
  <2> QED BY <1>1, <2>1
<1> QED BY <1>2, <1>3, <1>4, <1>5 DEF Loop!StartNext

\* The printer keeps the types of its parts and their parts of the state
\* together: the waits are those of runLoop's present attempt, and a report is
\* handled only inside readLoop (runLoop's locals, handleMessage).
THEOREM PrinterTypeCorrect == PrinterSpec => []PrinterTypeOK
<1>1. PrinterSpec => []Loop!RunLoopTypeOK
  BY PartsAreImplemented, Loop!RunLoopTypeCorrect, BoundsAssumption,
     HangAssumption, ClientsAssumption, PTL
<1>2. PrinterSpec => []Handler!HandlerTypeOK
  BY PartsAreImplemented, Handler!HandlerTypeCorrect, ServiceAssumption,
     AllowedAssumption, CamerasAssumption, SizesAssumption, BatchesAssumption,
     URLsAssumption, PTL
<1>3. PrinterInit => PartsMeet
  BY FactorsStepwise DEF PrinterInit, BackoffInit, Loop!RunLoopInit, PartsMeet,
     Loop!Subscribed, Loop!Session, Loop!Leaving, Loop!Waiting
<1>4. PartsMeet /\ HandledInTheLoop /\ Loop!RunLoopTypeOK /\ [PrinterNext]_printerVars
        => PartsMeet'
  <2> SUFFICES ASSUME PartsMeet, HandledInTheLoop, Loop!RunLoopTypeOK,
                      [PrinterNext]_printerVars
               PROVE  PartsMeet'
    OBVIOUS
  <2>1. CASE UNCHANGED printerVars
    BY <2>1 DEF PartsMeet, printerVars, backoffVars, connectionVars
  <2>2. attempt \in 0..MaxAttempt
    BY DEF Loop!RunLoopTypeOK
  <2> QED BY <2>1, <2>2, WaitsMeetTheLoop, LoopKeepsTheWaits, OthersKeepTheWaits
          DEF PrinterNext, LoopSteps
<1>5. PartsMeet /\ HandledInTheLoop /\ BackoffTypeOK /\ Loop!RunLoopTypeOK
        /\ Handler!HandlerTypeOK => PrinterTypeOK
  BY DEF PartsMeet, HandledInTheLoop, PrinterTypeOK
<1> QED BY <1>1, <1>2, <1>3, <1>4, <1>5, PartsAreImplemented,
           BackoffTypeCorrect, AlwaysHandledInTheLoop, PTL DEF PrinterSpec

\* What is proved of the parts holds of the whole printer: its sockets are
\* closed, once, and quiet after Stop, whatever the handler is doing then ...
THEOREM PrinterConnectionIsSafe ==
  PrinterSpec => [](/\ Loop!NoSocketLeaks /\ Loop!ClosedOnce
                    /\ Loop!ReaderCanBeStopped /\ Loop!QuietAfterStop)
<1>1. PrinterSpec => Loop!RunLoopSpec
  BY PartsAreImplemented, PTL
<1>2. Loop!RunLoopSpec => /\ []Loop!NoSocketLeaks /\ []Loop!ClosedOnce
                          /\ []Loop!ReaderCanBeStopped /\ []Loop!QuietAfterStop
  BY Loop!SocketsDoNotLeak, Loop!SocketsAreClosedOnce, Loop!ReadersCanBeStopped,
     Loop!StoppedIsQuiet, BoundsAssumption, HangAssumption, ClientsAssumption, PTL
<1> QED BY <1>1, <1>2, PTL

\* ... and its notifiers get their queues, although reports stop coming
\* whenever the connection is lost (handleMessage and fanOut in readLoop).
THEOREM PrinterHandlerIsSafe ==
  PrinterSpec => /\ [](Handler!RefusedOnce /\ Handler!NothingLostSilently)
                 /\ Handler!PicturesAreWhole /\ Handler!ImplementsQueues
<1>1. PrinterSpec => Handler!HandlerSpec
  BY PartsAreImplemented, PTL
<1>2. Handler!HandlerSpec => /\ []Handler!RefusedOnce /\ []Handler!NothingLostSilently
                             /\ Handler!PicturesAreWhole /\ Handler!ImplementsQueues
  BY Handler!RefusedCamerasAreNotAskedAgain, Handler!LossesAreLogged,
     Handler!OnlyWholePicturesAreSent, Handler!HandlerImplementsQueues,
     ServiceAssumption, AllowedAssumption, CamerasAssumption, SizesAssumption,
     BatchesAssumption, URLsAssumption, PTL
<1> QED BY <1>1, <1>2, PTL
=============================================================================
