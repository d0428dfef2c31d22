------------------------------ MODULE Printer ------------------------------
(***************************************************************************)
(* One printer as a whole (printer.go): its connection (RunLoop), the      *)
(* waits between connections (Backoff) and the handling of its reports     *)
(* (HandleMessage), joined where one calls another.  handleMessage runs on *)
(* the goroutine of readLoop, so that runLoop stays at "handle" until the  *)
(* snapshot is taken and the sends have ended, while keepAlive, the        *)
(* printer and the caller of Stop go on.                                   *)
(***************************************************************************)
EXTENDS Backoff, Sequences

CONSTANTS
  Conns, NoConn, MaxInbox, MaxAttempt, MayHang,                \* of RunLoop
  Notifiers, Service, Allowed, Cameras, Batches, URLs, Sizes   \* of HandleMessage

ASSUME ClientsAssumption == NoConn \notin Conns /\ "loop" \notin Conns
ASSUME BoundsAssumption == MaxInbox \in Nat /\ MaxAttempt \in Nat
ASSUME HangAssumption == MayHang \in BOOLEAN

\* The factors of the attempts, 2^0 and on.
Factors[k \in 0..MaxAttempt] == IF k = 0 THEN 1 ELSE 2 * Factors[k - 1]

\* The attempts RunLoop counts are those whose factor Backoff counts.
ASSUME AttemptsAssumption == MaxFactor = Factors[MaxAttempt]

VARIABLES
  interrupted, startPc, stopPc, cancelSet, cancelled, wg, loopPc, cur, attempt,
  sock, closed, connCancelled, keepAlive, peer, inbox

VARIABLES
  camera, pc, events, at, snap, sends, logged, rtspURL, snapshotDisabled,
  refusals, capturing, frame

\* The parts, with what is proved of them.
Loop == INSTANCE RunLoop_proofs
Handler == INSTANCE HandleMessage_proofs

\* HandleMessage's assumptions.
ASSUME ServiceAssumption ==
  Service \in [Notifiers -> {"discord", "slack", "telegram"}]
ASSUME AllowedAssumption == Allowed \in [Notifiers -> SUBSET Handler!Types]
ASSUME CamerasAssumption == Cameras \subseteq [rtsp : BOOLEAN, port : Nat]
ASSUME SizesAssumption == Sizes \subseteq Nat
ASSUME BatchesAssumption == Batches \subseteq Seq(Handler!Types)
ASSUME URLsAssumption == Handler!NoURL \notin URLs

connectionVars ==
  <<interrupted, startPc, stopPc, cancelSet, cancelled, wg, loopPc, cur, attempt,
    sock, closed, connCancelled, keepAlive, peer, inbox>>
handlingVars ==
  <<camera, pc, events, at, snap, sends, logged, rtspURL, snapshotDisabled,
    refusals, capturing, frame>>
printerVars == <<backoffVars, connectionVars, handlingVars>>

PrinterInit == BackoffInit /\ Loop!RunLoopInit /\ Handler!HandlerInit

-----------------------------------------------------------------------------
\* Neither the waits nor the handler are concerned.
Aside == UNCHANGED <<backoffVars, handlingVars>>

\* A failed connect, or a connection that ends, is followed by its wait.
LoopWaits ==
  /\ \/ (Loop!DialFails \/ Loop!ConnectFails) /\ ConnectFails
     \/ (Loop!SubscribeFails \/ Loop!Rejoins) /\ SessionEnds
     \/ Loop!RetryWaitEnds /\ RetryWaitEnds
     \/ Loop!RejoinWaitEnds /\ RejoinWaitEnds
  /\ UNCHANGED handlingVars

LoopConnects == Loop!ConnAckArrives /\ Connects /\ UNCHANGED handlingVars

\* readLoop calls handleMessage with a report ...
LoopCalls == Loop!ReadsReport /\ Handler!Reports /\ UNCHANGED backoffVars

\* Mutant: the report is handled in the background.
LoopGoesOnAtOnce == Loop!HandlerReturns /\ Aside

\* ... and goes on when it has returned.
LoopGoesOn ==
  /\ Loop!HandlerReturns /\ pc = "idle"
  /\ Aside

\* What runLoop and readLoop do by themselves.
LoopByItself ==
  /\ \/ Loop!LoopReturns("top") \/ (\E c \in Conns : Loop!NewClient(c))
     \/ Loop!DialSucceeds \/ Loop!SubAckArrives
     \/ Loop!AsksForAll \/ Loop!ResetsTracker \/ Loop!SpawnsKeepAlive
     \/ Loop!ChecksClosed \/ Loop!ReadsOther \/ Loop!ReadFails
     \/ Loop!CancelsConn \/ Loop!LoopCloses \/ Loop!LoopShuts
     \/ Loop!LoopReturns("left")
  /\ Aside

LoopSteps == LoopWaits \/ LoopConnects \/ LoopCalls \/ LoopGoesOn \/ LoopByItself

HandlerSteps == Handler!Handling /\ UNCHANGED <<backoffVars, connectionVars>>

PrinterNext ==
  \/ LoopSteps
  \/ HandlerSteps
  \/ (Loop!Interrupt \/ Loop!StartNext \/ Loop!StopNext \/ Loop!Exited) /\ Aside
  \/ \E c \in Conns :
       (Loop!KeepAliveNext(c) \/ Loop!PeerLost(c) \/ Loop!PeerHangs(c)
          \/ Loop!PeerSends(c)) /\ Aside

\* The goroutines are scheduled as in RunLoop, and the handler as in
\* HandleMessage, so that handleMessage returns unless its camera is silent.
PrinterSpec ==
  /\ PrinterInit /\ [][PrinterNext]_printerVars
  /\ WF_printerVars(LoopSteps) /\ WF_printerVars(HandlerSteps)
  /\ WF_printerVars(Loop!StartNext /\ Aside)
  /\ WF_printerVars((Loop!StopReturns \/ Loop!RunReturns) /\ Aside)
  /\ \A c \in Conns : /\ WF_printerVars(Loop!KeepAliveNext(c) /\ Aside)
                      /\ SF_printerVars(Loop!KeepAliveDone(c) /\ Aside)
                      /\ SF_printerVars(Loop!PingFails(c) /\ Aside)

-----------------------------------------------------------------------------
(* Properties. *)

\* Type invariant of the joined parts: the waits are those of runLoop's
\* present attempt, and a report is handled only inside readLoop.
PrinterTypeOK ==
  /\ BackoffTypeOK /\ Loop!RunLoopTypeOK /\ Handler!HandlerTypeOK
  /\ factor = Factors[attempt]
  /\ loopPc \in {"top", "dial", "connack"} => phase = "connecting"
  /\ loopPc \in Loop!Subscribed \cup Loop!Leaving \cup {"suback", "left"}
       => phase = "session"
  /\ loopPc \in Loop!Waiting => phase = loopPc
  /\ pc # "idle" => loopPc = "handle"

\* When Stop has returned no snapshot is being taken and no event is on its
\* way to a notifier, and from then on none ever is: "Stop cancels the
\* printer loop and waits for it to finish" (printer.go:99) includes a batch
\* that is only half sent.
NothingSentAfterStop ==
  /\ stopPc \in {"stopped", "exited"} => pc = "idle" /\ capturing = "off"
  /\ pc # "idle" => "loop" \in wg

\* The two waits for a peer that have no deadline: an answer to CONNECT or
\* SUBSCRIBE, and a picture from the chamber-image port.
Stuck == Loop!HandshakeHangs \/ capturing = "silent"

\* Stop returns, whatever runLoop, its keepAlives, the printer, the camera
\* and the services are doing, unless one of the two waits is on.
StopReturnsUnlessStuck == stopPc = "waiting" ~> stopPc = "stopped" \/ Stuck

\* A session whose connection is lost is followed by a new attempt to
\* connect, also when it is lost while a report is handled, unless the
\* daemon stops or the camera is silent (printer.go:168-193).  So is one that
\* does not come about: a subscription leads to a session or to a new attempt,
\* also when a report comes first and is taken for a refusal (mqtt.go:316).
LostSessionsReconnect ==
  /\ (loopPc \in Loop!Session /\ peer[cur] = "lost")
       ~> loopPc = "dial" \/ Loop!CtxDone \/ capturing = "silent"
  /\ loopPc = "suback"
       ~> loopPc \in {"dial", "read"} \/ Loop!CtxDone \/ Loop!HandshakeHangs

\* A handler that never returns keeps runLoop from closing its socket, but
\* not keepAlive: every socket is closed once its printer is lost or the
\* daemon stops (printer.go:406-414).
SocketsGetClosed == Loop!SocketsGetClosed
=============================================================================
