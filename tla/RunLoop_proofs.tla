---------------------------- MODULE RunLoop_proofs ----------------------------
(***************************************************************************)
(* The safety properties of RunLoop for any number of clients, packets and *)
(* attempts.  Inv, type correctness and ConnectionInv together, is         *)
(* inductive: LoopTypeStep and OtherTypeStep show that a step preserves    *)
(* the types, LoopConnectionStep and OtherConnectionStep the rest.  The    *)
(* theorems at the end follow from it.                                     *)
(***************************************************************************)
EXTENDS RunLoop, TLAPS

Inv == RunLoopTypeOK /\ ConnectionInv

\* Nothing is connected when the daemon starts.
LEMMA InvInit == RunLoopInit => Inv
<1> SUFFICES ASSUME RunLoopInit PROVE Inv
  OBVIOUS
<1> USE ConnsAssumption, BoundsAssumption DEF RunLoopInit
<1>1. RunLoopTypeOK
  <2>1. wg \subseteq {"loop"} \cup Conns /\ loopPc \in LoopPcs
        /\ attempt \in 0..MaxAttempt
    BY DEF LoopPcs
  <2>2. /\ sock \in [Conns -> {"none", "open", "closed"}]
        /\ closed \in [Conns -> BOOLEAN]
        /\ connCancelled \in [Conns -> BOOLEAN]
    OBVIOUS
  <2>3. /\ keepAlive \in [Conns -> KeepAlivePcs]
        /\ peer \in [Conns -> {"up", "hung", "lost"}]
        /\ inbox \in [Conns -> 0..MaxInbox]
    BY DEF KeepAlivePcs
  <2> QED BY <2>1, <2>2, <2>3 DEF RunLoopTypeOK
<1>2. GoroutinesCounted
  BY DEF GoroutinesCounted, LoopAlive
<1>3. ClientFits /\ UnclosedIsOpen
  BY DEF ClientFits, UnclosedIsOpen, Handshake, Session
<1>4. NoSocketLeaks
  BY DEF NoSocketLeaks
<1>5. ClosedOnce
  BY DEF ClosedOnce, Closers
<1>6. ReaderCanBeStopped /\ QuietAfterStop
  BY DEF ReaderCanBeStopped, QuietAfterStop, Session
<1> QED BY <1>1, <1>2, <1>3, <1>4, <1>5, <1>6 DEF Inv, ConnectionInv

\* The steps of runLoop keep the types.  Two of them need to know that
\* runLoop has a client: the spawn of keepAlive and a read.
LEMMA LoopTypeStep ==
  ASSUME Inv, LoopNext
  PROVE  RunLoopTypeOK'
<1> USE ConnsAssumption, BoundsAssumption
    DEF Inv, RunLoopTypeOK, mainVars, loopVars, clientVars, LoopMoves
<1>a. cur \in Conns \/ loopPc \in {"idle", "top", "done"}
  BY DEF ConnectionInv, ClientFits
<1>b. LoopPcs = {"idle", "top", "dial", "left", "done", "connack", "suback",
                 "pushall", "reset", "spawn", "check", "read", "handle",
                 "cancelConn", "close", "shut", "retryWait", "rejoinWait"}
  BY DEF LoopPcs, Handshake, Session, Leaving, Waiting
<1>1. CASE LoopReturns("top") \/ LoopReturns("left")
  BY <1>1, <1>b DEF LoopReturns
<1>2. ASSUME NEW c \in Conns, NewClient(c) PROVE RunLoopTypeOK'
  BY <1>2, <1>b DEF NewClient
<1>3. CASE DialFails
  BY <1>3, <1>b DEF DialFails
<1>4. CASE DialSucceeds
  BY <1>4, <1>b DEF DialSucceeds
<1>5. CASE ConnAckArrives
  BY <1>5, <1>b DEF ConnAckArrives
<1>6. CASE ConnectFails
  BY <1>6, <1>b DEF ConnectFails
<1>7. CASE SubAckArrives
  BY <1>7, <1>b DEF SubAckArrives
<1>8. CASE SubscribeFails
  BY <1>8, <1>b DEF SubscribeFails
<1>9. CASE AsksForAll
  BY <1>9, <1>b DEF AsksForAll
<1>10. CASE ResetsTracker
  BY <1>10, <1>b DEF ResetsTracker
<1>11. CASE SpawnsKeepAlive
  BY <1>11, <1>a, <1>b DEF SpawnsKeepAlive, KeepAlivePcs
<1>12. CASE ChecksClosed
  BY <1>12, <1>b DEF ChecksClosed
<1>13. CASE ReadsReport
  BY <1>13, <1>a, <1>b DEF ReadsReport, Takes
<1>14. CASE ReadsOther
  BY <1>14, <1>a, <1>b DEF ReadsOther, Takes
<1>15. CASE ReadFails
  BY <1>15, <1>b DEF ReadFails
<1>16. CASE HandlerReturns
  BY <1>16, <1>b DEF HandlerReturns
<1>17. CASE CancelsConn
  BY <1>17, <1>b DEF CancelsConn
<1>18. CASE LoopCloses
  BY <1>18, <1>b DEF LoopCloses
<1>19. CASE LoopShuts
  BY <1>19, <1>b DEF LoopShuts
<1>20. CASE Rejoins
  BY <1>20, <1>b DEF Rejoins
<1>21. CASE RetryWaitEnds
  BY <1>21, <1>b DEF RetryWaitEnds
<1>22. CASE RejoinWaitEnds
  BY <1>22, <1>b DEF RejoinWaitEnds
<1> QED BY <1>1, <1>2, <1>3, <1>4, <1>5, <1>6, <1>7, <1>8, <1>9, <1>10,
           <1>11, <1>12, <1>13, <1>14, <1>15, <1>16, <1>17, <1>18, <1>19,
           <1>20, <1>21, <1>22
        DEF LoopNext

\* So do those of Start and Stop, keepAlive and the printer.
LEMMA OtherTypeStep ==
  ASSUME Inv,
         \/ Interrupt \/ StartNext \/ StopNext \/ Exited \/ UNCHANGED vars
         \/ \E c \in Conns : KeepAliveNext(c) \/ PeerLost(c) \/ PeerHangs(c)
                              \/ PeerSends(c)
  PROVE  RunLoopTypeOK'
<1> USE ConnsAssumption, BoundsAssumption
    DEF Inv, RunLoopTypeOK, mainVars, loopVars, clientVars
<1>1. CASE Interrupt
  BY <1>1 DEF Interrupt
<1>2. CASE StartNext
  BY <1>2 DEF StartNext, StartSetsCancel, StartSpawns, LoopPcs
<1>3. CASE StopNext
  BY <1>3 DEF StopNext, StopCancels, StopReturns, RunReturns
<1>4. CASE Exited \/ UNCHANGED vars
  BY <1>4 DEF Exited, vars
<1>5. ASSUME NEW c \in Conns, KeepAliveNext(c) PROVE RunLoopTypeOK'
  BY <1>5 DEF KeepAliveNext, KeepAliveMoves, KeepAliveTicks, PingSent,
     PingFails, KeepAliveDone, KeepAliveFindsClosed, KeepAliveCloses,
     KeepAliveShuts, KeepAlivePcs
<1>6. ASSUME NEW c \in Conns, PeerLost(c) \/ PeerHangs(c) 
      PROVE RunLoopTypeOK'
  BY <1>6 DEF PeerLost, PeerHangs, PeerMoves
<1>7. ASSUME NEW c \in Conns, PeerSends(c) PROVE RunLoopTypeOK'
  BY <1>7 DEF PeerSends
<1> QED BY <1>1, <1>2, <1>3, <1>4, <1>5, <1>6, <1>7

\* The steps of runLoop keep the connection's invariant.  The interesting
\* ones: LoopCloses is the only way past a socket that is open and unclaimed,
\* and leaves it to itself (then LoopShuts closes it) or, the flag being set,
\* to keepAlive; NewClient takes only a client that neither goroutine still
\* has to close.
LEMMA LoopConnectionStep ==
  ASSUME Inv, RunLoopTypeOK', LoopNext
  PROVE  ConnectionInv'
<1> USE ConnsAssumption
    DEF Inv, RunLoopTypeOK, mainVars, loopVars, clientVars, LoopMoves,
        ConnectionInv, GoroutinesCounted, ClientFits, UnclosedIsOpen,
        NoSocketLeaks, WillClose, ClosedOnce, Closers, ReaderCanBeStopped,
        QuietAfterStop, LoopAlive, CtxDone, Handshake, Session
<1>1. CASE LoopReturns("top") \/ LoopReturns("left")
  BY <1>1 DEF LoopReturns
<1>2. ASSUME NEW c \in Conns, NewClient(c) PROVE ConnectionInv'
  BY <1>2 DEF NewClient, Free
<1>3. CASE DialFails
  BY <1>3 DEF DialFails
<1>4. CASE DialSucceeds
  BY <1>4 DEF DialSucceeds
<1>5. CASE ConnAckArrives
  BY <1>5 DEF ConnAckArrives
<1>6. CASE ConnectFails
  BY <1>6 DEF ConnectFails
<1>7. CASE SubAckArrives
  BY <1>7 DEF SubAckArrives
<1>8. CASE SubscribeFails
  BY <1>8 DEF SubscribeFails
<1>9. CASE AsksForAll
  BY <1>9 DEF AsksForAll
<1>10. CASE ResetsTracker
  BY <1>10 DEF ResetsTracker
<1>11. CASE SpawnsKeepAlive
  BY <1>11 DEF SpawnsKeepAlive
<1>12. CASE ChecksClosed
  BY <1>12 DEF ChecksClosed
<1>13. CASE ReadsReport
  BY <1>13 DEF ReadsReport, Takes
<1>14. CASE ReadsOther
  BY <1>14 DEF ReadsOther, Takes
<1>15. CASE ReadFails
  BY <1>15 DEF ReadFails
<1>16. CASE HandlerReturns
  BY <1>16 DEF HandlerReturns
<1>17. CASE CancelsConn
  BY <1>17 DEF CancelsConn
<1>18. CASE LoopCloses
  BY <1>18 DEF LoopCloses
<1>19. CASE LoopShuts
  BY <1>19 DEF LoopShuts
<1>20. CASE Rejoins
  BY <1>20 DEF Rejoins
<1>21. CASE RetryWaitEnds
  BY <1>21 DEF RetryWaitEnds
<1>22. CASE RejoinWaitEnds
  BY <1>22 DEF RejoinWaitEnds
<1> QED BY <1>1, <1>2, <1>3, <1>4, <1>5, <1>6, <1>7, <1>8, <1>9, <1>10,
           <1>11, <1>12, <1>13, <1>14, <1>15, <1>16, <1>17, <1>18, <1>19,
           <1>20, <1>21, <1>22
        DEF LoopNext

\* What the invariant says of clients and sockets depends on these five
\* variables only ...
LEMMA ClientsFrame ==
  ASSUME Inv, UNCHANGED <<loopPc, cur, sock, closed, keepAlive>>
  PROVE  (/\ ClientFits /\ UnclosedIsOpen
          /\ NoSocketLeaks /\ ClosedOnce /\ ReaderCanBeStopped)'
BY DEF Inv, ConnectionInv, ClientFits, UnclosedIsOpen, NoSocketLeaks,
       WillClose, ClosedOnce, Closers, ReaderCanBeStopped

\* ... and what it says of the wait group on these four.
LEMMA CountFrame ==
  ASSUME Inv, UNCHANGED <<startPc, wg, loopPc, keepAlive>>
  PROVE  GoroutinesCounted'
BY DEF Inv, ConnectionInv, GoroutinesCounted, LoopAlive

\* The steps of Start and Stop, keepAlive and the printer keep the
\* connection's invariant.
LEMMA OtherConnectionStep ==
  ASSUME Inv, RunLoopTypeOK',
         \/ Interrupt \/ StartNext \/ StopNext \/ Exited \/ UNCHANGED vars
         \/ \E c \in Conns : KeepAliveNext(c) \/ PeerLost(c) \/ PeerHangs(c)
                              \/ PeerSends(c)
  PROVE  ConnectionInv'
<1> USE ConnsAssumption
    DEF Inv, RunLoopTypeOK, mainVars, loopVars, clientVars, ConnectionInv
<1>1. CASE Interrupt
  BY <1>1, ClientsFrame, CountFrame DEF Interrupt, QuietAfterStop
<1>2. CASE StartSetsCancel
  <2>1. GoroutinesCounted'
    BY <1>2 DEF StartSetsCancel, GoroutinesCounted, LoopAlive
  <2> QED BY <1>2, <2>1, ClientsFrame DEF StartSetsCancel, QuietAfterStop
<1>3. CASE StartSpawns
  <2>1. loopPc = "idle"
    BY <1>3 DEF StartSpawns, GoroutinesCounted
  <2>2. GoroutinesCounted'
    BY <1>3, <2>1 DEF StartSpawns, GoroutinesCounted, LoopAlive
  <2>3. (ClientFits /\ ReaderCanBeStopped)'
    BY <1>3 DEF StartSpawns, ClientFits, ReaderCanBeStopped, Handshake, Session
  <2>4. (UnclosedIsOpen /\ NoSocketLeaks /\ ClosedOnce)'
    BY <1>3, <2>1 DEF StartSpawns, UnclosedIsOpen, NoSocketLeaks, WillClose,
       ClosedOnce, Closers, Handshake, Session
  <2> QED BY <1>3, <2>2, <2>3, <2>4 DEF StartSpawns, QuietAfterStop
<1>4. CASE StopCancels
  BY <1>4, ClientsFrame, CountFrame DEF StopCancels, QuietAfterStop
<1>5. CASE StopReturns
  \* Nobody is left in the wait group, so every socket has been closed: an
  \* open one would have somebody who is going to close it.
  <2>1. loopPc \in {"idle", "done"} /\ \A c \in Conns : keepAlive[c] = "none"
    BY <1>5 DEF StopReturns, GoroutinesCounted, LoopAlive
  <2>2. \A c \in Conns : sock[c] # "open"
    BY <2>1 DEF NoSocketLeaks, WillClose, Closers, Handshake, Session
  <2> QED BY <1>5, <2>1, <2>2, ClientsFrame, CountFrame
          DEF StopReturns, QuietAfterStop
<1>6. CASE RunReturns
  BY <1>6, ClientsFrame, CountFrame DEF RunReturns, QuietAfterStop
<1>7. CASE Exited \/ UNCHANGED vars
  BY <1>7, ClientsFrame, CountFrame DEF Exited, vars, QuietAfterStop
<1>8. ASSUME NEW c \in Conns, KeepAliveNext(c) PROVE ConnectionInv'
  <2> USE DEF KeepAliveMoves, QuietAfterStop
  <2>a. stopPc' \notin {"stopped", "exited"}
    BY <1>8 DEF KeepAliveNext, KeepAliveTicks, PingSent, PingFails,
       KeepAliveDone, KeepAliveFindsClosed, KeepAliveCloses, KeepAliveShuts
  <2>1. CASE \/ KeepAliveTicks(c) \/ PingSent(c) \/ PingFails(c)
             \/ KeepAliveDone(c)
    <3> USE <2>1 DEF KeepAliveTicks, PingSent, PingFails, KeepAliveDone
    <3>1. GoroutinesCounted'
      BY DEF GoroutinesCounted, LoopAlive
    <3>2. (ClientFits /\ ReaderCanBeStopped)'
      BY DEF ClientFits, ReaderCanBeStopped, Handshake, Session
    <3>3. (UnclosedIsOpen /\ NoSocketLeaks)'
      BY DEF UnclosedIsOpen, NoSocketLeaks, WillClose, Closers
    <3>4. ClosedOnce'
      BY DEF ClosedOnce, Closers
    <3> QED BY <2>a, <3>1, <3>2, <3>3, <3>4
  <2>2. CASE KeepAliveFindsClosed(c)
    <3> USE <2>2 DEF KeepAliveFindsClosed
    <3>1. GoroutinesCounted'
      BY DEF GoroutinesCounted, LoopAlive
    <3>2. (ClientFits /\ UnclosedIsOpen /\ ReaderCanBeStopped)'
      BY DEF ClientFits, UnclosedIsOpen, NoSocketLeaks, Closers,
         ReaderCanBeStopped, Handshake, Session
    <3>3. (NoSocketLeaks /\ ClosedOnce)'
      BY DEF NoSocketLeaks, WillClose, ClosedOnce, Closers
    <3> QED BY <2>a, <3>1, <3>2, <3>3
  \* It takes the flag, so the socket is open, and its own from now on.
  <2>3. CASE KeepAliveCloses(c)
    <3> USE <2>3 DEF KeepAliveCloses
    <3>1. GoroutinesCounted'
      BY DEF GoroutinesCounted, LoopAlive
    <3>2. (ClientFits /\ UnclosedIsOpen /\ ReaderCanBeStopped)'
      BY DEF ClientFits, UnclosedIsOpen, ReaderCanBeStopped, Handshake,
         Session
    <3>3. (NoSocketLeaks /\ ClosedOnce)'
      BY DEF UnclosedIsOpen, NoSocketLeaks, WillClose, ClosedOnce, Closers
    <3> QED BY <2>a, <3>1, <3>2, <3>3
  <2>4. CASE KeepAliveShuts(c)
    <3> USE <2>4 DEF KeepAliveShuts
    <3>1. GoroutinesCounted'
      BY DEF GoroutinesCounted, LoopAlive
    <3>2. closed[c] /\ (loopPc \notin {"dial"} \cup Handshake \/ cur # c)
      BY DEF ClosedOnce, Closers, ClientFits
    <3>3. (ClientFits /\ UnclosedIsOpen /\ ReaderCanBeStopped)'
      BY <3>2 DEF ClientFits, UnclosedIsOpen, ClosedOnce, Closers,
         ReaderCanBeStopped, Handshake, Session
    <3>4. (NoSocketLeaks /\ ClosedOnce)'
      BY DEF NoSocketLeaks, WillClose, ClosedOnce, Closers
    <3> QED BY <2>a, <3>1, <3>3, <3>4
  <2> QED BY <1>8, <2>1, <2>2, <2>3, <2>4 DEF KeepAliveNext
<1>9. ASSUME NEW c \in Conns, PeerLost(c) \/ PeerHangs(c) \/ PeerSends(c)
      PROVE  ConnectionInv'
  BY <1>9, ClientsFrame, CountFrame
     DEF PeerLost, PeerHangs, PeerMoves, PeerSends, QuietAfterStop
<1> QED BY <1>1, <1>2, <1>3, <1>4, <1>5, <1>6, <1>7, <1>8, <1>9
        DEF StartNext, StopNext

\* The invariant holds in every state of every behaviour.
THEOREM InvAlways == RunLoopSpec => []Inv
<1>1. Inv /\ [RunLoopNext]_vars => Inv'
  <2> SUFFICES ASSUME Inv, [RunLoopNext]_vars PROVE Inv'
    OBVIOUS
  <2>1. RunLoopTypeOK'
    BY LoopTypeStep, OtherTypeStep DEF RunLoopNext
  <2>2. ConnectionInv'
    BY <2>1, LoopConnectionStep, OtherConnectionStep DEF RunLoopNext
  <2> QED BY <2>1, <2>2 DEF Inv
<1> QED BY InvInit, <1>1, PTL DEF RunLoopSpec

\* Every variable keeps its type (runLoop, Start, Stop, mqttClient).
THEOREM RunLoopTypeCorrect == RunLoopSpec => []RunLoopTypeOK
<1>1. Inv => RunLoopTypeOK
  BY DEF Inv
<1> QED BY <1>1, InvAlways, PTL

\* However many connections come and go, runLoop and keepAlive leave no
\* socket without somebody who closes it (close, printer.go:160,185-186).
THEOREM SocketsDoNotLeak == RunLoopSpec => []NoSocketLeaks
<1>1. Inv => NoSocketLeaks
  BY DEF Inv, ConnectionInv
<1> QED BY <1>1, InvAlways, PTL

\* The two calls of close on a client close its socket once (mqtt.go:162).
THEOREM SocketsAreClosedOnce == RunLoopSpec => []ClosedOnce
<1>1. Inv => ClosedOnce
  BY DEF Inv, ConnectionInv
<1> QED BY <1>1, InvAlways, PTL

\* A readLoop on an open socket has a keepAlive beside it (printer.go:159).
THEOREM ReadersCanBeStopped == RunLoopSpec => []ReaderCanBeStopped
<1>1. Inv => ReaderCanBeStopped
  BY DEF Inv, ConnectionInv
<1> QED BY <1>1, InvAlways, PTL

\* When Stop has returned no connection is open and none will be, whatever
\* the race between Start and Stop (printer.go:100-105).
THEOREM StoppedIsQuiet == RunLoopSpec => []QuietAfterStop
<1>1. Inv => QuietAfterStop
  BY DEF Inv, ConnectionInv
<1> QED BY <1>1, InvAlways, PTL
=============================================================================
