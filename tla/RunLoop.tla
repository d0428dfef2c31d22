------------------------------ MODULE RunLoop ------------------------------
(***************************************************************************)
(* The connection of one printer, from start to stop: the goroutine of     *)
(* runLoop, one keepAlive goroutine per connection, the caller of Start    *)
(* and the caller of Stop (printer.go, main.go), over the client's socket  *)
(* (mqtt.go).  What handleMessage does with a report is HandleMessage's    *)
(* subject; here it is a step that takes time.                             *)
(*                                                                         *)
(* Each iteration of the loop makes a client of its own.  Clients are      *)
(* members of Conns, and one that nobody uses any more may stand for a new *)
(* one, so that the number of reconnections has no bound.                  *)
(***************************************************************************)
EXTENDS Naturals

CONSTANTS
  Conns,        \* bound: clients in use at the same time
  NoConn,       \* no client yet
  MaxInbox,     \* bound: packets received and not yet read
  MaxAttempt,   \* bound: failed attempts that are counted
  MayHang       \* whether a printer may fall silent with its socket open

ASSUME ConnsAssumption == NoConn \notin Conns /\ "loop" \notin Conns
ASSUME BoundsAssumption == MaxInbox \in Nat /\ MaxAttempt \in Nat
ASSUME HangAssumption == MayHang \in BOOLEAN

VARIABLES
  interrupted,   \* the signal context of run() is done
  startPc,       \* the errgroup goroutine that calls Start
  stopPc,        \* run(), which calls Stop when it is interrupted
  cancelSet,     \* p.cancel # nil
  cancelled,     \* p.cancel() has been called
  wg,            \* p.wg: the Adds without a Done, each named for its goroutine
  loopPc,        \* where runLoop is
  cur,           \* runLoop's client
  attempt,       \* consecutive connect failures
  sock,          \* per client: its socket
  closed,        \* per client: the closed flag
  connCancelled, \* per client: connCancel() has been called
  keepAlive,     \* per client: where its keepAlive goroutine is
  peer,          \* per client: the printer's end (external)
  inbox          \* per client: packets not yet read

mainVars  == <<interrupted, startPc, stopPc, cancelSet, cancelled>>
loopVars  == <<loopPc, cur, attempt>>
clientVars == <<sock, closed, connCancelled, keepAlive, peer, inbox>>
vars == <<mainVars, wg, loopVars, clientVars>>

-----------------------------------------------------------------------------
(* Where the goroutines can be. *)

\* In connect and subscribe nobody but runLoop knows the client.
Handshake == {"connack", "suback", "pushall", "reset", "spawn"}
\* readLoop.
Session == {"check", "read", "handle"}
\* The printer has the subscription and may send reports.
Subscribed == Session \cup {"pushall", "reset", "spawn"}
\* connCancel and client.close.
Leaving == {"cancelConn", "close", "shut"}
Waiting == {"retryWait", "rejoinWait"}
LoopPcs == {"idle", "top", "dial", "left", "done"}
             \cup Handshake \cup Session \cup Leaving \cup Waiting

KeepAlivePcs == {"none", "select", "ping", "close", "shut"}

LoopAlive == loopPc \notin {"idle", "done"}

\* Mutant: a context of its own, which only Stop cancels.
CtxOfItsOwn == cancelled

\* The context runLoop was given, a child of the signal context, and that of
\* a connection.
CtxDone == interrupted \/ cancelled
ConnCtxDone(c) == CtxDone \/ connCancelled[c]

RunLoopInit ==
  /\ interrupted = FALSE /\ startPc = "pending" /\ stopPc = "serving"
  /\ cancelSet = FALSE /\ cancelled = FALSE
  /\ wg = {}
  /\ loopPc = "idle" /\ cur = NoConn /\ attempt = 0
  /\ sock = [c \in Conns |-> "none"]
  /\ closed = [c \in Conns |-> FALSE]
  /\ connCancelled = [c \in Conns |-> FALSE]
  /\ keepAlive = [c \in Conns |-> "none"]
  /\ peer = [c \in Conns |-> "up"]
  /\ inbox = [c \in Conns |-> 0]

-----------------------------------------------------------------------------
(* run(), Start and Stop. *)

Interrupt ==
  /\ ~interrupted
  /\ interrupted' = TRUE
  /\ UNCHANGED <<startPc, stopPc, cancelSet, cancelled, wg, loopVars,
                 clientVars>>

\* Start: ctx, p.cancel = context.WithCancel(ctx) ...
StartSetsCancel ==
  /\ startPc = "pending"
  /\ startPc' = "cancelSet"
  /\ cancelSet' = TRUE
  /\ UNCHANGED <<interrupted, stopPc, cancelled, wg, loopVars, clientVars>>

\* ... wg.Add(1), go runLoop, and return.
StartSpawns ==
  /\ startPc = "cancelSet"
  /\ startPc' = "returned"
  /\ wg' = wg \cup {"loop"}
  /\ loopPc' = "top"
  /\ UNCHANGED <<interrupted, stopPc, cancelSet, cancelled, cur, attempt,
                 clientVars>>

\* run() was waiting for its context, and stops one printer after the other;
\* when it comes to this one Stop cancels what Start has set ...
StopCancels ==
  /\ stopPc = "serving" /\ interrupted
  /\ stopPc' = "waiting"
  /\ cancelled' = cancelSet
  /\ UNCHANGED <<interrupted, startPc, cancelSet, wg, loopVars, clientVars>>

\* Mutant: Stop does not wait.
StopReturnsAtOnce ==
  /\ stopPc = "waiting"
  /\ stopPc' = "stopped"
  /\ UNCHANGED <<interrupted, startPc, cancelSet, cancelled, wg, loopVars,
                 clientVars>>

\* ... and waits for the wait group.
StopReturns ==
  /\ stopPc = "waiting" /\ wg = {}
  /\ stopPc' = "stopped"
  /\ UNCHANGED <<interrupted, startPc, cancelSet, cancelled, wg, loopVars,
                 clientVars>>

\* run() waits for the errgroup and returns: the process ends.
RunReturns ==
  /\ stopPc = "stopped" /\ startPc = "returned"
  /\ stopPc' = "exited"
  /\ UNCHANGED <<interrupted, startPc, cancelSet, cancelled, wg, loopVars,
                 clientVars>>

-----------------------------------------------------------------------------
(* runLoop: a new client, connect, subscribe. *)

\* The steps of runLoop that only move it on.
LoopMoves(from, to) ==
  /\ loopPc = from
  /\ loopPc' = to

LoopReturns(from) ==
  /\ LoopMoves(from, "done")
  /\ CtxDone
  /\ wg' = wg \ {"loop"}
  /\ UNCHANGED <<mainVars, cur, attempt, clientVars>>

\* A client nobody uses: its socket is closed and its keepAlive has ended.
Free(c) == sock[c] # "open" /\ keepAlive[c] = "none"

NewClient(c) ==
  /\ LoopMoves("top", "dial")
  /\ ~CtxDone
  /\ Free(c)
  /\ cur' = c
  /\ sock' = [sock EXCEPT ![c] = "none"]
  /\ closed' = [closed EXCEPT ![c] = FALSE]
  /\ connCancelled' = [connCancelled EXCEPT ![c] = FALSE]
  /\ peer' = [peer EXCEPT ![c] = "up"]
  /\ inbox' = [inbox EXCEPT ![c] = 0]
  /\ UNCHANGED <<mainVars, wg, attempt, keepAlive>>

DialFails ==
  /\ LoopMoves("dial", "retryWait")
  /\ UNCHANGED <<mainVars, wg, cur, attempt, clientVars>>

\* The TLS connection is up and CONNECT is on its way.
DialSucceeds ==
  /\ LoopMoves("dial", "connack")
  /\ sock' = [sock EXCEPT ![cur] = "open"]
  /\ UNCHANGED <<mainVars, wg, cur, attempt, closed, connCancelled, keepAlive,
                 peer, inbox>>

\* Mutant: the attempts are not forgotten.
ConnAckKeepsAttempt ==
  /\ LoopMoves("connack", "suback")
  /\ peer[cur] = "up"
  /\ UNCHANGED <<mainVars, wg, cur, attempt, clientVars>>

ConnAckArrives ==
  /\ LoopMoves("connack", "suback")
  /\ peer[cur] = "up"
  /\ attempt' = 0
  /\ UNCHANGED <<mainVars, wg, cur, clientVars>>

\* CONNECT cannot be written, the printer refuses, answers something else or
\* goes away: connect closes the socket itself.
ConnectFails ==
  /\ LoopMoves("connack", "retryWait")
  /\ peer[cur] # "hung"
  /\ sock' = [sock EXCEPT ![cur] = "closed"]
  /\ UNCHANGED <<mainVars, wg, cur, attempt, closed, connCancelled, keepAlive,
                 peer, inbox>>

SubAckArrives ==
  /\ LoopMoves("suback", "pushall")
  /\ peer[cur] = "up"
  /\ UNCHANGED <<mainVars, wg, cur, attempt, clientVars>>

\* Mutant: the client is not closed when the subscription fails.
SubscribeFailsOpen ==
  /\ LoopMoves("suback", "rejoinWait")
  /\ peer[cur] # "hung"
  /\ UNCHANGED <<mainVars, wg, cur, attempt, clientVars>>

\* The subscription is refused, or any other packet comes first, a report
\* included: runLoop closes the client.
SubscribeFails ==
  /\ LoopMoves("suback", "rejoinWait")
  /\ peer[cur] # "hung"
  /\ closed' = [closed EXCEPT ![cur] = TRUE]
  /\ sock' = [sock EXCEPT ![cur] = "closed"]
  /\ UNCHANGED <<mainVars, wg, cur, attempt, connCancelled, keepAlive, peer,
                 inbox>>

\* The request for a full report, sent or not: a failure is only logged.
AsksForAll ==
  /\ LoopMoves("pushall", "reset")
  /\ UNCHANGED <<mainVars, wg, cur, attempt, clientVars>>

ResetsTracker ==
  /\ LoopMoves("reset", "spawn")
  /\ UNCHANGED <<mainVars, wg, cur, attempt, clientVars>>

\* Mutant: readLoop is entered without a keepAlive.
SpawnsNothing ==
  /\ LoopMoves("spawn", "check")
  /\ UNCHANGED <<mainVars, wg, cur, attempt, clientVars>>

SpawnsKeepAlive ==
  /\ LoopMoves("spawn", "check")
  /\ wg' = wg \cup {cur}
  /\ keepAlive' = [keepAlive EXCEPT ![cur] = "select"]
  /\ UNCHANGED <<mainVars, cur, attempt, sock, closed, connCancelled, peer,
                 inbox>>

-----------------------------------------------------------------------------
(* readLoop. *)

ChecksClosed ==
  /\ loopPc = "check"
  /\ loopPc' = IF closed[cur] THEN "cancelConn" ELSE "read"
  /\ UNCHANGED <<mainVars, wg, cur, attempt, clientVars>>

\* Mutant: a read returns with nothing read.
TakesNothing(next) ==
  /\ LoopMoves("read", next)
  /\ inbox' = [inbox EXCEPT ![cur] = @ - 1]
  /\ UNCHANGED <<mainVars, wg, cur, attempt, sock, closed, connCancelled,
                 keepAlive, peer>>

\* A packet may still come out of the reader's buffer after the socket was
\* closed.  It is a report ...
Takes(next) ==
  /\ LoopMoves("read", next)
  /\ inbox[cur] > 0
  /\ inbox' = [inbox EXCEPT ![cur] = @ - 1]
  /\ UNCHANGED <<mainVars, wg, cur, attempt, sock, closed, connCancelled,
                 keepAlive, peer>>
ReadsReport == Takes("handle")
\* ... or a PINGRESP or another packet that is ignored.
ReadsOther == Takes("check")

\* The socket was closed here or there, or what came is no packet.
ReadFails ==
  /\ LoopMoves("read", "cancelConn")
  /\ sock[cur] = "closed" \/ peer[cur] = "lost" \/ inbox[cur] > 0
  /\ UNCHANGED <<mainVars, wg, cur, attempt, clientVars>>

HandlerReturns ==
  /\ LoopMoves("handle", "check")
  /\ UNCHANGED <<mainVars, wg, cur, attempt, clientVars>>

-----------------------------------------------------------------------------
(* runLoop after readLoop: connCancel, close, and what comes next. *)

CancelsConn ==
  /\ LoopMoves("cancelConn", "close")
  /\ connCancelled' = [connCancelled EXCEPT ![cur] = TRUE]
  /\ UNCHANGED <<mainVars, wg, cur, attempt, sock, closed, keepAlive, peer,
                 inbox>>

\* Mutant: the flag is set, but not looked at.
LoopClosesBlindly ==
  /\ LoopMoves("close", "shut")
  /\ closed' = [closed EXCEPT ![cur] = TRUE]
  /\ UNCHANGED <<mainVars, wg, cur, attempt, sock, connCancelled, keepAlive,
                 peer, inbox>>

\* close() exchanges the flag: whoever finds it set returns at once, ...
LoopCloses ==
  /\ loopPc = "close"
  /\ loopPc' = IF closed[cur] THEN "left" ELSE "shut"
  /\ closed' = [closed EXCEPT ![cur] = TRUE]
  /\ UNCHANGED <<mainVars, wg, cur, attempt, sock, connCancelled, keepAlive,
                 peer, inbox>>

\* Mutant: whoever took the flag leaves the socket open.
LoopShutsNothing ==
  /\ LoopMoves("shut", "left")
  /\ UNCHANGED <<mainVars, wg, cur, attempt, clientVars>>

\* ... the other one closes the socket.
LoopShuts ==
  /\ LoopMoves("shut", "left")
  /\ sock' = [sock EXCEPT ![cur] = "closed"]
  /\ UNCHANGED <<mainVars, wg, cur, attempt, closed, connCancelled, keepAlive,
                 peer, inbox>>

Rejoins ==
  /\ LoopMoves("left", "rejoinWait")
  /\ ~CtxDone
  /\ UNCHANGED <<mainVars, wg, cur, attempt, clientVars>>

\* backoff: the timer fires or the context is done.
RetryWaitEnds ==
  /\ LoopMoves("retryWait", "top")
  /\ attempt' = IF attempt < MaxAttempt THEN attempt + 1 ELSE attempt
  /\ UNCHANGED <<mainVars, wg, cur, clientVars>>

\* Mutant: the wait is followed by another one, not by a new client.
RejoinWaitRepeats ==
  /\ LoopMoves("rejoinWait", "left")
  /\ UNCHANGED <<mainVars, wg, cur, attempt, clientVars>>

RejoinWaitEnds ==
  /\ LoopMoves("rejoinWait", "top")
  /\ UNCHANGED <<mainVars, wg, cur, attempt, clientVars>>

LoopNext ==
  \/ LoopReturns("top") \/ (\E c \in Conns : NewClient(c))
  \/ DialFails \/ DialSucceeds \/ ConnAckArrives \/ ConnectFails
  \/ SubAckArrives \/ SubscribeFails
  \/ AsksForAll \/ ResetsTracker \/ SpawnsKeepAlive
  \/ ChecksClosed \/ ReadsReport \/ ReadsOther \/ ReadFails \/ HandlerReturns
  \/ CancelsConn \/ LoopCloses \/ LoopShuts
  \/ LoopReturns("left") \/ Rejoins \/ RetryWaitEnds \/ RejoinWaitEnds

-----------------------------------------------------------------------------
(* keepAlive of client c. *)

KeepAliveMoves(c, from, to) ==
  /\ keepAlive[c] = from
  /\ keepAlive' = [keepAlive EXCEPT ![c] = to]
  /\ UNCHANGED <<mainVars, loopVars, connCancelled, peer, inbox>>

KeepAliveTicks(c) ==
  /\ KeepAliveMoves(c, "select", "ping")
  /\ UNCHANGED <<wg, sock, closed>>

\* The PINGREQ is written; no answer is waited for.
PingSent(c) ==
  /\ KeepAliveMoves(c, "ping", "select")
  /\ sock[c] = "open"
  /\ UNCHANGED <<wg, sock, closed>>

\* Mutant: the socket is left to readLoop, which will notice too.
PingFailsUnclosed(c) ==
  /\ KeepAliveMoves(c, "ping", "none")
  /\ sock[c] = "closed" \/ peer[c] = "lost"
  /\ wg' = wg \ {c}
  /\ UNCHANGED <<sock, closed>>

PingFails(c) ==
  /\ KeepAliveMoves(c, "ping", "close")
  /\ sock[c] = "closed" \/ peer[c] = "lost"
  /\ UNCHANGED <<wg, sock, closed>>

\* Mutant: keepAlive knows of the end of its connection, not of the daemon's.
KeepAliveDoneByLoop(c) ==
  /\ KeepAliveMoves(c, "select", "close")
  /\ connCancelled[c]
  /\ UNCHANGED <<wg, sock, closed>>

KeepAliveDone(c) ==
  /\ KeepAliveMoves(c, "select", "close")
  /\ ConnCtxDone(c)
  /\ UNCHANGED <<wg, sock, closed>>

\* close() again, and the end of the goroutine.
KeepAliveFindsClosed(c) ==
  /\ KeepAliveMoves(c, "close", "none")
  /\ closed[c]
  /\ wg' = wg \ {c}
  /\ UNCHANGED <<sock, closed>>

KeepAliveCloses(c) ==
  /\ KeepAliveMoves(c, "close", "shut")
  /\ ~closed[c]
  /\ closed' = [closed EXCEPT ![c] = TRUE]
  /\ UNCHANGED <<wg, sock>>

KeepAliveShuts(c) ==
  /\ KeepAliveMoves(c, "shut", "none")
  /\ sock' = [sock EXCEPT ![c] = "closed"]
  /\ wg' = wg \ {c}
  /\ UNCHANGED closed

KeepAliveNext(c) ==
  \/ KeepAliveTicks(c) \/ PingSent(c) \/ PingFails(c) \/ KeepAliveDone(c)
  \/ KeepAliveFindsClosed(c) \/ KeepAliveCloses(c) \/ KeepAliveShuts(c)

-----------------------------------------------------------------------------
(* The printer and the network (external). *)

PeerMoves(c, to) ==
  /\ sock[c] = "open"
  /\ peer[c] \in {"up", "hung"} /\ peer[c] # to
  /\ peer' = [peer EXCEPT ![c] = to]
  /\ UNCHANGED <<mainVars, wg, loopVars, sock, closed, connCancelled,
                 keepAlive, inbox>>

PeerLost(c) == PeerMoves(c, "lost")
\* The printer stops answering but its end of the socket stays open.
PeerHangs(c) == MayHang /\ PeerMoves(c, "hung")

PeerSends(c) ==
  /\ c = cur /\ loopPc \in Subscribed
  /\ sock[c] = "open" /\ peer[c] = "up" /\ inbox[c] < MaxInbox
  /\ inbox' = [inbox EXCEPT ![c] = @ + 1]
  /\ UNCHANGED <<mainVars, wg, loopVars, sock, closed, connCancelled,
                 keepAlive, peer>>

-----------------------------------------------------------------------------
StopNext == StopCancels \/ StopReturns \/ RunReturns
StartNext == StartSetsCancel \/ StartSpawns

\* RunReturns ends the process.  A goroutine that is still there may go on
\* for all the model knows, which only makes QuietAfterStop harder.
Exited == stopPc = "exited" /\ ~LoopAlive /\ UNCHANGED vars

RunLoopNext ==
  \/ Interrupt \/ StartNext \/ StopNext \/ LoopNext
  \/ \E c \in Conns : KeepAliveNext(c) \/ PeerLost(c) \/ PeerHangs(c)
                        \/ PeerSends(c)
  \/ Exited

RunLoopSpec == RunLoopInit /\ [][RunLoopNext]_vars

\* The scheduler runs every goroutine that can go on; dials, writes and the
\* timers of backoff end by their own deadlines, and a printer that is up
\* answers.  handleMessage may never return: a camera that is silent keeps it
\* (camera.go:43).  StopCancels may never come: the Stop of an earlier printer
\* may not return.  The ticker of keepAlive fires only every 30 s, so its select
\* does not overlook a finished context for ever; TCP gives a lost connection
\* up, so that the pings on it fail in the end.
Fairness ==
  /\ WF_vars(StartNext) /\ WF_vars(StopReturns \/ RunReturns)
  /\ WF_vars(LoopNext /\ loopPc # "handle")
  /\ \A c \in Conns : /\ WF_vars(KeepAliveNext(c))
                      /\ SF_vars(KeepAliveDone(c)) /\ SF_vars(PingFails(c))

FairRunLoop == RunLoopSpec /\ Fairness

-----------------------------------------------------------------------------
(* Safety. *)

\* Type invariant of the connection's state.
RunLoopTypeOK ==
  /\ interrupted \in BOOLEAN /\ cancelSet \in BOOLEAN /\ cancelled \in BOOLEAN
  /\ startPc \in {"pending", "cancelSet", "returned"}
  /\ stopPc \in {"serving", "waiting", "stopped", "exited"}
  /\ wg \subseteq {"loop"} \cup Conns
  /\ loopPc \in LoopPcs
  /\ cur \in Conns \cup {NoConn}
  /\ attempt \in 0..MaxAttempt
  /\ sock \in [Conns -> {"none", "open", "closed"}]
  /\ closed \in [Conns -> BOOLEAN]
  /\ connCancelled \in [Conns -> BOOLEAN]
  /\ keepAlive \in [Conns -> KeepAlivePcs]
  /\ peer \in [Conns -> {"up", "hung", "lost"}]
  /\ inbox \in [Conns -> 0..MaxInbox]

\* The goroutines that are committed to closing the socket of client c: the
\* one that found the closed flag unset.
Closers(c) == {g \in {"loop", "keepAlive"} :
                 \/ g = "loop" /\ loopPc = "shut" /\ cur = c
                 \/ g = "keepAlive" /\ keepAlive[c] = "shut"}

\* runLoop still has client c's own close in front of it.
WillClose(c) == /\ cur = c
                /\ loopPc \in Handshake \cup Session \cup {"cancelConn", "close"}

\* No socket leaks: an open one is closed by a goroutine that already took
\* the closed flag or, the flag being unset, by runLoop when it leaves the
\* connection.  In particular runLoop may pass its own close and dial again
\* while keepAlive has yet to close the old socket, but never without that
\* (close's Swap, and the close after readLoop, printer.go:185-186).
NoSocketLeaks ==
  \A c \in Conns : sock[c] = "open" =>
    IF closed[c] THEN Closers(c) # {} ELSE WillClose(c)

\* The socket of a connection is closed by one goroutine, and only while it
\* is open: whoever is about to close it is alone and not too late
\* (mqtt.go:162, closed.Swap).
ClosedOnce ==
  \A c \in Conns : Closers(c) # {} =>
    /\ sock[c] = "open" /\ closed[c]
    /\ \A g, h \in Closers(c) : g = h

\* As long as runLoop may block in readLoop on an open socket there is a
\* keepAlive goroutine that will unblock it when the daemon stops
\* (printer.go:159-163 before 168; the client is shared by the two).
ReaderCanBeStopped ==
  loopPc \in Session /\ sock[cur] = "open" => keepAlive[cur] # "none"

\* Once Stop has returned, whether Start ran before, during or after it, no
\* connection is open, no report is being handled and no keepAlive is left
\* (printer.go:100-105, main.go:100-119).
QuietAfterStop ==
  stopPc \in {"stopped", "exited"} =>
    /\ \A c \in Conns : sock[c] # "open" /\ keepAlive[c] = "none"
    /\ loopPc \in {"idle", "top", "done"}

-----------------------------------------------------------------------------
(* The inductive invariant behind the safety properties. *)

\* The wait group counts exactly the goroutines that are running, and
\* runLoop is not there before Start has spawned it.
GoroutinesCounted ==
  /\ "loop" \in wg <=> LoopAlive
  /\ \A c \in Conns : c \in wg <=> keepAlive[c] # "none"
  /\ startPc = "returned" <=> loopPc # "idle"

\* Where runLoop is tells what its client is like.
ClientFits ==
  /\ loopPc \notin {"idle", "top", "done"} => cur \in Conns
  /\ loopPc = "dial" => sock[cur] = "none"
  /\ loopPc \in Handshake => sock[cur] = "open"
  /\ loopPc \in {"dial"} \cup Handshake
       => ~closed[cur] /\ keepAlive[cur] = "none"

\* Whoever finds the closed flag unset finds the socket open.
UnclosedIsOpen ==
  /\ loopPc \in Session \cup {"cancelConn", "close"} /\ ~closed[cur]
       => sock[cur] = "open"
  /\ \A c \in Conns : keepAlive[c] # "none" /\ ~closed[c] => sock[c] = "open"

ConnectionInv ==
  /\ GoroutinesCounted /\ ClientFits /\ UnclosedIsOpen
  /\ NoSocketLeaks /\ ClosedOnce /\ ReaderCanBeStopped
  /\ QuietAfterStop /\ (stopPc # "serving" => interrupted)

-----------------------------------------------------------------------------
(* Liveness, under FairRunLoop. *)

\* connect and subscribe wait for the printer's answer without a deadline,
\* and there is no keepAlive yet.
HandshakeHangs == loopPc \in {"connack", "suback"} /\ peer[cur] = "hung"

\* A handshake whose answer never comes, and a report whose handling never
\* ends (its camera is silent): the two things that hold runLoop up for ever.
HeldUp == []HandshakeHangs \/ [](loopPc = "handle")

\* Stop returns: whatever runLoop and its keepAlives are doing when the
\* daemon stops, and even if the printer fell silent in an established
\* session (keepAlive closes the socket under readLoop, printer.go:406-408).
\* It does not only if runLoop is held up, and stays so.
StopReturnsUnlessHeldUp == stopPc = "waiting" ~> (stopPc = "stopped" \/ HeldUp)

\* Whatever becomes of the other printers' Stop: the interrupt alone ends
\* every printer's loop, since the contexts given to Start are children of
\* the signal context (main.go:92-110), unless the loop is held up.
InterruptEndsLoop == interrupted ~> (loopPc = "done" \/ HeldUp)

\* Every socket that was opened is closed once its printer is lost or the
\* daemon stops, also when it is no longer runLoop's, and when runLoop never
\* comes back from a report.
SocketsGetClosed ==
  \A c \in Conns :
    (sock[c] = "open" /\ (CtxDone \/ peer[c] = "lost"))
      ~> (sock[c] # "open" \/ (cur = c /\ HandshakeHangs))

\* printer.go:99, "Stop cancels the printer loop and waits for it to
\* finish": it does finish, and Stop returns, if handleMessage does.
StopReturnsAtLast ==
  stopPc = "waiting" ~> (stopPc = "stopped" \/ [](loopPc = "handle"))

\* mqtt.go:151, ping "expects a PINGRESP within 5 seconds": a session whose
\* printer stopped answering does not stay open for ever.
SilenceIsNoticed ==
  (loopPc \in Session /\ peer[cur] = "hung")
    ~> (loopPc \notin Session \/ peer[cur] # "hung" \/ [](loopPc = "handle"))
=============================================================================
