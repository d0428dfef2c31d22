--------------------------- MODULE HandleMessage ---------------------------
(***************************************************************************)
(* What a printer does with one report after another: handleMessage with   *)
(* the camera snapshot and the fan-out to the notifiers (printer.go), the  *)
(* event filter (filter.go).  It runs on the goroutine of readLoop, so     *)
(* reports are handled one at a time; the sends of one event run in        *)
(* parallel.  The tracker is StateTracker's subject: here a report comes   *)
(* with the types of the events it gives rise to.                          *)
(***************************************************************************)
EXTENDS Events, Camera, Services, Sequences

CONSTANTS
  Notifiers,
  Service,        \* Service[n]: "discord", "slack" or "telegram"
  Allowed,        \* Allowed[n]: the events list of a notifier, {} for none
  Cameras,        \* the camera settings a printer may have
  Batches,        \* bound: sequences of event types update may return
  URLs            \* stream URLs a printer may advertise

NoURL == ""

ASSUME ServiceAssumption ==
  Service \in [Notifiers -> {"discord", "slack", "telegram"}]
ASSUME AllowedAssumption == Allowed \in [Notifiers -> SUBSET Types]
ASSUME CamerasAssumption == Cameras \subseteq [rtsp : BOOLEAN, port : Nat]
ASSUME BatchesAssumption == Batches \subseteq Seq(Types)
ASSUME URLsAssumption == NoURL \notin URLs

VARIABLES
  camera,           \* camera_rtsp, and camera_port or 0
  pc,               \* where handleMessage is
  events,           \* the types of the batch it is handling
  at,               \* the event of the batch it has come to
  snap,             \* whether the events carry a snapshot
  sends,            \* what has come of each notifier's send of this event
  logged,           \* the notifiers whose failure to send it is logged
  rtspURL,          \* p.rtspURL
  snapshotDisabled, \* p.snapshotDisabled
  refusals          \* captures that failed for good, to 2 (history)

batchVars == <<events, at, snap, sends, logged>>
cameraVars == <<camera, rtspURL, snapshotDisabled, refusals>>
handlerVars == <<pc, batchVars, cameraVars, captureVars>>

-----------------------------------------------------------------------------
\* WithEventFilter: an empty list means no filtering.
Accepts(n, type) == Allowed[n] = {} \/ type \in Allowed[n]

\* A send that has not begun, is under way, or was filtered out.
NotSent == Outcome("not sent", FALSE)
Pending == Outcome("pending", FALSE)
Dropped == Outcome("dropped", FALSE)

SnapshotTypes == {"print_started", "print_finished", "print_failed",
                  "print_paused"}
HasSnapshotEvent(types) == \E i \in DOMAIN types : types[i] \in SnapshotTypes
SnapshotEnabled == ~snapshotDisabled /\ (camera.rtsp \/ camera.port > 0)

HandlerInit ==
  /\ camera \in Cameras
  /\ pc = "idle"
  /\ events = <<>> /\ at = 1 /\ snap = FALSE
  /\ sends = [n \in Notifiers |-> NotSent] /\ logged = {}
  /\ rtspURL = NoURL /\ snapshotDisabled = FALSE /\ refusals = 0
  /\ capturing = "off" /\ frame = NoFrame

\* A report that update makes no event of ends the handler at once, before
\* the URL it may carry is looked at; so does one that cannot be parsed.
QuietReport == pc = "idle" /\ UNCHANGED handlerVars

EventfulReport(types, url) ==
  /\ pc = "idle" /\ types # <<>>
  /\ rtspURL' = IF url = NoURL THEN rtspURL ELSE url
  /\ events' = types
  /\ IF SnapshotEnabled /\ HasSnapshotEvent(types)
       THEN /\ pc' = "capture"
            /\ capturing' = IF camera.rtsp THEN "ffmpeg" ELSE "dial"
       ELSE pc' = "fanOut" /\ UNCHANGED capturing
  /\ UNCHANGED <<camera, at, snap, sends, logged, snapshotDisabled, refusals,
                 frame>>

CaptureRuns == CameraMoves /\ UNCHANGED <<pc, batchVars, cameraVars>>

CaptureSucceeds ==
  /\ pc = "capture" /\ capturing = "captured"
  /\ pc' = "fanOut" /\ snap' = TRUE
  /\ capturing' = "off" /\ frame' = NoFrame
  /\ UNCHANGED <<events, at, sends, logged, cameraVars>>

\* Mutant: the mode is not looked at.
SwitchesOffInAnyMode(error) == error \in {"handshake failure", "ffmpeg not found"}

SwitchesOff(error) == \/ error = "handshake failure" /\ ~camera.rtsp
                      \/ error = "ffmpeg not found"

\* What no further attempt can mend: the printer has no such port, or there
\* is no ffmpeg (the comments of handleSnapshotError's cases).
Hopeless == IF camera.rtsp THEN "ffmpeg not found" ELSE "handshake failure"

\* Mutant: without its snapshot a batch is dropped.
CaptureFailsAndDrops(error) ==
  /\ pc = "capture" /\ capturing = error
  /\ pc' = "idle" /\ events' = <<>> /\ at' = 1
  /\ capturing' = "off" /\ frame' = NoFrame
  /\ UNCHANGED <<snap, sends, logged, cameraVars>>

\* handleSnapshotError: two of the errors switch snapshots off for good.
CaptureFails(error) ==
  /\ pc = "capture" /\ capturing = error
  /\ pc' = "fanOut"
  /\ capturing' = "off" /\ frame' = NoFrame
  /\ snapshotDisabled' = (snapshotDisabled \/ SwitchesOff(error))
  /\ refusals' = IF error = Hopeless /\ refusals < 2
                 THEN refusals + 1 ELSE refusals
  /\ UNCHANGED <<camera, batchVars, rtspURL>>

\* Mutant: one event past the end of the batch.
FanOutStartsPastEnd ==
  /\ pc = "fanOut" /\ at <= Len(events) + 1
  /\ pc' = "waiting" /\ sends' = [n \in Notifiers |-> Pending]
  /\ UNCHANGED <<events, at, snap, logged, cameraVars, captureVars>>

\* fanOut of the event it has come to: a goroutine per notifier, ...
FanOutStarts ==
  /\ pc = "fanOut" /\ at <= Len(events)
  /\ pc' = "waiting" /\ sends' = [n \in Notifiers |-> Pending]
  /\ UNCHANGED <<events, at, snap, logged, cameraVars, captureVars>>

SendEnds(n, outcome) ==
  /\ pc = "waiting" /\ sends[n] = Pending
  /\ sends' = [sends EXCEPT ![n] = outcome]
  /\ UNCHANGED <<pc, events, at, snap, cameraVars, captureVars>>

\* ... each of which sends nothing if its filter does not accept the event,
\* and else ends, well or not, within 15 seconds; a failure is logged ...
SendFiltered(n) ==
  /\ SendEnds(n, Dropped)
  /\ ~Accepts(n, events[at])
  /\ UNCHANGED logged

SendReturns(n, outcome) ==
  /\ SendEnds(n, outcome)
  /\ Accepts(n, events[at])
  /\ logged' = IF Fails(outcome) THEN logged \cup {n} ELSE logged

AllSent == \A n \in Notifiers : sends[n] # Pending

\* Mutant: the same event again.
FanOutRepeats ==
  /\ pc = "waiting" /\ AllSent
  /\ pc' = "fanOut"
  /\ sends' = [n \in Notifiers |-> NotSent] /\ logged' = {}
  /\ UNCHANGED <<events, at, snap, cameraVars, captureVars>>

\* ... and wg.Wait before the next event.
FanOutReturns ==
  /\ pc = "waiting" /\ AllSent
  /\ pc' = "fanOut" /\ at' = at + 1
  /\ sends' = [n \in Notifiers |-> NotSent] /\ logged' = {}
  /\ UNCHANGED <<events, snap, cameraVars, captureVars>>

HandlerReturns ==
  /\ pc = "fanOut" /\ at > Len(events)
  /\ pc' = "idle" /\ events' = <<>> /\ at' = 1 /\ snap' = FALSE
  /\ UNCHANGED <<sends, logged, cameraVars, captureVars>>

Handling ==
  \/ CaptureRuns \/ CaptureSucceeds \/ (\E error \in Errors : CaptureFails(error))
  \/ FanOutStarts
  \/ \E n \in Notifiers :
       \/ SendFiltered(n)
       \/ \E o \in Outcomes(Request(Service[n], snap)) : SendReturns(n, o)
  \/ FanOutReturns
  \/ HandlerReturns

Reports == \/ QuietReport
           \/ \E url \in URLs \cup {NoURL}, types \in Batches :
                EventfulReport(types, url)

HandlerNext == Reports \/ Handling

HandlerSpec == HandlerInit /\ [][HandlerNext]_handlerVars

\* A handler that can go on does: ffmpeg is killed after 20 s, a send given
\* up after 15 s, a dial after 10 s.  Only a camera may be silent for ever.
FairHandler == HandlerSpec /\ WF_handlerVars(Handling)

-----------------------------------------------------------------------------
(* Properties. *)

\* Type invariant of the handler.
HandlerTypeOK ==
  /\ CameraTypeOK
  /\ camera \in Cameras
  /\ pc \in {"idle", "capture", "fanOut", "waiting"}
  /\ capturing # "off" <=> pc = "capture"
  /\ events \in Batches \cup {<<>>}
  /\ at \in 1..Len(events) + 1 /\ (pc = "waiting" => at <= Len(events))
  /\ snap \in BOOLEAN
  /\ DOMAIN sends = Notifiers /\ logged \subseteq Notifiers
  /\ rtspURL \in URLs \cup {NoURL}
  /\ snapshotDisabled \in BOOLEAN
  /\ refusals \in 0..2

AcceptedTypes(n) == {type \in Types : Accepts(n, type)}

\* The events of the batch that n has not been sent yet, in order.
Owed(n) ==
  LET from == IF pc = "waiting" /\ sends[n] # Pending THEN at + 1 ELSE at
  IN  Wanted(events, AcceptedTypes(n))[Len(events) + 1 - from]

Unsent == [n \in Notifiers |-> Owed(n)]

Queues == INSTANCE NotifierQueues WITH
            Wants <- [n \in Notifiers |-> AcceptedTypes(n)], queue <- Unsent

\* The loop over the batch, the goroutines of fanOut and its wait implement
\* one queue per notifier: no event is skipped, repeated or overtaken for
\* any notifier, whatever the others' sends and the camera do
\* (printer.go:264-277, 375-395).
ImplementsQueues == Queues!QueuesSpec

\* Once a report has events, every notifier is sent those it accepts, and
\* the handler is ready for the next report: a notifier whose sends fail or
\* a camera that fails holds nobody up for ever, unless it is a camera on
\* the chamber-image port that stays silent.
EverythingIsSent ==
  \A n \in Notifiers :
    Owed(n) # <<>> ~> (Owed(n) = <<>> /\ pc = "idle") \/ capturing = "silent"

\* A message a service did not take is reported in the log, unless a redirect
\* hid it; nothing is reported of one that was filtered out (fanOut and the
\* status checks of http.go: there is no retry, so the log is all there is).
NothingLostSilently ==
  \A n \in Notifiers :
    /\ n \in logged => sends[n].status # "2xx"
    /\ sends[n] \notin {NotSent, Pending, Dropped, Redirected}
         => sends[n].taken \/ n \in logged

\* What is attached to the events is a whole picture: all that the camera
\* announced was read, in however many parts it came and wherever it broke off,
\* and a capture that failed leaves nothing behind that is taken for one
\* (CaptureFrame, CaptureRTSPFrame).  From the chamber-image port it begins
\* like a JPEG and keeps to the limit; what ffmpeg writes is not looked at.
PicturesAreWhole ==
  [][snap' /\ ~snap =>
       /\ frame.got = frame.size /\ frame.size > 0
       /\ ~camera.rtsp => frame.jpeg /\ frame.size \in 2..maxPayloadSize]_handlerVars

\* CHANGELOG 1.2.2: a printer that refuses the camera's TLS handshake makes
\* one failed attempt, not one per event; the same holds of a missing ffmpeg,
\* and nothing else that goes wrong ends the snapshots, not even an ffmpeg that
\* tells of a failed handshake (handleSnapshotError, snapshotEnabled).
RefusedOnce == refusals <= 1 /\ (snapshotDisabled => refusals = 1)
=============================================================================
