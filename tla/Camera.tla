------------------------------- MODULE Camera -------------------------------
(***************************************************************************)
(* One snapshot at a time: CaptureFrame, which speaks the chamber-image    *)
(* protocol over TLS (camera.go), and CaptureRTSPFrame, which runs ffmpeg  *)
(* (rtsp.go).  Pictures are known by their size, by how much of it was     *)
(* read, and by whether they begin like a JPEG.                            *)
(***************************************************************************)
EXTENDS Naturals

CONSTANTS Sizes   \* payload sizes a frame header may announce, and amounts
                  \* of a payload that may have been read

ASSUME SizesAssumption == Sizes \subseteq Nat

VARIABLES capturing,  \* where the capture is, or how it ended
          frame       \* the picture that was read

captureVars == <<capturing, frame>>

maxPayloadSize == 10485760

NoFrame == [size |-> 0, got |-> 0, jpeg |-> FALSE]
Frames == [size : Sizes \cup {0}, got : Sizes \cup {0}, jpeg : BOOLEAN]

\* The errors handleSnapshotError tells apart.
Errors == {"handshake failure", "ffmpeg not found", "other"}
\* CaptureFrame sets no deadline for its reads: it may be here for ever.
Reading == {"header", "payload", "silent"}

CaptureEnds(from, result) ==
  /\ capturing = from
  /\ capturing' = result
  /\ UNCHANGED frame

-----------------------------------------------------------------------------
(* CaptureFrame. *)

\* The printer refuses the handshake, or nothing answers within ten seconds.
CameraDialFails ==
  \/ CaptureEnds("dial", "handshake failure")
  \/ CaptureEnds("dial", "other")

\* The connection is up and the authentication packet is written.
CameraAnswers == CaptureEnds("dial", "header")

\* parseFrameHeader.
SaneSize(size) == size > 0 /\ size <= maxPayloadSize

HeaderArrives(size) ==
  /\ capturing = "header"
  /\ capturing' = IF SaneSize(size) THEN "payload" ELSE "other"
  /\ frame' = [NoFrame EXCEPT !.size = size]

\* More of the payload is there; the first two bytes tell what it begins like.
PayloadGrows(got, jpeg) ==
  /\ capturing = "payload"
  /\ frame.got < got /\ got <= frame.size
  /\ frame' = [frame EXCEPT !.got = got,
                            !.jpeg = IF @ \/ frame.got >= 2 THEN @
                                     ELSE jpeg /\ got >= 2]

\* Mutant: one Read, which returns what is there.
PayloadReadOnce(got, jpeg) ==
  /\ PayloadGrows(got, jpeg)
  /\ capturing' = IF frame'.jpeg THEN "captured" ELSE "other"

\* io.ReadFull goes on until the payload is whole; then validateJPEG.
PayloadArrives(got, jpeg) ==
  /\ PayloadGrows(got, jpeg)
  /\ capturing' = IF got < frame.size THEN "payload"
                  ELSE IF frame'.jpeg THEN "captured" ELSE "other"

\* The camera closes the connection before the header or the payload is
\* complete (a failed write of the authentication packet is seen here too) ...
CameraCloses == CaptureEnds("header", "other") \/ CaptureEnds("payload", "other")

\* ... or keeps it and sends nothing any more.
CameraFallsSilent ==
  CaptureEnds("header", "silent") \/ CaptureEnds("payload", "silent")

-----------------------------------------------------------------------------
(* CaptureRTSPFrame. *)

FfmpegMissing == CaptureEnds("ffmpeg", "ffmpeg not found")

\* ffmpeg fails, or is killed after twenty seconds, with a part of the picture
\* written.  The error is what it printed, which may tell of a handshake.
FfmpegFails(error, got) ==
  /\ capturing = "ffmpeg" /\ error \in {"handshake failure", "other"}
  /\ frame' = [NoFrame EXCEPT !.got = got]
  /\ capturing' = error

\* ffmpeg is done and has written all it wanted to; that is taken unless it is
\* nothing, whatever it begins like.
FfmpegEnds(size, jpeg) ==
  /\ capturing = "ffmpeg"
  /\ frame' = [size |-> size, got |-> size, jpeg |-> jpeg /\ size >= 2]
  /\ capturing' = IF size > 0 THEN "captured" ELSE "other"

CameraMoves ==
  \/ CameraDialFails \/ CameraAnswers \/ CameraCloses \/ CameraFallsSilent
  \/ FfmpegMissing
  \/ \E size \in Sizes :
       \/ HeaderArrives(size)
       \/ \E error \in Errors : FfmpegFails(error, size)
       \/ \E jpeg \in BOOLEAN : PayloadArrives(size, jpeg) \/ FfmpegEnds(size, jpeg)

-----------------------------------------------------------------------------
CameraTypeOK ==
  /\ capturing \in {"off", "dial", "ffmpeg", "captured"} \cup Reading \cup Errors
  /\ frame \in Frames
=============================================================================
