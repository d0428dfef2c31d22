# A TLA+ model of bambu-notifier

bambu-notifier keeps an MQTT-over-TLS connection to each configured Bambu Lab
printer, turns the printer's reports into print events, and sends those to
Discord, Slack and Telegram, with a camera picture where one is wanted. This
directory models what is hard to test in it: the event logic of
`internal/printer/state.go` behind the parser (`parser.go`), the MQTT packets
and their framing (`mqtt.go`), the goroutines around a connection (`printer.go`,
`mqtt.go`), the waits between connections, the handling of a report through the
camera (`camera/`) up to the services (`notifier/`), all of a printer's parts
joined, and the way from the configuration to running printers (`config.go`,
`discovery/bambulab.go`, `main.go`).

Paths below are relative to `internal/` of the repository unless they start
with `cmd/` or `bambu-notifier/`. `PROJECT.json` maps every definition to the
lines it translates, and lists the hazards with the properties aimed at them.

## Inventory

| Component | State | Operations | Hard behaviour | What makes it correct |
|---|---|---|---|---|
| State tracker `printer/state.go`, `stage.go`, `event/event.go` | previous state, error code, HMS texts, AMS tray, anomaly flag | `update`, `reset` | reports sample the print: states are skipped or repeated, fields left out; the memory is lost with each connection | subscribers end up believing what is true; nothing is told twice without cause; alerts are edge-triggered; the news of a failure precedes its alerts |
| Connection loop `printer/printer.go` | `cancel`, `wg`, the current client, `attempt` | `Start`, `Stop`, `runLoop`, `keepAlive`, `backoff` | runLoop and one keepAlive per connection share a client; old keepAlives overlap new connections; Stop races Start; every early exit has its own clean-up | no socket leaks or is closed twice; a blocked reader can always be unblocked; Stop returns and leaves nothing open; a lost session is followed by a new attempt; waits stay in range |
| MQTT client `printer/mqtt.go` | socket, `closed` flag | `connect`, `subscribe`, `publish`, `ping`, `readLoop`, `close` | reads without deadline, `closed.Swap` from two goroutines, other packets instead of the expected one | as above; packets are read whole, in order and as they were meant, or the connection is given up |
| Message handling `printer/printer.go` | `rtspURL`, `snapshotDisabled` | `handleMessage`, `captureSnapshot`, `handleSnapshotError`, `fanOut` | parallel sends that fail or time out, a camera that refuses, fails or falls silent | each notifier gets each event it accepts, once and in order; trouble with the camera costs a picture at most, unless it is silent for ever; a refusing camera is asked once |
| Event filter `notifier/filter.go` | the list of a notifier | `Send` | an empty list means everything | only accepted events are sent |
| Report parser `printer/parser.go` | none | `parseReport`, flexible JSON types | firmwares write one value as number, numeral, bool or null; a plain field of another type makes a report unparseable | the tracker is given the same report whichever way it is written |
| Configuration `config/config.go` | the `Config` | `Load`, `MergeDiscovered` | three merges of notifier lists, defaults and validation before discovery adds printers | one daemon per printer, every notifier once, nothing unchecked but one case |
| Discovery `discovery/bambulab.go` | none | `Printers` | storage missing, entries incomplete or doubled | only local printers; never fatal; nothing missing but what the entry never had |
| Daemon `cmd/bambu-notifier/main.go` | the printers, the signal context | `run`, `buildPrinters`, `buildNotifiers` | start in an errgroup, stop one after the other | started once, stopped before exit |
| Cameras `camera/` | none | `CaptureFrame`, `CaptureRTSPFrame` | TLS reads without deadline; a camera may announce any size, send it in parts, close or fall silent | a picture is whole, or there is none |
| Services `notifier/discord.go`, `slack.go`, `telegram.go`, `http.go`, `format.go` | none | `Send` | refusals, time-outs, lost answers, redirects; nothing is retried | a message that was not taken is in the log |

How they interact: `run` loads the configuration, merges discovered printers,
builds one printer with its notifiers per entry and starts each in a goroutine
of an errgroup. `Start` spawns `runLoop`. `runLoop` makes a client, connects,
subscribes, resets the tracker, spawns a `keepAlive` and enters `readLoop`,
which calls `handleMessage` for each report on the same goroutine;
`handleMessage` calls the tracker, the camera and, per event, one goroutine per
notifier, and waits for them. `Stop` cancels the context and waits for the wait
group; a cancelled context reaches a blocked `readLoop` only through
`keepAlive`, which closes the client.

## Modules

| Module | What it is |
|---|---|
| `Events` | states and event types of `event.go` |
| `StateTracker` | `Batch(st, r)` and `Updated(st, r)`: what `update` returns and leaves behind; `FreshTracker` is `newStateTracker` and `reset`. One operator per block of `update`, in its order |
| `ReportStream` | a tracker under any sequence of reports and resets, and what a subscriber of its events believes |
| `AlertLatch` | abstract: an alert is told when its condition appears, not while it lasts, again when it returns. `ReportStream` implements it with the error code and the HMS set |
| `Parser` | `ParseReport(raw)`: JSON values of every kind to the report `update` reads, with the flexible types, the plain ones and the zero values; and the ways in which firmwares write a report |
| `TrackedPrinter` | a tracker behind the parser and an external printer that prints, raises alerts and reports at moments of its own choosing; which facts are news (`fresh`), and which the tracker may have forgotten that it told (`forgotten`) |
| `Wire` | the packets of `mqtt.go`: builders, fixed header, `readRemainingLength` byte by byte, `readPacket`, the parsers, on a connection that breaks anywhere |
| `RunLoop` | run/Start, run/Stop, `runLoop`, one `keepAlive` per client, and the printer's end of the socket. One action per atomic step of the code; `loopPc` and `keepAlive[c]` name where a goroutine is |
| `Backoff` | the waits, with the arithmetic of `backoff` and the width of `time.Duration` |
| `Camera` | one snapshot: `CaptureFrame` with its dial, header and payload, `CaptureRTSPFrame` with ffmpeg |
| `Services` | which request a send makes, what may come of it, and what is taken for a failure |
| `HandleMessage` | `handleMessage` step by step: the snapshot (`Camera`), the loop over the batch, one send per notifier (`Services`), `wg.Wait` |
| `NotifierQueues` | abstract: a queue per notifier, of the types it wants (`Wants`). `HandleMessage` implements it |
| `Printer` | one printer as a whole: `RunLoop`, `Backoff` and `HandleMessage` joined where `printer.go` calls from one into another |
| `Startup` | `Load` with its merges, defaults, overrides and validation, discovery, `MergeDiscovered`, `buildPrinters` |
| `*_proofs` | theorems and proofs about the module they are named after; `ReportStream_proofs` and `TrackedPrinter_proofs` rest on `StateTracker_proofs`. `Printer` instantiates `RunLoop_proofs` and `HandleMessage_proofs`, which extend `RunLoop` and `HandleMessage`, so that `Printer_proofs` can cite their theorems |
| `MC*` | values of the constants for TLC |

`Printer` is a conjunction of actions of its parts. `LoopWaits`: an attempt that
fails is a step of `RunLoop` and one of `Backoff`. `LoopCalls`: `readLoop`
hands a report over, a step of `RunLoop` and one of `HandleMessage`.
`LoopGoesOn`: `readLoop` continues when the handler is idle again. In `RunLoop`
alone a call of `handleMessage` may take any time and need not return; in
`HandleMessage` alone a report may come whenever the handler is idle. Joined,
a camera that is silent for ever meets `Stop`, `keepAlive` and the backoff.

What is abstracted:

- *Data.* Events carry their type and, where two events of a type must be told
  apart, the error code, the HMS text or the pause reason. Progress, file
  names, temperatures other than the nozzle's, wording and payloads are left
  out. `attempt` in `Backoff` is kept as its power of two, the number the code
  computes with.
- *JSON.* A value has a kind (number, text, numeral, bool, list, null, absent)
  and what it says; that `"5"` and `5` say the same is the decoder's business.
- *Packets.* The bytes of the fixed header are there one by one; a body is
  known by its length, by the lengths its strings announce and by the one byte
  of it that is told apart (flags, return code, QoS).
- *Reports that cannot be parsed.* Any plain string, list or object of another
  JSON type makes a report unparseable. Those `update` reads are fields of
  their own in `Parser`; the other strings (`gcode_file`, `nozzle_type`, ...)
  are one field, `texts`, and the objects (`ams`, `ipcam`, ...) one, `parts`.
- *Pictures.* A size, how much of it has been read, and whether it begins like
  a JPEG. The payload of the chamber camera comes in parts of any length, and
  ffmpeg may fail with a part of its picture written.
- *Clients.* Each iteration of `runLoop` makes a new client. `RunLoop` has a
  pool of them, and one that nobody uses any more (`Free`) stands for a new
  one; so reconnections are unbounded and only the clients in use at the same
  time are bounded.
- *Network.* A printer is up, lost (the socket reports an error) or hung: its
  application is silent while its kernel goes on acknowledging, so that writes
  succeed. It may change at any moment. Any packet may come where another is
  expected. A service may take a message and its answer be lost.
- *Reports.* In `ReportStream` any report may follow any other. In
  `TrackedPrinter` a partial report may leave out the state, the tray, and the
  error code with the HMS list, each for itself; temperatures are always there.
- *Home Assistant's storage* is a sequence of entries or unreadable. An entry
  may lack its serial number, its title, or both.
- *Lower case.* `Lower` is a constant: any function on the texts of the
  environment that leaves a text in lower case alone.

In several modules a definition is preceded by a variant of it marked
`Mutant:`. It has a plausible bug and is not part of any specification; put in
the place of the definition it must break the property `PROJECT.json` names.

## Runs

All runs together take about six minutes with two workers. Seven find no
error:

**`report_stream`** (`MCReportStream`). Two error codes (one of them the
runout's), two HMS texts, two trays, every named state, one unnamed and the
missing one, a stage that names a reason to pause or none, a nozzle that is too
warm or not heated (the threshold itself is `tracked_printer`'s); up to two HMS
entries per report, so that two texts come together, in either order, or one comes twice.
Two values of each are enough for "another one came"; the HMS texts and the
trays are only compared with each other, so TLC may permute them. It shows
`SubscriberAgrees` (once the tracker has seen the print run, pause, finish or
fail, subscribers believe that), `ResumedOnlyFromPause` (print_resumed is sent
only to subscribers that think the print is paused, also across
reconnections), `LifecycleFirst` (at most one lifecycle event per batch, in
front of the alerts) and `LatchedAlerts` (refinement of `AlertLatch`). All of
them are proved for any codes, texts, trays and lengths of reports.

**`tracked_printer`** (`MCTrackedPrinter`). The same vocabulary with one HMS
text; complete, incomplete and garbled reports, three firmwares that write the
same fields as different JSON types, reconnections; TLC may permute the trays.
`RepeatsOnlyWhatItForgot`:
an event repeats only after a reconnection or a report without error code and
HMS list made the tracker forget it, and then once; a report that cannot be
parsed loses nothing but time. `FirmwareDoesNotMatter`: what the tracker is
given does not depend on how the firmware writes it. `print_resumed` is left
out there: a tracker that missed the end of a print and the start of the next
cannot tell a resumed print from a new one, and `ResumedOnlyFromPause` says
what holds instead.

**`wire`** (`MCWire`). Packets at both edges of the one, two, three and four
bytes of the remaining length and one past the last; empty strings and the
longest that 16 bits can announce; bodies too short for their parser and a
PUBLISH that announces more than it has; all choices of credentials. Two
packets are enough for "behind another one", since the reader starts afresh
with each, and the connection may break at each item of either.
`FramingAgrees`, `MeaningSurvives`, `FailsForAReason`, `EverythingIsRead`.

**`run_loop`** (`MCRunLoop`). Two clients (the current one and one whose
keepAlive is still closing), one packet in the reader's buffer, printers that
are lost or hang at any moment, an interrupt at any moment, including before
`Start` ran. Safety: `NoSocketLeaks`, `ClosedOnce`, `ReaderCanBeStopped`,
`QuietAfterStop`. The theorems below lift these from two clients to any number.
Liveness: `StopReturnsUnlessHeldUp`, `InterruptEndsLoop` (the loops of all
printers end on an interrupt even if `Stop` of an earlier one never returns),
`SocketsGetClosed`. The first two except what really holds a loop up for ever
(`HeldUp`): a handshake that hangs, and a call of `handleMessage` that does not
return, which is the silent camera of `printer`. The third has no exception.
Deadlock is checked.

**`handle_message`** (`MCHandleMessage`). Three notifiers (no filter, a list, a
list that misses most), one on each service; batches of zero to three events
with and without a reason for a snapshot, a twin alert; all three camera
settings; announced picture sizes of zero, one, two, the limit and one more,
the payload coming in up to three parts (one byte, two, the rest) and breaking
off after each; an ffmpeg that fails with any of them written, or with a
message that reads like a refused handshake.
`ImplementsQueues` (refinement of `NotifierQueues`), `EverythingIsSent`,
`RefusedOnce` (a refused handshake of the chamber port and a missing ffmpeg end
the snapshots, at once, and nothing else does), `NothingLostSilently`,
`PicturesAreWhole`. A chamber-image
camera that stays silent stops the handler for good, so deadlock is not
checked; `EverythingIsSent` says that nothing else does.

**`printer`** (`MCPrinter`). One client, so that a session waits until its
predecessor's keepAlive is gone (overlapping ones are `run_loop`'s), a notifier
that accepts one of two events, both cameras, four attempts. The width of a
duration is 20: of the two delays, 3 grows to the cap of 10 at the third attempt
and overflows at the fourth, and -12, which no validation refuses, overflows the
other way. `NothingSentAfterStop`, `StopReturnsUnlessStuck`,
`LostSessionsReconnect` (also when the connection is lost while a report is
handled, and when the subscription is given up because a report came before its
SUBACK), `SocketsGetClosed` (also if the handler never returns),
`WaitsInRangeUntilOverflow` (no wait is above the cap, ever; below the
configured delay only after an overflow), `WaitsGrowUntilOverflow`. A silent camera stops the printer, so
deadlock is not checked; the liveness properties name this and a hanging
handshake as the only exceptions.

**`startup`** (`MCStartup`). Files with up to two printers, good and bad,
storages with up to two entries, flat and nested notifiers, environment
overrides. Two printers and two entries are enough for a printer that is in
both places, twice in one, or between two others. Entries may lack the serial
number, the title or both; a printer of the file may have a negative delay, and
the environment a level in upper case. `EveryPrinterOnce`,
`EveryNotifierOnce`, `DaemonsAreUsable`, `DiscoveryIsOptional`,
`PicturesAsConfigured` each compare the result with the inputs directly, not
with the intermediate steps. `DaemonsAreUsable` names the one thing that
reaches a daemon unchecked: a local entry with neither serial number nor title.

Five runs end in a counterexample: the code does not do what a comment or a
document says.

| Run | Property | What happens |
|---|---|---|
| `stop_hangs` | `StopReturnsAtLast` | `connect` and `subscribe` wait for CONNACK and SUBACK without a deadline (`mqtt.go:114-143`); a printer that falls silent there keeps `Stop` waiting for ever |
| `silence` | `SilenceIsNoticed` | `ping` does not wait for a PINGRESP, although its comment says so (`mqtt.go:151`); a session with a silent printer stays open |
| `backoff_overflow` | `DelayInRange` | from the 29th increment of `attempt` on, with the default delay, the product does not fit `time.Duration`; where the conversion gives the smallest integer (amd64) the wait is negative and the loop redials without a pause (`printer.go:424`). A printer that is off for a night gets there |
| `repeat_partial` | `EventsAreNews` | a report without `print_error` or `hms` clears what the tracker knows of them, and the next full report fires the same alert again (`state.go:91`, `105`) |
| `runout_missed` | `RunoutTold` | a runout code first reported outside RUNNING and PAUSE is stored but not told, and not told later (`state.go:73`, `91`) |

Seen while modelling, without a run of their own:

- `Start` returns at once though its comment says it blocks (`printer.go:86`); a
  `Stop` before the errgroup's goroutine ran returns while `runLoop` is yet to
  be spawned (`printer.go:101`; it then ends at its first look at the context,
  which is why `QuietAfterStop` allows `loopPc = "top"`).
- A chamber-image camera that accepts and stays silent stops the handling of
  reports, and `Stop`, for ever: `CaptureFrame` sets no read deadline
  (`camera.go:43`). `keepAlive` still closes the socket.
- A local entry of Home Assistant's storage without serial number and title
  becomes a daemon without serial number, and without a name unless its options
  have one: `Printers` does not refuse it (`bambulab.go:81-98`) and
  `MergeDiscovered` runs after the validation.
- A negative `reconnect_delay_seconds` is neither replaced nor refused
  (`config.go:312-319`, `371-395`); the timer then fires at once and a printer
  that is off is redialled without a pause.
- `handleMessage` returns before it stores the stream URL of a report without
  events (`printer.go:246`, against the comment of line 55).
- One plain string field of another JSON type, a numeric `gcode_state` for
  instance, drops the whole report, while `parser_test.go:236` wants that "one
  odd field must not drop the whole report" and tests it for the flexible types.
- HMS entries without a message are told apart by code and module only; `attr`
  has no part in their text (`parser.go`).
- A redirect with status 301 to 303 makes the POST a GET, whose 200 passes for a
  success: the message is lost and not logged (`http.go`). `NothingLostSilently`
  excepts it.
- A picture a service finds too large costs the notification: it is not sent
  again without the picture.
- A snapshot goes out with every event of a batch, alerts included
  (`printer.go:269`).
- A string of more than 65535 bytes would be written with its length taken
  modulo 2^16 (`mqtt.go:390`); no such configuration is meaningful, and `wire`
  stays at 65535.
- A move to PREPARE from FAILED is not announced (`state.go:157`, README.md:71);
  two HMS entries with one text in one report make two equal alerts
  (`state.go:98`); a reconnection announces again what still holds
  (`printer.go:153`).

## Fairness

`FairRunLoop` assumes that a goroutine that can go on does: the Go scheduler is
fair, dials have a 10 s timeout and writes a 10 s deadline, the backoff timer
fires, and a printer that is up answers or is lost. `keepAlive` chooses in a
`select` between a ticker of 30 s and the finished context; the ticker is
almost never ready, so it does not win for ever: `SF` on `KeepAliveDone`.
Nothing is assumed of a hung printer, of the next packet or of the interrupt,
and nothing of the call of `Stop`: the printers are stopped one after the
other, so `Stop` of this one may never be called (`main.go:109`); once called,
it goes on when it can. The handler is not assumed to come back: `LoopNext` is
fair except in `"handle"`, for a camera has no read deadline. `SF` on
`PingFails`: a connection that is lost is given up by TCP after some
retransmissions, so the pings on it fail in the end; without it, pings into the
send buffer could succeed for ever while the handler does not read.

`FairHandler` assumes that a handler that can go on does: ffmpeg is killed
after 20 s, a send given up after 15 s, a dial after 10 s. Nothing is assumed
of a camera that is connected; it may be silent for ever.

`PrinterSpec` has the fairness of both: its handler returns when its steps,
fair as in `FairHandler`, come to an end.

`WireSpec`: both ends read whenever there is something to read. Nothing makes
them write or the connection break.

## Proofs

Eight modules of proofs; each theorem holds for every value of the constants
the named assumptions allow.

`StateTracker_proofs` has lemmas only, about one call of `update` with any
report: `EventsHaveCauses`, that each event of a batch is announced by the move
or is an alert with its cause in the report, and `UpdatedFits`, that the memory
it leaves has its type. The hard part is the HMS entries: `NthOfIsOnto` shows by
counting that going through the new ones in order reaches each of them.

`ReportStream_proofs`, for any error codes, HMS texts, trays and gcode states
and reports with any number of HMS entries, from the assumptions named in
`StateTracker` (the markers for an absent value are not values, the bounds are
naturals):

- `StreamTypeCorrect`: the types.
- `LifecycleComesFirst`, `SubscribersAgree`, `ResumptionsFollowPauses`: the
  three properties of the lifecycle events.

`BatchShape` says what `update` returns: the event of the transition if there
is one, at place 1, and alerts behind it. What a subscriber believes after a
batch is then what the transition announces (`BelievedIsAnnounced`), and a move
to RUNNING, PAUSE, FINISH or FAILED announces just that (`MovesAreTold`). The
inductive invariant `StreamInv` is the types, `LifecycleFirst` and
`SubscriberAgrees`; `ResumedOnlyFromPause` follows from the last, since only a
tracker in PAUSE resumes. The report may be any record of the type `Report`, so
nothing is assumed of the order of states a printer goes through.

The same module proves `AlertsAreLatched`, that `ReportStream` implements
`AlertLatch`. The invariant is `Remembered`: the tracker remembers exactly the
conditions of the latest report. `ToldByReport` says that a batch tells what its
report shows and the tracker does not remember; it rests on what concatenated
sequences tell together (`ToldOneAfterTheOther`).

`TrackedPrinter_proofs`, for any error codes, HMS texts, trays and
temperatures, from the assumptions of `StateTracker`:

- `TrackedTypeCorrect`: the types.
- `FirmwaresAgree`: `FirmwareDoesNotMatter`.
- `RepetitionsAreForgotten`: `RepeatsOnlyWhatItForgot`.

`SentIsSeen` is the parser's part: what a firmware sends of some fields is
parsed as those fields of the printer (`Seen`), with zero values for the rest.
That nothing is repeated without cause is not inductive. The invariant `Untold`
says, of everything `update` would tell if the printer were reported as it is
now, that it is fresh or may have been forgotten: per kind of event, the guard
of `update` implies that the fact is `Tellable`. It has one conjunct no event
asks for: a paused print whose run was never seen may still be told as started,
because a missed pause turns its resumption into a start. Changes of the
printer keep `Untold` since what arises is news and what lasts stays as it was
(`AlertsFollow`), a move since its news is what `update` makes of it
(`MovesKeepInv`), a report since it tells only what is tellable
(`ReportTellsTheUntold`) and remembers what it told (`ReportKeepsInv`), a
reconnection since everything a new tracker would tell counts as forgotten.

`RunLoop_proofs`, for any set of clients and any bounds, from
`ConnsAssumption` and `BoundsAssumption` (the marker values are not clients,
the bounds are naturals):

- `RunLoopTypeCorrect`: the types.
- `SocketsDoNotLeak`, `SocketsAreClosedOnce`, `ReadersCanBeStopped`,
  `StoppedIsQuiet`: the four safety properties.

None of the four is inductive alone. That a socket is closed once needs that
whoever finds the closed flag unset finds the socket open (`UnclosedIsOpen`);
that Stop leaves nothing open needs that the wait group counts exactly the
running goroutines (`GoroutinesCounted`), that the client of a goroutine that
is not counted is closed (`NoSocketLeaks`), and that an interrupt preceded the
stop; all need to know what the current client is like where `runLoop` is
(`ClientFits`). `ConnectionInv` is all of these, and `Inv` adds the types. The
proof has one lemma for the initial states and two pairs for the steps:
`LoopTypeStep` and `OtherTypeStep` for the types, `LoopConnectionStep` and
`OtherConnectionStep` for the rest, with two lemmas that say what depends only
on the clients (`ClientsFrame`) and on the counts (`CountFrame`).

`Wire_proofs`, for packets of any type, flags and length, any number of them,
from `PacketsAssumption` and `MaxWrittenAssumption`:

- `WireTypeCorrect`: the types; in particular the loop of
  `readRemainingLength` never runs a fifth time.
- `FramesAgree`: `FramingAgrees`.
- `ReadsFailForAReason`: `FailsForAReason`.
- `MeaningIsKept`: `MeaningSurvives`, if the packets are those that are ever
  meant to be understood (`Meaningful`): what the builders make of strings of
  up to 65535 bytes and payloads of any length, the answers of a printer with
  every code, and bodies that are too short for their parser, which must be
  refused. All packets of `wire` are of these.

The invariant `WireInv` says what the reader's locals are after each byte: its
value is the length modulo the weight of the next byte, and there is a next
byte exactly if the length is not below that weight. The step
(`ReadsLengthByteInv`) rests on `OneRound`, which puts the seven bits of a byte
in their place. `MeaningIsKept` then only needs that each packet, read with its
own length, is understood, one lemma per builder. CONNECT is the one with a
point: its flags, written apart from its strings, must tell which of them are
there (`ConnectUnderstood`).

`HandleMessage_proofs`, for any notifiers, filters, batches, cameras and
picture sizes, from the assumptions named in `HandleMessage` and `Camera`:

- `HandlerTypeCorrect`: the types.
- `RefusedCamerasAreNotAskedAgain`, `LossesAreLogged`,
  `OnlyWholePicturesAreSent`: `RefusedOnce`, `NothingLostSilently`,
  `PicturesAreWhole`.
- `HandlerImplementsQueues`: `ImplementsQueues`, the refinement of
  `NotifierQueues`.

`HandlerInv` adds to the types: that a camera is only asked while snapshots are
on, and that they are off after one hopeless failure and only then
(`RefusalsFit`); that a payload is within the limit and short of its announced
size while it is being read, that what is captured is all there, and on which
camera the capture was started (`PictureFits`); that only a send that has ended is logged (`LogsFit`);
and that nothing of a batch is left between two reports (`BetweenReports`).

The queue of a notifier is what it wants of the events from `at` on and has not
been sent (`Unsent`). `Wanted(types, wanted)[k]`, what is wanted of the last k
types of a batch, is a recursive function, and `WantedStepwise` is what the
refinement needs of it: a step of the loop over the batch takes one type from
the front, and the notifiers that do not accept it lose nothing.

That lemma, like those about the lists of `Startup`, about `Ends` of `Wire` and
`Factors` of `Printer`, is an induction over data. The induction theorems of
the library take an operator, which the provers cannot instantiate, so the
principle is used for sets: a set with 0 that has with each number the next has
all of them (`SetInduction`), and there is a function that goes from value to
value as given steps say (`StepByStep`). Both rest on the least element of a
well-founded relation.

`Printer_proofs`. Of the waits, for any delays, cap and width:

- `BackoffTypeCorrect`: the types.
- `WaitsInRange`: `WaitsInRangeUntilOverflow`. No wait exceeds the cap,
  whatever a conversion that does not fit yields; only an overflow makes a wait
  shorter than the configured delay, and never the one after a session.
- `WaitsDoGrow`: `WaitsGrowUntilOverflow`. Its invariant `Growing` keeps what
  the last wait was set to until the next attempt, and that a session starts at
  attempt 0.

Neither assumes that products fit: with the constants of the code they do not
from the 29th increment on, and `backoff_overflow` shows what that does to
`DelayInRange`, the claim without the exception.

And of the whole printer:

- `PartsAreImplemented`: `PrinterSpec` implements `RunLoopSpec`, `HandlerSpec`
  and `BackoffSpec`. Each step of the printer is a step or a stutter of each
  part, so that whatever is proved of a part holds of the printer.
- `PrinterWaitsInRange`, `PrinterWaitsGrow`, `PrinterConnectionIsSafe`,
  `PrinterHandlerIsSafe`: the safety properties of the parts, of the whole.
- `PrinterTypeCorrect`: `PrinterTypeOK`. That the waits are those of the
  present attempt is `PartsMeet`, which adds that a connection is due before
  `runLoop` is spawned; that attempt and its factor, a power of two
  (`Factors`), stay together although both are bounded is `CountedTogether`.
- `NothingIsSentAfterStop`: `NothingSentAfterStop`. Its invariant
  `HandledInTheLoop` is that a report is only handled while `runLoop` is inside
  `readLoop` and counted by the wait group, and that a loop that starts after
  Stop makes no client.

They assume of the constants what `RunLoop`, `HandleMessage` and `Backoff`
assume; `Printer` repeats it, so that TLC evaluates it there.

`Startup_proofs`, for files and storages with any number of printers, entries
and notifiers, from the assumptions named in `Startup` (the inputs have the
types that decoding gives them):

- `StartupTypeCorrect`: the types.
- `EveryPrinterStartedOnce`, `EveryNotifierBuiltOnce`, `DiscoveryStaysOptional`,
  `PicturesAreTakenAsConfigured`: `EveryPrinterOnce`, `EveryNotifierOnce`,
  `DiscoveryIsOptional`, `PicturesAsConfigured`.
- `DaemonsAreComplete`: `DaemonsAreUsable`, for every storage, entries without
  serial number and title included.

The invariant `StartupInv` says that `cfg` and the daemons are, at each step of
`run()`, functions of the file, the storage and the environment alone. The
properties are then about those functions, entry by entry of the lists that
`Printers` and `MergeDiscovered` go through.

Only model-checked: all liveness (`StopReturnsUnlessHeldUp`,
`InterruptEndsLoop`, `SocketsGetClosed`, `EverythingIsSent`,
`StopReturnsUnlessStuck`, `LostSessionsReconnect`, `EverythingIsRead`), since
fairness and ENABLED are out of the prover's reach. Every invariant, action
property and refinement of the passing runs is a theorem.

## Not modelled

- The wording, markup, progress, links and request signing of messages, and the
  bytes of a multipart body (`format.go`, the bodies of `discord.go`,
  `slack.go`, `telegram.go`): formatting without state or decisions that
  another part depends on.
- TOML and JSON decoding, HTTP, TLS, ffmpeg: libraries and programs outside
  the repository; the models say what may come of them.
- The construction of the RTSP URL and the bytes of the camera's
  authentication packet: string work.
- `setupLogger`, `logReport` and the tail mode: they only write log lines. The
  command line of `main.go`.
- The container and the add-on's manifest: no run-time behaviour of their own.
- Several printers in one process: they share nothing but the signal context
  and the order of the stops. `InterruptEndsLoop` and the unfair call of `Stop`
  in `RunLoop` are what the others can do to one.

## Plan

Done: the events (`StateTracker`, `ReportStream`, `TrackedPrinter`, `Parser`),
the packets (`Wire`), the connection (`RunLoop`, `Backoff`), the delivery
(`Camera`, `Services`, `HandleMessage`, `NotifierQueues`), one whole printer
(`Printer`), the way to running printers (`Startup`), and the proofs above.

Left, in the order of their worth: the tracker inside `Printer` in place of the
batches it may return, which the two refinements (of `Printer` to its parts and
of `ReportStream` to `AlertLatch`) already cover each for itself; and, behind
the liveness properties, lemmas on what each fair action leads to, as far as
safety reaches.
