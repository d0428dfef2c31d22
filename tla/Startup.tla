------------------------------ MODULE Startup ------------------------------
(***************************************************************************)
(* From the configuration file to running printers: Load, the discovery of *)
(* printers in Home Assistant's storage, MergeDiscovered, and the printers *)
(* and notifiers that run() builds (config.go, bambulab.go, main.go).      *)
(*                                                                         *)
(* A file and a storage are what the decoders return.  Names, hosts and    *)
(* access codes matter only as being there; a notifier entry is what the   *)
(* validation and the event filter read of it.                             *)
(***************************************************************************)
EXTENDS Events, Integers, Sequences, SequencesExt, FiniteSets

CONSTANTS
  Files,      \* bound: configuration files
  Storages,   \* bound: contents of Home Assistant's storage
  Envs,       \* bound: values of LOG_LEVEL and LOG_FORMAT
  Lower(_),   \* strings.ToLower (external)
  Unreadable, \* a file or storage that is not there or does not parse
  NotLoaded   \* no configuration yet

-----------------------------------------------------------------------------
(* What the decoders return: the types of config.go and of the storage.    *)

Services == {"discord", "slack", "telegram"}

\* The value of a text that is not given.
Unset == ""

\* complete: the webhook, or token and chat, are there.
NotifierConfig == [id : STRING, complete : BOOLEAN, events : SUBSET STRING]
NotifierLists == [Services -> Seq(NotifierConfig)]

PrinterConfig ==
  [named : BOOLEAN, reachable : BOOLEAN, serial : STRING, port : Int,
   cameraPort : Int, cameraRTSP : BOOLEAN, insecure : BOOLEAN,
   reconnectDelay : Int, notifiers : NotifierLists, flat : NotifierLists]

DiscoveryConfig ==
  [enabled : BOOLEAN, cameraPort : Int, notifiers : NotifierLists,
   flat : NotifierLists]

LogConfig == [{"level", "format"} -> STRING]

Config ==
  [log : LogConfig, printers : Seq(PrinterConfig), discovery : DiscoveryConfig,
   notifiers : NotifierLists, flat : NotifierLists]

\* reachable: a host and an access code are there.
StorageEntry ==
  [ours : BOOLEAN, serial : STRING, title : STRING, named : BOOLEAN,
   reachable : BOOLEAN, model : STRING]

DiscoveredPrinter == [serial : STRING, named : BOOLEAN, model : STRING]

ASSUME FilesAssumption == \A f \in Files : f = Unreadable \/ f \in Config
ASSUME StoragesAssumption ==
  \A s \in Storages : s = Unreadable \/ s \in Seq(StorageEntry)
ASSUME EnvsAssumption == Envs \subseteq LogConfig
ASSUME LowerAssumption ==
  \A e \in Envs : [k \in {"level", "format"} |-> Lower(e[k])] \in LogConfig
ASSUME NotLoadedAssumption == NotLoaded \notin Config

-----------------------------------------------------------------------------
VARIABLES
  file, storage, env,  \* the inputs (external)
  phase,               \* how far run() has come
  cfg,                 \* the configuration
  found,               \* what discovery returned
  daemons              \* the printers that run() starts

startupVars == <<file, storage, env, phase, cfg, found, daemons>>

Phases == {"start", "loaded", "discovered", "running", "failed"}

-----------------------------------------------------------------------------
(* Notifier lists, one per service. *)

NoNotifiers == [s \in Services |-> <<>>]

\* combineNotifiers; mergeFlatNotifiers appends the same way.
Combined(a, b) == [s \in Services |-> a[s] \o b[s]]

\* An empty list of events means all of them.
Passes(n, type) == n.events = {} \/ type \in n.events

\* The services' lists, in the order buildNotifiers goes through them.
Built(n) == n["discord"] \o n["slack"] \o n["telegram"]

-----------------------------------------------------------------------------
(* Load. *)

\* mergeFlatNotifiers.
Flattened(x) == [x EXCEPT !.notifiers = Combined(x.notifiers, x.flat),
                          !.flat = NoNotifiers]

EachPrinter(c, F(_)) ==
  [c EXCEPT !.printers = [i \in DOMAIN c.printers |-> F(c.printers[i])]]

MergeFlatNotifiers(c) ==
  Flattened([EachPrinter(c, Flattened)
               EXCEPT !.discovery = Flattened(c.discovery)])

ApplyGlobalNotifiers(c) ==
  LET WithGlobals(p) ==
        [p EXCEPT !.notifiers = Combined(p.notifiers, c.notifiers)]
  IN  EachPrinter(c, WithGlobals)

Default(value, default) == IF value = 0 THEN default ELSE value

ApplyDefaults(c) ==
  LET Filled(p) == [p EXCEPT !.port = Default(@, 8883),
                             !.reconnectDelay = Default(@, 30)]
  IN  EachPrinter(c, Filled)

\* LOG_LEVEL and LOG_FORMAT, where they are set, in any case of letters; the
\* file's own values are taken as they are.
ApplyEnvOverrides(c, e) ==
  [c EXCEPT !.log = [k \in DOMAIN @ |->
                       IF e[k] # Unset THEN Lower(e[k]) ELSE @[k]]]

LogLevels  == {"debug", "info", "warn", "error", Unset}
LogFormats == {"json", "text", Unset}

ValidNotifiers(n) ==
  \A s \in Services : \A i \in DOMAIN n[s] :
    n[s][i].complete /\ n[s][i].events \subseteq Types

ValidPrinter(p) ==
  p.named /\ p.reachable /\ p.serial # Unset /\ ValidNotifiers(p.notifiers)

Valid(c) ==
  /\ c.log["level"] \in LogLevels /\ c.log["format"] \in LogFormats
  /\ c.printers # <<>> \/ c.discovery.enabled
  /\ \A i \in DOMAIN c.printers : ValidPrinter(c.printers[i])
  /\ ValidNotifiers(c.discovery.notifiers)
  /\ ValidNotifiers(c.notifiers)

Prepared(f, e) ==
  ApplyEnvOverrides(ApplyDefaults(ApplyGlobalNotifiers(
                                    MergeFlatNotifiers(f))), e)

\* Load returns no error.
Accepted(f, e) == f # Unreadable /\ Valid(Prepared(f, e))

-----------------------------------------------------------------------------
(* Discovery. *)

\* The entries of ha-bambulab that are set up for the local network.
Local(e) == e.ours /\ e.reachable

\* The serial number falls back on the entry's title, the name on that.
Discovered(e) ==
  [serial |-> IF e.serial # Unset THEN e.serial ELSE e.title,
   named  |-> e.named \/ e.serial # Unset \/ e.title # Unset,
   model  |-> e.model]

\* What the loop over the entries does with one of them ...
Collect(printers, e) ==
  IF Local(e) THEN Append(printers, Discovered(e)) ELSE printers

\* ... and what it has collected after each.
Collected(s) ==
  LET after[i \in 0..Len(s)] ==
        IF i = 0 THEN <<>> ELSE Collect(after[i - 1], s[i])
  IN  after

Printers(s) == Collected(s)[Len(s)]

\* Models, by the prefix that tells them apart.  P1, A1 and A2 serve camera
\* pictures on a port of their own, and so may one that is not known; X1, X2,
\* H2 and P2 are asked for their RTSP stream.
ChamberImageSupported(model) == model \in {"", "P1", "A1", "A2"}

\* Mutant: camera_port is also given to models without the camera's port.
ImportedWithPort(c, d) ==
  LET port   == c.discovery.cameraPort
      onPort == ChamberImageSupported(d.model)
  IN  [named          |-> d.named,
       reachable      |-> TRUE,
       serial         |-> d.serial,
       port           |-> 0,
       cameraPort     |-> port,
       cameraRTSP     |-> ~onPort /\ port > 0,
       insecure       |-> TRUE,
       reconnectDelay |-> 0,
       notifiers      |-> Combined(c.discovery.notifiers, c.notifiers),
       flat           |-> NoNotifiers]

Imported(c, d) ==
  LET port   == c.discovery.cameraPort
      onPort == ChamberImageSupported(d.model)
  IN  [named          |-> d.named,
       reachable      |-> TRUE,
       serial         |-> d.serial,
       port           |-> 0,
       cameraPort     |-> IF onPort THEN port ELSE 0,
       cameraRTSP     |-> ~onPort /\ port > 0,
       insecure       |-> TRUE,
       reconnectDelay |-> 0,
       notifiers      |-> Combined(c.discovery.notifiers, c.notifiers),
       flat           |-> NoNotifiers]

SerialsOf(printers) == {printers[i].serial : i \in DOMAIN printers}

\* Mutant: only the printers of the file are known.
AddForgetful(c, printers, d) ==
  IF d.serial \in SerialsOf(c.printers)
  THEN printers ELSE Append(printers, Imported(c, d))

\* A printer is known from the file, or once it has been added.
Add(c, printers, d) ==
  IF d.serial \in SerialsOf(printers)
  THEN printers ELSE Append(printers, Imported(c, d))

\* The printers after each discovered one.
Added(c, ds) ==
  LET after[i \in 0..Len(ds)] ==
        IF i = 0 THEN c.printers ELSE Add(c, after[i - 1], ds[i])
  IN  after

Merged(c, ds) == [c EXCEPT !.printers = Added(c, ds)[Len(ds)]]

\* Mutant: the global notifiers are applied to all printers once more.
MergeAppliesGlobals(c, ds) ==
  ApplyDefaults(ApplyGlobalNotifiers(Merged(c, ds)))

\* Mutant: no defaults for the printers that are added.
MergeWithoutDefaults(c, ds) == Merged(c, ds)

MergeDiscovered(c, ds) == ApplyDefaults(Merged(c, ds))

-----------------------------------------------------------------------------
(* run(). *)

StartupInit ==
  /\ file \in Files /\ storage \in Storages /\ env \in Envs
  /\ phase = "start"
  /\ cfg = NotLoaded /\ found = <<>> /\ daemons = <<>>

LoadFails ==
  /\ phase = "start"
  /\ ~Accepted(file, env)
  /\ phase' = "failed"
  /\ UNCHANGED <<file, storage, env, cfg, found, daemons>>

LoadSucceeds ==
  /\ phase = "start"
  /\ Accepted(file, env)
  /\ cfg' = Prepared(file, env)
  /\ phase' = "loaded"
  /\ UNCHANGED <<file, storage, env, found, daemons>>

\* No storage, or not what discovery expects, is only logged.
DiscoverySkipped ==
  /\ phase = "loaded"
  /\ ~cfg.discovery.enabled \/ storage = Unreadable
  /\ phase' = "discovered"
  /\ UNCHANGED <<file, storage, env, cfg, found, daemons>>

DiscoveryMerges ==
  /\ phase = "loaded"
  /\ cfg.discovery.enabled /\ storage # Unreadable
  /\ found' = Printers(storage)
  /\ cfg' = MergeDiscovered(cfg, found')
  /\ phase' = "discovered"
  /\ UNCHANGED <<file, storage, env, daemons>>

\* Mutant: run() gives up when discovery finds nothing.
NothingFound ==
  /\ phase = "discovered" /\ found = <<>>
  /\ phase' = "failed"
  /\ UNCHANGED <<file, storage, env, cfg, found, daemons>>

NoPrinters ==
  /\ phase = "discovered" /\ cfg.printers = <<>>
  /\ phase' = "failed"
  /\ UNCHANGED <<file, storage, env, cfg, found, daemons>>

\* Mutant: run() goes on without a printer.
BuildNoPrinters ==
  /\ phase = "discovered"
  /\ daemons' = [i \in DOMAIN cfg.printers |->
                   [config    |-> cfg.printers[i],
                    notifiers |-> Built(cfg.printers[i].notifiers)]]
  /\ phase' = "running"
  /\ UNCHANGED <<file, storage, env, cfg, found>>

\* buildPrinters and buildNotifiers.
BuildPrinters ==
  /\ phase = "discovered" /\ cfg.printers # <<>>
  /\ daemons' = [i \in DOMAIN cfg.printers |->
                   [config    |-> cfg.printers[i],
                    notifiers |-> Built(cfg.printers[i].notifiers)]]
  /\ phase' = "running"
  /\ UNCHANGED <<file, storage, env, cfg, found>>

\* The rest of run() is RunLoop's subject.
Over == phase \in {"running", "failed"} /\ UNCHANGED startupVars

StartupNext ==
  \/ LoadFails \/ LoadSucceeds
  \/ DiscoverySkipped \/ DiscoveryMerges
  \/ NoPrinters \/ BuildPrinters
  \/ Over

StartupSpec == StartupInit /\ [][StartupNext]_startupVars

-----------------------------------------------------------------------------
(* Properties, against definitions that read the inputs only. *)

\* Type invariant of the startup (config.Config, printer.Config).
StartupTypeOK ==
  /\ file \in Files /\ storage \in Storages /\ env \in Envs
  /\ phase \in Phases
  /\ cfg \in Config \cup {NotLoaded}
  /\ phase \in {"loaded", "discovered", "running"} => cfg # NotLoaded
  /\ found \in Seq(DiscoveredPrinter)
  /\ daemons \in Seq([config : PrinterConfig, notifiers : Seq(NotifierConfig)])
  /\ phase = "running" <=> daemons # <<>>

DiscoveryWorks == file.discovery.enabled /\ storage # Unreadable

SerialInStorage(e) == IF e.serial = Unset THEN e.title ELSE e.serial
Importable == {e \in ToSet(storage) : e.ours /\ e.reachable}

Manual(i) == i \in DOMAIN file.printers

\* A daemon runs for exactly the printers of the file and, if discovery is
\* on and finds its storage, the local printers of ha-bambulab; one that
\* is in both places, or twice in the storage, is not started twice, and the
\* manual entry is the one that counts (MergeDiscovered; DOCS.md:46).
EveryPrinterOnce ==
  phase = "running" =>
    LET serial(i) == daemons[i].config.serial
    IN  /\ {serial(i) : i \in DOMAIN daemons}
             = SerialsOf(file.printers)
                 \cup (IF DiscoveryWorks
                         THEN {SerialInStorage(e) : e \in Importable} ELSE {})
        /\ \A i, j \in DOMAIN daemons :
             i # j /\ serial(i) = serial(j) => Manual(i) /\ Manual(j)
        /\ \A i \in DOMAIN daemons : Manual(i) =>
             /\ serial(i) = file.printers[i].serial
             /\ daemons[i].config.insecure = file.printers[i].insecure

Occurrences(list, n) == Cardinality({i \in DOMAIN list : list[i] = n})
Configured(x, n) == Occurrences(Built(x.notifiers), n)
                      + Occurrences(Built(x.flat), n)

\* Every printer tells each notifier of its own list and of the global list,
\* nested or flat, as often as the file names it: none is lost on the way
\* through the merges, and none tells an event twice (mergeFlatNotifiers,
\* applyGlobalNotifiers and MergeDiscovered, which each merge a part).
EveryNotifierOnce ==
  phase = "running" =>
    \A i \in DOMAIN daemons :
      LET own == IF Manual(i) THEN file.printers[i] ELSE file.discovery
          lists == {own.notifiers, own.flat, file.notifiers, file.flat}
      IN  \A n \in ToSet(daemons[i].notifiers)
                    \cup UNION {ToSet(Built(l)) : l \in lists} :
            Occurrences(daemons[i].notifiers, n)
              = Configured(own, n) + Configured(file, n)

Anonymous(e) == e.serial = Unset /\ e.title = Unset

\* Discovered printers are added after the validation and the defaults of Load,
\* and yet a daemon has what the validation asks for and its defaults, by
\* whichever way it was merged.  One thing slips through: a local entry of the
\* storage with neither a serial number nor a title is started without a serial
\* number, and then without a name unless the entry has one (Discover,
\* bambulab.go:81-98, and MergeDiscovered look at neither); a printer of the
\* file never is, and no other entry either.
DaemonsAreUsable ==
  \A i \in DOMAIN daemons :
    LET c == daemons[i].config
    IN  /\ c.serial = Unset => ~Manual(i) /\ \E e \in Importable : Anonymous(e)
        /\ ~c.named => c.serial = Unset
        /\ c.reachable /\ c.port # 0 /\ c.reconnectDelay # 0
        /\ \A n \in ToSet(daemons[i].notifiers) :
             n.complete /\ \E type \in Types : Passes(n, type)

\* Trouble with discovery never keeps the printers of the file from running:
\* run() gives up only over the file itself or when nothing is left to run.
DiscoveryIsOptional ==
  phase = "failed" =>
    \/ ~Accepted(file, env)
    \/ file.printers = <<>> /\ (DiscoveryWorks => Importable = {})

\* A discovered printer takes pictures exactly if camera_port asks for them,
\* and in one way (MergeDiscovered; DOCS.md:129).
PicturesAsConfigured ==
  \A i \in DOMAIN daemons :
    ~Manual(i) =>
      LET c == daemons[i].config
      IN  /\ c.cameraPort > 0 \/ c.cameraRTSP
               <=> file.discovery.cameraPort > 0
          /\ ~(c.cameraPort > 0 /\ c.cameraRTSP)
=============================================================================
