----------------------------- MODULE MCStartup -----------------------------
(* Files of at most two printers, storages of at most two entries. *)
EXTENDS Startup

Notifier(id, complete, events) ==
  [id |-> id, complete |-> complete, events |-> events]

On(service, n) == [NoNotifiers EXCEPT ![service] = <<n>>]
None == NoNotifiers

\* A notifier of each place, and two that must be refused.
Own == On("discord", Notifier("own", TRUE, {}))
OwnFlat == On("telegram", Notifier("own flat", TRUE, {"print_failed"}))
NoURL == On("slack", Notifier("own", FALSE, {}))
Misspelt == On("discord", Notifier("own", TRUE, {"print_fnished"}))
All == On("discord", Notifier("global", TRUE, {}))
AllFlat == On("slack", Notifier("global flat", TRUE, {"hms_alert"}))

Entry(serial, reachable, port, insecure, notifiers, flat) ==
  [named |-> TRUE, reachable |-> reachable, serial |-> serial, port |-> port,
   cameraPort |-> 0, cameraRTSP |-> FALSE, insecure |-> insecure,
   reconnectDelay |-> 0, notifiers |-> notifiers, flat |-> flat]

PrinterEntries ==
  {Entry("s1", TRUE, 0, FALSE, Own, OwnFlat),
   [Entry("s2", TRUE, 990, TRUE, None, Own) EXCEPT !.reconnectDelay = -1],
   Entry("s1", FALSE, 0, FALSE, None, None),
   Entry("", TRUE, 0, FALSE, None, None),
   Entry("s2", TRUE, 0, FALSE, NoURL, None),
   Entry("s2", TRUE, 0, FALSE, None, Misspelt)}

Discoveries ==
  [enabled : BOOLEAN, cameraPort : {0, 6000}, notifiers : {Own},
   flat : {None, OwnFlat}]

Log(level) == [level |-> level, format |-> "text"]
Lists(n) == UNION {[1..m -> PrinterEntries] : m \in 0..n}

MCFiles ==
  [log : {Log("info")}, printers : Lists(2), discovery : Discoveries,
   notifiers : {None, All}, flat : {None, AllFlat}]
  \cup [log : {Log("INFO")}, printers : Lists(1), discovery : Discoveries,
        notifiers : {Misspelt, All}, flat : {None}]
  \cup {Unreadable}

InStorage(ours, serial, title, reachable, model) ==
  [ours |-> ours, serial |-> serial, title |-> title, named |-> FALSE,
   reachable |-> reachable, model |-> model]

InStorages ==
  {InStorage(TRUE, "s1", "s2", TRUE, "P1"), InStorage(TRUE, "s2", "", TRUE, "X1"),
   InStorage(TRUE, "", "s2", TRUE, ""), InStorage(TRUE, "", "", TRUE, "A1"),
   InStorage(TRUE, "s3", "s3", FALSE, "P1"),
   InStorage(FALSE, "s3", "s3", TRUE, "X1")}

MCStorages == {Unreadable} \cup UNION {[1..n -> InStorages] : n \in 0..2}

MCEnvs == [level : {"", "WARN", "loud"}, format : {""}]
MCLower(text) == IF text = "WARN" THEN "warn" ELSE text
=============================================================================
