------------------------------- MODULE Parser -------------------------------
(***************************************************************************)
(* From the JSON a printer sends to the report update reads (parser.go).   *)
(* Firmwares disagree about the type of a scalar: the flex types accept    *)
(* any, the plain string fields only a string, and one value of another    *)
(* type makes the whole report unparseable.                                *)
(*                                                                         *)
(* A JSON value has a kind and what it says; a "numeral" is a string that  *)
(* spells a number.  What a number says does not depend on how it is       *)
(* written.                                                                *)
(***************************************************************************)
EXTENDS StateTracker

JSON(kind, says) == [kind |-> kind, says |-> says]
Absent == JSON("absent", "")
Null   == JSON("null", "")

-----------------------------------------------------------------------------
(* encoding/json and the flex types: absent and null leave the zero value. *)

\* Mutant: strings are not looked into.
FlexIntOfNumbers(j, zero) == IF j.kind = "number" THEN j.says ELSE zero

\* flexInt and flexFloat: what is no number is zero.
FlexInt(j, zero) == IF j.kind \in {"number", "numeral"} THEN j.says ELSE zero

\* flexString: a scalar that is no string is taken as it is written.
FlexString(j) == IF j.kind \in {"absent", "null"} THEN "" ELSE j.says

\* A plain string, a list or an object: of the wrong type, it is an error.
IsString(j) == j.kind \in {"text", "numeral", "null", "absent"}
IsList(j)   == j.kind \in {"list", "null", "absent"}
IsObject(j) == j.kind \in {"object", "null", "absent"}

\* The text of an HMS entry: its message, else one made of code and module,
\* which is as distinct as they are (attr has no part in it).
HMSText(entry) ==
  IF FlexString(entry.msg) # "" THEN FlexString(entry.msg)
                                ELSE FlexInt(entry.code, "0")

Unparseable == [state |-> "unparseable"]

\* parseReport.  raw has the fields that update decides by, and two more that
\* can make a report unparseable: texts, the other plain strings (gcode_file,
\* subtask_name, nozzle_type, fail_reason, command), and parts, the objects
\* that fields are in (ams with its units and trays, ipcam, the HMS entries).
ParseReport(raw) ==
  IF \/ raw = Null \/ ~IsString(raw.gcode_state) \/ ~IsList(raw.hms)
     \/ ~IsString(raw.texts) \/ ~IsObject(raw.parts)
  THEN Unparseable
  ELSE [state  |-> FlexString(raw.gcode_state),
        code   |-> FlexInt(raw.print_error, NoCode),
        hms    |-> IF raw.hms.kind = "list"
                   THEN [i \in DOMAIN raw.hms.says |-> HMSText(raw.hms.says[i])]
                   ELSE <<>>,
        tray   |-> FlexString(raw.tray_now),
        stage  |-> FlexInt(raw.stg_cur, NoStage),
        target |-> FlexInt(raw.nozzle_target_temper, 0),
        actual |-> FlexInt(raw.nozzle_temper, 0)]

-----------------------------------------------------------------------------
(* What printers send (external).  A firmware has a kind for the fields it *)
(* sends as numbers, one for ids, and one for an error code that is none.  *)
Firmware(number, id, nothing) ==
  [number |-> number, id |-> id, nothing |-> nothing]
Plainest == Firmware("number", "text", "number")
Firmwares == {Plainest, Firmware("number", "number", "bool"),
              Firmware("numeral", "number", "null")}

Sent(r, firmware, fields) ==
  LET Scalar(field, kind) == IF field \in fields THEN JSON(kind, r[field])
                                                 ELSE Absent
      Entry(text) == [msg |-> Absent, code |-> JSON(firmware.number, text)]
  IN  [texts |-> JSON("text", "any"), parts |-> JSON("object", "any"),
       gcode_state |-> Scalar("state", "text"),
       print_error |-> IF r.code = NoCode THEN Scalar("code", firmware.nothing)
                       ELSE Scalar("code", firmware.number),
       hms |-> IF "hms" \notin fields THEN Absent
               ELSE JSON("list", [i \in DOMAIN r.hms |-> Entry(r.hms[i])]),
       tray_now |-> Scalar("tray", firmware.id),
       stg_cur |-> Scalar("stage", firmware.number),
       nozzle_target_temper |-> Scalar("target", firmware.number),
       nozzle_temper |-> Scalar("actual", firmware.number)]

\* Reports that cannot be parsed: no print object, a state or another plain
\* string that is none, a list of alerts or an object that is none.
Garbled(r, fields) ==
  LET sent == Sent(r, Plainest, fields)
  IN  {Null, [sent EXCEPT !.gcode_state = JSON("number", r.state)],
       [sent EXCEPT !.texts = JSON("number", "0.4")],
       [sent EXCEPT !.hms = JSON("text", "")],
       [sent EXCEPT !.parts = JSON("list", <<>>)]}
=============================================================================
