-------------------------------- MODULE Wire --------------------------------
(***************************************************************************)
(* The MQTT packets of mqtt.go on one direction of a connection: what the  *)
(* builders write, the fixed header with its remaining length of one to    *)
(* four bytes, readPacket and the parsers, and a connection that breaks    *)
(* anywhere.  A body is known by its length and by the lengths that its    *)
(* strings announce; the bytes of the fixed header are read one by one.    *)
(***************************************************************************)
EXTENDS Integers, Sequences

CONSTANTS Packets,    \* the packets that may be written
          MaxWritten  \* bound: packets written to one connection

ASSUME PacketsAssumption ==
    \A p \in Packets : p.type \in 1..15 /\ p.flags \in 0..15 /\ p.len \in Nat
ASSUME MaxWrittenAssumption == MaxWritten \in Nat

VARIABLES written,  \* the packets written so far
          read,     \* the packets readPacket has returned
          at,       \* <<packet, item>>: the item the reader reads next
          reader,   \* the locals of readPacket and readRemainingLength
          limit     \* the first item that is lost, once the connection broke

vars == <<written, read, at, reader, limit>>

CONNECT == 1
CONNACK == 2
PUBLISH == 3
SUBSCRIBE == 8
SUBACK == 9
PINGREQ == 12
PINGRESP == 13

(* A string announces its length in 16 bits, whatever its length is. *)
Announced(length) == length % 65536

(* Where the strings of a body end, each behind its length of two bytes,   *)
(* the first of them beginning at start.                                   *)
Ends(start, lengths) ==
    LET end[i \in 0..Len(lengths)] ==
            IF i = 0 THEN start ELSE end[i - 1] + 2 + lengths[i]
    IN  end

(* A built packet: type and flags of its first byte, the one byte of its   *)
(* body that is told apart, the lengths its strings announce, the length   *)
(* of its body, and what its writer wants to say.                          *)
Packet(type, flags, byte, strings, rest, meant) ==
    [type |-> type, flags |-> flags, byte |-> byte,
     claims |-> [i \in DOMAIN strings |-> Announced(strings[i])],
     len |-> Ends(rest, strings)[Len(strings)],
     meant |-> meant]

Flag(present, bit) == IF present THEN bit ELSE 0
Present(string) == IF string > 0 THEN <<string>> ELSE <<>>

(* Mutant: the flag of the password is left out.                           *)
ConnectUnflagged(id, user, pass) ==
    Packet(CONNECT, 0, 2 + Flag(user > 0, 128),
           <<id>> \o Present(user) \o Present(pass), 10, <<id, user, pass>>)

(* buildConnect, with strings given by their lengths. *)
Connect(id, user, pass) ==
    Packet(CONNECT, 0, 2 + Flag(user > 0, 128) + Flag(pass > 0, 64),
           <<id>> \o Present(user) \o Present(pass), 10, <<id, user, pass>>)

Subscribe(topic) == Packet(SUBSCRIBE, 2, 0, <<topic>>, 3, <<topic>>)
Publish(topic, payload) ==
    Packet(PUBLISH, 0, 0, <<topic>>, payload, <<topic, payload>>)
Ping == Packet(PINGREQ, 0, 0, <<>>, 0, <<0>>)

Malformed == <<>>

(* readConnACK, readSubACK and readLoop on a body of len bytes of packet p *)
ParseConnACK(p, len) == IF len < 2 THEN Malformed ELSE <<p.byte>>
ParseSubACK(p, len) == IF len < 3 THEN Malformed ELSE <<p.byte>>
ParsePublish(p, len) ==
    IF len < 2 \/ len < 2 + p.claims[1] THEN Malformed
    ELSE <<p.claims[1], len - 2 - p.claims[1]>>

(* The printer's reading of what the client sends. *)
PrinterParse(p, len) ==
    LET hasUser == p.byte >= 128
        hasPass == p.byte % 128 >= 64
        strings == 1 + Flag(hasUser, 1) + Flag(hasPass, 1)
        end     == Ends(10, p.claims)
    IN  CASE p.type = SUBSCRIBE ->
               IF len = 5 + p.claims[1] THEN <<p.claims[1]>> ELSE Malformed
          [] p.type = CONNECT ->
               IF Len(p.claims) = strings /\ end[strings] = len
               THEN <<p.claims[1], IF hasUser THEN p.claims[2] ELSE 0,
                      IF hasPass THEN p.claims[strings] ELSE 0>>
               ELSE Malformed
          [] OTHER -> IF len = 0 THEN <<len>> ELSE Malformed

Understood(p, len) ==
    CASE p.type = CONNACK -> ParseConnACK(p, len)
      [] p.type = SUBACK  -> ParseSubACK(p, len)
      [] p.type = PUBLISH -> ParsePublish(p, len)
      [] OTHER            -> PrinterParse(p, len)

-----------------------------------------------------------------------------
(* writeRemainingLength: seven bits a byte, least significant first, the   *)
(* top bit of every byte but the last set.  A length above Longest takes   *)
(* five bytes or more, of which no reader takes the fifth.                 *)
Longest == 268435455

Weight(i) == <<1, 128, 16384, 2097152, 268435456>>[i]

(* Mutant: 128 is taken to fit in one byte.                                *)
LengthSizeOffByOne(length) == IF length <= 128 THEN 1
                              ELSE IF length < 16384 THEN 2
                              ELSE IF length < 2097152 THEN 3
                              ELSE IF length <= Longest THEN 4 ELSE 5

LengthSize(length) == IF length < 128 THEN 1
                      ELSE IF length < 16384 THEN 2
                      ELSE IF length < 2097152 THEN 3
                      ELSE IF length <= Longest THEN 4 ELSE 5

LengthByte(length, i) ==
    ((length \div Weight(i)) % 128) + Flag(i < LengthSize(length), 128)

FirstByte(p) == p.type * 16 + p.flags

(* buildFixedHeader: the items of a packet, its body as one item.          *)
HeaderSize(p) == 1 + LengthSize(p.len)
Size(p) == HeaderSize(p) + Flag(p.len > 0, 1)
ByteAt(p, item) ==
    IF item = 1 THEN FirstByte(p) ELSE LengthByte(p.len, item - 1)

-----------------------------------------------------------------------------
Before(a, b) == a[1] < b[1] \/ (a[1] = b[1] /\ a[2] < b[2])
After(place) == IF place[2] = Size(written[place[1]])
                THEN <<place[1] + 1, 1>> ELSE <<place[1], place[2] + 1>>

NoLimit == <<MaxWritten + 1, 1>>
Places == (1..MaxWritten + 1) \X (1..7)
Locals(phase, type, value, multiplier, i) ==
    [phase |-> phase, type |-> type, value |-> value,
     multiplier |-> multiplier, i |-> i]
Start == Locals("first", 0, 0, 1, 0)

WireInit == /\ written = <<>>
            /\ read = <<>>
            /\ at = <<1, 1>>
            /\ reader = Start
            /\ limit = NoLimit

(* write, on either side: a packet is one conn.Write. *)
Write(p) == /\ limit = NoLimit
            /\ Len(written) < MaxWritten
            /\ written' = Append(written, p)
            /\ UNCHANGED <<read, at, reader, limit>>

(* The connection breaks: what was not read yet is lost from some item on. *)
Breaks ==
    /\ limit = NoLimit
    /\ \E place \in Places :
         /\ ~Before(place, at)
         /\ \/ place = <<Len(written) + 1, 1>>
            \/ place[1] <= Len(written) /\ place[2] <= Size(written[place[1]])
         /\ limit' = place
    /\ UNCHANGED <<written, read, at, reader>>

Arrived == at[1] <= Len(written) /\ Before(at, limit)
Current == written[at[1]]

Returns(type, len) ==
    /\ read' = Append(read, [type |-> type, len |-> len, packet |-> at[1]])
    /\ reader' = Start

(* readPacket: r.ReadByte of type and flags. *)
ReadsFirstByte ==
    /\ reader.phase = "first"
    /\ Arrived
    /\ reader' = Locals("length", ByteAt(Current, at[2]) \div 16, 0, 1, 0)
    /\ at' = After(at)
    /\ UNCHANGED <<written, read, limit>>

(* Mutant: eight bits a byte.                                              *)
RoundOfEightBits(b, value) ==
    /\ reader' = Locals(IF b < 128 THEN "body" ELSE "length", reader.type,
                        value, reader.multiplier * 256, reader.i + 1)
    /\ UNCHANGED read

(* Mutant: the loop ends after the third byte.                             *)
RoundOfThree(b, value) ==
    \/ /\ b < 128 /\ value = 0
       /\ Returns(reader.type, 0)
    \/ /\ b < 128 /\ value > 0
       /\ reader' = Locals("body", reader.type, value, reader.multiplier, reader.i)
       /\ UNCHANGED read
    \/ /\ b >= 128
       /\ reader' = Locals(IF reader.i = 2 THEN "failed" ELSE "length",
                           reader.type, value,
                           reader.multiplier * 128, reader.i + 1)
       /\ UNCHANGED read

(* Mutant: waits for a body also when there is none.                       *)
RoundExpectsBody(b, value) ==
    /\ reader' = Locals(IF b < 128 THEN "body"
                        ELSE IF reader.i = 3 THEN "failed" ELSE "length",
                        reader.type, value,
                        IF b < 128 THEN reader.multiplier
                                   ELSE reader.multiplier * 128,
                        IF b < 128 THEN reader.i ELSE reader.i + 1)
    /\ UNCHANGED read

(* readRemainingLength: what it does with byte b, which makes value.       *)
Round(b, value) ==
    \/ /\ b < 128 /\ value = 0
       /\ Returns(reader.type, 0)
    \/ /\ b < 128 /\ value > 0
       /\ reader' = Locals("body", reader.type, value, reader.multiplier, reader.i)
       /\ UNCHANGED read
    \/ /\ b >= 128
       /\ reader' = Locals(IF reader.i = 3 THEN "failed" ELSE "length",
                           reader.type, value,
                           reader.multiplier * 128, reader.i + 1)
       /\ UNCHANGED read

ReadsLengthByte ==
    /\ reader.phase = "length"
    /\ Arrived
    /\ at[2] <= HeaderSize(Current)
    /\ Round(ByteAt(Current, at[2]),
             reader.value + (ByteAt(Current, at[2]) % 128) * reader.multiplier)
    /\ at' = After(at)
    /\ UNCHANGED <<written, limit>>

(* io.ReadFull of the body. *)
ReadsBody ==
    /\ reader.phase = "body"
    /\ Arrived
    /\ at[2] > HeaderSize(Current)
    /\ reader.value <= Current.len
    /\ Returns(reader.type, reader.value)
    /\ at' = After(at)
    /\ UNCHANGED <<written, limit>>

(* EOF or a reset, between two packets or in the middle of one. *)
ReadFails ==
    /\ reader.phase # "failed"
    /\ limit # NoLimit
    /\ ~Before(at, limit)
    /\ reader' = Locals("failed", reader.type, reader.value,
                        reader.multiplier, reader.i)
    /\ UNCHANGED <<written, read, at, limit>>

WireReads == ReadsFirstByte \/ ReadsLengthByte \/ ReadsBody \/ ReadFails

WireNext == WireReads \/ Breaks \/ \E p \in Packets : Write(p)

(* Both ends read whenever there is something to read; nothing makes them  *)
(* write, and nothing makes the connection break.                          *)
WireSpec == WireInit /\ [][WireNext]_vars /\ WF_vars(WireReads)

-----------------------------------------------------------------------------
(* Every variable keeps its type. *)
WireTypeOK ==
    /\ written \in Seq(Packets)
    /\ Len(written) <= MaxWritten
    /\ read \in Seq([type : Nat, len : Nat, packet : Nat])
    /\ at \in Nat \X Nat
    /\ limit \in Places
    /\ reader \in [phase : {"first", "length", "body", "failed"}, type : 0..15,
                   value : Nat, multiplier : {Weight(i) : i \in 1..5}, i : 0..4]

(* Framing: readPacket returns the packets that were written, in order,    *)
(* none left out, torn or with another type or length, for every length at *)
(* the edges of its one to four bytes and wherever the connection breaks   *)
(* (mqtt.go writeRemainingLength, readRemainingLength, readPacket).        *)
FramingAgrees ==
    \A k \in 1..Len(read) : /\ read[k].packet = k
                            /\ read[k].type = written[k].type
                            /\ read[k].len = written[k].len

(* What the receiver makes of a packet is what its sender meant: the       *)
(* strings of CONNECT as its flags announce them, the topic and payload of *)
(* a PUBLISH, the code of an acknowledgement; a body that is too short or  *)
(* announces too much is refused (the builders and parsers of mqtt.go).    *)
MeaningSurvives ==
    \A k \in 1..Len(read) :
        Understood(written[read[k].packet], read[k].len) = written[k].meant

(* A read only fails because the connection broke, or because a length     *)
(* does not fit in four bytes.                                             *)
FailsForAReason ==
    reader.phase = "failed" => \/ limit # NoLimit
                               \/ Current.len > Longest

(* Whatever arrives in one piece is read in the end, behind any packet but *)
(* one whose length does not fit.                                          *)
EverythingIsRead ==
    \A k \in 1..MaxWritten :
        (Len(written) >= k) ~> \/ Len(read) >= k
                               \/ limit # NoLimit /\ limit[1] <= k
                               \/ \E j \in 1..k : /\ j <= Len(written)
                                                  /\ written[j].len > Longest
=============================================================================
