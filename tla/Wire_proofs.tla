---------------------------- MODULE Wire_proofs ----------------------------
(***************************************************************************)
(* For packets of any length: the reader gets the packets as they were     *)
(* written.  The invariant says where in the packet the reader is, and     *)
(* that value holds the length modulo the weight of the next byte.         *)
(***************************************************************************)
EXTENDS Wire, TLAPS, SequenceTheorems

Reading ==
    /\ at[1] = Len(read) + 1
    /\ at \in Nat \X Nat
    /\ Len(read) <= Len(written)

AtFirst == at[2] = 1

InLength ==
    /\ at[1] <= Len(written)
    /\ reader.type = Current.type
    /\ reader.i \in 0..3
    /\ reader.i < LengthSize(Current.len)
    /\ at[2] = reader.i + 2
    /\ reader.multiplier = Weight(reader.i + 1)
    /\ reader.value = Current.len % Weight(reader.i + 1)

InBody ==
    /\ at[1] <= Len(written)
    /\ reader.type = Current.type
    /\ reader.value = Current.len
    /\ Current.len \in 1..Longest
    /\ at[2] = HeaderSize(Current) + 1

Failed == limit # NoLimit \/ (at[1] <= Len(written) /\ Current.len > Longest)

WireInv ==
    /\ WireTypeOK
    /\ Reading
    /\ reader.phase = "first" => AtFirst
    /\ reader.phase = "length" => InLength
    /\ reader.phase = "body" => InBody
    /\ reader.phase = "failed" => Failed
    /\ FramingAgrees

-----------------------------------------------------------------------------
(* writeRemainingLength uses as many bytes as the weights say. *)
LEMMA LengthSizeBounds ==
    ASSUME NEW n \in Nat
    PROVE  /\ LengthSize(n) \in 1..5
           /\ \A i \in 1..4 : LengthSize(n) <= i <=> n < Weight(i + 1)
BY SMT DEF LengthSize, Weight, Longest

(* One round of readRemainingLength on the byte that writeRemainingLength  *)
(* wrote: the continuation bit tells whether it was the last, and value    *)
(* goes from n modulo one weight to n modulo the next.                     *)
LEMMA OneRound ==
    ASSUME NEW n \in Nat, NEW i \in 0..3, i < LengthSize(n)
    PROVE  /\ LengthByte(n, i + 1) \in 0..255
           /\ LengthByte(n, i + 1) < 128 <=> LengthSize(n) = i + 1
           /\ (n % Weight(i + 1)) + (LengthByte(n, i + 1) % 128) * Weight(i + 1)
                 = n % Weight(i + 2)
           /\ n % Weight(i + 2) \in Nat
           /\ Weight(i + 1) * 128 = Weight(i + 2)
<1> DEFINE digit == (n \div Weight(i + 1)) % 128
<1>1. Weight(i + 1) \in {1, 128, 16384, 2097152} /\ Weight(i + 2) = 128 * Weight(i + 1)
  BY SMT DEF Weight
<1>2. n \div Weight(i + 1) \in Nat /\ digit \in 0..127
  BY SMT, <1>1
<1>3. (n % Weight(i + 1)) + digit * Weight(i + 1) = n % Weight(i + 2)
  <2>1. CASE i = 0
    BY SMT, <2>1 DEF Weight
  <2>2. CASE i = 1
    BY SMT, <2>2 DEF Weight
  <2>3. CASE i = 2
    BY SMT, <2>3 DEF Weight
  <2>4. CASE i = 3
    BY SMT, <2>4 DEF Weight
  <2>5. QED
    BY SMT, <2>1, <2>2, <2>3, <2>4
<1>4. LengthByte(n, i + 1) = digit + (IF i + 1 < LengthSize(n) THEN 128 ELSE 0)
  BY SMT DEF LengthByte, Flag
<1>5. LengthSize(n) \in 1..5
  BY SMT, LengthSizeBounds
<1>6. LengthByte(n, i + 1) % 128 = digit
  BY SMT, <1>2, <1>4
<1>7. LengthByte(n, i + 1) \in 0..255
  BY SMT, <1>2, <1>4
<1>8. LengthByte(n, i + 1) < 128 <=> LengthSize(n) = i + 1
  BY SMT, <1>2, <1>4, <1>5
<1>9. n % Weight(i + 2) \in Nat
  BY SMT, <1>1
<1>10. Weight(i + 1) * 128 = Weight(i + 2)
  BY SMT, <1>1
<1>11. QED
  BY <1>3, <1>6, <1>7, <1>8, <1>9, <1>10, Zenon

(* The last byte leaves the length itself in value. *)
LEMMA LastRound ==
    ASSUME NEW n \in Nat, NEW i \in 0..3, LengthSize(n) = i + 1
    PROVE  n % Weight(i + 2) = n /\ n <= Longest
<1>1. n < Weight(i + 2)
  BY SMT, LengthSizeBounds
<1>2. Weight(i + 2) \in {128, 16384, 2097152, 268435456}
  BY SMT DEF Weight
<1>3. QED
  BY SMT, <1>1, <1>2 DEF Longest

-----------------------------------------------------------------------------
LEMMA TypeAndFlags ==
    ASSUME NEW p \in Packets
    PROVE  /\ p.type \in 1..15
           /\ p.len \in Nat
           /\ FirstByte(p) \div 16 = p.type
BY SMT, PacketsAssumption DEF FirstByte

(* A packet being read was written; where its header and its body end. *)
LEMMA CurrentIsAPacket ==
    ASSUME WireTypeOK, Reading, at[1] <= Len(written)
    PROVE  Current \in Packets /\ at[1] \in DOMAIN written
BY SMT DEF WireTypeOK, Reading, Current

LEMMA InitInv == WireInit => WireInv
<1> SUFFICES ASSUME WireInit PROVE WireInv
  OBVIOUS
<1> USE DEF WireInit, Start, Locals
<1>1. WireTypeOK
  <2>1. limit \in Places
    BY SMT, MaxWrittenAssumption DEF NoLimit, Places
  <2>2. 1 \in {Weight(i) : i \in 1..5}
    BY SMT DEF Weight
  <2>3. QED
    BY SMT, <2>1, <2>2, MaxWrittenAssumption DEF WireTypeOK
<1>2. Reading /\ AtFirst
  BY SMT DEF Reading, AtFirst
<1>3. QED
  BY SMT, <1>1, <1>2 DEF WireInv, FramingAgrees

LEMMA WriteInv == ASSUME WireInv, NEW p \in Packets, Write(p) PROVE WireInv'
<1> USE DEF WireInv, Write
<1>1. written' = Append(written, p) /\ written \in Seq(Packets)
  BY SMT DEF WireTypeOK
<1>2. /\ Len(written') = Len(written) + 1
      /\ \A k \in 1..Len(written) : written'[k] = written[k]
  BY SMT, <1>1
<1>3. WireTypeOK'
  <2>1. written' \in Seq(Packets) /\ Len(written') <= MaxWritten
    BY SMT, <1>1, <1>2, MaxWrittenAssumption
  <2>2. QED
    BY SMT, <2>1 DEF WireTypeOK
<1>4. Reading' /\ (reader.phase = "first" => AtFirst)'
  BY SMT, <1>2 DEF Reading, AtFirst
<1>5. at[1] <= Len(written) => Current' = Current /\ at[1] \in 1..Len(written')
  BY SMT, <1>2 DEF Current, Reading, WireTypeOK
<1>6. (reader.phase = "length" => InLength)' /\ (reader.phase = "body" => InBody)'
  BY SMT, <1>5, <1>2 DEF InLength, InBody, Reading
<1>7. (reader.phase = "failed" => Failed)'
  BY SMT, <1>5, <1>2 DEF Failed, Reading
<1>8. FramingAgrees'
  BY SMT, <1>2 DEF FramingAgrees, Reading, WireTypeOK
<1>9. QED
  BY <1>3, <1>4, <1>6, <1>7, <1>8, Zenon

LEMMA BreaksInv == ASSUME WireInv, Breaks PROVE WireInv'
<1> USE DEF WireInv, Breaks
<1>1. PICK place \in Places : limit' = place
  BY Zenon
<1>2. WireTypeOK'
  BY SMT, <1>1 DEF WireTypeOK
<1>3. Reading' /\ (reader.phase = "first" => AtFirst)' /\ FramingAgrees'
  BY SMT DEF Reading, AtFirst, FramingAgrees
<1>4. (reader.phase = "length" => InLength)' /\ (reader.phase = "body" => InBody)'
  BY SMT DEF InLength, InBody, Current
<1>5. (reader.phase = "failed" => Failed)'
  BY SMT DEF Failed, Current
<1>6. QED
  BY <1>2, <1>3, <1>4, <1>5, Zenon

LEMMA ReadsFirstByteInv == ASSUME WireInv, ReadsFirstByte PROVE WireInv'
<1> USE DEF WireInv, ReadsFirstByte
<1>1. AtFirst /\ at[1] <= Len(written)
  BY SMT DEF Arrived
<1>2. Current \in Packets
  BY SMT, <1>1, CurrentIsAPacket
<1>3. /\ Current.type \in 1..15
      /\ Current.len \in Nat
      /\ ByteAt(Current, at[2]) \div 16 = Current.type
  BY SMT, <1>1, <1>2, TypeAndFlags DEF ByteAt, AtFirst
<1>4. LengthSize(Current.len) \in 1..5
  BY SMT, <1>3, LengthSizeBounds
<1>5. at' = <<at[1], 2>>
  <2>1. Size(Current) # 1
    BY SMT, <1>4 DEF Size, HeaderSize, Flag
  <2>2. QED
    BY SMT, <2>1, <1>1 DEF After, AtFirst, Reading, Current
<1>6. reader' = Locals("length", Current.type, 0, 1, 0)
  BY SMT, <1>3
<1>7. WireTypeOK'
  <2>1. 1 \in {Weight(i) : i \in 1..5}
    BY SMT DEF Weight
  <2>2. QED
    BY SMT, <1>3, <1>5, <1>6, <2>1 DEF WireTypeOK, Reading, Locals
<1>8. Reading' /\ FramingAgrees'
  BY SMT, <1>5 DEF Reading, FramingAgrees
<1>9. reader'.phase = "length" /\ InLength'
  <2>1. Weight(1) = 1 /\ Current.len % 1 = 0
    BY SMT, <1>3 DEF Weight
  <2>2. Current' = Current
    BY SMT, <1>5 DEF Current
  <2>3. QED
    BY SMT, <1>1, <1>4, <1>5, <1>6, <2>1, <2>2 DEF InLength, Locals
<1>10. QED
  BY SMT, <1>7, <1>8, <1>9

(* What a return of readPacket adds to read, when it stands at the end of  *)
(* the packet and value is the packet's length.                            *)
LEMMA ReturnsInv ==
    ASSUME WireInv, Returns(Current.type, Current.len),
           at[1] <= Len(written), at[2] = Size(Current), at' = After(at),
           UNCHANGED <<written, limit>>
    PROVE  WireInv'
<1> USE DEF WireInv
<1>1. Current \in Packets /\ at[1] \in DOMAIN written
  BY SMT, CurrentIsAPacket
<1>2. Current.type \in 1..15 /\ Current.len \in Nat
  BY SMT, <1>1, TypeAndFlags
<1> DEFINE entry == [type |-> Current.type, len |-> Current.len, packet |-> at[1]]
<1>3. read' = Append(read, entry) /\ reader' = Start
  BY SMT DEF Returns
<1>4. at' = <<at[1] + 1, 1>>
  BY SMT DEF After, Current, Reading
<1>5. read \in Seq([type : Nat, len : Nat, packet : Nat]) /\ at[1] \in Nat
  BY SMT DEF WireTypeOK, Reading
<1>6. entry \in [type : Nat, len : Nat, packet : Nat]
  BY SMT, <1>2, <1>5
<1>7. /\ read' \in Seq([type : Nat, len : Nat, packet : Nat])
      /\ Len(read') = Len(read) + 1
      /\ read'[Len(read) + 1] = entry
      /\ \A k \in 1..Len(read) : read'[k] = read[k]
  BY SMT, <1>3, <1>5, <1>6
<1>8. WireTypeOK'
  <2>1. 1 \in {Weight(i) : i \in 1..5}
    BY SMT DEF Weight
  <2>2. QED
    BY SMT, <1>3, <1>4, <1>5, <1>7, <2>1 DEF WireTypeOK, Start, Locals
<1>0. Len(read) \in Nat /\ Len(written) \in Nat /\ written' = written
  BY SMT DEF WireTypeOK
<1>00. at[1] = Len(read) + 1
  BY Zenon DEF Reading
<1>9. Reading'
  BY SMT, <1>0, <1>00, <1>4, <1>7 DEF Reading
<1>10. FramingAgrees'
  <2> SUFFICES ASSUME NEW k \in 1..Len(read')
               PROVE  /\ read'[k].packet = k
                      /\ read'[k].type = written[k].type
                      /\ read'[k].len = written[k].len
    BY Zenon DEF FramingAgrees
  <2>1. CASE k \in 1..Len(read)
    <3>1. read'[k] = read[k]
      BY <2>1, <1>7, Zenon
    <3>2. QED
      BY <2>1, <3>1, Zenon DEF FramingAgrees
  <2>2. CASE k = Len(read) + 1
    <3>1. k = at[1] /\ read'[k] = entry
      BY <2>2, <1>00, <1>7, Zenon
    <3>2. Current = written[k]
      BY <3>1, Zenon DEF Current
    <3>3. QED
      BY SMT, <3>1, <3>2
  <2>3. QED
    BY SMT, <2>1, <2>2, <1>7, <1>5
<1>11. reader'.phase = "first" /\ AtFirst'
  BY SMT, <1>3, <1>4 DEF AtFirst, Start, Locals
<1>12. QED
  BY SMT, <1>8, <1>9, <1>10, <1>11

LEMMA ReadsBodyInv == ASSUME WireInv, ReadsBody PROVE WireInv'
<1>1. InBody /\ at[1] <= Len(written)
  BY SMT DEF WireInv, ReadsBody, InBody
<1>2. at[2] = Size(Current)
  BY SMT, <1>1 DEF InBody, Size, Flag
<1>3. Returns(Current.type, Current.len)
  BY <1>1, Zenon DEF ReadsBody, InBody
<1>4. at' = After(at) /\ UNCHANGED <<written, limit>>
  BY Zenon DEF ReadsBody
<1>5. QED
  BY <1>1, <1>2, <1>3, <1>4, ReturnsInv, Zenon

LEMMA ReadFailsInv == ASSUME WireInv, ReadFails PROVE WireInv'
<1> USE DEF WireInv, ReadFails
<1>1. WireTypeOK'
  BY SMT DEF WireTypeOK, Locals
<1>2. Reading' /\ FramingAgrees'
  BY SMT DEF Reading, FramingAgrees
<1>3. reader'.phase = "failed" /\ Failed'
  BY SMT DEF Failed, Locals, NoLimit
<1>4. QED
  BY SMT, <1>1, <1>2, <1>3

LEMMA ReadsLengthByteInv == ASSUME WireInv, ReadsLengthByte PROVE WireInv'
<1> DEFINE n == Current.len
           i == reader.i
           b == LengthByte(n, i + 1)
           value == reader.value + (b % 128) * reader.multiplier
<1>1. InLength /\ Reading /\ WireTypeOK
  BY Zenon DEF WireInv, ReadsLengthByte
<1>2. Current \in Packets /\ n \in Nat /\ i \in 0..3 /\ i < LengthSize(n)
  BY SMT, <1>1, CurrentIsAPacket, TypeAndFlags DEF InLength
<1>3. ByteAt(Current, at[2]) = b
  BY SMT, <1>1, <1>2 DEF ByteAt, InLength
<1>4. /\ b \in 0..255
      /\ b < 128 <=> LengthSize(n) = i + 1
      /\ value = n % Weight(i + 2)
      /\ value \in Nat
      /\ reader.multiplier * 128 = Weight(i + 2)
  <2>1. reader.multiplier = Weight(i + 1) /\ reader.value = n % Weight(i + 1)
    BY <1>1, Zenon DEF InLength
  <2>2. /\ b \in 0..255
        /\ b < 128 <=> LengthSize(n) = i + 1
        /\ (n % Weight(i + 1)) + (b % 128) * Weight(i + 1) = n % Weight(i + 2)
        /\ n % Weight(i + 2) \in Nat
        /\ Weight(i + 1) * 128 = Weight(i + 2)
    <3> HIDE DEF n, i
    <3>1. QED
      BY <1>2, OneRound, Zenon
  <2>3. QED
    <3> HIDE DEF n, i, b
    <3>1. QED
      BY <2>1, <2>2, Zenon
<1>5. at' = After(at) /\ UNCHANGED <<written, limit>> /\ at[1] <= Len(written)
  BY SMT, <1>1 DEF ReadsLengthByte, InLength
<1>6. LengthSize(n) \in 1..5
  BY SMT, <1>2, LengthSizeBounds
<1>0. Round(b, value)
  BY <1>3, Zenon DEF ReadsLengthByte
<1>7. CASE b < 128
  <2>1. value = n /\ n <= Longest
    BY SMT, <1>2, <1>4, <1>7, LastRound
  <2>2. at[2] = HeaderSize(Current)
    BY SMT, <1>1, <1>4, <1>7 DEF InLength, HeaderSize
  <2>3. CASE n = 0
    <3>1. Returns(Current.type, Current.len)
      <4>1. Round(b, n)
        BY <1>0, <2>1, Zenon
      <4>2. Returns(reader.type, 0)
        BY SMT, <1>4, <1>7, <2>3, <4>1 DEF Round
      <4>3. QED
        BY <1>1, <2>3, <4>2, Zenon DEF InLength
    <3>2. at[2] = Size(Current)
      BY SMT, <2>2, <2>3, <1>6 DEF Size, Flag, HeaderSize
    <3>3. QED
      BY <1>5, <3>1, <3>2, ReturnsInv, Zenon
  <2>4. CASE n > 0
    <3>1. /\ reader' = Locals("body", reader.type, n, reader.multiplier, i)
          /\ UNCHANGED read
      <4>1. Round(b, n)
        BY <1>0, <2>1, Zenon
      <4>2. QED
        BY SMT, <1>4, <1>7, <2>4, <4>1 DEF Round
    <3>2. at' = <<at[1], at[2] + 1>>
      BY SMT, <1>1, <1>5, <1>6, <2>2, <2>4
         DEF After, Size, Flag, Reading, Current, HeaderSize
    <3>3. WireTypeOK' /\ Reading' /\ FramingAgrees'
      BY SMT, <1>1, <1>2, <1>5, <3>1, <3>2
         DEF WireTypeOK, Reading, Locals, WireInv, FramingAgrees
    <3>4. reader'.phase = "body" /\ InBody'
      <4>1. Current' = Current
        BY SMT, <1>5, <3>2 DEF Current
      <4>2. QED
        BY SMT, <1>1, <1>2, <1>5, <2>1, <2>2, <2>4, <3>1, <3>2, <4>1
           DEF InBody, InLength, Locals
    <3>5. QED
      BY SMT, <3>3, <3>4 DEF WireInv
  <2>5. QED
    BY SMT, <1>2, <2>3, <2>4
<1>8. CASE b >= 128
  <2>1. /\ reader' = Locals(IF i = 3 THEN "failed" ELSE "length", reader.type,
                            value, reader.multiplier * 128, i + 1)
        /\ UNCHANGED read
    BY SMT, <1>0, <1>4, <1>8 DEF Round
  <2>2. i + 1 < LengthSize(n)
    BY SMT, <1>2, <1>4, <1>6, <1>8
  <2>3. at' = <<at[1], at[2] + 1>>
    <3>1. Size(Current) # at[2]
      BY SMT, <1>1, <1>2, <1>6, <2>2 DEF Size, HeaderSize, Flag, InLength
    <3>2. QED
      BY <1>5, <3>1, Zenon DEF After, Current
  <2>4. Current' = Current
    BY SMT, <1>5, <2>3 DEF Current
  <2>5. Reading' /\ FramingAgrees'
    BY SMT, <1>1, <1>5, <2>1, <2>3 DEF Reading, WireInv, FramingAgrees
  <2>6. WireTypeOK'
    <3>1. Weight(i + 2) \in {Weight(j) : j \in 1..5}
      BY SMT, <1>2
    <3>2. reader.type \in 0..15
      BY SMT, <1>1 DEF WireTypeOK
    <3>3. reader' \in [phase : {"first", "length", "body", "failed"},
                       type : 0..15, value : Nat,
                       multiplier : {Weight(j) : j \in 1..5}, i : 0..4]
      BY SMT, <1>2, <1>4, <2>1, <3>1, <3>2 DEF Locals
    <3>4. at' \in Nat \X Nat
      BY SMT, <2>3, <1>1 DEF Reading
    <3>5. QED
      BY SMT, <1>1, <1>5, <2>1, <3>3, <3>4 DEF WireTypeOK
  <2>7. CASE i = 3
    <3>1. n > Longest
      BY SMT, <1>2, <2>2, <2>7, LengthSizeBounds DEF LengthSize, Longest
    <3>2. reader'.phase = "failed" /\ Failed'
      BY SMT, <1>5, <2>1, <2>3, <2>4, <2>7, <3>1 DEF Failed, Locals
    <3>3. QED
      BY SMT, <2>5, <2>6, <3>2 DEF WireInv
  <2>8. CASE i # 3
    <3>1. /\ reader'.phase = "length"
          /\ reader'.type = reader.type
          /\ reader'.i = i + 1
          /\ reader'.value = n % Weight(i + 2)
          /\ reader'.multiplier = Weight(i + 2)
      BY SMT, <1>4, <2>1, <2>8 DEF Locals
    <3>2. InLength'
      BY SMT, <1>1, <1>2, <1>5, <2>2, <2>3, <2>4, <2>8, <3>1 DEF InLength
    <3>3. QED
      BY SMT, <2>5, <2>6, <3>1, <3>2 DEF WireInv
  <2>9. QED
    BY <2>7, <2>8, Zenon
<1>9. QED
  BY SMT, <1>4, <1>7, <1>8

LEMMA StepInv == ASSUME WireInv, [WireNext]_vars PROVE WireInv'
<1>1. CASE UNCHANGED vars
  BY <1>1, Zenon DEF vars, WireInv, WireTypeOK, Reading, AtFirst, InLength,
     InBody, Failed, FramingAgrees, Current
<1>2. CASE WireNext
  BY <1>2, WriteInv, BreaksInv, ReadsFirstByteInv, ReadsLengthByteInv,
     ReadsBodyInv, ReadFailsInv, Zenon DEF WireNext, WireReads
<1>3. QED
  BY <1>1, <1>2, Zenon

LEMMA WireAlwaysInv == WireSpec => []WireInv
BY InitInv, StepInv, PTL DEF WireSpec

(* Every variable keeps its type: readRemainingLength never shifts by more *)
(* than four bytes, whatever it is sent.                                   *)
THEOREM WireTypeCorrect == WireSpec => []WireTypeOK
<1>1. WireInv => WireTypeOK
  BY Zenon DEF WireInv
<1>2. QED
  BY <1>1, WireAlwaysInv, PTL

(* For packets of every type and length, readPacket returns what           *)
(* buildFixedHeader framed, in order and whole (mqtt.go).                  *)
THEOREM FramesAgree == WireSpec => []FramingAgrees
<1>1. WireInv => FramingAgrees
  BY Zenon DEF WireInv
<1>2. QED
  BY <1>1, WireAlwaysInv, PTL

(* readPacket gives up only on a broken connection or a fifth length byte. *)
THEOREM ReadsFailForAReason == WireSpec => []FailsForAReason
<1>1. WireInv => FailsForAReason
  BY Zenon DEF WireInv, Failed, FailsForAReason
<1>2. QED
  BY <1>1, WireAlwaysInv, PTL

-----------------------------------------------------------------------------
(* What the builders write is understood. *)

(* The lengths for which a string fits the two bytes that announce it.     *)
Short == 0..65535

(* The packets of both sides: what the builders make of strings that fit,  *)
(* the printer's answers, and bodies that the parsers must refuse.         *)
Built == {Connect(id, user, pass) : id \in Short, user \in Short, pass \in Short}
           \cup {Subscribe(topic) : topic \in Short}
           \cup {Publish(topic, payload) : topic \in Short, payload \in Nat}
           \cup {Ping}
Answers == {Packet(CONNACK, 0, code, <<>>, 2, <<code>>) : code \in 0..255}
             \cup {Packet(SUBACK, 0, qos, <<>>, 3, <<qos>>) : qos \in 0..255}
             \cup {Packet(PINGRESP, 0, 0, <<>>, 0, << 0 >>)}
Refused == {p \in Packets :
              /\ p.meant = Malformed
              /\ \/ p.type = CONNACK /\ p.len < 2
                 \/ p.type = SUBACK /\ p.len < 3
                 \/ p.type = PUBLISH /\ (p.len < 2 \/ p.len < 2 + p.claims[1])}
Meaningful == Built \cup Answers \cup Refused

(* The ends of up to three strings, one behind another. *)
LEMMA EndsStepwise ==
    ASSUME NEW r \in Nat, NEW s \in Seq(Nat), Len(s) \in 0..3,
           NEW e, e = Ends(r, s)
    PROVE  e[0] = r /\ \A i \in 1..Len(s) : e[i] = e[i - 1] + 2 + s[i]
<1>0. PICK n \in 0..3 : n = Len(s)
  OBVIOUS
<1>1. \A i \in 1..n : s[i] \in Nat
  BY <1>0
<1>2. PICK f : f = [i \in 0..n |->
                      IF i = 0 THEN r
                      ELSE IF i = 1 THEN r + 2 + s[1]
                      ELSE IF i = 2 THEN r + 2 + s[1] + 2 + s[2]
                      ELSE r + 2 + s[1] + 2 + s[2] + 2 + s[3]]
  OBVIOUS
<1>3. ASSUME NEW i \in 1..n PROVE f[i] = f[i - 1] + 2 + s[i]
  <2>1. i \in {1, 2, 3} /\ i - 1 \in 0..n /\ i \in 0..n
    BY <1>1
  <2>2. CASE i = 1
    BY <1>2, <2>1, <2>2
  <2>3. CASE i = 2
    BY <1>2, <2>1, <2>3
  <2>4. CASE i = 3
    BY <1>2, <2>1, <2>4
  <2> QED BY <2>1, <2>2, <2>3, <2>4
<1>4. f = [i \in 0..n |-> IF i = 0 THEN r ELSE f[i - 1] + 2 + s[i]]
  BY <1>2, <1>3
<1>5. Ends(r, s)
        = [i \in 0..Len(s) |-> IF i = 0 THEN r ELSE Ends(r, s)[i - 1] + 2 + s[i]]
  <2>1. f = [i \in 0..Len(s) |-> IF i = 0 THEN r ELSE f[i - 1] + 2 + s[i]]
    BY <1>0, <1>4, Zenon
  <2> QED BY <2>1, Zenon DEF Ends
<1>6. e = [i \in 0..n |-> IF i = 0 THEN r ELSE e[i - 1] + 2 + s[i]]
  BY <1>0, <1>5, Zenon
<1>7. \A i \in 1..n : i \in 0..n /\ i # 0
  OBVIOUS
<1> QED BY <1>0, <1>6, <1>7

(* The same, for one string and for as many as a body has. *)
LEMMA EndsStep ==
    ASSUME NEW r \in Nat, NEW s \in Seq(Nat), Len(s) \in 0..3, NEW i \in 1..Len(s)
    PROVE  Ends(r, s)[i] = Ends(r, s)[i - 1] + 2 + s[i]
<1>1. PICK e : e = Ends(r, s)
  OBVIOUS
<1>2. \A j \in 1..Len(s) : e[j] = e[j - 1] + 2 + s[j]
  BY <1>1, EndsStepwise
<1> QED BY <1>1, <1>2

(* The first string begins where the rest ends. *)
LEMMA NoStrings ==
    ASSUME NEW r \in Nat, NEW s \in Seq(Nat), Len(s) \in 0..3
    PROVE  Ends(r, s)[0] = r
<1>1. PICK e : e = Ends(r, s)
  OBVIOUS
<1>2. e[0] = r
  BY <1>1, EndsStepwise
<1> QED BY <1>1, <1>2

(* One string ends behind its two bytes of length and its own bytes. *)
LEMMA OneString ==
    ASSUME NEW r \in Nat, NEW s \in Seq(Nat), Len(s) \in 1..3
    PROVE  Ends(r, s)[1] = r + 2 + s[1]
<1>1. Len(s) \in 0..3 /\ 1 \in 1..Len(s) /\ 1 - 1 = 0
  OBVIOUS
<1>2. Ends(r, s)[1] = Ends(r, s)[1 - 1] + 2 + s[1] /\ Ends(r, s)[0] = r
  BY <1>1, EndsStep, NoStrings, Zenon
<1> QED BY <1>1, <1>2

(* A length that fits its two bytes is announced as it is. *)
LEMMA ShortAnnounced ==
    ASSUME NEW n \in Short PROVE n \in Nat /\ Announced(n) = n
<1>1. n \in Nat /\ n < 65536
  BY DEF Short
<1> QED BY <1>1 DEF Announced

(* Strings that fit announce their lengths. *)
LEMMA ClaimsAreLengths ==
    ASSUME NEW s \in Seq(Short)
    PROVE  [i \in DOMAIN s |-> Announced(s[i])] = s
<1>2. \A i \in DOMAIN s : s[i] \in Short
  OBVIOUS
<1>3. \A i \in DOMAIN s : Announced(s[i]) = s[i]
  BY <1>2, ShortAnnounced, Zenon
<1>4. s = [i \in DOMAIN s |-> s[i]]
  OBVIOUS
<1> QED BY <1>3, <1>4, Zenon

(* What the printer's reading of a CONNECT yields. *)
LEMMA ParsesConnect ==
    ASSUME NEW p, p.type = CONNECT, NEW len, NEW n,
           n = 1 + (IF p.byte >= 128 THEN 1 ELSE 0) + (IF p.byte % 128 >= 64 THEN 1 ELSE 0),
           Len(p.claims) = n, Ends(10, p.claims)[n] = len
    PROVE  Understood(p, len)
             = <<p.claims[1], IF p.byte >= 128 THEN p.claims[2] ELSE 0,
                 IF p.byte % 128 >= 64 THEN p.claims[n] ELSE 0>>
<1>1. p.type # SUBSCRIBE /\ p.type # CONNACK /\ p.type # SUBACK /\ p.type # PUBLISH
  BY DEF CONNECT, SUBSCRIBE, CONNACK, SUBACK, PUBLISH
<1>2. Understood(p, len) = PrinterParse(p, len)
  BY <1>1, Zenon DEF Understood
<1>3. PrinterParse(p, len)
        = <<p.claims[1], IF p.byte >= 128 THEN p.claims[2] ELSE 0,
            IF p.byte % 128 >= 64 THEN p.claims[n] ELSE 0>>
  BY <1>1, Zenon DEF PrinterParse, Flag
<1> QED BY <1>2, <1>3, Zenon

(* The strings of a CONNECT, in the order they are written. *)
Strings(id, user, pass) == <<id>> \o Present(user) \o Present(pass)

(* What buildConnect writes. *)
LEMMA ConnectPacket ==
    ASSUME NEW id, NEW user, NEW pass, Strings(id, user, pass) \in Seq(Short)
    PROVE  Connect(id, user, pass)
             = [type |-> CONNECT, flags |-> 0,
                byte |-> 2 + (IF user > 0 THEN 128 ELSE 0) + (IF pass > 0 THEN 64 ELSE 0),
                claims |-> Strings(id, user, pass),
                len |-> Ends(10, Strings(id, user, pass))[Len(Strings(id, user, pass))],
                meant |-> <<id, user, pass>>]
<1>1. PICK s : s = Strings(id, user, pass)
  OBVIOUS
<1>2. PICK claims : claims = [i \in DOMAIN s |-> Announced(s[i])]
  OBVIOUS
<1>3. claims = s
  BY <1>1, <1>2, ClaimsAreLengths
<1>4. Connect(id, user, pass)
        = [type |-> CONNECT, flags |-> 0,
           byte |-> 2 + (IF user > 0 THEN 128 ELSE 0) + (IF pass > 0 THEN 64 ELSE 0),
           claims |-> claims, len |-> Ends(10, s)[Len(s)], meant |-> <<id, user, pass>>]
  BY <1>1, <1>2, Zenon DEF Connect, Packet, Flag, Strings
<1> QED BY <1>1, <1>3, <1>4, Zenon

(* What stands where when two sequences of lengths are joined. *)
LEMMA Joined ==
    ASSUME NEW a \in Seq(Nat), NEW b \in Seq(Nat), NEW ab, ab = a \o b
    PROVE  /\ ab \in Seq(Nat) /\ Len(ab) = Len(a) + Len(b)
           /\ \A i \in 1..Len(a) : ab[i] = a[i]
           /\ \A i \in 1..Len(b) : ab[Len(a) + i] = b[i]
<1>1. Len(a) \in Nat /\ Len(b) \in Nat
  OBVIOUS
<1>2. /\ ab \in Seq(Nat) /\ Len(ab) = Len(a) + Len(b)
      /\ \A i \in 1..Len(a) + Len(b) :
            ab[i] = IF i <= Len(a) THEN a[i] ELSE b[i - Len(a)]
  BY ConcatProperties, Zenon
<1>3. ASSUME NEW i \in 1..Len(a) PROVE ab[i] = a[i]
  BY <1>1, <1>2
<1>4. ASSUME NEW i \in 1..Len(b) PROVE ab[Len(a) + i] = b[i]
  <2>1. Len(a) + i \in 1..Len(a) + Len(b) /\ ~(Len(a) + i <= Len(a))
          /\ Len(a) + i - Len(a) = i
    BY <1>1
  <2> QED BY <1>2, <2>1
<1> QED BY <1>2, <1>3, <1>4

(* Up to three strings in a row. *)
LEMMA InARow ==
    ASSUME NEW id, NEW user, NEW pass, id \in Nat, user \in Nat, pass \in Nat
    PROVE  /\ Strings(id, user, pass)[1] = id
           /\ Len(Strings(id, user, pass))
                = 1 + (IF user > 0 THEN 1 ELSE 0) + (IF pass > 0 THEN 1 ELSE 0)
           /\ user > 0 => Strings(id, user, pass)[2] = user
           /\ pass > 0 => Strings(id, user, pass)[Len(Strings(id, user, pass))] = pass
<1>0. PICK s : s = Strings(id, user, pass)
  OBVIOUS
<1>1. PICK a : a = <<id>>
  OBVIOUS
<1>2. PICK b : b = Present(user)
  OBVIOUS
<1>3. PICK c : c = Present(pass)
  OBVIOUS
<1>4. a \in Seq(Nat) /\ Len(a) = 1 /\ a[1] = id
  BY <1>1
<1>5. /\ b \in Seq(Nat) /\ Len(b) = (IF user > 0 THEN 1 ELSE 0)
      /\ user > 0 => Len(b) = 1 /\ b[1] = user
      /\ ~(user > 0) => Len(b) = 0
  BY <1>2 DEF Present
<1>6. /\ c \in Seq(Nat) /\ Len(c) = (IF pass > 0 THEN 1 ELSE 0)
      /\ pass > 0 => Len(c) = 1 /\ c[1] = pass
      /\ ~(pass > 0) => Len(c) = 0
  BY <1>3 DEF Present
<1>7. PICK ab : ab = a \o b
  OBVIOUS
<1>8. /\ ab \in Seq(Nat) /\ Len(ab) = 1 + Len(b) /\ ab[1] = id
      /\ user > 0 => ab[2] = user
  <2>1. /\ ab \in Seq(Nat) /\ Len(ab) = Len(a) + Len(b)
        /\ \A i \in 1..Len(a) : ab[i] = a[i]
        /\ \A i \in 1..Len(b) : ab[Len(a) + i] = b[i]
    <3>1. a \in Seq(Nat)
      BY <1>4
    <3>2. b \in Seq(Nat)
      BY <1>5
    <3>3. ab = a \o b
      BY <1>7
    <3> QED BY <3>1, <3>2, <3>3, Joined
  <2> QED BY ONLY <1>4, <1>5, <2>1
<1>9. s = ab \o c
  BY <1>0, <1>1, <1>2, <1>3, <1>7 DEF Strings
<1>10. /\ Len(s) = 1 + Len(b) + Len(c) /\ s[1] = id
       /\ user > 0 => s[2] = user
       /\ pass > 0 => s[Len(s)] = pass
  <2>1. /\ s \in Seq(Nat) /\ Len(s) = Len(ab) + Len(c)
        /\ \A i \in 1..Len(ab) : s[i] = ab[i]
        /\ \A i \in 1..Len(c) : s[Len(ab) + i] = c[i]
    <3>1. ab \in Seq(Nat)
      BY <1>8
    <3>2. c \in Seq(Nat)
      BY <1>6
    <3>3. PICK sc : sc = ab \o c
      OBVIOUS
    <3>4. /\ sc \in Seq(Nat) /\ Len(sc) = Len(ab) + Len(c)
          /\ \A i \in 1..Len(ab) : sc[i] = ab[i]
          /\ \A i \in 1..Len(c) : sc[Len(ab) + i] = c[i]
      BY ONLY <3>1, <3>2, <3>3, Joined
    <3> QED BY <3>3, <3>4, <1>9, Zenon
  <2>2. Len(b) \in Nat /\ Len(c) \in Nat /\ (user > 0 => Len(b) = 1)
    BY ONLY <1>5, <1>6
  <2>3. pass > 0 => s[Len(s)] = pass
    BY ONLY <1>6, <1>8, <2>1, <2>2
  <2>4. Len(s) = 1 + Len(b) + Len(c)
    BY ONLY <1>8, <2>1
  <2>5. 1 \in 1..Len(ab) /\ (user > 0 => 2 \in 1..Len(ab))
    BY ONLY <1>8, <2>2
  <2>6. s[1] = id /\ (user > 0 => s[2] = user)
    BY ONLY <1>8, <2>1, <2>5
  <2> QED BY <2>3, <2>4, <2>6, Zenon
<1>12. /\ s[1] = id
       /\ Len(s) = 1 + (IF user > 0 THEN 1 ELSE 0) + (IF pass > 0 THEN 1 ELSE 0)
       /\ user > 0 => s[2] = user
       /\ pass > 0 => s[Len(s)] = pass
  BY ONLY <1>5, <1>6, <1>10
<1> QED BY <1>0, <1>12, Zenon

(* The flags of a CONNECT tell which of its strings are there. *)
LEMMA ConnectUnderstood ==
    ASSUME NEW id \in Short, NEW user \in Short, NEW pass \in Short,
           NEW p, p = Connect(id, user, pass)
    PROVE  Understood(p, p.len) = p.meant
<1>1. id \in Nat
  BY ShortAnnounced
<1>11. user \in Nat
  BY ShortAnnounced
<1>12. pass \in Nat
  BY ShortAnnounced
<1>2. PICK s : s = Strings(id, user, pass)
  OBVIOUS
<1>3. s \in Seq(Short)
  <2>1. <<id>> \in Seq(Short) /\ Present(user) \in Seq(Short)
          /\ Present(pass) \in Seq(Short)
    BY DEF Present
  <2> QED BY <1>2, <2>1 DEF Strings
<1>4. /\ p.type = CONNECT
      /\ p.byte = 2 + (IF user > 0 THEN 128 ELSE 0) + (IF pass > 0 THEN 64 ELSE 0)
      /\ p.claims = s /\ p.len = Ends(10, s)[Len(s)]
      /\ p.meant = <<id, user, pass>>
  <2>1. p = [type |-> CONNECT, flags |-> 0,
             byte |-> 2 + (IF user > 0 THEN 128 ELSE 0) + (IF pass > 0 THEN 64 ELSE 0),
             claims |-> s, len |-> Ends(10, s)[Len(s)],
             meant |-> <<id, user, pass>>]
    <3>1. Strings(id, user, pass) \in Seq(Short)
      BY <1>2, <1>3, Zenon
    <3> QED BY <1>2, <3>1, ConnectPacket, Zenon
  <2>2. PICK len : len = Ends(10, s)[Len(s)]
    OBVIOUS
  <2> QED BY <2>1, <2>2
<1>5. /\ p.byte >= 128 <=> user > 0
      /\ p.byte % 128 >= 64 <=> pass > 0
  <2>1. PICK b : b = p.byte
    OBVIOUS
  <2>2. b = 2 + (IF user > 0 THEN 128 ELSE 0) + (IF pass > 0 THEN 64 ELSE 0)
    BY <1>4, <2>1
  <2>3. b \in {2, 66, 130, 194} /\ (b >= 128 <=> user > 0)
          /\ (b \in {66, 194} <=> pass > 0)
    BY ONLY <1>11, <1>12, <2>2
  <2>4. b % 128 >= 64 <=> b \in {66, 194}
    BY ONLY <2>3
  <2> QED BY <2>1, <2>3, <2>4
<1>6. /\ s[1] = id
      /\ Len(s) = 1 + (IF user > 0 THEN 1 ELSE 0) + (IF pass > 0 THEN 1 ELSE 0)
      /\ user > 0 => s[2] = user
      /\ pass > 0 => s[Len(s)] = pass
  <2>1. PICK S : S = Strings(id, user, pass)
    OBVIOUS
  <2>2. /\ S[1] = id
        /\ Len(S) = 1 + (IF user > 0 THEN 1 ELSE 0) + (IF pass > 0 THEN 1 ELSE 0)
        /\ user > 0 => S[2] = user
        /\ pass > 0 => S[Len(S)] = pass
    BY <1>1, <1>11, <1>12, <2>1, InARow
  <2> QED BY <1>2, <2>1, <2>2, Zenon
<1>7. PICK n : n = Len(s)
  OBVIOUS
<1>8. Understood(p, p.len)
        = <<s[1], IF p.byte >= 128 THEN s[2] ELSE 0,
            IF p.byte % 128 >= 64 THEN s[n] ELSE 0>>
  <2>1. n = 1 + (IF p.byte >= 128 THEN 1 ELSE 0) + (IF p.byte % 128 >= 64 THEN 1 ELSE 0)
    BY <1>5, <1>6, <1>7
  <2>2. Len(p.claims) = n /\ Ends(10, p.claims)[n] = p.len
    BY <1>4, <1>7
  <2>3. Understood(p, p.len)
          = <<p.claims[1], IF p.byte >= 128 THEN p.claims[2] ELSE 0,
              IF p.byte % 128 >= 64 THEN p.claims[n] ELSE 0>>
    BY <1>4, <2>1, <2>2, ParsesConnect
  <2> QED BY <1>4, <2>3
<1>9. (IF p.byte >= 128 THEN s[2] ELSE 0) = user
  BY <1>11, <1>5, <1>6
<1>10. (IF p.byte % 128 >= 64 THEN s[n] ELSE 0) = pass
  BY <1>12, <1>5, <1>6, <1>7
<1> QED BY <1>4, <1>6, <1>8, <1>9, <1>10

(* A packet without strings. *)
LEMMA EmptyPacket ==
    ASSUME NEW type, NEW flags, NEW byte, NEW rest \in Nat, NEW meant
    PROVE  /\ Packet(type, flags, byte, <<>>, rest, meant).type = type
           /\ Packet(type, flags, byte, <<>>, rest, meant).byte = byte
           /\ Packet(type, flags, byte, <<>>, rest, meant).len = rest
           /\ Packet(type, flags, byte, <<>>, rest, meant).meant = meant
<1>1. PICK s : s = <<>>
  OBVIOUS
<1>2. s \in Seq(Nat) /\ Len(s) = 0 /\ Len(s) \in 0..3
  BY <1>1
<1>3. Ends(rest, s)[0] = rest
  BY <1>2, NoStrings
<1>4. Ends(rest, s)[Len(s)] = rest
  BY <1>2, <1>3, Zenon
<1>5. PICK claims : claims = [i \in DOMAIN s |-> Announced(s[i])]
  OBVIOUS
<1>6. Packet(type, flags, byte, s, rest, meant)
        = [type |-> type, flags |-> flags, byte |-> byte, claims |-> claims,
           len |-> rest, meant |-> meant]
  BY <1>4, <1>5, Zenon DEF Packet
<1>7. PICK p : p = Packet(type, flags, byte, s, rest, meant)
  OBVIOUS
<1>8. p.type = type /\ p.byte = byte /\ p.len = rest /\ p.meant = meant
  BY <1>6, <1>7
<1> QED BY <1>1, <1>7, <1>8, Zenon

(* A packet of one string: what it announces and how long it is. *)
LEMMA OneStringPacket ==
    ASSUME NEW type, NEW topic \in Short, NEW rest \in Nat, NEW flags, NEW byte, NEW meant
    PROVE  Packet(type, flags, byte, <<topic>>, rest, meant)
             = [type |-> type, flags |-> flags, byte |-> byte, claims |-> <<topic>>,
                len |-> rest + 2 + topic, meant |-> meant]
<1>1. PICK s : s = <<topic>>
  OBVIOUS
<1>2. s \in Seq(Short) /\ Len(s) = 1 /\ Len(s) \in 1..3 /\ s[1] = topic
  BY <1>1
<1>3. s \in Seq(Nat)
  BY <1>1, ShortAnnounced
<1>4. PICK claims : claims = [i \in DOMAIN s |-> Announced(s[i])]
  OBVIOUS
<1>5. claims = s
  BY <1>2, <1>4, ClaimsAreLengths
<1>6. Ends(rest, s)[1] = rest + 2 + s[1]
  BY <1>2, <1>3, OneString
<1>7. Ends(rest, s)[Len(s)] = rest + 2 + topic
  BY <1>2, <1>6, Zenon
<1>8. Packet(type, flags, byte, s, rest, meant)
        = [type |-> type, flags |-> flags, byte |-> byte, claims |-> claims,
           len |-> rest + 2 + topic, meant |-> meant]
  BY <1>4, <1>7, Zenon DEF Packet
<1> QED BY <1>1, <1>5, <1>8, Zenon

(* The printer finds the topic of a SUBSCRIBE. *)
LEMMA SubscribeUnderstood ==
    ASSUME NEW topic \in Short, NEW p, p = Subscribe(topic)
    PROVE  Understood(p, p.len) = p.meant
<1>1. p = [type |-> SUBSCRIBE, flags |-> 2, byte |-> 0, claims |-> <<topic>>,
           len |-> 3 + 2 + topic, meant |-> <<topic>>]
  BY OneStringPacket DEF Subscribe
<1>2. topic \in Nat
  BY ShortAnnounced
<1>3. /\ p.type = SUBSCRIBE /\ p.claims[1] = topic /\ p.len = 5 + topic
      /\ p.meant = <<topic>>
  BY <1>1, <1>2
<1>4. p.type # CONNACK /\ p.type # SUBACK /\ p.type # PUBLISH /\ p.type # CONNECT
  BY <1>3 DEF CONNECT, SUBSCRIBE, CONNACK, SUBACK, PUBLISH
<1>5. Understood(p, p.len) = PrinterParse(p, p.len)
  BY <1>4, Zenon DEF Understood
<1>6. PrinterParse(p, p.len) = <<topic>>
  BY <1>3, <1>4, Zenon DEF PrinterParse
<1> QED BY <1>3, <1>5, <1>6, Zenon

(* readLoop finds the payload of a PUBLISH behind its topic. *)
LEMMA PublishUnderstood ==
    ASSUME NEW topic \in Short, NEW payload \in Nat, NEW p, p = Publish(topic, payload)
    PROVE  Understood(p, p.len) = p.meant
<1>1. p = [type |-> PUBLISH, flags |-> 0, byte |-> 0, claims |-> <<topic>>,
           len |-> payload + 2 + topic, meant |-> <<topic, payload>>]
  BY OneStringPacket DEF Publish
<1>2. topic \in Nat
  BY ShortAnnounced
<1>3. /\ p.type = PUBLISH /\ p.claims[1] = topic /\ p.len = payload + 2 + topic
      /\ p.meant = <<topic, payload>>
  BY <1>1
<1>4. p.type # CONNACK /\ p.type # SUBACK
  BY <1>3 DEF CONNACK, SUBACK, PUBLISH
<1>5. Understood(p, p.len) = ParsePublish(p, p.len)
  BY <1>3, <1>4, Zenon DEF Understood
<1>6. /\ ~(p.len < 2 \/ p.len < 2 + p.claims[1])
      /\ p.len - 2 - p.claims[1] = payload
  BY <1>2, <1>3
<1>7. ParsePublish(p, p.len) = <<topic, payload>>
  BY <1>3, <1>6, Zenon DEF ParsePublish
<1> QED BY <1>3, <1>5, <1>7, Zenon

(* A ping and its answer have no body. *)
LEMMA PingUnderstood ==
    ASSUME NEW p, p.type = PINGREQ \/ p.type = PINGRESP, p.len = 0, p.meant = << 0 >>
    PROVE  Understood(p, p.len) = p.meant
<1>1. /\ p.type # CONNACK /\ p.type # SUBACK /\ p.type # PUBLISH
      /\ p.type # CONNECT /\ p.type # SUBSCRIBE
  BY DEF CONNECT, SUBSCRIBE, CONNACK, SUBACK, PUBLISH, PINGREQ, PINGRESP
<1>2. Understood(p, p.len) = PrinterParse(p, p.len)
  BY <1>1, Zenon DEF Understood
<1>3. PrinterParse(p, p.len) = <<p.len>>
  BY <1>1, Zenon DEF PrinterParse
<1> QED BY <1>2, <1>3, Zenon

(* readConnACK and readSubACK take the code of a body that holds it. *)
LEMMA AnswerUnderstood ==
    ASSUME NEW p, p.meant = <<p.byte>>,
           (p.type = CONNACK /\ p.len = 2) \/ (p.type = SUBACK /\ p.len = 3)
    PROVE  Understood(p, p.len) = p.meant
<1>1. CONNACK # SUBACK /\ CONNACK # PUBLISH /\ SUBACK # PUBLISH
  BY DEF CONNACK, SUBACK, PUBLISH
<1>2. CASE p.type = CONNACK /\ p.len = 2
  <2>1. ~(p.len < 2) /\ p.type # SUBACK /\ p.type # PUBLISH
    BY <1>1, <1>2
  <2>2. Understood(p, p.len) = <<p.byte>>
    BY <1>2, <2>1, Zenon DEF Understood, ParseConnACK
  <2> QED BY <2>2, Zenon
<1>3. CASE p.type = SUBACK /\ p.len = 3
  <2>1. ~(p.len < 3) /\ p.type # CONNACK /\ p.type # PUBLISH
    BY <1>1, <1>3
  <2>2. Understood(p, p.len) = <<p.byte>>
    BY <1>3, <2>1, Zenon DEF Understood, ParseSubACK
  <2> QED BY <2>2, Zenon
<1> QED BY <1>2, <1>3

(* What is too short for its parser is refused. *)
LEMMA RefusedUnderstood ==
    ASSUME NEW p \in Refused
    PROVE  Understood(p, p.len) = p.meant
<1>1. CONNACK # SUBACK /\ CONNACK # PUBLISH /\ SUBACK # PUBLISH
  BY DEF CONNACK, SUBACK, PUBLISH
<1> QED BY <1>1, Zenon
        DEF Refused, Understood, ParseConnACK, ParseSubACK, ParsePublish

(* The printer's answers, one at a time. *)
LEMMA AnswersUnderstood ==
    ASSUME NEW p \in Answers
    PROVE  Understood(p, p.len) = p.meant
<1>1. CASE \E code \in 0..255 : p = Packet(CONNACK, 0, code, <<>>, 2, <<code>>)
  <2>1. PICK code \in 0..255 : p = Packet(CONNACK, 0, code, <<>>, 2, <<code>>)
    BY <1>1
  <2>2. p.type = CONNACK /\ p.byte = code /\ p.len = 2 /\ p.meant = <<code>>
    BY <2>1, EmptyPacket
  <2> QED BY <2>2, AnswerUnderstood, Zenon
<1>2. CASE \E qos \in 0..255 : p = Packet(SUBACK, 0, qos, <<>>, 3, <<qos>>)
  <2>1. PICK qos \in 0..255 : p = Packet(SUBACK, 0, qos, <<>>, 3, <<qos>>)
    BY <1>2
  <2>2. p.type = SUBACK /\ p.byte = qos /\ p.len = 3 /\ p.meant = <<qos>>
    BY <2>1, EmptyPacket
  <2> QED BY <2>2, AnswerUnderstood, Zenon
<1>3. CASE p = Packet(PINGRESP, 0, 0, <<>>, 0, << 0 >>)
  <2>1. p.type = PINGRESP /\ p.len = 0 /\ p.meant = << 0 >>
    BY <1>3, EmptyPacket
  <2> QED BY <2>1, PingUnderstood, Zenon
<1> QED BY <1>1, <1>2, <1>3, Zenon DEF Answers

(* What the builders write, one builder at a time. *)
LEMMA BuiltUnderstood ==
    ASSUME NEW p \in Built
    PROVE  Understood(p, p.len) = p.meant
<1>1. CASE \E id \in Short, user \in Short, pass \in Short : p = Connect(id, user, pass)
  BY <1>1, ConnectUnderstood, Zenon
<1>2. CASE \E topic \in Short : p = Subscribe(topic)
  BY <1>2, SubscribeUnderstood, Zenon
<1>3. CASE \E topic \in Short, payload \in Nat : p = Publish(topic, payload)
  BY <1>3, PublishUnderstood, Zenon
<1>4. CASE p = Ping
  <2>1. p = Packet(PINGREQ, 0, 0, <<>>, 0, << 0 >>)
    BY <1>4, Zenon DEF Ping
  <2>2. p.type = PINGREQ /\ p.len = 0 /\ p.meant = << 0 >>
    BY <2>1, EmptyPacket
  <2> QED BY <2>2, PingUnderstood, Zenon
<1>5. \/ \E id \in Short, user \in Short, pass \in Short : p = Connect(id, user, pass)
      \/ \E topic \in Short : p = Subscribe(topic)
      \/ \E topic \in Short, payload \in Nat : p = Publish(topic, payload)
      \/ p = Ping
  BY SMT DEF Built
<1> QED BY <1>1, <1>2, <1>3, <1>4, <1>5, Zenon

(* All of it together. *)
LEMMA MeaningfulUnderstood ==
    ASSUME NEW p \in Meaningful
    PROVE  Understood(p, p.len) = p.meant
BY BuiltUnderstood, AnswersUnderstood, RefusedUnderstood, Zenon DEF Meaningful

(* What the reader makes of a packet is what its writer meant, for strings *)
(* of any length that fits its two bytes, payloads of any length and every *)
(* code of an answer (the builders and parsers of mqtt.go).                *)
THEOREM MeaningIsKept ==
    ASSUME Packets \subseteq Meaningful
    PROVE  WireSpec => []MeaningSurvives
<1>1. WireInv => MeaningSurvives
  <2> SUFFICES ASSUME WireInv, NEW k \in 1..Len(read)
               PROVE  Understood(written[read[k].packet], read[k].len) = written[k].meant
    BY Zenon DEF MeaningSurvives
  <2>1. PICK p : p = written[k]
    OBVIOUS
  <2>2. p \in Packets
    BY <2>1 DEF WireInv, WireTypeOK, Reading
  <2>3. read[k].packet = k /\ read[k].len = p.len
    BY <2>1, Zenon DEF WireInv, FramingAgrees
  <2>4. Understood(p, p.len) = p.meant
    BY <2>2, MeaningfulUnderstood, Zenon
  <2> QED BY <2>1, <2>3, <2>4, Zenon
<1> QED BY <1>1, WireAlwaysInv, PTL
=============================================================================
