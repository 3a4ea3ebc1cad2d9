--------------------------- MODULE AlpsStreamProofs ---------------------------
(***************************************************************************)
(* What holds of the interleaved ALPS stream for every set of kinds of     *)
(* bytes, every resetafter and every delay of the timer's callback.        *)
(*                                                                         *)
(* The first part is about a device of which no byte is lost and that      *)
(* sends no bare packet after a touchpad packet of all buttons without a   *)
(* pause (Ambiguous): with it the seventh byte can belong to either        *)
(* packet, and what is reported may be neither.  The invariant InStep says *)
(* where the driver is in what the device sends: between packets, in a     *)
(* touchpad packet, in a bare one, in a touchpad packet with a bare one in *)
(* its middle, or with a whole touchpad packet held back.  packet is then  *)
(* the first bytes of that packet and line the rest, byte for byte; due    *)
(* and the timer follow.  The delicate part is the timer: its callback can *)
(* be overtaken by no more than four bytes of the next packet, too few for *)
(* it to be taken for one that is held back (Overtaken).                   *)
(*                                                                         *)
(* The second part is about what follows a loss.  Shape says what the      *)
(* driver may hold at all.  Chase says how far it can lag behind a         *)
(* touchpad packet that came whole: whatever it took the first byte for,   *)
(* it is done with by the sixth.                                           *)
(***************************************************************************)
EXTENDS AlpsStream, SequenceTheorems, TLAPS

Kind == {"start", "high", "bare", "stick", "all", "data"}
Byte == [k : Kind, from : {"pad", "stick"}, p : 0 .. 1, i : 1 .. 6]

\* Byte i of what the device sends: of a touchpad packet, ...
PadKinds(i) == IF i = 1 THEN {"start"} ELSE IF i = 4 THEN Fourth \cup {"data"} ELSE Low
PadByte(b, p, i) ==
  b \in Byte /\ b.from = "pad" /\ b.p = p /\ b.i = i /\ b.k \in PadKinds(i)

\* ... of a bare packet, whose first byte is one of the kinds first, ...
BareByte(b, p, i, first) ==
  b \in Byte /\ b.from = "stick" /\ b.p = p /\ b.i = i /\ (i = 1 => b.k \in first)

\* ... and of a touchpad packet with a bare one in its middle.
MixByte(b, p, i) ==
  IF i <= 3 THEN PadByte(b, p, i)
  ELSE IF i <= 6 THEN BareByte(b, p, i - 3, {"stick"}) ELSE PadByte(b, p, i - 3)

\* The bytes of s are those from byte n + 1 on.
PadFrom(s, n, p) == \A j \in 1 .. Len(s) : PadByte(s[j], p, n + j)
BareFrom(s, n, p) == \A j \in 1 .. Len(s) : BareByte(s[j], p, n + j, Plain)
MixFrom(s, n, p) == \A j \in 1 .. Len(s) : MixByte(s[j], p, n + j)

\* A touchpad packet whose fourth byte the bare check would take for a bare
\* packet's first has pressed set.
Marked(s, n) == \A j \in 1 .. Len(s) : n + j = 4 /\ AllLow(s[j]) => pressed

\* The callback of the timer may still be to come, if it expired before the packet
\* under way began.
Overtaken == timer = "late" /\ lag = Len(packet) /\ lag \in 1 .. 4

InPad ==
  /\ Len(packet) <= 5 /\ Len(packet) + Len(line) = 6
  /\ \E p \in 0 .. 1 : PadFrom(packet, 0, p) /\ PadFrom(line, Len(packet), p)
  /\ Marked(packet, 0) /\ Marked(line, Len(packet))
  /\ due = <<>> /\ (timer = "off" \/ Overtaken)
InBare ==
  /\ Len(packet) <= 2 /\ Len(packet) + Len(line) = 3
  /\ \E p \in 0 .. 1 : BareFrom(packet, 0, p) /\ BareFrom(line, Len(packet), p)
  /\ due = <<>> /\ timer = "off"
InMix ==
  /\ Len(packet) <= 6 /\ Len(packet) + Len(line) = 9
  /\ \E p \in 0 .. 1 : MixFrom(packet, 0, p) /\ MixFrom(line, Len(packet), p)
  /\ IF Len(packet) = 6 THEN due = <<"stick">> /\ timer = "set"
                        ELSE due = <<>> /\ (timer = "off" \/ Overtaken)

\* A whole touchpad packet is held back, for it may be part of one of nine bytes.
Pending ==
  /\ Len(packet) = 6 /\ AllLow(packet[4]) /\ due = <<"pad">>
  /\ \E p \in 0 .. 1 : PadFrom(packet, 0, p)
  /\ timer = "set" \/ (timer = "late" /\ lag = 0)
  /\ \/ line = <<>> /\ pressed
     \/ Len(line) = 6 /\ Marked(line, 0) /\ \E p \in 0 .. 1 : PadFrom(line, 0, p)
     \/ Len(line) = 9 /\ \E p \in 0 .. 1 : MixFrom(line, 0, p)

Between == line = <<>> /\ packet = <<>> /\ due = <<>> /\ timer = "off"

InStep ==
  /\ oos = 0 /\ flip \in 0 .. 1 /\ packet \in Seq(Byte) /\ line \in Seq(Byte)
  /\ said # <<>> => Packet(said)
  /\ Between \/ InPad \/ InBare \/ InMix \/ Pending

Inv == left \in 0 .. MaxLoss /\ (Clean => InStep)
-----------------------------------------------------------------------------
(* What the device sends. *)

LEMMA PadLine ==
  ASSUME NEW p \in 0 .. 1, NEW s \in PadPackets(p)
  PROVE  s \in Seq(Byte) /\ Len(s) = 6 /\ PadFrom(s, 0, p)
<1>1. PICK k \in {"start"} \X Low \X Low \X Fourth \X Low \X Low : s = Bytes("pad", p, k)
  BY DEF PadPackets
<1>2. k = <<k[1], k[2], k[3], k[4], k[5], k[6]>>
  BY <1>1
<1>3. /\ k[1] = "start" /\ k[2] \in Low /\ k[3] \in Low /\ k[4] \in Fourth
      /\ k[5] \in Low /\ k[6] \in Low
  BY <1>1
<1>4. \A i \in 1 .. 6 : k[i] \in Kind /\ k[i] \in PadKinds(i)
  BY <1>3, KindAssumption DEF Kind, PadKinds
<1>5. DOMAIN <<k[1], k[2], k[3], k[4], k[5], k[6]>> = 1 .. 6
  OBVIOUS
<1>6. s = [i \in 1 .. 6 |-> [k |-> k[i], from |-> "pad", p |-> p, i |-> i]]
  BY <1>1, <1>2, <1>5 DEF Bytes
<1>7. s \in Seq(Byte) /\ Len(s) = 6
  BY <1>4, <1>6 DEF Byte
<1>8. \A j \in 1 .. 6 : PadByte(s[j], p, j)
  BY <1>4, <1>6, <1>7 DEF PadByte, Byte
<1>. QED  BY <1>7, <1>8 DEF PadFrom

LEMMA BareLine ==
  ASSUME NEW p \in 0 .. 1, NEW first \in {Plain, {"stick"}},
         NEW s \in BarePackets(p, first)
  PROVE  /\ s \in Seq(Byte) /\ Len(s) = 3
         /\ \A j \in 1 .. 3 : BareByte(s[j], p, j, first)
<1>1. PICK k \in first \X Motion \X Motion : s = Bytes("stick", p, k)
  BY DEF BarePackets
<1>2. k = <<k[1], k[2], k[3]>> /\ k[1] \in first /\ k[2] \in Motion /\ k[3] \in Motion
  BY <1>1
<1>3. \A i \in 1 .. 3 : k[i] \in Kind
  <2>1. first \subseteq Kind /\ Motion \subseteq Kind
    BY KindAssumption DEF Kind
  <2>. QED  BY <1>2, <2>1
<1>4. DOMAIN <<k[1], k[2], k[3]>> = 1 .. 3
  OBVIOUS
<1>5. s = [i \in 1 .. 3 |-> [k |-> k[i], from |-> "stick", p |-> p, i |-> i]]
  BY <1>1, <1>2, <1>4 DEF Bytes
<1>6. s \in Seq(Byte) /\ Len(s) = 3
  BY <1>3, <1>5 DEF Byte
<1>. QED  BY <1>2, <1>3, <1>5, <1>6 DEF BareByte, Byte

LEMMA MixLine ==
  ASSUME NEW p \in 0 .. 1, NEW pad \in PadPackets(p),
         NEW bare \in BarePackets(p, {"stick"})
  PROVE  LET s == Interleaved(pad, bare)
         IN  s \in Seq(Byte) /\ Len(s) = 9 /\ MixFrom(s, 0, p)
<1>1. pad \in Seq(Byte) /\ Len(pad) = 6 /\ \A j \in 1 .. 6 : PadByte(pad[j], p, j)
  BY PadLine DEF PadFrom
<1>2. /\ bare \in Seq(Byte) /\ Len(bare) = 3
      /\ \A j \in 1 .. 3 : BareByte(bare[j], p, j, {"stick"})
  <2>1. {"stick"} \in {Plain, {"stick"}}
    OBVIOUS
  <2>. QED  BY <2>1, BareLine
<1>3. \A i \in 1 .. 6 : pad[i] \in Byte
  BY <1>1 DEF PadByte
<1>. DEFINE one == SubSeq(pad, 1, 3)
            two == SubSeq(pad, 4, 6)
            mid == one \o bare
            s == mid \o two
<1>4. one \in Seq(Byte) /\ Len(one) = 3 /\ \A j \in 1 .. 3 : one[j] = pad[j]
  <2>1. \A i \in 1 .. 3 : pad[i] \in Byte
    BY <1>3
  <2>. QED  BY <2>1, SubSeqProperties
<1>5. two \in Seq(Byte) /\ Len(two) = 3 /\ \A j \in 1 .. 3 : two[j] = pad[j + 3]
  <2>1. \A i \in 4 .. 6 : pad[i] \in Byte
    BY <1>3
  <2>. QED  BY <2>1, SubSeqProperties
<1>6. s = Interleaved(pad, bare)
  BY DEF Interleaved
<1>. HIDE DEF one, two
<1>7. /\ mid \in Seq(Byte) /\ Len(mid) = 6
      /\ \A j \in 1 .. 6 : mid[j] = IF j <= 3 THEN one[j] ELSE bare[j - 3]
  <2>1. /\ mid \in Seq(Byte) /\ Len(mid) = Len(one) + Len(bare)
        /\ \A i \in 1 .. Len(one) + Len(bare) :
              mid[i] = IF i <= Len(one) THEN one[i] ELSE bare[i - Len(one)]
    BY <1>2, <1>4, ConcatProperties, Zenon
  <2>. HIDE DEF mid
  <2>. QED  BY <1>2, <1>4, <2>1
<1>. HIDE DEF mid
<1>8. /\ s \in Seq(Byte) /\ Len(s) = 9
      /\ \A j \in 1 .. 9 : s[j] = IF j <= 6 THEN mid[j] ELSE two[j - 6]
  <2>1. /\ s \in Seq(Byte) /\ Len(s) = Len(mid) + Len(two)
        /\ \A i \in 1 .. Len(mid) + Len(two) :
              s[i] = IF i <= Len(mid) THEN mid[i] ELSE two[i - Len(mid)]
    BY <1>5, <1>7, ConcatProperties, Zenon
  <2>. HIDE DEF s
  <2>. QED  BY <1>5, <1>7, <2>1
<1>. HIDE DEF s
<1>9. ASSUME NEW j \in 1 .. 9 PROVE MixByte(s[j], p, j)
  <2>1. CASE j \in 1 .. 3
    <3>1. j \in 1 .. 6 /\ s[j] = pad[j]
      BY <1>4, <1>7, <1>8, <2>1
    <3>. QED  BY <1>1, <2>1, <3>1 DEF MixByte
  <2>2. CASE j \in 4 .. 6
    <3>1. j - 3 \in 1 .. 3 /\ s[j] = bare[j - 3]
      BY <1>7, <1>8, <2>2
    <3>. QED  BY <1>2, <2>2, <3>1 DEF MixByte
  <2>3. CASE j \in 7 .. 9
    <3>1. j - 6 \in 1 .. 3 /\ j - 3 \in 1 .. 6 /\ s[j] = pad[j - 3]
      BY <1>5, <1>8, <2>3
    <3>. QED  BY <1>1, <2>3, <3>1 DEF MixByte
  <2>4. j \in 1 .. 3 \/ j \in 4 .. 6 \/ j \in 7 .. 9
    OBVIOUS
  <2>. QED  BY <2>1, <2>2, <2>3, <2>4
<1>. QED  BY <1>6, <1>8, <1>9 DEF MixFrom

\* One byte moves from the line to the packet.
LEMMA Moved ==
  ASSUME NEW s \in Seq(Byte), NEW t \in Seq(Byte), t # <<>>
  PROVE  /\ Head(t) = t[1] /\ Head(t) \in Byte /\ Len(t) >= 1
         /\ Tail(t) \in Seq(Byte) /\ Len(Tail(t)) = Len(t) - 1
         /\ \A j \in 1 .. Len(t) - 1 : Tail(t)[j] = t[j + 1]
         /\ Append(s, Head(t)) \in Seq(Byte) /\ Len(Append(s, Head(t))) = Len(s) + 1
         /\ \A j \in 1 .. Len(s) : Append(s, Head(t))[j] = s[j]
         /\ Append(s, Head(t))[Len(s) + 1] = t[1]
  OBVIOUS

LEMMA PadMoved ==
  ASSUME NEW s \in Seq(Byte), NEW t \in Seq(Byte), t # <<>>, NEW p \in 0 .. 1,
         PadFrom(s, 0, p), PadFrom(t, Len(s), p)
  PROVE  /\ PadFrom(Append(s, Head(t)), 0, p)
         /\ PadFrom(Tail(t), Len(s) + 1, p)
  BY Moved DEF PadFrom

LEMMA BareMoved ==
  ASSUME NEW s \in Seq(Byte), NEW t \in Seq(Byte), t # <<>>, NEW p \in 0 .. 1,
         BareFrom(s, 0, p), BareFrom(t, Len(s), p)
  PROVE  /\ BareFrom(Append(s, Head(t)), 0, p)
         /\ BareFrom(Tail(t), Len(s) + 1, p)
  BY Moved DEF BareFrom

LEMMA MixMoved ==
  ASSUME NEW s \in Seq(Byte), NEW t \in Seq(Byte), t # <<>>, NEW p \in 0 .. 1,
         MixFrom(s, 0, p), MixFrom(t, Len(s), p)
  PROVE  /\ MixFrom(Append(s, Head(t)), 0, p)
         /\ MixFrom(Tail(t), Len(s) + 1, p)
  BY Moved DEF MixFrom

LEMMA MarkMoved ==
  ASSUME NEW s \in Seq(Byte), NEW t \in Seq(Byte), t # <<>>,
         Marked(s, 0), Marked(t, Len(s))
  PROVE  Marked(Append(s, Head(t)), 0) /\ Marked(Tail(t), Len(s) + 1)
  BY Moved DEF Marked


\* A packet that is not complete has bytes on the line.
LEMMA PadLonger ==
  ASSUME NEW s \in Seq(Byte), NEW t \in Seq(Byte), Len(s) <= 5, Len(s) + Len(t) = 6
  PROVE  t # <<>> /\ Len(s) # 6
<1>1. t # <<>>
  OBVIOUS
<1>2. ASSUME Len(s) = 6 PROVE FALSE
  <2>1. 6 <= 5
    BY <1>2
  <2>. QED  BY <2>1
<1>. QED  BY <1>1, <1>2

LEMMA SomeBytes ==
  ASSUME NEW t \in Seq(Byte), Len(t) = 6
  PROVE  t # <<>>
  OBVIOUS

LEMMA MixLonger ==
  ASSUME NEW s \in Seq(Byte), NEW t \in Seq(Byte), Len(s) <= 6, Len(s) + Len(t) = 9
  PROVE  t # <<>>
  OBVIOUS

LEMMA Appended ==
  ASSUME NEW s \in Seq(Byte), NEW b \in Byte
  PROVE  /\ Append(s, b) \in Seq(Byte) /\ Len(Append(s, b)) = Len(s) + 1
         /\ Append(s, b)[Len(s) + 1] = b
         /\ \A j \in 1 .. Len(s) : Append(s, b)[j] = s[j]
  OBVIOUS

LEMMA NoBytes ==
  ASSUME NEW s \in Seq(Byte), NEW t \in Seq(Byte), Len(s) = 6, Len(s) + Len(t) = 6
  PROVE  t = <<>>
  OBVIOUS

LEMMA Elements ==
  ASSUME NEW s \in Seq(Byte), NEW i \in 1 .. Len(s)
  PROVE  s[i] \in Byte
  OBVIOUS

LEMMA NoBytesBare ==
  ASSUME NEW s \in Seq(Byte), NEW t \in Seq(Byte), Len(s) = 3, Len(s) + Len(t) = 3
  PROVE  t = <<>>
  OBVIOUS

LEMMA NineBytes ==
  ASSUME NEW t \in Seq(Byte), Len(t) = 9
  PROVE  t # <<>>
  OBVIOUS

LEMMA Rest ==
  ASSUME NEW t \in Seq(Byte), t # <<>>
  PROVE  /\ Head(t) = t[1] /\ Head(t) \in Byte
         /\ Tail(t) \in Seq(Byte) /\ Len(Tail(t)) = Len(t) - 1
         /\ \A j \in 1 .. Len(t) - 1 : Tail(t)[j] = t[j + 1]
  BY Moved

\* The bytes of a whole packet are one packet as the device sent it.
LEMMA PadWhole ==
  ASSUME NEW s \in Seq(Byte), NEW p \in 0 .. 1, Len(s) = 6, PadFrom(s, 0, p)
  PROVE  Packet(s)
<1>1. \A j \in 1 .. 6 : s[j].from = "pad" /\ s[j].p = p /\ s[j].i = j
  BY DEF PadFrom, PadByte
<1>2. DOMAIN s = 1 .. 6
  OBVIOUS
<1>. QED  BY <1>1, <1>2 DEF Packet

LEMMA BareWhole ==
  ASSUME NEW s \in Seq(Byte), NEW p \in 0 .. 1, Len(s) = 3,
         NEW first, \A j \in 1 .. 3 : BareByte(s[j], p, j, first)
  PROVE  Packet(s)
<1>1. \A j \in 1 .. 3 : s[j].from = "stick" /\ s[j].p = p /\ s[j].i = j
  BY DEF BareByte
<1>2. DOMAIN s = 1 .. 3
  OBVIOUS
<1>. QED  BY <1>1, <1>2 DEF Packet

\* Only the first byte of a touchpad packet has bit 7 set.
LEMMA PadBits ==
  ASSUME NEW s \in Seq(Byte), NEW p \in 0 .. 1, PadFrom(s, 0, p), NEW j \in 1 .. Len(s), j <= 6
  PROVE  IF j = 1 THEN s[j].k = "start" ELSE ~High(s[j])
<1>1. s[j].k \in PadKinds(j)
  BY DEF PadFrom, PadByte
<1>. QED  BY <1>1, KindAssumption DEF PadKinds, High

LEMMA MixBits ==
  ASSUME NEW s \in Seq(Byte), NEW p \in 0 .. 1, MixFrom(s, 0, p), Len(s) <= 9
  PROVE  /\ Len(s) >= 1 => s[1].k = "start"
         /\ \A j \in 2 .. 3 : Len(s) >= j => ~High(s[j])
         /\ Len(s) >= 4 => s[4].k = "stick"
         /\ Len(s) >= 7 => ~High(s[7])
<1>1. ASSUME Len(s) >= 1 PROVE s[1].k = "start"
  BY <1>1 DEF MixFrom, MixByte, PadByte, PadKinds
<1>2. ASSUME NEW j \in 2 .. 3, Len(s) >= j PROVE ~High(s[j])
  <2>1. s[j].k \in PadKinds(j)
    BY <1>2 DEF MixFrom, MixByte, PadByte
  <2>. QED  BY <1>2, <2>1, KindAssumption DEF PadKinds, High
<1>3. ASSUME Len(s) >= 4 PROVE s[4].k = "stick"
  BY <1>3 DEF MixFrom, MixByte, BareByte
<1>4. ASSUME Len(s) >= 7 PROVE ~High(s[7])
  <2>1. s[7].k \in PadKinds(4)
    BY <1>4 DEF MixFrom, MixByte, PadByte
  <2>. QED  BY <2>1, KindAssumption DEF PadKinds, High
<1>. QED  BY <1>1, <1>2, <1>3, <1>4
-----------------------------------------------------------------------------
(* The steps of the device. *)

LEMMA BeginStep ==
  ASSUME Ambiguous = FALSE, InStep, Begin
  PROVE  InStep'
<1>. /\ line = <<>> /\ oos' = oos /\ packet' = packet /\ said' = said /\ due' = due
     /\ timer' = timer /\ lag' = lag /\ packet \in Seq(Byte) /\ line \in Seq(Byte)
     /\ Len(line) = 0
     /\ flip' \in 0 .. 1
  BY DEF Begin, InStep
<1>1. Between \/ (Pending /\ pressed)
  <2>1. ~InPad
    <3>1. InPad => Len(packet) <= 5 /\ Len(packet) + Len(line) = 6
      BY DEF InPad
    <3>. QED  BY <3>1, PadLonger, Zenon
  <2>2. ~InBare
    BY DEF InBare
  <2>3. ~InMix
    <3>1. InMix => Len(packet) <= 6 /\ Len(packet) + Len(line) = 9
      BY DEF InMix
    <3>. QED  BY <3>1, MixLonger, Zenon
  <2>. QED  BY <2>1, <2>2, <2>3 DEF InStep, Pending
<1>2. PICK p \in 0 .. 1 :
        \/ \E pad \in PadPackets(p) : line' = pad /\ pressed' = AllLow(pad[4])
        \/ ~pressed /\ \E bare \in BarePackets(p, Plain) : line' = bare
        \/ \E pad \in PadPackets(p), bare \in BarePackets(p, {"stick"}) :
               line' = Interleaved(pad, bare)
  BY DEF Begin
<1>3. CASE \E pad \in PadPackets(p) : line' = pad /\ pressed' = AllLow(pad[4])
  <2>1. line' \in Seq(Byte) /\ Len(line') = 6 /\ PadFrom(line', 0, p)
    BY <1>3, PadLine
  <2>2. Marked(line, 0)'
    BY <1>3 DEF Marked
  <2>3. CASE Between
    <3>1. InPad'
      BY <2>1, <2>2, <2>3 DEF Between, InPad, PadFrom, Marked
    <3>. QED  BY <2>1, <3>1 DEF InStep, Packet
  <2>4. CASE Pending
    <3>1. Pending'
      BY <2>1, <2>2, <2>4 DEF Pending, PadFrom, Marked, AllLow
    <3>. QED  BY <2>1, <3>1 DEF InStep, Packet
  <2>. QED  BY <1>1, <2>3, <2>4
<1>4. CASE ~pressed /\ \E bare \in BarePackets(p, Plain) : line' = bare
  <2>1. /\ line' \in Seq(Byte) /\ Len(line') = 3
        /\ \A j \in 1 .. 3 : BareByte(line'[j], p, j, Plain)
    BY <1>4, BareLine
  <2>2. InBare'
    BY <1>1, <1>4, <2>1 DEF Between, InBare, BareFrom
  <2>. QED  BY <2>1, <2>2 DEF InStep, Packet
<1>5. CASE \E pad \in PadPackets(p), bare \in BarePackets(p, {"stick"}) :
               line' = Interleaved(pad, bare)
  <2>1. line' \in Seq(Byte) /\ Len(line') = 9 /\ MixFrom(line', 0, p)
    BY <1>5, MixLine
  <2>2. CASE Between
    <3>1. InMix'
      BY <2>1, <2>2 DEF Between, InMix, MixFrom
    <3>. QED  BY <2>1, <3>1 DEF InStep, Packet
  <2>3. CASE Pending
    <3>1. Pending'
      BY <2>1, <2>3 DEF Pending, PadFrom, MixFrom, AllLow
    <3>. QED  BY <2>1, <3>1 DEF InStep, Packet
  <2>. QED  BY <1>1, <2>2, <2>3
<1>. QED  BY <1>2, <1>3, <1>4, <1>5
-----------------------------------------------------------------------------
(* The steps of the driver. *)

LEMMA ExpireStep ==
  ASSUME InStep, Expire
  PROVE  InStep'
<1>0. line = <<>> /\ Len(line) = 0 /\ timer = "set" /\ packet \in Seq(Byte) /\ line \in Seq(Byte)
      /\ Len(packet) \in Nat
  BY DEF Expire, InStep
<1>1. Pending
  <2>1. ~InPad
    <3>1. InPad => Len(packet) <= 5 /\ Len(packet) + Len(line) = 6
      BY DEF InPad
    <3>. QED  BY <1>0, <3>1, PadLonger, Zenon
  <2>2. ~InBare
    BY <1>0 DEF InBare
  <2>3. ~InMix
    <3>1. InMix => Len(packet) <= 6 /\ Len(packet) + Len(line) = 9
      BY DEF InMix
    <3>. QED  BY <1>0, <3>1, MixLonger, Zenon
  <2>. QED  BY <1>0, <2>1, <2>2, <2>3 DEF InStep, Between
<1>2. Pending'
  BY <1>1 DEF Pending, Expire, PadFrom, AllLow
<1>. QED  BY <1>2 DEF InStep, Expire, Packet

LEMMA FlushStep ==
  ASSUME InStep, Flush
  PROVE  InStep'
<1>. /\ timer = "late" /\ timer' = "off" /\ line' = line /\ oos' = oos /\ oos = 0
     /\ packet \in Seq(Byte) /\ Len(packet) \in Nat /\ line \in Seq(Byte)
     /\ pressed' = (pressed /\ line # <<>>)
     /\ flip' \in 0 .. 1
  BY DEF Flush, InStep
<1>1. ASSUME Len(packet) # 6 PROVE packet' = packet /\ due' = due /\ said' = said
  BY <1>1 DEF Flush, Silent
<1>2. CASE InPad
  <2>0. Len(packet) # 6
    <3>1. Len(packet) <= 5 /\ Len(packet) + Len(line) = 6
      BY <1>2 DEF InPad
    <3>. QED  BY <3>1, PadLonger, Zenon
  <2>1. packet' = packet /\ due' = due /\ said' = said
    BY <1>1, <2>0
  <2>2. line # <<>>
    BY <1>2 DEF InPad
  <2>3. InPad'
    BY <1>2, <2>1, <2>2 DEF InPad, PadFrom, Marked
  <2>. QED  BY <2>1, <2>3 DEF InStep, Packet
<1>3. CASE InMix
  <2>1. packet' = packet /\ due' = due /\ said' = said
    BY <1>1, <1>3 DEF InMix, Overtaken
  <2>2. InMix'
    BY <1>3, <2>1 DEF InMix, MixFrom, Overtaken
  <2>. QED  BY <2>1, <2>2 DEF InStep, Packet
<1>4. CASE Pending
  <2>1. PICK p \in 0 .. 1 : PadFrom(packet, 0, p)
    BY <1>4 DEF Pending
  <2>2. Len(packet) = 6 /\ due = <<"pad">>
    BY <1>4 DEF Pending
  <2>3. \A i \in 4 .. 6 : ~High(packet[i])
    <3>1. ASSUME NEW i \in 4 .. 6 PROVE ~High(packet[i])
      <4>1. i \in 1 .. Len(packet) /\ i <= 6 /\ i # 1
        BY <2>2
      <4>. QED  BY <2>1, <4>1, PadBits
    <3>. QED  BY <3>1
  <2>4. packet' = <<>> /\ due' = <<>> /\ said' = packet
    BY <2>2, <2>3 DEF Flush, Report
  <2>5. Packet(said')
    BY <2>1, <2>2, <2>4, PadWhole
  <2>6. packet' \in Seq(Byte) /\ Len(packet') = 0
    BY <2>4
  <2>7. CASE line = <<>>
    BY <2>4, <2>5, <2>6, <2>7 DEF InStep, Between
  <2>8. CASE Len(line) = 6 /\ Marked(line, 0) /\ \E q \in 0 .. 1 : PadFrom(line, 0, q)
    <3>0. line # <<>>
      BY <2>8, SomeBytes
    <3>1. PadFrom(packet, 0, 0)' /\ Marked(packet, 0)'
      BY <2>4 DEF PadFrom, Marked
    <3>2. \E q \in 0 .. 1 : PadFrom(packet, 0, q)' /\ PadFrom(line, 0, q)'
      BY <2>4, <2>8 DEF PadFrom
    <3>3. Marked(line, 0)'
      BY <2>8, <3>0 DEF Marked
    <3>4. InPad'
      BY <2>4, <2>6, <2>8, <3>1, <3>2, <3>3 DEF InPad
    <3>. QED  BY <2>5, <2>6, <3>4 DEF InStep
  <2>9. CASE Len(line) = 9 /\ \E q \in 0 .. 1 : MixFrom(line, 0, q)
    <3>1. InMix'
      BY <2>4, <2>6, <2>9 DEF InMix, MixFrom
    <3>. QED  BY <2>5, <2>6, <3>1 DEF InStep
  <2>. QED  BY <1>4, <2>7, <2>8, <2>9 DEF Pending
<1>. QED  BY <1>2, <1>3, <1>4 DEF InStep, Between, InBare
-----------------------------------------------------------------------------
(* What the driver does with a byte. *)

LEMMA EndedPad ==
  ASSUME NEW b, b.from = "pad"
  PROVE  /\ b.i = 6 => <<>> \o Ended(b) = <<"pad">>
         /\ b.i # 6 => \A d \in Seq({"pad", "stick"}) : d \o Ended(b) = d
<1>1. ASSUME b.i = 6 PROVE <<>> \o Ended(b) = <<"pad">>
  <2>1. Ended(b) = <<"pad">>
    BY <1>1 DEF Ended
  <2>. QED  BY <2>1
<1>2. ASSUME b.i # 6, NEW d \in Seq({"pad", "stick"}) PROVE d \o Ended(b) = d
  <2>1. Ended(b) = <<>>
    BY <1>2 DEF Ended
  <2>. QED  BY <2>1, ConcatEmptySeq
<1>. QED  BY <1>1, <1>2

LEMMA EndedBare ==
  ASSUME NEW b, b.from = "stick"
  PROVE  <<>> \o Ended(b) = IF b.i = 3 THEN <<"stick">> ELSE <<>>
<1>1. CASE b.i = 3
  <2>1. Ended(b) = <<"stick">>
    BY <1>1 DEF Ended
  <2>. QED  BY <1>1, <2>1
<1>2. CASE b.i # 3
  <2>1. Ended(b) = <<>>
    BY <1>2 DEF Ended
  <2>. QED  BY <1>2, <2>1
<1>. QED  BY <1>1, <1>2

LEMMA PadProcess ==
  ASSUME NEW q, NEW d, q[1].k = "start", Process(q, d)
  PROVE  IF Len(q) >= 4 /\ AllLow(q[4]) THEN Stuffed(q, d)
                                        ELSE timer' = timer /\ Ordinary(q, d)
<1>1. ~BareFirst(q[1])
  BY DEF BareFirst
<1>. QED  BY <1>1, Zenon DEF Process

\* A byte of a touchpad packet.
LEMMA PadTaken ==
  ASSUME NEW q \in Seq(Byte), NEW p \in 0 .. 1, Len(q) \in 1 .. 6, PadFrom(q, 0, p), oos = 0,
         NEW d, d = (IF Len(q) = 6 THEN <<"pad">> ELSE <<>>), Process(q, d)
  PROVE  /\ oos' = 0
         /\ Len(q) # 6 => packet' = q /\ due' = <<>> /\ said' = said /\ timer' = timer
         /\ Len(q) = 6 /\ AllLow(q[4]) =>
              packet' = q /\ due' = <<"pad">> /\ said' = said /\ timer' = "set"
         /\ Len(q) = 6 /\ ~AllLow(q[4]) =>
              packet' = <<>> /\ due' = <<>> /\ said' = q /\ timer' = timer
<1>0. ASSUME Len(q) = 7 PROVE FALSE
  <2>1. 7 \in 1 .. 6
    BY <1>0
  <2>. QED  BY <2>1
<1>1. q[1].k = "start"
  BY PadBits
<1>2. ASSUME Len(q) >= 2 PROVE ~High(Last(q))
  BY <1>2, PadBits DEF Last
<1>3. CASE Len(q) >= 4 /\ AllLow(q[4])
  <2>1. Stuffed(q, d)
    BY <1>1, <1>3, PadProcess
  <2>2. Good(q, d) /\ timer' = IF Len(q) = 6 THEN "set" ELSE timer
    BY <1>0, <2>1 DEF Stuffed
  <2>. QED  BY <1>3, <2>2 DEF Good, Silent
<1>4. CASE ~(Len(q) >= 4 /\ AllLow(q[4]))
  <2>1. timer' = timer /\ Ordinary(q, d)
    BY <1>1, <1>4, PadProcess
  <2>2. IF Len(q) = 6 THEN Full(q, d) ELSE Good(q, d)
    BY <1>1, <1>2, <2>1 DEF Ordinary
  <2>3. CASE Len(q) = 6
    <3>1. d = <<"pad">> /\ d # <<>> /\ Tail(d) = <<>>
      BY <2>3
    <3>. QED  BY <1>4, <2>1, <2>2, <2>3, <3>1 DEF Full, Report
  <2>4. CASE Len(q) # 6
    BY <1>4, <2>1, <2>2, <2>4 DEF Good, Silent
  <2>. QED  BY <2>3, <2>4
<1>. QED  BY <1>3, <1>4

\* A byte of a bare packet.
LEMMA BareTaken ==
  ASSUME NEW q \in Seq(Byte), NEW p \in 0 .. 1, Len(q) \in 1 .. 3, BareFrom(q, 0, p), oos = 0,
         NEW d, d = (IF Len(q) = 3 THEN <<"stick">> ELSE <<>>), Process(q, d)
  PROVE  /\ oos' = 0 /\ timer' = timer
         /\ Len(q) # 3 => packet' = q /\ due' = <<>> /\ said' = said
         /\ Len(q) = 3 => packet' = <<>> /\ due' = <<>> /\ said' = q
<1>1. q[1].k \in Plain
  BY DEF BareFrom, BareByte
<1>2. BareFirst(q[1])
  BY <1>1, KindAssumption DEF BareFirst
<1>3. timer' = timer /\ IF Len(q) = 3 THEN Full(q, d) ELSE Good(q, d)
  BY <1>2, Zenon DEF Process
<1>4. CASE Len(q) = 3
  <2>1. d = <<"stick">> /\ d # <<>> /\ Tail(d) = <<>>
    BY <1>4
  <2>. QED  BY <1>3, <1>4, <2>1 DEF Full, Report
<1>5. CASE Len(q) # 3
  BY <1>3, <1>5 DEF Good, Silent
<1>. QED  BY <1>4, <1>5

\* A byte of a touchpad packet with a bare one in its middle.
LEMMA MixTaken ==
  ASSUME NEW q \in Seq(Byte), NEW p \in 0 .. 1, Len(q) \in 1 .. 6, MixFrom(q, 0, p), oos = 0,
         NEW d, Process(q, d)
  PROVE  /\ oos' = 0 /\ packet' = q /\ due' = d /\ said' = said
         /\ timer' = IF Len(q) = 6 THEN "set" ELSE timer
<1>0. Len(q) <= 9
  <2>1. \A n \in 1 .. 6 : n <= 9
    OBVIOUS
  <2>. QED  BY <2>1, Zenon
<1>7. ASSUME Len(q) = 7 PROVE FALSE
  <2>1. 7 \in 1 .. 6
    BY <1>7
  <2>. QED  BY <2>1
<1>1. /\ q[1].k = "start"
      /\ \A j \in 2 .. 3 : Len(q) >= j => ~High(q[j])
      /\ Len(q) >= 4 => q[4].k = "stick"
  BY <1>0, MixBits
<1>2. CASE Len(q) >= 4
  <2>1. AllLow(q[4])
    BY <1>1, <1>2 DEF AllLow
  <2>2. Stuffed(q, d)
    BY <1>1, <1>2, <2>1, PadProcess
  <2>. QED  BY <1>7, <2>2 DEF Stuffed, Good, Silent
<1>3. CASE Len(q) <= 3
  <2>1. timer' = timer /\ Ordinary(q, d)
    BY <1>1, <1>3, PadProcess
  <2>2. ASSUME Len(q) >= 2 PROVE ~High(Last(q))
    BY <1>1, <1>3, <2>2 DEF Last
  <2>3. ASSUME Len(q) = 6 PROVE FALSE
    <3>1. 6 <= 3
      BY <1>3, <2>3
    <3>. QED  BY <3>1
  <2>4. Good(q, d)
    BY <1>1, <2>1, <2>2, <2>3 DEF Ordinary
  <2>. QED  BY <2>1, <2>3, <2>4 DEF Good, Silent
<1>. QED  BY <1>2, <1>3

\* The seventh byte, if it belongs to the touchpad packet around the bare one.
LEMMA MixSeventh ==
  ASSUME NEW q \in Seq(Byte), NEW p \in 0 .. 1, Len(q) = 7, MixFrom(q, 0, p), oos = 0,
         timer = "set", Process(q, <<"stick">>)
  PROVE  /\ oos' = 0 /\ due' = <<>> /\ timer' = "off"
         /\ packet' = SubSeq(q, 1, 3) \o <<[q[7] EXCEPT !.k = "data"]>>
         /\ said' = SubSeq(q, 4, 6)
<1>1. q[1].k = "start" /\ q[4].k = "stick" /\ ~High(q[7])
  <2>1. Len(q) <= 9 /\ Len(q) >= 1 /\ Len(q) >= 4 /\ Len(q) >= 7
    OBVIOUS
  <2>. QED  BY <2>1, MixBits
<1>2. Stuffed(q, <<"stick">>)
  BY <1>1, PadProcess DEF AllLow
<1>3. Seventh(q, <<"stick">>) /\ timer' = "off"
  BY <1>2 DEF Stuffed
<1>4. <<"stick">> # <<>> /\ Tail(<<"stick">>) = <<>>
  OBVIOUS
<1>. QED  BY <1>1, <1>3, <1>4 DEF Seventh, Report

\* The seventh byte, if it begins the next packet.
LEMMA NextSeventh ==
  ASSUME NEW s \in Seq(Byte), NEW p \in 0 .. 1, Len(s) = 6, PadFrom(s, 0, p), AllLow(s[4]),
         NEW b \in Byte, b.k = "start", oos = 0, Process(Append(s, b), <<"pad">>)
  PROVE  /\ oos' = 0 /\ due' = <<>> /\ said' = s /\ packet' = <<b>>
         /\ timer' = IF timer = "set" THEN "off" ELSE timer
<1>. DEFINE q == Append(s, b)
<1>1. /\ q \in Seq(Byte) /\ Len(q) = 7 /\ q[7] = b
      /\ \A j \in 1 .. 6 : q[j] = s[j]
  <2>1. /\ q \in Seq(Byte) /\ Len(q) = Len(s) + 1 /\ q[Len(s) + 1] = b
        /\ \A j \in 1 .. Len(s) : q[j] = s[j]
    BY Appended, Zenon
  <2>. HIDE DEF q
  <2>. QED  BY <2>1
<1>2. SubSeq(q, 1, 6) = s
  <2>. HIDE DEF q
  <2>1. \A i \in 1 .. 6 : q[i] \in Byte
    <3>1. \A i \in 1 .. 6 : s[i] \in Byte
      BY Elements, Zenon
    <3>. QED  BY <1>1, <3>1
  <2>2. /\ SubSeq(q, 1, 6) \in Seq(Byte) /\ Len(SubSeq(q, 1, 6)) = 6
        /\ \A j \in 1 .. 6 : SubSeq(q, 1, 6)[j] = q[j]
    BY <2>1, SubSeqProperties
  <2>3. /\ Len(SubSeq(q, 1, 6)) = Len(s)
        /\ \A i \in 1 .. Len(SubSeq(q, 1, 6)) : SubSeq(q, 1, 6)[i] = s[i]
    BY <1>1, <2>2
  <2>. QED  BY <2>2, <2>3, SeqEqual, Zenon
<1>3. s[1].k = "start" /\ \A j \in 4 .. 6 : ~High(s[j])
  BY PadBits
<1>. HIDE DEF q
<1>4. q[1].k = "start" /\ AllLow(q[4]) /\ \A j \in 4 .. 6 : ~High(q[j])
  BY <1>1, <1>3
<1>5. Process(q, <<"pad">>)
  BY DEF q
<1>6. Stuffed(q, <<"pad">>)
  BY <1>1, <1>4, <1>5, PadProcess
<1>7. Seventh(q, <<"pad">>) /\ timer' = IF timer = "set" THEN "off" ELSE timer
  BY <1>1, <1>6 DEF Stuffed
<1>8. <<"pad">> # <<>> /\ Tail(<<"pad">>) = <<>>
  OBVIOUS
<1>9. High(q[7]) /\ q[7].k = "start"
  BY <1>1 DEF High
<1>10. packet' = <<q[7]>> /\ oos' = oos /\ Report(<<"pad">>, SubSeq(q, 1, 6))
  BY <1>4, <1>7, <1>9 DEF Seventh
<1>. QED  BY <1>1, <1>2, <1>7, <1>8, <1>10 DEF Report
-----------------------------------------------------------------------------
(* The steps in which a byte is received. *)

LEMMA ReceiveFacts ==
  ASSUME InStep, Receive, Clean
  PROVE  /\ packet \in Seq(Byte) /\ line \in Seq(Byte) /\ line # <<>>
         /\ oos = 0 /\ flip' \in 0 .. 1 /\ (said # <<>> => Packet(said))
         /\ line' = Tail(line) /\ pressed' = pressed
         /\ Process(Append(packet, Head(line)), due \o Ended(Head(line)))
         /\ timer = "late" => lag < Lag /\ lag' = lag + 1
  BY DEF InStep, Receive

LEMMA PadNext ==
  ASSUME NEW s \in Seq(Byte), NEW t \in Seq(Byte), NEW p \in 0 .. 1,
         Len(s) <= 5, Len(s) + Len(t) = 6, PadFrom(s, 0, p), PadFrom(t, Len(s), p)
  PROVE  LET q == Append(s, Head(t))
         IN  /\ q \in Seq(Byte) /\ Tail(t) \in Seq(Byte) /\ t # <<>>
             /\ Len(q) = Len(s) + 1 /\ Len(q) \in 1 .. 6 /\ Len(q) + Len(Tail(t)) = 6
             /\ PadFrom(q, 0, p) /\ PadFrom(Tail(t), Len(q), p)
             /\ Head(t).from = "pad" /\ Head(t).i = Len(q)
<1>1. t # <<>>
  BY PadLonger
<1>2. PadByte(t[1], p, Len(s) + 1) /\ Len(t) >= 1
  BY <1>1 DEF PadFrom
<1>. QED  BY <1>1, <1>2, Moved, PadMoved DEF PadByte

LEMMA BareNext ==
  ASSUME NEW s \in Seq(Byte), NEW t \in Seq(Byte), NEW p \in 0 .. 1,
         Len(s) <= 2, Len(s) + Len(t) = 3, BareFrom(s, 0, p), BareFrom(t, Len(s), p)
  PROVE  LET q == Append(s, Head(t))
         IN  /\ q \in Seq(Byte) /\ Tail(t) \in Seq(Byte)
             /\ Len(q) \in 1 .. 3 /\ Len(q) + Len(Tail(t)) = 3
             /\ BareFrom(q, 0, p) /\ BareFrom(Tail(t), Len(q), p)
             /\ Head(t).from = "stick" /\ Head(t).i = Len(q)
<1>1. t # <<>>
  OBVIOUS
<1>2. BareByte(t[1], p, Len(s) + 1, Plain) /\ Len(t) >= 1
  BY <1>1 DEF BareFrom
<1>. QED  BY <1>1, <1>2, Moved, BareMoved DEF BareByte

LEMMA MixNext ==
  ASSUME NEW s \in Seq(Byte), NEW t \in Seq(Byte), NEW p \in 0 .. 1,
         Len(s) <= 6, Len(s) + Len(t) = 9, MixFrom(s, 0, p), MixFrom(t, Len(s), p)
  PROVE  LET q == Append(s, Head(t))
         IN  /\ q \in Seq(Byte) /\ Tail(t) \in Seq(Byte)
             /\ Len(q) = Len(s) + 1 /\ Len(q) \in 1 .. 7 /\ Len(q) + Len(Tail(t)) = 9
             /\ MixFrom(q, 0, p) /\ MixFrom(Tail(t), Len(q), p)
             /\ MixByte(Head(t), p, Len(q))
<1>1. t # <<>>
  BY MixLonger
<1>2. MixByte(t[1], p, Len(s) + 1) /\ Len(t) >= 1
  BY <1>1 DEF MixFrom
<1>. QED  BY <1>1, <1>2, Moved, MixMoved

\* What overtook the callback of the timer is one byte more.
LEMMA OvertakenMore ==
  ASSUME Overtaken, lag < Lag, lag' = lag + 1, timer' = timer, Len(packet') = Len(packet) + 1
  PROVE  Overtaken'
  BY ParameterAssumption DEF Overtaken

LEMMA PadReceive ==
  ASSUME InStep, InPad, Receive, Clean
  PROVE  InStep'
<1>. DEFINE b == Head(line)
            q == Append(packet, b)
            d == IF Len(q) = 6 THEN <<"pad">> ELSE <<>>
<1>1. PICK p \in 0 .. 1 : PadFrom(packet, 0, p) /\ PadFrom(line, Len(packet), p)
  BY DEF InPad
<1>2. /\ Len(packet) <= 5 /\ Len(packet) + Len(line) = 6
      /\ Marked(packet, 0) /\ Marked(line, Len(packet))
      /\ due = <<>> /\ (timer = "off" \/ Overtaken)
  BY DEF InPad
<1>3. /\ q \in Seq(Byte) /\ line' \in Seq(Byte) /\ line # <<>>
      /\ Len(q) = Len(packet) + 1 /\ Len(q) \in 1 .. 6 /\ Len(q) + Len(line') = 6
      /\ PadFrom(q, 0, p) /\ PadFrom(line', Len(q), p)
      /\ b.from = "pad" /\ b.i = Len(q)
  <2>1. packet \in Seq(Byte) /\ line \in Seq(Byte) /\ line' = Tail(line)
    BY ReceiveFacts
  <2>. QED  BY <1>1, <1>2, <2>1, PadNext
<1>4. Marked(q, 0) /\ Marked(line', Len(q)) /\ pressed' = pressed
  BY <1>2, <1>3, MarkMoved, ReceiveFacts, Zenon
<1>. HIDE DEF q
<1>5. d = <<>> \o Ended(b)
  <2>1. CASE Len(q) = 6
    BY <1>3, <2>1, EndedPad
  <2>2. CASE Len(q) # 6
    <3>1. \A e \in Seq({"pad", "stick"}) : e \o Ended(b) = e
      BY <1>3, <2>2, EndedPad
    <3>2. <<>> \in Seq({"pad", "stick"})
      OBVIOUS
    <3>. QED  BY <2>2, <3>1, <3>2
  <2>. QED  BY <2>1, <2>2
<1>6. oos = 0 /\ Process(q, d) /\ flip' \in 0 .. 1 /\ (said # <<>> => Packet(said))
  BY <1>2, <1>5, ReceiveFacts DEF q
<1>7. /\ oos' = 0
      /\ Len(q) # 6 => packet' = q /\ due' = <<>> /\ said' = said /\ timer' = timer
      /\ Len(q) = 6 /\ AllLow(q[4]) =>
           packet' = q /\ due' = <<"pad">> /\ said' = said /\ timer' = "set"
      /\ Len(q) = 6 /\ ~AllLow(q[4]) =>
           packet' = <<>> /\ due' = <<>> /\ said' = q /\ timer' = timer
  BY <1>3, <1>6, PadTaken
<1>8. CASE Len(q) # 6
  <2>1. packet' = q /\ due' = <<>> /\ said' = said /\ timer' = timer
    BY <1>7, <1>8
  <2>2. timer' = "off" \/ Overtaken'
    BY <1>2, <1>3, <2>1, OvertakenMore, ReceiveFacts DEF Overtaken
  <2>3. Marked(packet, 0)' /\ Marked(line, Len(packet))'
    BY <1>4, <2>1 DEF Marked
  <2>4. PadFrom(packet, 0, p)' /\ PadFrom(line, Len(packet), p)'
    BY <1>3, <2>1
  <2>5. Len(packet') <= 5
    BY <1>3, <1>8, <2>1
  <2>6. InPad'
    BY <1>3, <2>1, <2>2, <2>3, <2>4, <2>5 DEF InPad
  <2>. QED  BY <1>3, <1>6, <1>7, <2>1, <2>6 DEF InStep, Packet
<1>9. CASE Len(q) = 6 /\ AllLow(q[4])
  <2>1. packet' = q /\ due' = <<"pad">> /\ said' = said /\ timer' = "set"
    BY <1>7, <1>9
  <2>2. line' = <<>>
    BY <1>3, <1>9, NoBytes, Zenon
  <2>3. pressed'
    <3>1. 4 \in 1 .. Len(q) /\ 0 + 4 = 4
      BY <1>9
    <3>. QED  BY <1>4, <1>9, <3>1 DEF Marked
  <2>4. PadFrom(packet, 0, p)' /\ AllLow(packet[4])'
    BY <1>3, <1>9, <2>1
  <2>5. Pending'
    BY <1>9, <2>1, <2>2, <2>3, <2>4 DEF Pending
  <2>. QED  BY <1>3, <1>6, <1>7, <2>1, <2>2, <2>5 DEF InStep, Packet
<1>10. CASE Len(q) = 6 /\ ~AllLow(q[4])
  <2>1. packet' = <<>> /\ due' = <<>> /\ said' = q /\ timer' = timer
    BY <1>7, <1>10
  <2>2. line' = <<>>
    BY <1>3, <1>10, NoBytes, Zenon
  <2>3. timer = "off"
    <3>1. ASSUME Overtaken PROVE FALSE
      <4>1. lag \in 1 .. 4 /\ lag + 1 = 6
        BY <1>3, <1>10, <3>1 DEF Overtaken
      <4>. QED  BY <4>1
    <3>. QED  BY <1>2, <3>1
  <2>4. Packet(said')
    BY <1>3, <1>10, <2>1, PadWhole
  <2>5. packet' \in Seq(Byte) /\ line' \in Seq(Byte)
    BY <2>1, <2>2
  <2>. QED  BY <1>6, <1>7, <2>1, <2>2, <2>3, <2>4, <2>5 DEF InStep, Between
<1>. QED  BY <1>8, <1>9, <1>10

LEMMA BareReceive ==
  ASSUME InStep, InBare, Receive, Clean
  PROVE  InStep'
<1>. DEFINE b == Head(line)
            q == Append(packet, b)
            d == IF Len(q) = 3 THEN <<"stick">> ELSE <<>>
<1>1. PICK p \in 0 .. 1 : BareFrom(packet, 0, p) /\ BareFrom(line, Len(packet), p)
  BY DEF InBare
<1>2. Len(packet) <= 2 /\ Len(packet) + Len(line) = 3 /\ due = <<>> /\ timer = "off"
  BY DEF InBare
<1>3. /\ q \in Seq(Byte) /\ line' \in Seq(Byte)
      /\ Len(q) \in 1 .. 3 /\ Len(q) + Len(line') = 3
      /\ BareFrom(q, 0, p) /\ BareFrom(line', Len(q), p)
      /\ b.from = "stick" /\ b.i = Len(q)
  <2>1. packet \in Seq(Byte) /\ line \in Seq(Byte) /\ line' = Tail(line)
    BY ReceiveFacts
  <2>. QED  BY <1>1, <1>2, <2>1, BareNext
<1>. HIDE DEF q
<1>4. d = <<>> \o Ended(b)
  BY <1>3, EndedBare
<1>5. oos = 0 /\ Process(q, d) /\ flip' \in 0 .. 1 /\ (said # <<>> => Packet(said))
  BY <1>2, <1>4, ReceiveFacts DEF q
<1>6. /\ oos' = 0 /\ timer' = timer
      /\ Len(q) # 3 => packet' = q /\ due' = <<>> /\ said' = said
      /\ Len(q) = 3 => packet' = <<>> /\ due' = <<>> /\ said' = q
  BY <1>3, <1>5, BareTaken
<1>7. CASE Len(q) # 3
  <2>1. packet' = q /\ due' = <<>> /\ said' = said /\ timer' = "off"
    BY <1>2, <1>6, <1>7
  <2>2. BareFrom(packet, 0, p)' /\ BareFrom(line, Len(packet), p)'
    BY <1>3, <2>1
  <2>3. Len(packet') <= 2
    <3>1. \A n \in 1 .. 3 : n # 3 => n <= 2
      OBVIOUS
    <3>. QED  BY <1>3, <1>7, <2>1, <3>1, Zenon
  <2>4. InBare'
    BY <1>3, <2>1, <2>2, <2>3 DEF InBare
  <2>. QED  BY <1>3, <1>5, <1>6, <2>1, <2>4 DEF InStep, Packet
<1>8. CASE Len(q) = 3
  <2>1. packet' = <<>> /\ due' = <<>> /\ said' = q /\ timer' = "off"
    BY <1>2, <1>6, <1>8
  <2>2. line' = <<>>
    BY <1>3, <1>8, NoBytesBare, Zenon
  <2>3. Packet(said')
    <3>1. \A j \in 1 .. 3 : BareByte(q[j], p, j, Plain)
      BY <1>3, <1>8 DEF BareFrom
    <3>. QED  BY <1>3, <1>8, <2>1, <3>1, BareWhole
  <2>4. packet' \in Seq(Byte) /\ line' \in Seq(Byte)
    BY <2>1, <2>2
  <2>. QED  BY <1>5, <1>6, <2>1, <2>2, <2>3, <2>4 DEF InStep, Between
<1>. QED  BY <1>7, <1>8

\* What the seventh byte of nine leaves behind, and what it completes.
LEMMA SeventhLeaves ==
  ASSUME NEW q \in Seq(Byte), NEW t \in Seq(Byte), NEW p \in 0 .. 1,
         Len(q) = 7, Len(q) + Len(t) = 9, MixFrom(q, 0, p), MixFrom(t, 7, p)
  PROVE  LET s == SubSeq(q, 1, 3) \o <<[q[7] EXCEPT !.k = "data"]>>
             r == SubSeq(q, 4, 6)
         IN  /\ s \in Seq(Byte) /\ Len(s) = 4 /\ Len(s) + Len(t) = 6
             /\ PadFrom(s, 0, p) /\ PadFrom(t, 4, p) /\ ~AllLow(s[4])
             /\ r \in Seq(Byte) /\ Packet(r)
<1>. DEFINE one == SubSeq(q, 1, 3)
            c == [q[7] EXCEPT !.k = "data"]
            s == one \o <<c>>
            r == SubSeq(q, 4, 6)
<1>1. \A j \in 1 .. 7 : MixByte(q[j], p, j)
  BY DEF MixFrom
<1>2. \A j \in 1 .. 3 : PadByte(q[j], p, j)
  BY <1>1 DEF MixByte
<1>3. \A j \in 1 .. 3 : BareByte(q[j + 3], p, j, {"stick"})
  BY <1>1 DEF MixByte
<1>4. PadByte(q[7], p, 4)
  BY <1>1 DEF MixByte
<1>5. c \in Byte /\ PadByte(c, p, 4) /\ ~AllLow(c)
  BY <1>4 DEF PadByte, PadKinds, Byte, Kind, AllLow
<1>. HIDE DEF c
<1>6. one \in Seq(Byte) /\ Len(one) = 3 /\ \A j \in 1 .. 3 : one[j] = q[j]
  <2>1. \A i \in 1 .. 3 : q[i] \in Byte
    BY <1>2 DEF PadByte
  <2>. QED  BY <2>1, SubSeqProperties
<1>7. r \in Seq(Byte) /\ Len(r) = 3 /\ \A j \in 1 .. 3 : r[j] = q[j + 3]
  <2>1. \A i \in 4 .. 6 : q[i] \in Byte
    BY <1>1 DEF MixByte, BareByte
  <2>. QED  BY <2>1, SubSeqProperties
<1>8. Packet(r)
  <2>1. \A j \in 1 .. 3 : BareByte(r[j], p, j, {"stick"})
    BY <1>3, <1>7
  <2>. QED  BY <1>7, <2>1, BareWhole
<1>. HIDE DEF one
<1>9. /\ s \in Seq(Byte) /\ Len(s) = 4 /\ s[4] = c
      /\ \A j \in 1 .. 3 : s[j] = one[j]
  <2>1. <<c>> \in Seq(Byte) /\ Len(<<c>>) = 1 /\ <<c>>[1] = c
    BY <1>5
  <2>2. /\ s \in Seq(Byte) /\ Len(s) = Len(one) + Len(<<c>>)
        /\ \A i \in 1 .. Len(one) + Len(<<c>>) :
              s[i] = IF i <= Len(one) THEN one[i] ELSE <<c>>[i - Len(one)]
    BY <1>6, <2>1, ConcatProperties, Zenon
  <2>. HIDE DEF s
  <2>. QED  BY <1>6, <2>1, <2>2
<1>10. Len(s) + Len(t) = 6
  BY <1>9
<1>11. PadFrom(s, 0, p)
  <2>. HIDE DEF s
  <2>1. \A j \in 1 .. 4 : PadByte(s[j], p, 0 + j)
    BY <1>2, <1>5, <1>6, <1>9
  <2>. QED  BY <1>9, <2>1 DEF PadFrom
<1>12. PadFrom(t, 4, p)
  <2>1. \A j \in 1 .. Len(t) : MixByte(t[j], p, 7 + j)
    BY DEF MixFrom
  <2>2. \A j \in 1 .. Len(t) : PadByte(t[j], p, 4 + j)
    <3>1. ASSUME NEW j \in 1 .. Len(t) PROVE PadByte(t[j], p, 4 + j)
      <4>1. 7 + j > 6 /\ 7 + j > 3 /\ (7 + j) - 3 = 4 + j
        OBVIOUS
      <4>. QED  BY <2>1, <4>1 DEF MixByte
    <3>. QED  BY <3>1
  <2>. QED  BY <2>2 DEF PadFrom
<1>13. s = SubSeq(q, 1, 3) \o <<[q[7] EXCEPT !.k = "data"]>>
  BY DEF one, c
<1>. QED  BY <1>5, <1>7, <1>8, <1>9, <1>10, <1>11, <1>12, <1>13 DEF one, c

LEMMA MixReceive ==
  ASSUME InStep, InMix, Receive, Clean
  PROVE  InStep'
<1>. DEFINE b == Head(line)
            q == Append(packet, b)
            d == due \o Ended(b)
<1>1. PICK p \in 0 .. 1 : MixFrom(packet, 0, p) /\ MixFrom(line, Len(packet), p)
  BY DEF InMix
<1>2. /\ Len(packet) <= 6 /\ Len(packet) + Len(line) = 9
      /\ IF Len(packet) = 6 THEN due = <<"stick">> /\ timer = "set"
                            ELSE due = <<>> /\ (timer = "off" \/ Overtaken)
  BY DEF InMix
<1>3. /\ q \in Seq(Byte) /\ line' \in Seq(Byte)
      /\ Len(q) = Len(packet) + 1 /\ Len(q) \in 1 .. 7 /\ Len(q) + Len(line') = 9
      /\ MixFrom(q, 0, p) /\ MixFrom(line', Len(q), p) /\ MixByte(b, p, Len(q))
  <2>1. packet \in Seq(Byte) /\ line \in Seq(Byte) /\ line' = Tail(line)
    BY ReceiveFacts
  <2>. QED  BY <1>1, <1>2, <2>1, MixNext
<1>4. oos = 0 /\ Process(q, d) /\ flip' \in 0 .. 1 /\ (said # <<>> => Packet(said))
  BY ReceiveFacts
<1>. HIDE DEF q
<1>5. CASE Len(q) \in 1 .. 6
  <2>1. due = <<>> /\ (timer = "off" \/ Overtaken)
    <3>1. ASSUME Len(packet) = 6 PROVE FALSE
      <4>1. 7 \in 1 .. 6
        BY <1>3, <1>5, <3>1
      <4>. QED  BY <4>1
    <3>. QED  BY <1>2, <3>1
  <2>2. d = IF Len(q) = 6 THEN <<"stick">> ELSE <<>>
    <3>1. CASE Len(q) \in 1 .. 3
      <4>1. b.from = "pad" /\ b.i # 6 /\ Len(q) # 6
        BY <1>3, <3>1 DEF MixByte, PadByte
      <4>2. <<>> \in Seq({"pad", "stick"})
        OBVIOUS
      <4>. QED  BY <2>1, <4>1, <4>2, EndedPad
    <3>2. CASE Len(q) \in 4 .. 6
      <4>1. b.from = "stick" /\ b.i = Len(q) - 3
        BY <1>3, <3>2 DEF MixByte, BareByte
      <4>2. b.i = 3 <=> Len(q) = 6
        <5>1. \A n \in 4 .. 6 : n - 3 = 3 <=> n = 6
          OBVIOUS
        <5>. QED  BY <3>2, <4>1, <5>1, Zenon
      <4>. QED  BY <2>1, <4>1, <4>2, EndedBare
    <3>. QED  BY <1>5, <3>1, <3>2
  <2>3. /\ oos' = 0 /\ packet' = q /\ due' = d /\ said' = said
        /\ timer' = IF Len(q) = 6 THEN "set" ELSE timer
    BY <1>3, <1>4, <1>5, MixTaken
  <2>4. Len(q) # 6 => timer' = "off" \/ Overtaken'
    BY <1>3, <2>1, <2>3, OvertakenMore, ReceiveFacts DEF Overtaken
  <2>5. MixFrom(packet, 0, p)' /\ MixFrom(line, Len(packet), p)'
    BY <1>3, <2>3
  <2>6. Len(packet') <= 6
    <3>1. \A n \in 1 .. 6 : n <= 6
      OBVIOUS
    <3>. QED  BY <1>5, <2>3, <3>1, Zenon
  <2>7. InMix'
    BY <1>3, <2>2, <2>3, <2>4, <2>5, <2>6 DEF InMix
  <2>. QED  BY <1>3, <1>4, <2>3, <2>7 DEF InStep, Packet
<1>6. CASE Len(q) = 7
  <2>1. due = <<"stick">> /\ timer = "set"
    <3>1. Len(packet) \in Nat
      BY ReceiveFacts
    <3>2. \A n \in Nat : n + 1 = 7 => n = 6
      OBVIOUS
    <3>3. Len(packet) = 6
      BY <1>3, <1>6, <3>1, <3>2, Zenon
    <3>. QED  BY <1>2, <3>3
  <2>2. d = <<"stick">>
    <3>1. b.from = "pad" /\ b.i # 6
      <4>1. MixByte(b, p, 7)
        BY <1>3, <1>6
      <4>. QED  BY <4>1 DEF MixByte, PadByte
    <3>2. <<"stick">> \in Seq({"pad", "stick"})
      OBVIOUS
    <3>. QED  BY <2>1, <3>1, <3>2, EndedPad
  <2>3. /\ oos' = 0 /\ due' = <<>> /\ timer' = "off"
        /\ packet' = SubSeq(q, 1, 3) \o <<[q[7] EXCEPT !.k = "data"]>>
        /\ said' = SubSeq(q, 4, 6)
    BY <1>3, <1>4, <1>6, <2>1, <2>2, MixSeventh
  <2>4. /\ packet' \in Seq(Byte) /\ Len(packet') = 4 /\ Len(packet') + Len(line') = 6
        /\ PadFrom(packet', 0, p) /\ PadFrom(line', 4, p) /\ ~AllLow(packet'[4])
        /\ Packet(said')
    BY <1>3, <1>6, <2>3, SeventhLeaves
  <2>5. Marked(packet, 0)' /\ Marked(line, Len(packet))'
    <3>1. \A j \in 1 .. 4 : 0 + j = 4 => j = 4
      OBVIOUS
    <3>2. \A j \in 1 .. Len(line') : 4 + j # 4
      BY <1>3
    <3>. QED  BY <2>4, <3>1, <3>2 DEF Marked
  <2>6. PadFrom(packet, 0, p)' /\ PadFrom(line, Len(packet), p)'
    BY <2>4
  <2>7. InPad'
    BY <2>3, <2>4, <2>5, <2>6 DEF InPad
  <2>. QED  BY <1>3, <1>4, <2>3, <2>4, <2>7 DEF InStep
<1>. QED  BY <1>3, <1>5, <1>6

\* The first byte of a packet that is received after one held back.
LEMMA PadFirst ==
  ASSUME NEW t \in Seq(Byte), NEW p \in 0 .. 1, Len(t) = 6, PadFrom(t, 0, p), Marked(t, 0)
  PROVE  LET b == Head(t)
         IN  /\ b \in Byte /\ b.k = "start" /\ b.from = "pad" /\ b.i = 1
             /\ <<b>> \in Seq(Byte) /\ Len(<<b>>) = 1
             /\ Tail(t) \in Seq(Byte) /\ Len(<<b>>) + Len(Tail(t)) = 6
             /\ PadFrom(<<b>>, 0, p) /\ PadFrom(Tail(t), 1, p)
             /\ Marked(<<b>>, 0) /\ Marked(Tail(t), 1)
<1>1. /\ Head(t) = t[1] /\ Head(t) \in Byte /\ Tail(t) \in Seq(Byte) /\ Len(Tail(t)) = 5
      /\ \A j \in 1 .. 5 : Tail(t)[j] = t[j + 1]
  <2>1. t # <<>>
    BY SomeBytes
  <2>2. /\ Head(t) = t[1] /\ Head(t) \in Byte
        /\ Tail(t) \in Seq(Byte) /\ Len(Tail(t)) = Len(t) - 1
        /\ \A j \in 1 .. Len(t) - 1 : Tail(t)[j] = t[j + 1]
    BY <2>1, Rest, Zenon
  <2>3. Len(t) - 1 = 5
    OBVIOUS
  <2>. QED  BY <2>2, <2>3, Zenon
<1>2. \A j \in 1 .. 6 : PadByte(t[j], p, j)
  BY DEF PadFrom
<1>3. PadByte(Head(t), p, 1)
  BY <1>1, <1>2
<1>4. PadFrom(<<Head(t)>>, 0, p) /\ Marked(<<Head(t)>>, 0)
  BY <1>3 DEF PadFrom, Marked
<1>5. ASSUME NEW j \in 1 .. 5 PROVE PadByte(Tail(t)[j], p, 1 + j)
  <2>1. 1 + j = j + 1 /\ j + 1 \in 1 .. 6
    OBVIOUS
  <2>. QED  BY <1>1, <1>2, <2>1
<1>6. ASSUME NEW j \in 1 .. 5, 1 + j = 4, AllLow(Tail(t)[j]) PROVE pressed
  <2>1. 0 + (j + 1) = 4 /\ j + 1 \in 1 .. Len(t)
    BY <1>6
  <2>. QED  BY <1>1, <1>6, <2>1 DEF Marked
<1>7. PadFrom(Tail(t), 1, p) /\ Marked(Tail(t), 1)
  BY <1>1, <1>5, <1>6 DEF PadFrom, Marked
<1>8. Head(t).k = "start" /\ Head(t).from = "pad" /\ Head(t).i = 1
  BY <1>3 DEF PadByte, PadKinds
<1>. QED  BY <1>1, <1>4, <1>7, <1>8

LEMMA MixFirst ==
  ASSUME NEW t \in Seq(Byte), NEW p \in 0 .. 1, Len(t) = 9, MixFrom(t, 0, p)
  PROVE  LET b == Head(t)
         IN  /\ b \in Byte /\ b.k = "start" /\ b.from = "pad" /\ b.i = 1
             /\ <<b>> \in Seq(Byte) /\ Len(<<b>>) = 1
             /\ Tail(t) \in Seq(Byte) /\ Len(<<b>>) + Len(Tail(t)) = 9
             /\ MixFrom(<<b>>, 0, p) /\ MixFrom(Tail(t), 1, p)
<1>1. /\ Head(t) = t[1] /\ Head(t) \in Byte /\ Tail(t) \in Seq(Byte) /\ Len(Tail(t)) = 8
      /\ \A j \in 1 .. 8 : Tail(t)[j] = t[j + 1]
  <2>1. t # <<>>
    BY NineBytes
  <2>2. /\ Head(t) = t[1] /\ Head(t) \in Byte
        /\ Tail(t) \in Seq(Byte) /\ Len(Tail(t)) = Len(t) - 1
        /\ \A j \in 1 .. Len(t) - 1 : Tail(t)[j] = t[j + 1]
    BY <2>1, Rest, Zenon
  <2>3. Len(t) - 1 = 8
    OBVIOUS
  <2>. QED  BY <2>2, <2>3, Zenon
<1>2. \A j \in 1 .. 9 : MixByte(t[j], p, j)
  BY DEF MixFrom
<1>3. MixByte(Head(t), p, 1)
  BY <1>1, <1>2
<1>4. MixFrom(<<Head(t)>>, 0, p)
  BY <1>3 DEF MixFrom
<1>5. ASSUME NEW j \in 1 .. 8 PROVE MixByte(Tail(t)[j], p, 1 + j)
  <2>1. 1 + j = j + 1 /\ j + 1 \in 1 .. 9
    OBVIOUS
  <2>. QED  BY <1>1, <1>2, <2>1
<1>6. MixFrom(Tail(t), 1, p)
  BY <1>1, <1>5 DEF MixFrom
<1>7. Head(t).k = "start" /\ Head(t).from = "pad" /\ Head(t).i = 1
  BY <1>3 DEF MixByte, PadByte, PadKinds
<1>. QED  BY <1>1, <1>4, <1>6, <1>7

LEMMA HeldReceive ==
  ASSUME InStep, Pending, Receive, Clean
  PROVE  InStep'
<1>. DEFINE b == Head(line)
<1>1. PICK p \in 0 .. 1 : PadFrom(packet, 0, p)
  BY DEF Pending
<1>2. /\ Len(packet) = 6 /\ AllLow(packet[4]) /\ due = <<"pad">>
      /\ timer = "set" \/ (timer = "late" /\ lag = 0)
  BY DEF Pending
<1>3. /\ packet \in Seq(Byte) /\ line \in Seq(Byte) /\ line # <<>> /\ line' = Tail(line)
      /\ oos = 0 /\ flip' \in 0 .. 1 /\ pressed' = pressed
      /\ Process(Append(packet, b), due \o Ended(b))
      /\ timer = "late" => lag < Lag /\ lag' = lag + 1
  BY ReceiveFacts
<1>4. Packet(packet)
  BY <1>1, <1>2, <1>3, PadWhole
<1>5. \/ /\ Len(line) = 6 /\ Marked(line, 0)
         /\ \E q \in 0 .. 1 : PadFrom(line, 0, q)
      \/ Len(line) = 9 /\ \E q \in 0 .. 1 : MixFrom(line, 0, q)
  BY <1>3 DEF Pending
<1>6. b \in Byte /\ b.k = "start" /\ b.from = "pad" /\ b.i = 1
  BY <1>3, <1>5, PadFirst, MixFirst
<1>7. due \o Ended(b) = <<"pad">>
  <2>1. <<"pad">> \in Seq({"pad", "stick"})
    OBVIOUS
  <2>2. b.i # 6
    BY <1>6
  <2>. QED  BY <1>2, <1>6, <2>1, <2>2, EndedPad, Zenon
<1>8. /\ oos' = 0 /\ due' = <<>> /\ said' = packet /\ packet' = <<b>>
      /\ timer' = IF timer = "set" THEN "off" ELSE timer
  BY <1>1, <1>2, <1>3, <1>6, <1>7, NextSeventh
<1>9. <<b>> \in Seq(Byte) /\ Len(<<b>>) = 1
  BY <1>6
<1>10. timer' = "off" \/ Overtaken'
  <2>1. CASE timer = "set"
    BY <1>8, <2>1
  <2>2. CASE timer = "late" /\ lag = 0
    BY <1>3, <1>8, <1>9, <2>2 DEF Overtaken
  <2>. QED  BY <1>2, <2>1, <2>2
<1>11. Packet(said')
  BY <1>4, <1>8
<1>12. CASE Len(line) = 6 /\ Marked(line, 0) /\ \E q \in 0 .. 1 : PadFrom(line, 0, q)
  <2>1. PICK q \in 0 .. 1 : PadFrom(line, 0, q)
    BY <1>12
  <2>2. /\ Tail(line) \in Seq(Byte) /\ Len(<<b>>) + Len(Tail(line)) = 6
        /\ PadFrom(<<b>>, 0, q) /\ PadFrom(Tail(line), 1, q)
        /\ Marked(<<b>>, 0) /\ Marked(Tail(line), 1)
    BY <1>3, <1>12, <2>1, PadFirst
  <2>3. Marked(packet, 0)' /\ Marked(line, Len(packet))'
    BY <1>3, <1>8, <1>9, <2>2 DEF Marked
  <2>4. PadFrom(packet, 0, q)' /\ PadFrom(line, Len(packet), q)'
    BY <1>3, <1>8, <1>9, <2>2
  <2>5. InPad'
    BY <1>3, <1>8, <1>9, <1>10, <2>2, <2>3, <2>4 DEF InPad
  <2>. QED  BY <1>3, <1>8, <1>9, <1>11, <2>2, <2>5 DEF InStep
<1>13. CASE Len(line) = 9 /\ \E q \in 0 .. 1 : MixFrom(line, 0, q)
  <2>1. PICK q \in 0 .. 1 : MixFrom(line, 0, q)
    BY <1>13
  <2>2. /\ Tail(line) \in Seq(Byte) /\ Len(<<b>>) + Len(Tail(line)) = 9
        /\ MixFrom(<<b>>, 0, q) /\ MixFrom(Tail(line), 1, q)
    BY <1>3, <1>13, <2>1, MixFirst
  <2>3. MixFrom(packet, 0, q)' /\ MixFrom(line, Len(packet), q)'
    BY <1>3, <1>8, <1>9, <2>2
  <2>4. InMix'
    BY <1>3, <1>8, <1>9, <1>10, <2>2, <2>3 DEF InMix
  <2>. QED  BY <1>3, <1>8, <1>9, <1>11, <2>2, <2>4 DEF InStep
<1>. QED  BY <1>5, <1>12, <1>13
-----------------------------------------------------------------------------
(* The theorems. *)

LEMMA LeftStep ==
  ASSUME left \in 0 .. MaxLoss, [Next]_vars
  PROVE  left' \in 0 .. MaxLoss /\ (Clean' => Clean) /\ (Clean' => ~Lose)
BY ParameterAssumption
   DEF Next, vars, Begin, Lose, Receive, Expire, Flush, Clean

LEMMA InStepStep ==
  ASSUME Ambiguous = FALSE, InStep, Clean, [Next]_vars, ~Lose
  PROVE  InStep'
<1>1. CASE Begin
  BY <1>1, BeginStep
<1>2. CASE Receive
  <2>1. InPad \/ InBare \/ InMix \/ Pending
    <3>1. ~Between
      BY <1>2 DEF Between, Receive
    <3>. QED  BY <3>1 DEF InStep
  <2>. QED  BY <1>2, <2>1, PadReceive, BareReceive, MixReceive, HeldReceive
<1>3. CASE Expire
  BY <1>3, ExpireStep
<1>4. CASE Flush
  BY <1>4, FlushStep
<1>5. CASE UNCHANGED vars
  BY <1>5 DEF vars, InStep, Between, InPad, InBare, InMix, Pending, Overtaken,
              PadFrom, BareFrom, MixFrom, Marked, Packet
<1>. QED  BY <1>1, <1>2, <1>3, <1>4, <1>5 DEF Next

\* As long as no byte was lost, what the driver holds and what the device still has
\* to send are the two parts of packets of the device.
THEOREM StreamInv == ASSUME Ambiguous = FALSE PROVE Spec => []Inv
<1>1. Init => Inv
  <2>1. ASSUME Init PROVE InStep
    BY <2>1 DEF Init, InStep, Between
  <2>2. Init => left \in 0 .. MaxLoss
    BY ParameterAssumption DEF Init
  <2>. QED  BY <2>1, <2>2 DEF Inv
<1>2. Inv /\ [Next]_vars => Inv'
  <2>1. SUFFICES ASSUME Inv, [Next]_vars PROVE Inv'
    OBVIOUS
  <2>2. left' \in 0 .. MaxLoss /\ (Clean' => Clean) /\ (Clean' => ~Lose)
    BY <2>1, LeftStep DEF Inv
  <2>3. ASSUME Clean' PROVE InStep'
    BY <2>1, <2>2, <2>3, InStepStep DEF Inv
  <2>. QED  BY <2>2, <2>3 DEF Inv
<1>. QED  BY <1>1, <1>2, PTL DEF Spec

\* What alps_process_byte() reports is a packet the device sent, whatever packets it
\* sends in which order, wherever a bare one interrupts another and however late
\* the timer is (Whole).
THEOREM StreamWhole == ASSUME Ambiguous = FALSE PROVE Spec => []Whole
<1>1. Inv => Whole
  BY DEF Inv, InStep, Whole
<1>. QED  BY <1>1, StreamInv, PTL

\* When the line is quiet everything that was sent is reported, but a packet that
\* may turn out to be one of nine bytes, and that only while its timer runs
\* (NothingOwed).
THEOREM StreamNothingOwed == ASSUME Ambiguous = FALSE PROVE Spec => []NothingOwed
<1>1. ASSUME Inv, Clean, line = <<>>
      PROVE  IF timer = "off" THEN packet = <<>> /\ due = <<>>
             ELSE Len(due) <= 1 /\ Len(packet) \in {0, 6}
  <2>1. packet \in Seq(Byte) /\ line \in Seq(Byte) /\ Len(line) = 0
    BY <1>1 DEF Inv, InStep
  <2>2. ~InPad
    <3>1. InPad => Len(packet) <= 5 /\ Len(packet) + Len(line) = 6
      BY DEF InPad
    <3>. QED  BY <1>1, <2>1, <3>1, PadLonger, Zenon
  <2>3. ~InMix
    <3>1. InMix => Len(packet) <= 6 /\ Len(packet) + Len(line) = 9
      BY DEF InMix
    <3>. QED  BY <1>1, <2>1, <3>1, MixLonger, Zenon
  <2>4. ~InBare
    BY <2>1 DEF InBare
  <2>5. Between \/ Pending
    BY <1>1, <2>2, <2>3, <2>4 DEF Inv, InStep
  <2>6. CASE Between
    BY <2>6 DEF Between
  <2>7. CASE Pending
    <3>1. timer # "off" /\ Len(packet) = 6 /\ due = <<"pad">>
      BY <2>7 DEF Pending
    <3>2. Len(due) <= 1
      BY <3>1
    <3>. QED  BY <3>1, <3>2
  <2>. QED  BY <2>5, <2>6, <2>7
<1>2. Inv => NothingOwed
  BY <1>1, Zenon DEF NothingOwed
<1>. QED  BY <1>2, StreamInv, PTL
-----------------------------------------------------------------------------
(* Back in step after a loss.  Nothing of what is above is used: bytes may be *)
(* lost, and packets may be ambiguous.                                        *)

\* The number of bytes of s.
Size(s) == Len(s)

\* What the driver may hold: nothing, the beginning of what it takes for a bare packet
\* or the beginning of what it takes for a touchpad packet.
BareHead == Size(packet) \in 1 .. 2 /\ BareFirst(packet[1]) /\ oos = 0
PadHead ==
  /\ Size(packet) \in 1 .. 6 /\ packet[1].k = "start"
  /\ Size(packet) = 6 => AllLow(packet[4]) /\ timer # "off"
Shape == packet = <<>> \/ BareHead \/ PadHead

Types ==
  /\ packet \in Seq(Byte) /\ line \in Seq(Byte) /\ oos \in 0 .. ResetAfter - 1
  /\ timer \in {"off", "set", "late"} /\ lag \in 0 .. Lag /\ flip \in 0 .. 1
  /\ pressed \in BOOLEAN /\ due \in Seq({"pad", "stick"})
  /\ calm \in 0 .. Calm /\ left \in 0 .. MaxLoss

\* After n bytes of a touchpad packet of parity p: the driver has just these, ...
Along(n, p) == Size(packet) = n /\ PadFrom(packet, 0, p)

\* ... or a bare packet that began with its fourth byte or before it, ...
AsBare(n) == BareHead /\ n <= Size(packet) + 3

\* ... or a packet that was begun before.  It is full by the end of this one at the
\* latest, also if it is taken for one of nine bytes.
AsPad(n) ==
  /\ PadHead /\ Size(packet) >= 4
  /\ AllLow(packet[4]) => n + 3 <= Size(packet) /\ (Size(packet) = 6 => timer = "set")
  /\ ~AllLow(packet[4]) => n <= Size(packet)

Chase(n, p) == n = 0 \/ packet = <<>> \/ Along(n, p) \/ AsBare(n) \/ AsPad(n)

\* The driver begins a packet with the next byte.
AtStart == packet = <<>> \/ (Size(packet) = 6 /\ \E p \in 0 .. 1 : PadFrom(packet, 0, p))

\* Where the driver is after n bytes of a touchpad packet.
Follows(n, p) ==
  IF calm = 1 THEN Chase(n, p) ELSE IF n = 0 THEN AtStart ELSE Along(n, p)

\* The last touchpad packets, from the second one on since a loss, are whole.
Calmed ==
  /\ calm > 0 /\ line # <<>> =>
       \E n \in 0 .. 5, p \in 0 .. 1 :
          Size(line) = 6 - n /\ PadFrom(line, n, p) /\ Follows(n, p)
  /\ calm = Calm /\ line = <<>> => AtStart

Held == Types /\ Shape
-----------------------------------------------------------------------------
(* Bytes, by their number. *)

LEMMA Empty == ASSUME NEW s \in Seq(Byte) PROVE Size(s) \in Nat /\ (s = <<>> <=> Size(s) = 0)
<1>1. Len(s) \in Nat /\ (s = <<>> <=> Len(s) = 0)
  OBVIOUS
<1>. QED  BY <1>1, Zenon DEF Size

LEMMA OneByte ==
  ASSUME NEW b \in Byte
  PROVE  <<b>> \in Seq(Byte) /\ Size(<<b>>) = 1 /\ <<b>>[1] = b /\ <<b>> # <<>>
<1>1. <<b>> \in Seq(Byte) /\ Len(<<b>>) = 1 /\ <<b>>[1] = b /\ <<b>> # <<>>
  OBVIOUS
<1>. QED  BY <1>1, Zenon DEF Size

\* How the bytes of a packet under way grow by one.
LEMMA Grown ==
  ASSUME NEW s \in Seq(Byte), NEW b \in Byte
  PROVE  LET q == Append(s, b)
         IN  /\ q \in Seq(Byte) /\ Size(q) = Size(s) + 1 /\ Size(s) \in Nat
             /\ q[Size(q)] = b /\ (s = <<>> <=> Size(s) = 0)
             /\ Size(s) >= 1 => q[1] = s[1]
             /\ Size(s) >= 4 => q[4] = s[4]
<1>. DEFINE q == Append(s, b)
<1>1. q \in Seq(Byte) /\ Len(q) = Len(s) + 1 /\ q[Len(s) + 1] = b
      /\ \A j \in 1 .. Len(s) : q[j] = s[j]
  BY Appended
<1>. HIDE DEF q
<1>2. q \in Seq(Byte) /\ Size(q) = Size(s) + 1 /\ q[Size(s) + 1] = b
      /\ \A j \in 1 .. Size(s) : q[j] = s[j]
  BY <1>1, Zenon DEF Size
<1>3. Size(s) \in Nat /\ (s = <<>> <=> Size(s) = 0)
  BY Empty
<1>4. (Size(s) >= 1 => q[1] = s[1]) /\ (Size(s) >= 4 => q[4] = s[4])
  BY <1>2, <1>3
<1>. QED  BY <1>2, <1>3, <1>4 DEF q

LEMMA GrownPad ==
  ASSUME NEW s \in Seq(Byte), NEW p \in 0 .. 1, PadFrom(s, 0, p),
         NEW b, PadByte(b, p, Size(s) + 1)
  PROVE  PadFrom(Append(s, b), 0, p)
<1>1. b \in Byte
  BY DEF PadByte
<1>2. PadByte(b, p, Len(s) + 1)
  BY Zenon DEF Size
<1>. QED  BY <1>1, <1>2, Appended DEF PadFrom

LEMMA Shrunk ==
  ASSUME NEW t \in Seq(Byte), t # <<>>
  PROVE  /\ Head(t) = t[1] /\ Head(t) \in Byte /\ Size(t) \in Nat /\ Size(t) >= 1
         /\ Tail(t) \in Seq(Byte) /\ Size(Tail(t)) = Size(t) - 1
         /\ \A n \in Nat : \A p : PadFrom(t, n, p) =>
               PadByte(Head(t), p, n + 1) /\ PadFrom(Tail(t), n + 1, p)
<1>1. /\ Head(t) = t[1] /\ Head(t) \in Byte /\ Tail(t) \in Seq(Byte)
      /\ Len(t) \in Nat /\ Len(t) >= 1 /\ Len(Tail(t)) = Len(t) - 1
      /\ \A j \in 1 .. Len(t) - 1 : Tail(t)[j] = t[j + 1]
  BY Moved
<1>2. ASSUME NEW n \in Nat, NEW p, PadFrom(t, n, p)
      PROVE  PadByte(Head(t), p, n + 1) /\ PadFrom(Tail(t), n + 1, p)
  BY <1>1, <1>2 DEF PadFrom
<1>. QED  BY <1>1, <1>2, Zenon DEF Size

\* What the bits of a touchpad packet are.
LEMMA PadLooks ==
  ASSUME NEW s \in Seq(Byte), NEW p \in 0 .. 1, PadFrom(s, 0, p), Size(s) \in 1 .. 6
  PROVE  s[1].k = "start" /\ \A j \in 2 .. Size(s) : ~High(s[j])
<1>1. ASSUME NEW j \in 1 .. Size(s), j <= 6
      PROVE  IF j = 1 THEN s[j].k = "start" ELSE ~High(s[j])
  <2>1. j \in 1 .. Len(s)
    BY Zenon DEF Size
  <2>. QED  BY <1>1, <2>1, PadBits
<1>. QED  BY <1>1

\* What is left of seven bytes that were taken for the first of nine.
LEMMA Replaced ==
  ASSUME NEW q \in Seq(Byte), Size(q) = 7
  PROVE  LET s == SubSeq(q, 1, 3) \o <<[q[7] EXCEPT !.k = "data"]>>
         IN  s \in Seq(Byte) /\ Size(s) = 4 /\ s[1] = q[1] /\ s[4].k = "data"
<1>. DEFINE c == [q[7] EXCEPT !.k = "data"]
<1>0. Len(q) = 7
  BY Zenon DEF Size
<1>1. c \in Byte /\ c.k = "data"
  <2>1. 7 \in 1 .. Len(q)
    BY <1>0
  <2>2. q[7] \in Byte
    BY <2>1, Elements
  <2>3. \A e \in Byte : [e EXCEPT !.k = "data"] \in Byte /\ [e EXCEPT !.k = "data"].k = "data"
    BY DEF Byte, Kind
  <2>. QED  BY <2>2, <2>3, Zenon
<1>. HIDE DEF c
<1>3. SubSeq(q, 1, 3) \in Seq(Byte) /\ Len(SubSeq(q, 1, 3)) = 3 /\ SubSeq(q, 1, 3)[1] = q[1]
  BY <1>0
<1>4. /\ SubSeq(q, 1, 3) \o <<c>> \in Seq(Byte) /\ Len(SubSeq(q, 1, 3) \o <<c>>) = 4
      /\ (SubSeq(q, 1, 3) \o <<c>>)[1] = q[1] /\ (SubSeq(q, 1, 3) \o <<c>>)[4] = c
  BY <1>1, <1>3
<1>. QED  BY <1>1, <1>4 DEF c, Size
-----------------------------------------------------------------------------
(* What becomes of the bytes q of a packet under way. *)

\* What begins like a touchpad packet is kept, or it ends: before its fourth byte ...
LEMMA PadKept ==
  ASSUME NEW q, Size(q) \in 1 .. 5, q[1].k = "start", ~(Size(q) >= 4 /\ AllLow(q[4])),
         Size(q) = 1 \/ ~High(q[Size(q)]), NEW d, Process(q, d)
  PROVE  timer' = timer /\ packet' = q
<1>1. Size(q) # 6 /\ ~(Size(q) >= 2 /\ High(q[Size(q)]))
  OBVIOUS
<1>2. Len(q) # 6 /\ ~(Len(q) >= 2 /\ High(Last(q))) /\ ~(Len(q) >= 4 /\ AllLow(q[4]))
  BY <1>1, Zenon DEF Size, Last
<1>3. timer' = timer /\ Ordinary(q, d)
  BY <1>2, PadProcess, Zenon
<1>. QED  BY <1>2, <1>3, Zenon DEF Ordinary, Good

LEMMA PadGone ==
  ASSUME NEW q, Size(q) \in 2 .. 6, q[1].k = "start", ~(Size(q) >= 4 /\ AllLow(q[4])),
         Size(q) = 6 \/ High(q[Size(q)]), NEW d, Process(q, d)
  PROVE  timer' = timer /\ packet' = <<>>
<1>1. Size(q) = 6 \/ (Size(q) >= 2 /\ High(q[Size(q)]))
  OBVIOUS
<1>2. (Len(q) = 6 \/ (Len(q) >= 2 /\ High(Last(q)))) /\ ~(Len(q) >= 4 /\ AllLow(q[4]))
  BY <1>1, Zenon DEF Size, Last
<1>3. timer' = timer /\ Ordinary(q, d)
  BY <1>2, PadProcess, Zenon
<1>. QED  BY <1>2, <1>3, Zenon DEF Ordinary, Bad, Full

\* ... and after it, if that byte may begin a bare packet.
LEMMA StuffedKept ==
  ASSUME NEW q, Size(q) \in 4 .. 6, q[1].k = "start", AllLow(q[4]), NEW d, Process(q, d)
  PROVE  packet' = q /\ timer' = IF Size(q) = 6 THEN "set" ELSE timer
<1>1. Size(q) >= 4 /\ Size(q) # 7
  OBVIOUS
<1>2. Len(q) >= 4 /\ Len(q) # 7
  BY <1>1, Zenon DEF Size
<1>3. Stuffed(q, d)
  BY <1>2, PadProcess, Zenon
<1>4. Good(q, d) /\ timer' = IF Len(q) = 6 THEN "set" ELSE timer
  BY <1>2, <1>3, Zenon DEF Stuffed
<1>. QED  BY <1>4, Zenon DEF Good, Size

LEMMA StuffedSeven ==
  ASSUME NEW q, Size(q) = 7, q[1].k = "start", AllLow(q[4]), NEW d, Process(q, d)
  PROVE  Seventh(q, d) /\ timer' = IF timer = "set" THEN "off" ELSE timer
<1>1. Size(q) >= 4
  OBVIOUS
<1>2. Len(q) >= 4 /\ Len(q) = 7
  BY <1>1, Zenon DEF Size
<1>3. Stuffed(q, d)
  BY <1>2, PadProcess, Zenon
<1>. QED  BY <1>2, <1>3, Zenon DEF Stuffed

LEMMA StuffedOn ==
  ASSUME NEW q \in Seq(Byte), Size(q) = 7, ~High(q[7]), NEW d, Seventh(q, d)
  PROVE  /\ packet' \in Seq(Byte) /\ Size(packet') = 4
         /\ packet'[1] = q[1] /\ packet'[4].k = "data"
<1>1. packet' = SubSeq(q, 1, 3) \o <<[q[7] EXCEPT !.k = "data"]>>
  BY DEF Seventh
<1>. QED  BY <1>1, Replaced, Zenon

LEMMA StuffedOver ==
  ASSUME NEW q, High(q[7]), NEW d, Seventh(q, d)
  PROVE  packet' = <<>> \/ (packet' = <<q[7]>> /\ q[7].k = "start")
  BY DEF Seventh, Bad

LEMMA StuffedBy ==
  ASSUME NEW q, q[7].k = "start", \A i \in 4 .. 6 : ~High(q[i]), NEW d, Seventh(q, d)
  PROVE  packet' = <<q[7]>>
  BY DEF Seventh, High

\* A bare packet is at its end with the third byte.
LEMMA BareMoves ==
  ASSUME NEW q, Size(q) \in 1 .. 3, BareFirst(q[1]), oos = 0, NEW d, Process(q, d)
  PROVE  oos' = 0 /\ timer' = timer /\ packet' = IF Size(q) = 3 THEN <<>> ELSE q
<1>1. timer' = timer /\ IF Len(q) = 3 THEN Full(q, d) ELSE Good(q, d)
  BY Zenon DEF Process
<1>2. timer' = timer /\ IF Size(q) = 3 THEN Full(q, d) ELSE Good(q, d)
  BY <1>1, Zenon DEF Size
<1>. QED  BY <1>2 DEF Full, Good

\* A byte that begins nothing is dropped.
LEMMA StrayMoves ==
  ASSUME NEW q, Size(q) = 1, q[1].k # "start", ~(oos = 0 /\ BareFirst(q[1])),
         NEW d, Process(q, d)
  PROVE  timer' = timer /\ packet' = <<>>
<1>1. ~(Size(q) >= 4)
  OBVIOUS
<1>2. ~(Len(q) >= 4 /\ AllLow(q[4]))
  BY <1>1, Zenon DEF Size
<1>3. timer' = timer /\ Ordinary(q, d)
  BY <1>2, Zenon DEF Process
<1>. QED  BY <1>3, Zenon DEF Ordinary, Bad
-----------------------------------------------------------------------------
(* The shape of what the driver holds. *)

\* Of the two counts, the one of bad packets starts again at resetafter.
LEMMA CountKept ==
  ASSUME oos \in 0 .. ResetAfter - 1, NEW q, NEW d \in Seq({"pad", "stick"}), Process(q, d)
  PROVE  oos' \in 0 .. ResetAfter - 1 /\ due' \in Seq({"pad", "stick"})
<1>. ResetAfter \in Nat \ {0}
  BY ParameterAssumption
<1>1. ASSUME NEW s, Report(d, s) PROVE due' \in Seq({"pad", "stick"})
  <2>1. CASE d = <<>>
    BY <1>1, <2>1 DEF Report
  <2>2. CASE d # <<>>
    BY <1>1, <2>2 DEF Report
  <2>. QED  BY <2>1, <2>2
<1>2. Bad(d) => oos' \in 0 .. ResetAfter - 1 /\ due' \in Seq({"pad", "stick"})
  BY DEF Bad, Silent
<1>3. ASSUME NEW s, Good(s, d) PROVE oos' = oos /\ due' = d
  BY <1>3 DEF Good, Silent
<1>4. ASSUME NEW s, Full(s, d) PROVE oos' = 0 /\ due' \in Seq({"pad", "stick"})
  BY <1>1, <1>4 DEF Full
<1>5. Seventh(q, d) => oos' \in 0 .. ResetAfter - 1 /\ due' \in Seq({"pad", "stick"})
  BY <1>1, <1>2 DEF Seventh
<1>6. Ordinary(q, d) => oos' \in 0 .. ResetAfter - 1 /\ due' \in Seq({"pad", "stick"})
  BY <1>2, <1>3, <1>4 DEF Ordinary
<1>7. Stuffed(q, d) => oos' \in 0 .. ResetAfter - 1 /\ due' \in Seq({"pad", "stick"})
  BY <1>3, <1>5 DEF Stuffed
<1>. QED  BY <1>3, <1>4, <1>6, <1>7 DEF Process

LEMMA ShapeReceived ==
  ASSUME packet \in Seq(Byte), timer \in {"off", "set", "late"}, Shape,
         NEW b \in Byte, NEW d, Process(Append(packet, b), d)
  PROVE  Shape' /\ packet' \in Seq(Byte) /\ timer' \in {"off", "set", "late"}
<1>. DEFINE q == Append(packet, b)
<1>0. /\ q \in Seq(Byte) /\ Size(q) = Size(packet) + 1 /\ Size(packet) \in Nat
      /\ q[Size(q)] = b /\ (packet = <<>> <=> Size(packet) = 0)
      /\ Size(packet) >= 1 => q[1] = packet[1]
      /\ Size(packet) >= 4 => q[4] = packet[4]
  BY Grown
<1>2. Process(q, d)
  OBVIOUS
<1>. HIDE DEF q
<1>1. /\ q \in Seq(Byte) /\ Size(q) = Size(packet) + 1 /\ Size(packet) \in Nat
      /\ packet = <<>> => Size(q) = 1 /\ q[1] = b
      /\ Size(packet) >= 1 => q[1] = packet[1]
      /\ Size(packet) >= 4 => q[4] = packet[4]
  BY <1>0
<1>3. <<>> \in Seq(Byte)
  OBVIOUS
<1>4. ASSUME Size(q) \in 1 .. 3, oos = 0, BareFirst(q[1])
      PROVE  Shape' /\ packet' \in Seq(Byte) /\ timer' = timer
  <2>1. oos' = 0 /\ timer' = timer /\ packet' = IF Size(q) = 3 THEN <<>> ELSE q
    BY <1>2, <1>4, BareMoves
  <2>2. CASE Size(q) = 3
    BY <1>3, <2>1, <2>2 DEF Shape
  <2>3. CASE Size(q) \in 1 .. 2
    BY <1>1, <1>4, <2>1, <2>3 DEF Shape, BareHead
  <2>. QED  BY <1>4, <2>2, <2>3
<1>5. ASSUME Size(q) \in 1 .. 5, q[1].k = "start", packet' = q
      PROVE  Shape' /\ packet' \in Seq(Byte)
  BY <1>1, <1>5 DEF Shape, PadHead
<1>6. CASE packet = <<>>
  <2>1. CASE oos = 0 /\ BareFirst(q[1])
    BY <1>1, <1>4, <1>6, <2>1
  <2>2. CASE q[1].k = "start"
    <3>1. Size(q) \in 1 .. 5 /\ Size(q) = 1 /\ ~(Size(q) >= 4 /\ AllLow(q[4]))
      BY <1>1, <1>6
    <3>2. timer' = timer /\ packet' = q
      BY <1>2, <2>2, <3>1, PadKept
    <3>. QED  BY <1>5, <2>2, <3>1, <3>2
  <2>3. CASE q[1].k # "start" /\ ~(oos = 0 /\ BareFirst(q[1]))
    <3>1. timer' = timer /\ packet' = <<>>
      BY <1>1, <1>2, <1>6, <2>3, StrayMoves
    <3>. QED  BY <1>3, <3>1 DEF Shape
  <2>. QED  BY <2>1, <2>2, <2>3
<1>7. CASE BareHead
  <2>1. Size(q) \in 1 .. 3 /\ oos = 0 /\ BareFirst(q[1])
    BY <1>1, <1>7 DEF BareHead
  <2>. QED  BY <1>4, <2>1
<1>8. CASE PadHead
  <2>1. /\ Size(q) \in 2 .. 7 /\ q[1].k = "start"
        /\ Size(q) = 7 => AllLow(q[4])
    BY <1>1, <1>8 DEF PadHead
  <2>2. CASE ~(Size(q) >= 4 /\ AllLow(q[4]))
    <3>0. Size(q) \in 2 .. 6
      BY <2>1, <2>2
    <3>1. CASE Size(q) = 6 \/ High(q[Size(q)])
      <4>1. timer' = timer /\ packet' = <<>>
        BY <1>2, <2>1, <2>2, <3>0, <3>1, PadGone
      <4>. QED  BY <1>3, <4>1 DEF Shape
    <3>2. CASE Size(q) # 6 /\ ~High(q[Size(q)])
      <4>0. Size(q) \in 1 .. 5
        BY <3>0, <3>2
      <4>1. timer' = timer /\ packet' = q
        BY <1>2, <2>1, <2>2, <3>2, <4>0, PadKept
      <4>. QED  BY <1>5, <2>1, <4>0, <4>1
    <3>. QED  BY <3>1, <3>2
  <2>3. CASE Size(q) \in 4 .. 6 /\ AllLow(q[4])
    <3>1. packet' = q /\ timer' = IF Size(q) = 6 THEN "set" ELSE timer
      BY <1>2, <2>1, <2>3, StuffedKept
    <3>2. PadHead'
      BY <2>1, <2>3, <3>1 DEF PadHead, AllLow
    <3>. QED  BY <1>1, <3>1, <3>2 DEF Shape
  <2>4. CASE Size(q) = 7 /\ AllLow(q[4])
    <3>0. Seventh(q, d) /\ timer' = IF timer = "set" THEN "off" ELSE timer
      BY <1>2, <2>1, <2>4, StuffedSeven
    <3>1. CASE ~High(q[7])
      <4>1. packet' \in Seq(Byte) /\ Size(packet') = 4 /\ packet'[1] = q[1]
        BY <1>1, <2>4, <3>0, <3>1, StuffedOn
      <4>2. PadHead'
        BY <2>1, <4>1 DEF PadHead
      <4>. QED  BY <3>0, <4>1, <4>2 DEF Shape
    <3>2. CASE High(q[7])
      <4>1. packet' = <<>> \/ (packet' = <<q[7]>> /\ q[7].k = "start")
        BY <3>0, <3>2, StuffedOver
      <4>2. q[7] \in Byte
        <5>1. Len(q) = 7
          BY <2>4, Zenon DEF Size
        <5>2. 7 \in 1 .. Len(q)
          BY <5>1
        <5>. QED  BY <1>1, <5>2, Elements
      <4>3. <<q[7]>> \in Seq(Byte) /\ Size(<<q[7]>>) = 1 /\ <<q[7]>>[1] = q[7]
        BY <4>2, OneByte
      <4>4. CASE packet' = <<>>
        BY <1>3, <3>0, <4>4 DEF Shape
      <4>5. CASE packet' = <<q[7]>> /\ q[7].k = "start"
        <5>1. packet' \in Seq(Byte) /\ Size(packet') = 1 /\ packet'[1].k = "start"
          BY <4>3, <4>5
        <5>. QED  BY <3>0, <5>1 DEF Shape, PadHead
      <4>. QED  BY <4>1, <4>4, <4>5
    <3>. QED  BY <3>1, <3>2
  <2>5. Size(q) \in 2 .. 7 => (Size(q) >= 4 => Size(q) \in 4 .. 6 \/ Size(q) = 7)
    OBVIOUS
  <2>. QED  BY <2>1, <2>2, <2>3, <2>4, <2>5
<1>. QED  BY <1>4, <1>6, <1>7, <1>8 DEF Shape
-----------------------------------------------------------------------------
(* One whole touchpad packet is enough. *)

\* What byte n + 1 of a touchpad packet looks like, if an ordinary byte of it
\* cannot begin a bare packet.
LEMMA ByteLooks ==
  ASSUME Low \cap {"bare", "stick"} = {}, NEW b, NEW p, NEW n \in 0 .. 5, PadByte(b, p, n + 1)
  PROVE  /\ b \in Byte
         /\ n = 0 => b.k = "start"
         /\ n # 0 => b.k # "start" /\ ~High(b)
         /\ n \notin {0, 3} => ~BareFirst(b)
<1>1. b \in Byte /\ b.k \in PadKinds(n + 1)
  BY DEF PadByte
<1>2. n = 0 => b.k = "start"
  BY <1>1 DEF PadKinds
<1>3. n # 0 => b.k \in Low \cup Fourth \cup {"data"}
  BY <1>1 DEF PadKinds
<1>4. n \notin {0, 3} => b.k \in Low
  BY <1>1 DEF PadKinds
<1>. QED  BY <1>1, <1>2, <1>3, <1>4, KindAssumption DEF High, BareFirst

\* A packet that the driver has followed from its first byte.
LEMMA AlongStep ==
  ASSUME packet \in Seq(Byte), NEW p \in 0 .. 1, NEW n \in 1 .. 5, Along(n, p),
         NEW b, PadByte(b, p, n + 1), NEW d, Process(Append(packet, b), d)
  PROVE  IF n = 5 THEN packet' = <<>> \/ Along(6, p)' ELSE Along(n + 1, p)'
<1>. DEFINE q == Append(packet, b)
<1>0. b \in Byte
  BY DEF PadByte
<1>1. q \in Seq(Byte) /\ Size(q) = Size(packet) + 1 /\ Size(packet) = n
  BY <1>0, Grown DEF Along
<1>2. Process(q, d) /\ PadFrom(q, 0, p)
  BY <1>1, GrownPad DEF Along
<1>. HIDE DEF q
<1>3. Size(q) = n + 1 /\ Size(q) \in 2 .. 6 /\ Size(q) \in 1 .. 6 /\ (n = 5 <=> Size(q) = 6)
  BY <1>1
<1>4. q[1].k = "start" /\ ~High(q[Size(q)])
  <2>1. Size(q) \in 2 .. Size(q)
    BY <1>3
  <2>. QED  BY <1>1, <1>2, <1>3, <2>1, PadLooks
<1>5. packet' = q => Along(n + 1, p)'
  BY <1>2, <1>3 DEF Along
<1>6. CASE ~(Size(q) >= 4 /\ AllLow(q[4]))
  <2>1. CASE Size(q) = 6
    <3>1. packet' = <<>>
      BY <1>2, <1>3, <1>4, <1>6, <2>1, PadGone
    <3>. QED  BY <1>3, <2>1, <3>1
  <2>2. CASE Size(q) # 6
    <3>1. Size(q) \in 1 .. 5
      BY <1>3, <2>2
    <3>2. packet' = q
      BY <1>2, <1>4, <1>6, <3>1, PadKept
    <3>. QED  BY <1>3, <1>5, <2>2, <3>2
  <2>. QED  BY <2>1, <2>2
<1>7. CASE Size(q) >= 4 /\ AllLow(q[4])
  <2>1. Size(q) \in 4 .. 6
    BY <1>3, <1>7
  <2>2. packet' = q
    BY <1>2, <1>4, <1>7, <2>1, StuffedKept
  <2>. QED  BY <1>5, <2>2
<1>. QED  BY <1>6, <1>7

\* The first byte of a packet, when the driver expects one.
LEMMA StartStep ==
  ASSUME packet \in Seq(Byte), Shape, AtStart, NEW p \in 0 .. 1,
         NEW b, PadByte(b, p, 1), NEW d, Process(Append(packet, b), d)
  PROVE  Along(1, p)'
<1>. DEFINE q == Append(packet, b)
<1>0. b \in Byte /\ b.k = "start"
  BY DEF PadByte, PadKinds
<1>1. /\ q \in Seq(Byte) /\ Size(q) = Size(packet) + 1 /\ Size(packet) \in Nat
      /\ q[Size(q)] = b /\ (packet = <<>> <=> Size(packet) = 0)
      /\ Size(packet) >= 1 => q[1] = packet[1]
      /\ Size(packet) >= 4 => q[4] = packet[4]
  BY <1>0, Grown
<1>2. Process(q, d)
  OBVIOUS
<1>3. \A i \in 1 .. Size(packet) : q[i] = packet[i]
  <2>1. \A i \in 1 .. Len(packet) : q[i] = packet[i]
    BY <1>0, Appended
  <2>. QED  BY <2>1, Zenon DEF Size
<1>. HIDE DEF q
<1>4. ASSUME packet' = <<b>> PROVE Along(1, p)'
  <2>1. <<b>> \in Seq(Byte) /\ Size(<<b>>) = 1 /\ <<b>>[1] = b
    BY <1>0, OneByte
  <2>2. PadFrom(<<b>>, 0, p)
    BY DEF PadFrom
  <2>. QED  BY <1>4, <2>1, <2>2 DEF Along
<1>5. CASE packet = <<>>
  <2>1. Size(q) = 1 /\ Size(q) \in 1 .. 5 /\ q[1] = b /\ ~(Size(q) >= 4 /\ AllLow(q[4]))
    BY <1>1, <1>5
  <2>2. packet' = q
    BY <1>0, <1>2, <2>1, PadKept
  <2>3. q = <<b>>
    BY <1>5 DEF q
  <2>. QED  BY <1>4, <2>2, <2>3
<1>6. CASE Size(packet) = 6 /\ \E r \in 0 .. 1 : PadFrom(packet, 0, r)
  <2>0. Size(packet) \in 1 .. 6 /\ Size(packet) \notin 1 .. 2 /\ packet # <<>>
    BY <1>1, <1>6
  <2>1. PadHead
    BY <2>0 DEF Shape, BareHead
  <2>2. Size(q) = 7 /\ q[7] = b /\ q[1].k = "start" /\ AllLow(q[4])
    BY <1>1, <1>6, <2>1 DEF PadHead
  <2>3. PICK r \in 0 .. 1 : PadFrom(packet, 0, r)
    BY <1>6
  <2>4. \A i \in 4 .. 6 : ~High(q[i])
    <3>1. \A i \in 2 .. 6 : ~High(packet[i])
      BY <1>6, <2>0, <2>3, PadLooks
    <3>2. \A i \in 4 .. 6 : q[i] = packet[i]
      BY <1>3, <1>6
    <3>. QED  BY <3>1, <3>2
  <2>5. Seventh(q, d)
    BY <1>2, <2>2, StuffedSeven
  <2>6. q[7].k = "start"
    BY <1>0, <2>2
  <2>7. packet' = <<q[7]>>
    BY <2>4, <2>5, <2>6, StuffedBy
  <2>. QED  BY <1>4, <2>2, <2>7
<1>. QED  BY <1>5, <1>6 DEF AtStart

\* Whatever the driver holds when a touchpad packet begins, it follows that packet, or
\* it is done with what it took it for by its end.
LEMMA FirstStep ==
  ASSUME packet \in Seq(Byte), timer \in {"off", "set", "late"}, Shape, NEW p \in 0 .. 1,
         NEW b, PadByte(b, p, 1), NEW d, Process(Append(packet, b), d)
  PROVE  Chase(1, p)'
<1>. DEFINE q == Append(packet, b)
<1>0. b \in Byte /\ b.k = "start"
  BY DEF PadByte, PadKinds
<1>1. /\ q \in Seq(Byte) /\ Size(q) = Size(packet) + 1 /\ Size(packet) \in Nat
      /\ q[Size(q)] = b
      /\ Size(packet) >= 1 => q[1] = packet[1]
      /\ Size(packet) >= 4 => q[4] = packet[4]
  BY <1>0, Grown
<1>2. Process(q, d)
  OBVIOUS
<1>. HIDE DEF q
<1>3. High(q[Size(q)])
  BY <1>0, <1>1 DEF High
<1>4. CASE packet = <<>>
  <2>1. AtStart
    BY <1>4 DEF AtStart
  <2>2. Along(1, p)'
    BY <2>1, StartStep
  <2>. QED  BY <2>2 DEF Chase
<1>5. CASE BareHead
  <2>1. Size(q) \in 2 .. 3 /\ Size(q) \in 1 .. 3 /\ BareFirst(q[1]) /\ oos = 0
    BY <1>1, <1>5 DEF BareHead
  <2>2. oos' = 0 /\ packet' = IF Size(q) = 3 THEN <<>> ELSE q
    BY <1>2, <2>1, BareMoves
  <2>3. CASE Size(q) = 3
    BY <2>2, <2>3 DEF Chase
  <2>4. CASE Size(q) # 3
    <3>1. AsBare(1)'
      BY <2>1, <2>2, <2>4 DEF AsBare, BareHead
    <3>. QED  BY <3>1 DEF Chase
  <2>. QED  BY <2>3, <2>4
<1>6. CASE PadHead
  <2>1. Size(q) \in 2 .. 7 /\ q[1].k = "start" /\ (Size(q) = 7 => AllLow(q[4]))
    BY <1>1, <1>6 DEF PadHead
  <2>2. CASE ~(Size(q) >= 4 /\ AllLow(q[4]))
    <3>1. Size(q) \in 2 .. 6
      BY <2>1, <2>2
    <3>2. packet' = <<>>
      BY <1>2, <1>3, <2>1, <2>2, <3>1, PadGone
    <3>. QED  BY <3>2 DEF Chase
  <2>3. CASE Size(q) \in 4 .. 6 /\ AllLow(q[4])
    <3>1. packet' = q /\ timer' = IF Size(q) = 6 THEN "set" ELSE timer
      BY <1>2, <2>1, <2>3, StuffedKept
    <3>2. AsPad(1)'
      BY <2>1, <2>3, <3>1 DEF AsPad, PadHead, AllLow
    <3>. QED  BY <3>2 DEF Chase
  <2>4. CASE Size(q) = 7 /\ AllLow(q[4])
    <3>1. Seventh(q, d) /\ q[7] = b
      BY <1>1, <1>2, <2>1, <2>4, StuffedSeven
    <3>2. packet' = <<>> \/ packet' = <<b>>
      BY <1>3, <2>4, <3>1, StuffedOver
    <3>3. packet' = <<b>> => Along(1, p)'
      <4>1. Size(<<b>>) = 1 /\ <<b>>[1] = b
        BY <1>0, OneByte
      <4>2. PadFrom(<<b>>, 0, p)
        BY DEF PadFrom
      <4>. QED  BY <4>1, <4>2 DEF Along
    <3>. QED  BY <3>2, <3>3 DEF Chase
  <2>5. Size(q) \in 2 .. 7 => (Size(q) >= 4 => Size(q) \in 4 .. 6 \/ Size(q) = 7)
    OBVIOUS
  <2>. QED  BY <2>1, <2>2, <2>3, <2>4, <2>5
<1>. QED  BY <1>4, <1>5, <1>6 DEF Shape

\* The bytes after it.
LEMMA ChaseStep ==
  ASSUME Low \cap {"bare", "stick"} = {},
         packet \in Seq(Byte), timer \in {"off", "set", "late"}, Shape, NEW p \in 0 .. 1,
         NEW n \in 1 .. 5, Chase(n, p), NEW b, PadByte(b, p, n + 1),
         NEW d, Process(Append(packet, b), d)
  PROVE  Chase(n + 1, p)'
<1>. DEFINE q == Append(packet, b)
<1>0. b \in Byte /\ b.k # "start" /\ ~High(b) /\ (n # 3 => ~BareFirst(b))
  BY ByteLooks
<1>1. /\ q \in Seq(Byte) /\ Size(q) = Size(packet) + 1 /\ Size(packet) \in Nat
      /\ q[Size(q)] = b /\ (packet = <<>> <=> Size(packet) = 0)
      /\ Size(packet) >= 1 => q[1] = packet[1]
      /\ Size(packet) >= 4 => q[4] = packet[4]
  BY <1>0, Grown
<1>2. Process(q, d)
  OBVIOUS
<1>. HIDE DEF q
<1>3. CASE packet = <<>>
  <2>0. Size(q) = 1 /\ q[1] = b /\ Size(q) \in 1 .. 3 /\ Size(q) # 3
    BY <1>1, <1>3
  <2>1. CASE oos = 0 /\ BareFirst(b)
    <3>1. oos' = 0 /\ packet' = IF Size(q) = 3 THEN <<>> ELSE q
      BY <1>2, <2>0, <2>1, BareMoves
    <3>2. packet' = q /\ n = 3
      BY <1>0, <2>0, <2>1, <3>1
    <3>3. AsBare(n + 1)'
      BY <2>0, <2>1, <3>1, <3>2 DEF AsBare, BareHead
    <3>. QED  BY <3>3 DEF Chase
  <2>2. CASE ~(oos = 0 /\ BareFirst(b))
    <3>1. packet' = <<>>
      BY <1>0, <1>2, <2>0, <2>2, StrayMoves
    <3>. QED  BY <3>1 DEF Chase
  <2>. QED  BY <2>1, <2>2
<1>4. CASE Along(n, p)
  <2>1. IF n = 5 THEN packet' = <<>> \/ Along(6, p)' ELSE Along(n + 1, p)'
    BY <1>4, AlongStep
  <2>2. CASE n = 5
    <3>1. n + 1 = 6
      BY <2>2
    <3>. QED  BY <2>1, <2>2, <3>1 DEF Chase
  <2>3. CASE n # 5
    BY <2>1, <2>3 DEF Chase
  <2>. QED  BY <2>2, <2>3
<1>5. CASE AsBare(n)
  <2>1. /\ Size(q) \in 2 .. 3 /\ Size(q) \in 1 .. 3 /\ BareFirst(q[1]) /\ oos = 0
        /\ n + 1 <= Size(q) + 3
    BY <1>1, <1>5 DEF AsBare, BareHead
  <2>2. oos' = 0 /\ packet' = IF Size(q) = 3 THEN <<>> ELSE q
    BY <1>2, <2>1, BareMoves
  <2>3. CASE Size(q) = 3
    BY <2>2, <2>3 DEF Chase
  <2>4. CASE Size(q) # 3
    <3>1. AsBare(n + 1)'
      BY <2>1, <2>2, <2>4 DEF AsBare, BareHead
    <3>. QED  BY <3>1 DEF Chase
  <2>. QED  BY <2>3, <2>4
<1>6. CASE AsPad(n)
  <2>1. /\ q[1].k = "start" /\ Size(q) \in 5 .. 7
        /\ AllLow(q[4]) => n + 4 <= Size(q) /\ (Size(q) = 7 => timer = "set")
        /\ ~AllLow(q[4]) => n + 1 <= Size(q) /\ Size(q) # 7
    <3>1. /\ Size(packet) \in 4 .. 6 /\ packet[1].k = "start"
          /\ Size(packet) = 6 => AllLow(packet[4])
      BY <1>6 DEF AsPad, PadHead
    <3>2. q[1] = packet[1] /\ q[4] = packet[4]
      BY <1>1, <3>1
    <3>3. /\ AllLow(q[4]) => n + 3 <= Size(packet) /\ (Size(packet) = 6 => timer = "set")
          /\ ~AllLow(q[4]) => n <= Size(packet) /\ Size(packet) # 6
      BY <1>6, <3>1, <3>2 DEF AsPad
    <3>. QED  BY <1>1, <3>1, <3>2, <3>3
  <2>2. CASE ~AllLow(q[4])
    <3>0. Size(q) \in 5 .. 6 /\ Size(q) \in 2 .. 6 /\ ~(Size(q) >= 4 /\ AllLow(q[4]))
      BY <2>1, <2>2
    <3>1. CASE Size(q) = 6
      <4>1. packet' = <<>>
        BY <1>2, <2>1, <3>0, <3>1, PadGone
      <4>. QED  BY <4>1 DEF Chase
    <3>2. CASE Size(q) # 6
      <4>1. Size(q) \in 1 .. 5 /\ ~High(q[Size(q)])
        BY <1>0, <1>1, <3>0, <3>2
      <4>2. packet' = q
        BY <1>2, <2>1, <3>0, <4>1, PadKept
      <4>3. AsPad(n + 1)'
        BY <2>1, <2>2, <3>0, <3>2, <4>2 DEF AsPad, PadHead
      <4>. QED  BY <4>3 DEF Chase
    <3>. QED  BY <3>1, <3>2
  <2>3. CASE AllLow(q[4]) /\ Size(q) \in 4 .. 6
    <3>1. packet' = q /\ timer' = IF Size(q) = 6 THEN "set" ELSE timer
      BY <1>2, <2>1, <2>3, StuffedKept
    <3>2. AsPad(n + 1)'
      BY <2>1, <2>3, <3>1 DEF AsPad, PadHead, AllLow
    <3>. QED  BY <3>2 DEF Chase
  <2>4. CASE AllLow(q[4]) /\ Size(q) = 7
    <3>0. Seventh(q, d)
      BY <1>2, <2>1, <2>4, StuffedSeven
    <3>1. ~High(q[7]) /\ n <= 3
      BY <1>0, <1>1, <2>1, <2>4
    <3>2. Size(packet') = 4 /\ packet'[1] = q[1] /\ packet'[4].k = "data"
      BY <1>1, <2>4, <3>0, <3>1, StuffedOn
    <3>3. AsPad(n + 1)'
      BY <2>1, <3>1, <3>2 DEF AsPad, PadHead, AllLow
    <3>. QED  BY <3>3 DEF Chase
  <2>5. Size(q) \in 4 .. 6 \/ Size(q) = 7
    BY <2>1
  <2>. QED  BY <2>2, <2>3, <2>4, <2>5
<1>. QED  BY <1>3, <1>4, <1>5, <1>6 DEF Chase

\* After six bytes nothing is left to follow.
LEMMA ChaseEnds ==
  ASSUME Shape', packet' \in Seq(Byte), NEW p \in 0 .. 1, Chase(6, p)'
  PROVE  AtStart'
<1>1. ~AsBare(6)'
  BY DEF AsBare, BareHead
<1>2. AsPad(6)' => FALSE
  <2>. SUFFICES ASSUME AsPad(6)' PROVE FALSE
    OBVIOUS
  <2>1. Size(packet') \in 1 .. 6 /\ (Size(packet') = 6 => AllLow(packet'[4]))
    BY DEF AsPad, PadHead, AllLow
  <2>2. CASE AllLow(packet'[4])
    BY <2>1, <2>2 DEF AsPad, AllLow
  <2>3. CASE ~AllLow(packet'[4])
    BY <2>1, <2>3 DEF AsPad, AllLow
  <2>. QED  BY <2>2, <2>3
<1>. QED  BY <1>1, <1>2 DEF Chase, Along, AtStart
-----------------------------------------------------------------------------
(* The steps. *)

LEMMA InitHeld == Init => Held /\ Calmed
<1>. SUFFICES ASSUME Init PROVE Held /\ Calmed
  OBVIOUS
<1>1. <<>> \in Seq(Byte) /\ <<>> \in Seq({"pad", "stick"})
  OBVIOUS
<1>2. 0 \in 0 .. ResetAfter - 1 /\ 0 \in 0 .. Lag /\ MaxLoss \in 0 .. MaxLoss
  BY ParameterAssumption
<1>3. packet \in Seq(Byte) /\ line \in Seq(Byte) /\ due \in Seq({"pad", "stick"})
  BY <1>1 DEF Init
<1>4. oos \in 0 .. ResetAfter - 1 /\ lag \in 0 .. Lag /\ left \in 0 .. MaxLoss
  BY <1>2, Zenon DEF Init
<1>5. calm \in 0 .. Calm /\ flip \in 0 .. 1
  BY DEF Init, Calm
<1>6. Types
  BY <1>3, <1>4, <1>5 DEF Init, Types
<1>. QED  BY <1>6 DEF Init, Held, Shape, Calmed, AtStart

LEMMA BeginHeld ==
  ASSUME Held, Begin
  PROVE  Held' /\ (Calmed => Calmed')
<1>0. /\ line = <<>> /\ oos' = oos /\ packet' = packet /\ due' = due
      /\ timer' = timer /\ lag' = lag /\ left' = left /\ flip' \in 0 .. 1
  BY DEF Begin, Held, Types
<1>1. Shape'
  BY <1>0 DEF Held, Shape, BareHead, PadHead, BareFirst, AllLow
<1>2. PICK p \in 0 .. 1 :
        \/ \E pad \in PadPackets(p) :
             line' = pad /\ pressed' = AllLow(pad[4]) /\ calm' = calm
        \/ /\ calm' = 0 /\ pressed' = FALSE
           /\ \/ \E bare \in BarePackets(p, Plain) : line' = bare
              \/ \E pad \in PadPackets(p), bare \in BarePackets(p, {"stick"}) :
                   line' = Interleaved(pad, bare)
  BY <1>0 DEF Begin
<1>3. ASSUME line' \in Seq(Byte), pressed' \in BOOLEAN, calm' \in 0 .. Calm PROVE Types'
  BY <1>0, <1>3 DEF Held, Types
<1>4. CASE \E pad \in PadPackets(p) :
             line' = pad /\ pressed' = AllLow(pad[4]) /\ calm' = calm
  <2>1. /\ line' \in Seq(Byte) /\ Len(line') = 6 /\ PadFrom(line', 0, p)
        /\ pressed' \in BOOLEAN /\ calm' = calm
    BY <1>4, PadLine DEF AllLow
  <2>2. Size(line') = 6
    BY <2>1, Zenon DEF Size
  <2>3. calm' \in 0 .. Calm
    BY <2>1 DEF Held, Types
  <2>4. Types'
    BY <1>3, <2>1, <2>3
  <2>5. line' # <<>>
    BY <2>1, SomeBytes
  <2>6. ASSUME Calmed PROVE Calmed'
    <3>1. calm = Calm => AtStart
      BY <1>0, <2>6 DEF Calmed
    <3>2. AtStart => AtStart'
      BY <1>0 DEF AtStart, PadFrom
    <3>3. calm' > 0 => Follows(0, p)'
      <4>1. calm' = 1 \/ calm' = Calm \/ ~(calm' > 0)
        BY <2>3 DEF Calm
      <4>2. CASE calm' = 1
        BY <4>2 DEF Follows, Chase
      <4>3. CASE calm' = Calm
        BY <2>1, <3>1, <3>2, <4>3 DEF Follows, Calm
      <4>. QED  BY <4>1, <4>2, <4>3
    <3>4. 0 \in 0 .. 5 /\ 6 - 0 = 6
      OBVIOUS
    <3>5. calm' > 0 => \E n \in 0 .. 5, r \in 0 .. 1 :
                          Size(line') = 6 - n /\ PadFrom(line', n, r) /\ Follows(n, r)'
      BY <2>1, <2>2, <3>3, <3>4
    <3>. QED  BY <2>5, <3>5 DEF Calmed
  <2>. QED  BY <1>1, <2>4, <2>6 DEF Held
<1>5. CASE /\ calm' = 0 /\ pressed' = FALSE
           /\ \/ \E bare \in BarePackets(p, Plain) : line' = bare
              \/ \E pad \in PadPackets(p), bare \in BarePackets(p, {"stick"}) :
                   line' = Interleaved(pad, bare)
  <2>1. line' \in Seq(Byte)
    BY <1>5, BareLine, MixLine
  <2>2. calm' \in 0 .. Calm
    BY <1>5 DEF Calm
  <2>3. Types'
    BY <1>3, <1>5, <2>1, <2>2
  <2>4. Calmed'
    BY <1>5 DEF Calmed, Calm
  <2>. QED  BY <1>1, <2>3, <2>4 DEF Held
<1>. QED  BY <1>2, <1>4, <1>5

LEMMA LoseHeld ==
  ASSUME Held, Lose
  PROVE  Held' /\ (Calmed => Calmed')
<1>1. line' \in Seq(Byte)
  <2>1. line # <<>> /\ line \in Seq(Byte) /\ line' = Tail(line)
    BY DEF Lose, Held, Types
  <2>. QED  BY <2>1, Rest
<1>2. left' \in 0 .. MaxLoss
  BY ParameterAssumption DEF Lose, Held, Types
<1>3. Types'
  BY <1>1, <1>2 DEF Lose, Held, Types, Calm
<1>4. Shape'
  BY DEF Lose, Held, Shape, BareHead, PadHead, BareFirst, AllLow
<1>5. Calmed'
  BY DEF Lose, Calmed, Calm
<1>. QED  BY <1>3, <1>4, <1>5 DEF Held

LEMMA ExpireHeld ==
  ASSUME Held, Expire
  PROVE  Held' /\ (Calmed => Calmed')
<1>1. Types'
  BY ParameterAssumption DEF Expire, Held, Types
<1>2. Shape'
  BY DEF Expire, Held, Shape, BareHead, PadHead, BareFirst, AllLow
<1>3. Calmed => Calmed'
  BY DEF Expire, Calmed, AtStart, PadFrom
<1>. QED  BY <1>1, <1>2, <1>3 DEF Held

\* The callback drops or reports six bytes, which nobody follows.
LEMMA FlushHeld ==
  ASSUME Held, Flush
  PROVE  Held' /\ (Calmed => Calmed')
<1>0. /\ timer = "late" /\ timer' = "off" /\ lag' = 0 /\ line' = line /\ oos' = oos
      /\ calm' = calm /\ left' = left /\ flip' = flip /\ pressed' \in BOOLEAN
  BY DEF Flush, Held, Types
<1>1. ASSUME packet' \in Seq(Byte), due' \in Seq({"pad", "stick"}) PROVE Types'
  <2>1. 0 \in 0 .. Lag
    BY ParameterAssumption
  <2>. QED  BY <1>0, <1>1, <2>1 DEF Held, Types
<1>2. CASE Len(packet) = 6
  <2>0. Size(packet) = 6
    BY <1>2, Zenon DEF Size
  <2>1. packet' = <<>> /\ due' \in Seq({"pad", "stick"})
    <3>1. packet' = <<>> /\ (Silent(due) \/ Report(due, packet))
      BY <1>2 DEF Flush
    <3>2. due \in Seq({"pad", "stick"}) /\ <<>> \in Seq({"pad", "stick"})
      BY DEF Held, Types
    <3>3. CASE Silent(due)
      BY <3>1, <3>2, <3>3 DEF Silent
    <3>4. CASE Report(due, packet)
      <4>1. due # <<>> => Tail(due) \in Seq({"pad", "stick"})
        BY <3>2
      <4>. QED  BY <3>1, <3>2, <3>4, <4>1 DEF Report
    <3>. QED  BY <3>1, <3>3, <3>4
  <2>2. Types'
    <3>1. <<>> \in Seq(Byte)
      OBVIOUS
    <3>. QED  BY <1>1, <2>1, <3>1
  <2>3. ASSUME NEW n \in 0 .. 5, NEW p, Follows(n, p) PROVE Follows(n, p)'
    <3>1. Along(n, p) => n = 6
      BY <2>0 DEF Along
    <3>2. ~Along(n, p)
      BY <2>3, <3>1
    <3>. QED  BY <1>0, <2>1, <2>3, <3>2 DEF Follows, Chase, AtStart
  <2>4. Calmed => Calmed'
    <3>. SUFFICES ASSUME Calmed PROVE Calmed'
      OBVIOUS
    <3>1. calm > 0 /\ line # <<>> =>
            \E n \in 0 .. 5, p \in 0 .. 1 :
               Size(line) = 6 - n /\ PadFrom(line, n, p) /\ Follows(n, p)'
      BY <2>3 DEF Calmed
    <3>2. AtStart'
      BY <2>1 DEF AtStart
    <3>. QED  BY <1>0, <3>1, <3>2 DEF Calmed, PadFrom
  <2>. QED  BY <2>1, <2>2, <2>4 DEF Held, Shape
<1>3. CASE Len(packet) # 6
  <2>0. Size(packet) # 6
    BY <1>3, Zenon DEF Size
  <2>1. packet' = packet /\ due' = due
    BY <1>3 DEF Flush, Silent
  <2>2. Types'
    BY <1>1, <2>1 DEF Held, Types
  <2>3. Shape'
    BY <1>0, <2>0, <2>1 DEF Held, Shape, BareHead, PadHead, BareFirst, AllLow
  <2>4. ASSUME NEW n, NEW p, Follows(n, p) PROVE Follows(n, p)'
    BY <1>0, <2>0, <2>1, <2>4
       DEF Follows, AtStart, Chase, Along, AsBare, AsPad, BareHead, PadHead, BareFirst,
           AllLow, PadFrom
  <2>5. Calmed => Calmed'
    <3>. SUFFICES ASSUME Calmed PROVE Calmed'
      OBVIOUS
    <3>1. calm > 0 /\ line # <<>> =>
            \E n \in 0 .. 5, p \in 0 .. 1 :
               Size(line) = 6 - n /\ PadFrom(line, n, p) /\ Follows(n, p)'
      BY <2>4 DEF Calmed
    <3>2. AtStart => AtStart'
      BY <2>1 DEF AtStart, PadFrom
    <3>. QED  BY <1>0, <3>1, <3>2 DEF Calmed, PadFrom
  <2>. QED  BY <2>2, <2>3, <2>5 DEF Held
<1>. QED  BY <1>2, <1>3

\* What the driver knows of a byte on the line.
LEMMA ReceiveByte ==
  ASSUME Held, Receive
  PROVE  LET b == Head(line)
             d == IF Clean THEN due \o Ended(b) ELSE <<>>
         IN  /\ packet \in Seq(Byte) /\ line \in Seq(Byte) /\ line # <<>>
             /\ timer \in {"off", "set", "late"} /\ Shape /\ b \in Byte
             /\ d \in Seq({"pad", "stick"}) /\ Process(Append(packet, b), d)
             /\ line' = Tail(line) /\ line' \in Seq(Byte)
             /\ flip' = flip /\ pressed' = pressed /\ left' = left
             /\ calm' = calm \/ (Size(line) = 1 /\ calm < Calm /\ calm' = calm + 1)
             /\ Size(line) = 1 /\ calm < Calm /\ b.from = "pad" => calm' = calm + 1
<1>. DEFINE b == Head(line)
            d == IF Clean THEN due \o Ended(b) ELSE <<>>
<1>1. /\ packet \in Seq(Byte) /\ line \in Seq(Byte) /\ line # <<>>
      /\ timer \in {"off", "set", "late"} /\ Shape
  BY DEF Held, Types, Receive
<1>2. /\ Process(Append(packet, b), d) /\ line' = Tail(line)
      /\ flip' = flip /\ pressed' = pressed /\ left' = left
  BY DEF Receive
<1>3. b \in Byte /\ line' \in Seq(Byte)
  BY <1>1, <1>2, Shrunk
<1>4. d \in Seq({"pad", "stick"})
  <2>1. b.from \in {"pad", "stick"}
    BY <1>3 DEF Byte
  <2>2. <<b.from>> \in Seq({"pad", "stick"}) /\ <<>> \in Seq({"pad", "stick"})
    BY <2>1
  <2>3. Ended(b) \in Seq({"pad", "stick"})
    BY <2>2, Zenon DEF Ended
  <2>4. due \in Seq({"pad", "stick"}) /\ <<>> \in Seq({"pad", "stick"})
    BY DEF Held, Types
  <2>. QED  BY <2>3, <2>4
<1>5. calm' = IF Len(line) = 1 /\ calm < Calm /\ b.from = "pad" THEN calm + 1 ELSE calm
  BY DEF Receive
<1>6. calm' = IF Size(line) = 1 /\ calm < Calm /\ b.from = "pad" THEN calm + 1 ELSE calm
  BY <1>5, Zenon DEF Size
<1>. HIDE DEF b, d
<1>7. /\ calm' = calm \/ (Size(line) = 1 /\ calm < Calm /\ calm' = calm + 1)
      /\ Size(line) = 1 /\ calm < Calm /\ b.from = "pad" => calm' = calm + 1
  BY <1>6
<1>. QED  BY <1>1, <1>2, <1>3, <1>4, <1>7 DEF b, d

LEMMA ReceiveHeld ==
  ASSUME Held, Receive
  PROVE  Held'
<1>. DEFINE b == Head(line)
            d == IF Clean THEN due \o Ended(b) ELSE <<>>
<1>1. /\ packet \in Seq(Byte) /\ timer \in {"off", "set", "late"} /\ Shape /\ b \in Byte
      /\ d \in Seq({"pad", "stick"}) /\ Process(Append(packet, b), d)
      /\ flip' = flip /\ pressed' = pressed /\ left' = left /\ line' \in Seq(Byte)
      /\ calm' = calm \/ (calm < Calm /\ calm' = calm + 1)
  BY ReceiveByte
<1>. HIDE DEF b, d
<1>2. Shape' /\ packet' \in Seq(Byte) /\ timer' \in {"off", "set", "late"}
  BY <1>1, ShapeReceived
<1>3. oos' \in 0 .. ResetAfter - 1 /\ due' \in Seq({"pad", "stick"})
  BY <1>1, CountKept DEF Held, Types
<1>4. lag' \in 0 .. Lag
  BY ParameterAssumption DEF Receive, Held, Types
<1>5. calm' \in 0 .. Calm
  BY <1>1 DEF Held, Types, Calm
<1>. QED  BY <1>1, <1>2, <1>3, <1>4, <1>5 DEF Held, Types

LEMMA ReceiveCalmed ==
  ASSUME Low \cap {"bare", "stick"} = {}, Held, Calmed, Receive
  PROVE  Calmed'
<1>. DEFINE b == Head(line)
            d == IF Clean THEN due \o Ended(b) ELSE <<>>
<1>1. /\ packet \in Seq(Byte) /\ line \in Seq(Byte) /\ line # <<>>
      /\ timer \in {"off", "set", "late"} /\ Shape /\ b \in Byte
      /\ Process(Append(packet, b), d)
      /\ line' = Tail(line) /\ line' \in Seq(Byte)
      /\ calm' = calm \/ (Size(line) = 1 /\ calm < Calm /\ calm' = calm + 1)
      /\ Size(line) = 1 /\ calm < Calm /\ b.from = "pad" => calm' = calm + 1
  BY ReceiveByte
<1>2. /\ Size(line) \in Nat /\ Size(line) >= 1 /\ Size(line') = Size(line) - 1
      /\ \A n \in Nat : \A p : PadFrom(line, n, p) =>
            PadByte(b, p, n + 1) /\ PadFrom(line', n + 1, p)
  BY <1>1, Shrunk
<1>3. line' = <<>> <=> Size(line') = 0
  BY <1>1, Empty
<1>. HIDE DEF b, d
<1>4. Shape' /\ packet' \in Seq(Byte)
  BY <1>1, ShapeReceived
<1>5. calm \in {0, 1, 2} /\ Calm = 2
  BY DEF Held, Types, Calm
<1>6. CASE calm = 0
  <2>1. calm' = 0 \/ (calm' = 1 /\ line' = <<>>)
    BY <1>1, <1>2, <1>3, <1>6
  <2>2. ~(calm' > 0 /\ line' # <<>>) /\ calm' # Calm
    BY <1>5, <2>1
  <2>. QED  BY <2>2 DEF Calmed
<1>7. CASE calm # 0
  <2>0. calm > 0
    BY <1>5, <1>7
  <2>1. PICK n \in 0 .. 5, p \in 0 .. 1 :
          Size(line) = 6 - n /\ PadFrom(line, n, p) /\ Follows(n, p)
    BY <1>1, <2>0 DEF Calmed
  <2>2. /\ PadByte(b, p, n + 1) /\ PadFrom(line', n + 1, p) /\ n \in Nat /\ n + 1 \in Nat
        /\ Size(line') = 6 - (n + 1) /\ (line' = <<>> <=> n = 5)
        /\ (Size(line) = 1 <=> n = 5)
    BY <1>2, <1>3, <2>1
  <2>3. CASE calm = 1
    <3>1. Chase(n, p)
      BY <2>1, <2>3 DEF Follows
    <3>2. Chase(n + 1, p)'
      <4>1. CASE n = 0
        <5>1. PadByte(b, p, 1)
          BY <2>2, <4>1
        <5>2. Chase(1, p)'
          BY <1>1, <5>1, FirstStep
        <5>. QED  BY <4>1, <5>2
      <4>2. CASE n # 0
        <5>1. n \in 1 .. 5
          BY <4>2
        <5>. QED  BY <1>1, <2>2, <3>1, <5>1, ChaseStep
      <4>. QED  BY <4>1, <4>2
    <3>3. CASE n = 5
      <4>0. n + 1 = 6
        BY <3>3
      <4>1. ASSUME NEW m, m = n + 1 PROVE Chase(m, p)'
        BY <3>2, <4>1, Zenon
      <4>2. Chase(6, p)'
        BY <4>0, <4>1, Zenon
      <4>3. AtStart'
        BY <1>4, <4>2, ChaseEnds
      <4>. QED  BY <2>2, <3>3, <4>3 DEF Calmed
    <3>4. CASE n # 5
      <4>1. calm' = 1 /\ n + 1 \in 0 .. 5
        BY <1>1, <2>2, <2>3, <3>4
      <4>2. Follows(n + 1, p)'
        BY <3>2, <4>1 DEF Follows
      <4>3. calm' # Calm
        BY <1>5, <4>1
      <4>. QED  BY <2>2, <4>1, <4>2, <4>3 DEF Calmed
    <3>. QED  BY <3>3, <3>4
  <2>4. CASE calm = 2
    <3>0. calm' = 2
      BY <1>1, <1>5, <2>4
    <3>1. IF n = 5 THEN AtStart' ELSE Along(n + 1, p)'
      <4>1. CASE n = 0
        <5>1. AtStart
          BY <2>1, <2>4, <4>1 DEF Follows
        <5>2. PadByte(b, p, 1)
          BY <2>2, <4>1
        <5>3. Along(1, p)'
          BY <1>1, <5>1, <5>2, StartStep
        <5>. QED  BY <4>1, <5>3
      <4>2. CASE n # 0
        <5>1. Along(n, p) /\ n \in 1 .. 5
          BY <2>1, <2>4, <4>2 DEF Follows
        <5>2. IF n = 5 THEN packet' = <<>> \/ Along(6, p)' ELSE Along(n + 1, p)'
          BY <1>1, <2>2, <5>1, AlongStep
        <5>3. packet' = <<>> \/ Along(6, p)' => AtStart'
          BY DEF AtStart, Along
        <5>. QED  BY <5>2, <5>3
      <4>. QED  BY <4>1, <4>2
    <3>2. CASE n = 5
      <4>1. AtStart' /\ line' = <<>>
        BY <2>2, <3>1, <3>2
      <4>. QED  BY <4>1 DEF Calmed
    <3>3. CASE n # 5
      <4>1. Follows(n + 1, p)' /\ n + 1 \in 0 .. 5 /\ line' # <<>>
        BY <2>2, <3>0, <3>1, <3>3 DEF Follows
      <4>. QED  BY <2>2, <4>1 DEF Calmed
    <3>. QED  BY <3>2, <3>3
  <2>. QED  BY <1>5, <1>7, <2>3, <2>4
<1>. QED  BY <1>6, <1>7

LEMMA HeldStep ==
  ASSUME Held, [Next]_vars
  PROVE  Held'
<1>1. CASE UNCHANGED vars
  BY <1>1 DEF vars, Held, Types, Shape, BareHead, PadHead, BareFirst, AllLow
<1>. QED  BY <1>1, BeginHeld, LoseHeld, ReceiveHeld, ExpireHeld, FlushHeld DEF Next

LEMMA CalmedStep ==
  ASSUME Low \cap {"bare", "stick"} = {}, Held, Calmed, [Next]_vars
  PROVE  Calmed'
<1>1. CASE UNCHANGED vars
  BY <1>1 DEF vars, Calmed, Follows, Chase, Along, AsBare, AsPad, AtStart, BareHead, PadHead,
              BareFirst, AllLow, PadFrom
<1>. QED  BY <1>1, BeginHeld, LoseHeld, ReceiveCalmed, ExpireHeld, FlushHeld DEF Next

\* What the driver holds, through any loss: in particular the array of eight bytes is
\* never exceeded, not even by the byte that is received next (TypeOK).
THEOREM StreamTypes == Spec => []TypeOK
<1>1. Held => TypeOK
  <2>. SUFFICES ASSUME Held PROVE TypeOK
    OBVIOUS
  <2>0. packet \in Seq(Byte) /\ Size(<<>>) = 0
    <3>1. <<>> \in Seq(Byte)
      OBVIOUS
    <3>. QED  BY <3>1, Empty DEF Held, Types
  <2>1. Size(packet) <= 6
    BY <2>0 DEF Held, Types, Shape, BareHead, PadHead
  <2>2. Len(packet) <= 6
    BY <2>1, Zenon DEF Size
  <2>. QED  BY <2>2, Zenon DEF Held, Types, TypeOK, Byte, Kind
<1>2. Held /\ [Next]_vars => Held'
  BY HeldStep
<1>. QED  BY <1>1, <1>2, InitHeld, PTL DEF Spec

\* However bytes were lost, the rest of a touchpad packet and a whole one are enough
\* for alps_process_byte() to begin packets where the device does (Recovers), whatever
\* the driver held, if no ordinary byte can begin a bare packet.
THEOREM StreamRecovers ==
  ASSUME Low \cap {"bare", "stick"} = {}
  PROVE  Spec => []Recovers
<1>1. Held /\ Calmed => Recovers
  <2>. SUFFICES ASSUME Held, Calmed, calm = Calm, line = <<>>
                PROVE  packet = <<>> \/ (Len(packet) = 6 /\ Packet(packet))
    BY DEF Recovers
  <2>1. packet \in Seq(Byte) /\ AtStart
    BY DEF Held, Types, Calmed
  <2>2. Size(packet) = 6 => Len(packet) = 6
    BY Zenon DEF Size
  <2>. QED  BY <2>1, <2>2, PadWhole DEF AtStart
<1>2. Held /\ Calmed /\ [Next]_vars => (Held /\ Calmed)'
  BY HeldStep, CalmedStep
<1>. QED  BY <1>1, <1>2, InitHeld, PTL DEF Spec
===============================================================================
