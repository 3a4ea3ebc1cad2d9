----------------------------- MODULE AlpsStream ------------------------------
(***************************************************************************)
(* The byte stream of an ALPS touchpad whose track stick is interleaved    *)
(* with it (drivers/input/mouse/alps.c, ALPS_PS2_INTERLEAVED), as the      *)
(* driver takes it apart: packets of six bytes, bare packets of three,     *)
(* bare packets in the middle of one of six, and the timer that flushes a  *)
(* packet which might have been going to be one of nine.                   *)
(*                                                                         *)
(* A byte is known by the bits the driver looks at, its kind:              *)
(*   "start" a valid first byte, "high" another with bit 7 set,            *)
(*   "bare"  what a bare packet begins with, "stick" one of these with all *)
(*   of the low bits set, "all" another with these set, "data" the rest.   *)
(* It also carries where it comes from, for the properties only.  The port *)
(* is activated; a pause of the line can occur between packets only, and   *)
(* the callback of an expired timer runs before many more bytes come.      *)
(***************************************************************************)
EXTENDS Naturals, Sequences, SequencesExt

CONSTANTS
  Low,         \* kinds of an ordinary byte of a touchpad packet
  Fourth,      \* kinds of the fourth byte of a touchpad packet
  Motion,      \* kinds of a byte of a bare packet but the first
  Plain,       \* kinds of the first byte of a bare packet
  Ambiguous,   \* a bare packet may follow a touchpad packet of all buttons without a pause
  ResetAfter,  \* resetafter
  Lag,         \* bytes that may overtake the callback of the timer
  MaxLoss      \* bytes that are lost

ASSUME KindAssumption ==
  /\ Low \cup Fourth \subseteq {"bare", "stick", "all", "data"}
  /\ Motion \subseteq {"start", "high", "bare", "stick", "all", "data"}
  /\ Plain \subseteq {"bare", "stick"}
ASSUME ParameterAssumption ==
  Ambiguous \in BOOLEAN /\ ResetAfter \in Nat \ {0} /\ Lag \in 0 .. 4 /\ MaxLoss \in Nat

VARIABLES
  packet,  \* the first pktcnt bytes of packet
  oos,     \* out_of_sync_cnt
  timer,   \* "off", "set", or "late": its callback waits for the lock
  lag,     \* bytes since the timer expired
  line,    \* what the device still has to send of its current packets
  flip,    \* the parity of the packets the device began
  pressed, \* it sent a touchpad packet of all buttons, and no pause was seen since
  due,     \* what it sent and the driver did not report yet: history
  said,    \* what the driver reported last: history
  calm,    \* ends of touchpad packets in a row since a byte was lost, up to Calm: history
  left     \* bytes that may still be lost
vars == <<packet, oos, timer, lag, line, flip, pressed, due, said, calm, left>>

Calm == 2
Clean == left = MaxLoss

\* Byte i of a packet "pad" or "stick" of parity p
Bytes(from, p, kinds) == [i \in DOMAIN kinds |-> [k |-> kinds[i], from |-> from, p |-> p, i |-> i]]
PadPackets(p) ==
  {Bytes("pad", p, kinds) : kinds \in {"start"} \X Low \X Low \X Fourth \X Low \X Low}
BarePackets(p, first) ==
  {Bytes("stick", p, kinds) : kinds \in first \X Motion \X Motion}
Interleaved(pad, bare) == SubSeq(pad, 1, 3) \o bare \o SubSeq(pad, 4, 6)

BareFirst(b) == b.k \in {"bare", "stick"}
AllLow(b) == b.k \in {"stick", "all", "start"}
High(b) == b.k \in {"start", "high"}

Init ==
  /\ packet = <<>> /\ oos = 0 /\ timer = "off" /\ lag = 0
  /\ line = <<>> /\ flip = 0 /\ pressed = FALSE /\ due = <<>> /\ said = <<>> /\ calm = Calm /\ left = MaxLoss

-----------------------------------------------------------------------------
(* The device. *)

\* It begins a packet, or one with another in its middle.
Begin ==
  /\ line = <<>> /\ flip' = 1 - flip
  /\ \/ \E pad \in PadPackets(flip') :
          line' = pad /\ pressed' = AllLow(pad[4]) /\ UNCHANGED calm
     \/ /\ ~pressed \/ Ambiguous
        /\ \E bare \in BarePackets(flip', Plain) : line' = bare
        /\ pressed' = FALSE /\ calm' = 0
     \/ /\ \E pad \in PadPackets(flip'), bare \in BarePackets(flip', {"stick"}) :
             line' = Interleaved(pad, bare)
        /\ pressed' = FALSE /\ calm' = 0
  /\ UNCHANGED <<packet, oos, timer, lag, due, said, left>>

\* The packets that are complete with the byte b.
Ended(b) == IF b.i = (IF b.from = "pad" THEN 6 ELSE 3) THEN <<b.from>> ELSE <<>>

Lose ==
  /\ line # <<>> /\ left > 0 /\ left' = left - 1 /\ line' = Tail(line) /\ calm' = 0
  /\ UNCHANGED <<packet, oos, timer, lag, flip, pressed, due, said>>

-----------------------------------------------------------------------------
(* The driver: alps_process_byte() under psmouse_handle_byte().             *)

Report(d, s) == due' = (IF d = <<>> THEN d ELSE Tail(d)) /\ said' = s
Silent(d) == due' = d /\ UNCHANGED said

Bad(d) ==
  /\ packet' = <<>> /\ oos' = (IF oos + 1 = ResetAfter THEN 0 ELSE oos + 1) /\ Silent(d)
Good(p, d) == packet' = p /\ UNCHANGED oos /\ Silent(d)
Full(p, d) == packet' = <<>> /\ oos' = 0 /\ Report(d, p)

\* Mutant of Seventh: the byte that takes the place of the fourth is left as it is.
SeventhAgain(p, d) ==
  /\ UNCHANGED oos
  /\ IF High(p[7]) THEN packet' = <<p[7]>> /\ Report(d, SubSeq(p, 1, 6))
     ELSE packet' = SubSeq(p, 1, 3) \o <<p[7]>> /\ Report(d, SubSeq(p, 4, 6))

\* With the seventh byte it is known what the sixth was.  The byte that takes the
\* place of the fourth loses the bit that made it look like a mouse packet.
Seventh(p, d) ==
  IF ~High(p[7])
  THEN /\ packet' = SubSeq(p, 1, 3) \o <<[p[7] EXCEPT !.k = "data"]>>
       /\ UNCHANGED oos /\ Report(d, SubSeq(p, 4, 6))
  ELSE IF p[7].k # "start" \/ \E i \in 4 .. 6 : High(p[i]) THEN Bad(d)
  ELSE packet' = <<p[7]>> /\ UNCHANGED oos /\ Report(d, SubSeq(p, 1, 6))

\* Mutant of Stuffed: no timer.
StuffedUntimed(p, d) ==
  /\ UNCHANGED timer
  /\ IF Len(p) = 7 THEN Seventh(p, d) ELSE Good(p, d)

\* alps_handle_interleaved_ps2(); a callback that runs already is not stopped
Stuffed(p, d) ==
  IF Len(p) = 7
  THEN Seventh(p, d) /\ timer' = IF timer = "set" THEN "off" ELSE timer
  ELSE Good(p, d) /\ timer' = IF Len(p) = 6 THEN "set" ELSE timer

\* Mutant of Ordinary: what starts a packet is not looked at.
OrdinaryBlind(p, d) ==
  IF Len(p) = 6 THEN Full(p, d) ELSE Good(p, d)

\* A touchpad packet that grows
Ordinary(p, d) ==
  IF p[1].k # "start" \/ (Len(p) >= 2 /\ High(Last(p))) THEN Bad(d)
  ELSE IF Len(p) = 6 THEN Full(p, d)
  ELSE Good(p, d)

Process(p, d) ==
  CASE oos = 0 /\ BareFirst(p[1]) ->
         UNCHANGED timer /\ IF Len(p) = 3 THEN Full(p, d) ELSE Good(p, d)
    [] ~(oos = 0 /\ BareFirst(p[1])) /\ Len(p) >= 4 /\ AllLow(p[4]) -> Stuffed(p, d)
    [] OTHER -> UNCHANGED timer /\ Ordinary(p, d)

Receive ==
  /\ line # <<>> /\ (timer = "late" => lag < Lag)
  /\ line' = Tail(line) /\ lag' = (IF timer = "late" THEN lag + 1 ELSE 0) /\ UNCHANGED <<flip, pressed, left>>
  /\ calm' = IF Len(line) = 1 /\ calm < Calm /\ Head(line).from = "pad" THEN calm + 1 ELSE calm
  /\ Process(Append(packet, Head(line)), IF Clean THEN due \o Ended(Head(line)) ELSE <<>>)

\* A pause of 20 ms, then alps_flush_packet(), when it gets the lock.
Expire ==
  /\ timer = "set" /\ line = <<>> /\ timer' = "late" /\ lag' = 0
  /\ UNCHANGED <<packet, oos, line, flip, pressed, due, said, calm, left>>

Flush ==
  /\ timer = "late" /\ timer' = "off" /\ lag' = 0 /\ pressed' = (pressed /\ line # <<>>)
  /\ IF Len(packet) = 6
     THEN /\ packet' = <<>>
          /\ IF \E i \in 4 .. 6 : High(packet[i]) THEN Silent(due) ELSE Report(due, packet)
     ELSE Silent(due) /\ UNCHANGED packet
  /\ UNCHANGED <<oos, line, flip, calm, left>>

Next == Begin \/ Lose \/ Receive \/ Expire \/ Flush

Spec == Init /\ [][Next]_vars

-----------------------------------------------------------------------------
(* Properties. *)

\* The variables keep to their types; the array of eight bytes is never exceeded,
\* not even by the byte that is received next.
TypeOK ==
  /\ packet \in Seq([k : {"start", "high", "bare", "stick", "all", "data"},
                     from : {"pad", "stick"}, p : 0 .. 1, i : 1 .. 6])
  /\ Len(packet) <= 6 /\ oos \in 0 .. ResetAfter - 1
  /\ timer \in {"off", "set", "late"} /\ lag \in 0 .. Lag /\ flip \in 0 .. 1 /\ pressed \in BOOLEAN
  /\ due \in Seq({"pad", "stick"}) /\ calm \in 0 .. Calm /\ left \in 0 .. MaxLoss

\* The bytes s are one packet as the device sent it.
Packet(s) ==
  /\ \A i \in DOMAIN s : s[i].from = s[1].from /\ s[i].p = s[1].p /\ s[i].i = i
  /\ Len(s) = (IF s[1].from = "pad" THEN 6 ELSE 3)

\* What is reported is a packet the device sent, put together again if another
\* was in its middle.
Whole == Clean /\ said # <<>> => Packet(said)

\* Nothing that was sent is still unreported, but a packet that may yet turn out
\* to be one of nine bytes, and that only while its timer runs.
NothingOwed ==
  Clean /\ line = <<>> =>
    IF timer = "off" THEN packet = <<>> /\ due = <<>>
    ELSE Len(due) <= 1 /\ Len(packet) \in {0, 6}

\* A device that keeps to its protocol is never taken to be out of step.
InSync == Clean => oos = 0

\* However bytes were lost, after the rest of a touchpad packet and a whole one the
\* driver begins a packet where the device does.
Recovers ==
  calm = Calm /\ line = <<>> => packet = <<>> \/ (Len(packet) = 6 /\ Packet(packet))
=============================================================================
