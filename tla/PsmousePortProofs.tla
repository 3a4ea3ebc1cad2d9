-------------------------- MODULE PsmousePortProofs --------------------------
(***************************************************************************)
(* Proofs about PsmousePort, for any packet size, any limit of bad packets *)
(* and any number of failing commands, unbinds and resets.                 *)
(*                                                                         *)
(* Owners ties psmouse_mutex to the steps of the three threads.  Counting  *)
(* bounds pktcnt although it is counted without a lock; Lifecycle says     *)
(* what disconnecting and connecting leave of the other threads; Places    *)
(* says in which state the port is at the steps that depend on it; Pending *)
(* says who will move it out of a state in which bytes are ignored.  The   *)
(* five and the types are inductive together.                              *)
(***************************************************************************)
EXTENDS PsmousePort, TLAPS

\* The steps of the serio thread at which it has the mutex.
SerioHolds == {"r_probe", "cmd", "activate", "unlock", "d_handler", "d_free", "d_ignore",
               "d_close", "c_probe", "c_cmd", "c_register", "c_undo"}
Owners ==
  /\ mutex = "work" <=> w.pc \notin {"idle", "lock"}
  /\ mutex = "attr" <=> a.pc \notin {"idle", "lock"}
  /\ mutex = "serio" <=> s.pc \in SerioHolds

\* The interrupt handler leaves less than a packet; the work may store one
\* more than it loaded.
Counting ==
  /\ cnt <= PktSize
  /\ cnt = PktSize => w.pc \in {"parse", "back"}
  /\ w.pc = "store" => w.v < PktSize
  /\ ResetAfter > 0 => oos < ResetAfter

\* From the time a disconnect has waited for the work, nothing but the port
\* itself is left; the port is bound but between a disconnect and a connect.
Gone == {"d_handler", "d_free", "d_ignore", "d_close", "off", "c_lock"}
Connecting == {"c_probe", "c_cmd", "c_register", "c_undo"}
Lifecycle ==
  /\ bound <=> s.pc \notin {"off", "c_lock"}
  /\ s.pc \in Gone \cup Connecting => w.pc = "idle" /\ work # "queued"
  /\ s.pc \in Gone \cup Connecting \cup {"d_disable", "d_sync"} => a.pc = "idle"
  /\ s.pc \in {"d_free", "d_ignore", "d_close"} => ~handler
  /\ s.pc = "d_sync" => work = "disabled"
  /\ work = "disabled" => s.pc \in Gone \cup {"d_sync"}
  /\ s.pc \in Gone \ {"c_lock", "off"} => work = "disabled"

\* The state of the port at a step that has the mutex.
Places ==
  /\ s.pc \in {"r_probe", "cmd", "c_probe", "c_cmd"} => st = "init"
  /\ s.pc \in {"activate", "c_register", "c_undo"} => st \in {"cmd", "ignore"}
  /\ w.pc \in {"disable", "poll", "enable", "end"} => st = "resync"
  /\ w.pc \in {"load", "store", "parse", "back"} => st \in {"cmd", "ignore"}
  /\ a.pc = "switch" => st = "init"
  /\ a.pc = "register" => st \in {"cmd", "ignore"}

Pending ==
  /\ st = "resync" => work # "idle" \/ w.pc \notin {"idle", "reconnect", "unlock"}
  /\ bound /\ st = "ignore" =>
       req \/ w.pc = "reconnect" \/ s.pc \in {"r_lock", "d_close"}

\* A mouse that was silenced by a failing command is woken, while at most one fails.
Streaming ==
  /\ st = "active" /\ dev.native /\ ~dev.on => a.pc \in {"activate", "free", "ignore"}
  /\ a.pc = "activate" /\ st = "active" => past["fail"] > 0
  /\ w.pc = "end" /\ ~w.failed /\ dev.native => dev.on

Base == TypeOK /\ Owners /\ Counting /\ Lifecycle /\ Places /\ Pending

-----------------------------------------------------------------------------
LEMMA Spent ==
  ASSUME past \in [Events -> Nat], NEW e \in Events, Spend(e)
  PROVE  past' \in [Events -> Nat] /\ past'[e] = past[e] + 1
         /\ \A k \in Events \ {e} : past'[k] = past[k]
<1>1. past[e] + 1 \in Nat
  OBVIOUS
<1>. QED  BY <1>1 DEF Spend

\* All that a byte can do: it is counted, at most up to a packet; the port is
\* given up; or it is to be resynchronised.
Kept(c, o) ==
  /\ st' = st /\ work' = work /\ req' = req
  /\ cnt' = c /\ c \in 0 .. PktSize - 1 /\ oos' = o
  /\ o \in 0 .. ResetAfter /\ (ResetAfter > 0 => o < ResetAfter) /\ age' \in 0 .. 2
GivenUp == Reannounce
Lost == st = "active" /\ LoseSync

LEMMA Handled ==
  ASSUME NEW c \in 1 .. PktSize + 1, NEW o \in 0 .. ResetAfter, ResetAfter > 0 => o < ResetAfter,
         HandleByte(c, o)
  PROVE  GivenUp \/ \E n \in 0 .. PktSize - 1, q \in 0 .. ResetAfter : Kept(n, q)
<1>. USE SizeAssumption, ParameterAssumption
<1>1. CASE ~handler
  <2>1. Kept(0, o)  BY <1>1 DEF HandleByte, Kept
  <2>. QED  BY <2>1
<1>2. CASE handler
  <2>1. PICK r \in Verdicts(c) :
          IF r = "bad" /\ Exhausted(o) THEN Reannounce
          ELSE /\ cnt' = IF r = "good" THEN c ELSE 0
               /\ oos' = CASE r = "good" -> o [] r = "full" -> 0 [] OTHER -> Worse(o)
               /\ age' = 0 /\ UNCHANGED <<st, work, req>>
    BY <1>2 DEF HandleByte
  <2>2. CASE r = "bad" /\ Exhausted(o)  BY <2>1, <2>2 DEF GivenUp
  <2>3. CASE r = "good"
    <3>1. c \in 0 .. PktSize - 1  BY <2>3 DEF Verdicts
    <3>2. Kept(c, o)  BY <2>1, <2>3, <3>1 DEF Kept
    <3>. QED  BY <3>1, <3>2
  <2>4. CASE r = "full"
    <3>1. Kept(0, 0)  BY <2>1, <2>4 DEF Kept
    <3>. QED  BY <3>1
  <2>5. CASE r = "bad" /\ ~Exhausted(o)
    <3>1. Worse(o) \in 0 .. ResetAfter /\ (ResetAfter > 0 => Worse(o) < ResetAfter)
      BY <2>5 DEF Worse, Exhausted, Counted
    <3>2. Kept(0, Worse(o))  BY <2>1, <2>5, <3>1 DEF Kept
    <3>. QED  BY <3>1, <3>2
  <2>. QED  BY <2>2, <2>3, <2>4, <2>5 DEF Verdicts
<1>. QED  BY <1>1, <1>2

LEMMA Accepted ==
  ASSUME NEW c \in 1 .. PktSize + 1, NEW o \in 0 .. ResetAfter, ResetAfter > 0 => o < ResetAfter,
         Accept(c, o)
  PROVE  GivenUp \/ Lost \/ \E n \in 0 .. PktSize - 1, q \in 0 .. ResetAfter : Kept(n, q)
  BY Handled DEF Accept, Lost

LEMMA Received ==
  ASSUME TypeOK, Counting, NEW b \in Byte, Receive(b)
  PROVE  /\ GivenUp \/ Lost \/ \E n \in 0 .. PktSize - 1, q \in 0 .. ResetAfter : Kept(n, q)
         /\ head' \in BOOLEAN
         /\ bound /\ st \in {"cmd", "active"}
         /\ UNCHANGED <<driver, quirk, mutex, w, s, a, dev, past>>
<1>. USE SizeAssumption, ParameterAssumption
<1>. DEFINE c == cnt + 1
            h == IF cnt = 0 THEN b = "bat" ELSE head
<1>1. cnt \in 0 .. PktSize /\ oos \in 0 .. ResetAfter /\ (ResetAfter > 0 => oos < ResetAfter)
      /\ head \in BOOLEAN
  BY DEF TypeOK, Counting
<1>2. bound /\ st \in {"cmd", "active"} /\ UNCHANGED <<driver, quirk, mutex, w, s, a, dev, past>>
  BY DEF Receive
<1>3. CASE st = "active" /\ LoseSync /\ UNCHANGED head  BY <1>1, <1>2, <1>3 DEF Lost
<1>4. CASE head' = h /\ Accept(c, oos)
  <2>1. c \in 1 .. PktSize + 1  BY <1>1
  <2>. QED  BY <1>1, <1>2, <1>4, <2>1, Accepted
<1>5. CASE h /\ c = 1 /\ head' = h /\ cnt' = c /\ age' = 0 /\ UNCHANGED <<st, oos, work, req>>
  <2>1. Kept(1, oos)  BY <1>1, <1>5 DEF Kept
  <2>2. 1 \in 0 .. PktSize - 1  OBVIOUS
  <2>. QED  BY <1>1, <1>2, <1>5, <2>1, <2>2
<1>6. CASE Reannounce /\ UNCHANGED head  BY <1>1, <1>2, <1>6 DEF GivenUp
<1>7. CASE \E u \in Unannounced : head' = (IF u[1] = 0 THEN b = "bat" ELSE head)
        /\ Accept(u[1] + 1, u[2])
  <2>1. PICK u \in Unannounced : head' = (IF u[1] = 0 THEN b = "bat" ELSE head)
          /\ Accept(u[1] + 1, u[2])
    BY <1>7
  <2>2. u[1] \in {0, 1} /\ u[2] \in 0 .. ResetAfter /\ (ResetAfter > 0 => u[2] < ResetAfter)
    <3>1. CASE u = <<0, oos>> \/ u = <<1, oos>>  BY <1>1, <3>1
    <3>2. CASE u = <<0, Worse(oos)>> /\ ~Exhausted(oos)
      BY <1>1, <3>2 DEF Worse, Exhausted, Counted
    <3>. QED  BY <2>1, <3>1, <3>2 DEF Unannounced
  <2>3. u[1] + 1 \in 1 .. PktSize + 1  BY <2>2
  <2>. QED  BY <1>1, <1>2, <2>1, <2>2, <2>3, Accepted
<1>. QED  BY <1>3, <1>4, <1>5, <1>6, <1>7 DEF Receive

\* The records keep to their types field by field.
WorkType ==
  [pc : {"idle", "lock", "disable", "poll", "load", "store", "parse",
         "back", "enable", "end", "reconnect", "unlock"},
   i : 0 .. PktSize, v : 0 .. PktSize, failed : BOOLEAN]
SerioType ==
  [pc : {"idle", "r_lock", "r_probe", "cmd", "activate", "unlock",
         "d_files", "d_disable", "d_sync", "d_handler", "d_free",
         "d_ignore", "d_close", "off", "c_lock", "c_probe", "c_cmd",
         "c_register", "c_undo"},
   again : BOOLEAN]
AttrType ==
  [pc : {"idle", "lock", "deactivate", "free", "ignore", "switch",
         "register", "activate", "unlock"}, kind : {"rate", "protocol", "rollback"}]
QuirkType == [n : 0 .. 3, acks : BOOLEAN]
DevType == [on : BOOLEAN, native : BOOLEAN]

\* The values the steps assign outright are of these types.
LEMMA Fresh ==
  /\ [pc |-> "d_files", again |-> TRUE] \in SerioType
  /\ [pc |-> "d_files", again |-> FALSE] \in SerioType
  /\ [pc |-> "c_lock", again |-> TRUE] \in SerioType
  /\ [on |-> FALSE, native |-> TRUE] \in DevType
  /\ [on |-> FALSE, native |-> FALSE] \in DevType
  /\ [n |-> 0, acks |-> FALSE] \in QuirkType
  BY DEF SerioType, DevType, QuirkType

LEMMA NoWorkType == NoWork \in WorkType /\ [NoWork EXCEPT !.pc = "lock"] \in WorkType
<1>1. NoWork \in WorkType  BY SizeAssumption DEF NoWork, WorkType
<1>. QED  BY <1>1 DEF WorkType

\* The work keeps Base.
LEMMA WorkBase ==
  ASSUME Base, Work
  PROVE  Base'
<1>. USE SizeAssumption, ParameterAssumption DEF Base, packet, driver, SetState, Release, WGo,
       SGo, AGo, States, SerioHolds, Gone, Connecting
<1>1. CASE WStart
  <2>1. TypeOK'
    <3>1. w' \in WorkType  BY <1>1, NoWorkType DEF WStart
    <3>. QED  BY <1>1, <3>1 DEF WStart, TypeOK, WorkType
  <2>2. Owners'  BY <1>1 DEF WStart, TypeOK, Owners
  <2>3. Counting'  BY <1>1 DEF WStart, TypeOK, Counting, Verdicts
  <2>4. Lifecycle'  BY <1>1 DEF WStart, TypeOK, Owners, Lifecycle
  <2>5. Places'  BY <1>1 DEF WStart, TypeOK, Owners, Places
  <2>6. Pending'  BY <1>1 DEF WStart, TypeOK, Owners, Places, Pending
  <2>. QED  BY <2>1, <2>2, <2>3, <2>4, <2>5, <2>6
<1>2. CASE WLock
  <2>1. TypeOK'  BY <1>2, Spent DEF WLock, TypeOK, Verdicts, Counting, Events
  <2>2. Owners'  BY <1>2 DEF WLock, TypeOK, Owners
  <2>3. Counting'  BY <1>2 DEF WLock, TypeOK, Counting, Verdicts
  <2>4. Lifecycle'  BY <1>2 DEF WLock, TypeOK, Owners, Lifecycle
  <2>5. Places'  BY <1>2 DEF WLock, TypeOK, Owners, Places
  <2>6. Pending'  BY <1>2 DEF WLock, TypeOK, Owners, Places, Pending
  <2>. QED  BY <2>1, <2>2, <2>3, <2>4, <2>5, <2>6
<1>3. CASE WDisable
  <2>1. TypeOK'
    <3>1. w \in WorkType /\ quirk \in QuirkType /\ dev \in DevType
      BY DEF TypeOK, WorkType, QuirkType, DevType
    <3>2. w' \in WorkType  BY <1>3, <3>1 DEF WDisable, WorkType
    <3>3. quirk' \in QuirkType  BY <1>3, <3>1 DEF WDisable, QuirkType
    <3>4. dev' \in DevType  BY <1>3, <3>1 DEF WDisable, DevType
    <3>. QED  BY <1>3, <3>2, <3>3, <3>4 DEF WDisable, TypeOK, WorkType, QuirkType, DevType
  <2>2. Owners'  BY <1>3 DEF WDisable, TypeOK, Owners
  <2>3. Counting'  BY <1>3 DEF WDisable, TypeOK, Counting, Verdicts
  <2>4. Lifecycle'  BY <1>3 DEF WDisable, TypeOK, Owners, Lifecycle
  <2>5. Places'  BY <1>3 DEF WDisable, TypeOK, Owners, Places
  <2>6. Pending'  BY <1>3 DEF WDisable, TypeOK, Owners, Places, Pending
  <2>. QED  BY <2>1, <2>2, <2>3, <2>4, <2>5, <2>6
<1>4. CASE WPoll
  <2>1. TypeOK'
    <3>1. w' \in WorkType  BY <1>4 DEF WPoll, TypeOK, WorkType
    <3>. QED  BY <1>4, <3>1 DEF WPoll, TypeOK, WorkType
  <2>2. Owners'  BY <1>4 DEF WPoll, TypeOK, Owners
  <2>3. Counting'
    <3>1. w \in WorkType  BY DEF TypeOK, WorkType
    <3>2. w'.pc \in {"load", "enable"}  BY <1>4, <3>1 DEF WPoll, WorkType
    <3>3. (cnt' = 0 /\ oos' = 0) \/ (cnt' = cnt /\ oos' = oos)
      <4>1. UNCHANGED packet => cnt' = cnt /\ oos' = oos  BY DEF packet
      <4>. HIDE DEF packet
      <4>2. CASE SetState("cmd")  BY <4>2 DEF SetState
      <4>3. CASE UNCHANGED <<packet, head>>  BY <4>1, <4>3
      <4>. QED  BY <1>4, <4>2, <4>3 DEF WPoll
    <3>. QED  BY <1>4, <3>2, <3>3, SizeAssumption DEF WPoll, Counting, TypeOK
  <2>4. Lifecycle'  BY <1>4 DEF WPoll, TypeOK, Owners, Lifecycle
  <2>5. Places'  BY <1>4 DEF WPoll, TypeOK, Owners, Places
  <2>6. Pending'  BY <1>4 DEF WPoll, TypeOK, Owners, Places, Pending
  <2>. QED  BY <2>1, <2>2, <2>3, <2>4, <2>5, <2>6
<1>5. CASE WLoad
  <2>1. TypeOK'
    <3>1. cnt \in 0 .. PktSize  BY DEF TypeOK, Counting
    <3>2. w' \in WorkType  BY <1>5, <3>1 DEF WLoad, TypeOK, WorkType
    <3>. QED  BY <1>5, <3>2 DEF WLoad, TypeOK, WorkType
  <2>2. Owners'  BY <1>5 DEF WLoad, TypeOK, Owners
  <2>3. Counting'  BY <1>5 DEF WLoad, TypeOK, Counting, Verdicts
  <2>4. Lifecycle'  BY <1>5 DEF WLoad, TypeOK, Owners, Lifecycle
  <2>5. Places'  BY <1>5 DEF WLoad, TypeOK, Owners, Places
  <2>6. Pending'  BY <1>5 DEF WLoad, TypeOK, Owners, Places, Pending
  <2>. QED  BY <2>1, <2>2, <2>3, <2>4, <2>5, <2>6
<1>6. CASE WStore
  <2>1. TypeOK'  BY <1>6, Spent DEF WStore, TypeOK, Verdicts, Counting, Events
  <2>2. Owners'  BY <1>6 DEF WStore, TypeOK, Owners
  <2>3. Counting'  BY <1>6 DEF WStore, TypeOK, Counting, Verdicts
  <2>4. Lifecycle'  BY <1>6 DEF WStore, TypeOK, Owners, Lifecycle
  <2>5. Places'  BY <1>6 DEF WStore, TypeOK, Owners, Places
  <2>6. Pending'  BY <1>6 DEF WStore, TypeOK, Owners, Places, Pending
  <2>. QED  BY <2>1, <2>2, <2>3, <2>4, <2>5, <2>6
<1>7. CASE WParse
  <2>1. TypeOK'
    <3>1. PICK r \in Verdicts(cnt) :
            w' = IF r = "good" /\ w.i + 1 < PktSize
                 THEN [w EXCEPT !.pc = "load", !.i = @ + 1]
                 ELSE [w EXCEPT !.pc = "back", !.failed = r # "full"]
      BY <1>7 DEF WParse
    <3>2. w \in WorkType  BY DEF TypeOK, WorkType
    <3>3. ASSUME r = "good" /\ w.i + 1 < PktSize  PROVE w' \in WorkType
      <4>1. w' = [w EXCEPT !.pc = "load", !.i = @ + 1]  BY <3>1, <3>3
      <4>2. w.i + 1 \in 0 .. PktSize  BY <3>2, <3>3 DEF WorkType
      <4>. QED  BY <3>2, <4>1, <4>2 DEF WorkType
    <3>4. ASSUME ~(r = "good" /\ w.i + 1 < PktSize)  PROVE w' \in WorkType
      <4>1. w' = [w EXCEPT !.pc = "back", !.failed = r # "full"]  BY <3>1, <3>4
      <4>. QED  BY <3>2, <4>1 DEF WorkType
    <3>5. w' \in WorkType  BY <3>3, <3>4
    <3>. QED  BY <1>7, <3>5 DEF WParse, TypeOK, WorkType
  <2>2. Owners'  BY <1>7 DEF WParse, TypeOK, Owners
  <2>3. Counting'  BY <1>7 DEF WParse, TypeOK, Counting, Verdicts
  <2>4. Lifecycle'  BY <1>7 DEF WParse, TypeOK, Owners, Lifecycle
  <2>5. Places'  BY <1>7 DEF WParse, TypeOK, Owners, Places
  <2>6. Pending'  BY <1>7 DEF WParse, TypeOK, Owners, Places, Pending
  <2>. QED  BY <2>1, <2>2, <2>3, <2>4, <2>5, <2>6
<1>8. CASE WBack
  <2>1. TypeOK'  BY <1>8, Spent DEF WBack, TypeOK, Verdicts, Counting, Events
  <2>2. Owners'  BY <1>8 DEF WBack, TypeOK, Owners
  <2>3. Counting'  BY <1>8 DEF WBack, TypeOK, Counting, Verdicts
  <2>4. Lifecycle'  BY <1>8 DEF WBack, TypeOK, Owners, Lifecycle
  <2>5. Places'  BY <1>8 DEF WBack, TypeOK, Owners, Places
  <2>6. Pending'  BY <1>8 DEF WBack, TypeOK, Owners, Places, Pending
  <2>. QED  BY <2>1, <2>2, <2>3, <2>4, <2>5, <2>6
<1>9. CASE WEnable
  <2>1. TypeOK'
    <3>1. w \in WorkType /\ dev \in DevType  BY DEF TypeOK, WorkType, DevType
    <3>2. w' \in WorkType  BY <1>9, <3>1 DEF WEnable, WorkType
    <3>3. dev' \in DevType  BY <1>9, <3>1 DEF WEnable, DevType
    <3>4. past' \in [Events -> Nat]  BY <1>9, Spent DEF WEnable, TypeOK, Events
    <3>. QED  BY <1>9, <3>2, <3>3, <3>4 DEF WEnable, TypeOK, WorkType, DevType
  <2>2. Owners'  BY <1>9 DEF WEnable, TypeOK, Owners
  <2>3. Counting'  BY <1>9 DEF WEnable, TypeOK, Counting, Verdicts
  <2>4. Lifecycle'  BY <1>9 DEF WEnable, TypeOK, Owners, Lifecycle
  <2>5. Places'  BY <1>9 DEF WEnable, TypeOK, Owners, Places
  <2>6. Pending'  BY <1>9 DEF WEnable, TypeOK, Owners, Places, Pending
  <2>. QED  BY <2>1, <2>2, <2>3, <2>4, <2>5, <2>6
<1>10. CASE WEnd
  <2>1. TypeOK'  BY <1>10, Spent DEF WEnd, TypeOK, Verdicts, Counting, Events
  <2>2. Owners'  BY <1>10 DEF WEnd, TypeOK, Owners
  <2>3. Counting'  BY <1>10 DEF WEnd, TypeOK, Counting, Verdicts
  <2>4. Lifecycle'  BY <1>10 DEF WEnd, TypeOK, Owners, Lifecycle
  <2>5. Places'  BY <1>10 DEF WEnd, TypeOK, Owners, Places
  <2>6. Pending'  BY <1>10 DEF WEnd, TypeOK, Owners, Places, Pending
  <2>. QED  BY <2>1, <2>2, <2>3, <2>4, <2>5, <2>6
<1>11. CASE WReconnect
  <2>1. TypeOK'  BY <1>11, Spent DEF WReconnect, TypeOK, Verdicts, Counting, Events
  <2>2. Owners'  BY <1>11 DEF WReconnect, TypeOK, Owners
  <2>3. Counting'  BY <1>11 DEF WReconnect, TypeOK, Counting, Verdicts
  <2>4. Lifecycle'  BY <1>11 DEF WReconnect, TypeOK, Owners, Lifecycle
  <2>5. Places'  BY <1>11 DEF WReconnect, TypeOK, Owners, Places
  <2>6. Pending'  BY <1>11 DEF WReconnect, TypeOK, Owners, Places, Pending
  <2>. QED  BY <2>1, <2>2, <2>3, <2>4, <2>5, <2>6
<1>12. CASE WUnlock
  <2>w. w'.pc = "idle" /\ w' \in WorkType  BY <1>12, NoWorkType DEF WUnlock, NoWork
  <2>1. TypeOK'  BY <1>12, <2>w DEF WUnlock, TypeOK, WorkType
  <2>2. Owners'  BY <1>12, <2>w DEF WUnlock, TypeOK, Owners
  <2>3. Counting'  BY <1>12, <2>w DEF WUnlock, TypeOK, Counting, Verdicts
  <2>4. Lifecycle'  BY <1>12, <2>w DEF WUnlock, TypeOK, Owners, Lifecycle
  <2>5. Places'  BY <1>12, <2>w DEF WUnlock, TypeOK, Owners, Places
  <2>6. Pending'  BY <1>12, <2>w DEF WUnlock, TypeOK, Owners, Places, Pending
  <2>. QED  BY <2>1, <2>2, <2>3, <2>4, <2>5, <2>6
<1>. QED  BY <1>1, <1>2, <1>3, <1>4, <1>5, <1>6, <1>7, <1>8, <1>9, <1>10, <1>11, <1>12 DEF Work

\* The serio thread keeps it.
LEMMA SerioBase ==
  ASSUME Base, Serio
  PROVE  Base'
<1>. USE SizeAssumption, ParameterAssumption
     DEF Base, packet, driver, SetState, Release, Take, SGo, AGo, States, SerioHolds, Gone,
         Connecting
<1>1. CASE STake
  <2>1. TypeOK'
    <3>1. s \in SerioType  BY DEF TypeOK, SerioType
    <3>2. s' \in SerioType  BY <1>1, <3>1 DEF STake, SerioType
    <3>f. req' \in BOOLEAN  BY <1>1 DEF STake, TypeOK
    <3>. QED
      BY <3>f, <1>1, <3>2
      DEF STake, TypeOK, SerioType
  <2>2. Owners'  BY <1>1 DEF STake, TypeOK, Owners, Lifecycle
  <2>3. Counting'  BY <1>1 DEF STake, TypeOK, Counting
  <2>4. Lifecycle'  BY <1>1 DEF STake, TypeOK, Owners, Lifecycle
  <2>5. Places'  BY <1>1 DEF STake, TypeOK, Owners, Lifecycle, Places
  <2>6. Pending'  BY <1>1 DEF STake, TypeOK, Owners, Lifecycle, Places, Pending
  <2>. QED  BY <2>1, <2>2, <2>3, <2>4, <2>5, <2>6
<1>2. CASE RLock
  <2>1. TypeOK'  BY <1>2 DEF RLock, TypeOK
  <2>2. Owners'  BY <1>2 DEF RLock, TypeOK, Owners, Lifecycle
  <2>3. Counting'  BY <1>2 DEF RLock, TypeOK, Counting
  <2>4. Lifecycle'  BY <1>2 DEF RLock, TypeOK, Owners, Lifecycle
  <2>5. Places'  BY <1>2 DEF RLock, TypeOK, Owners, Lifecycle, Places
  <2>6. Pending'  BY <1>2 DEF RLock, TypeOK, Owners, Lifecycle, Places, Pending
  <2>. QED  BY <2>1, <2>2, <2>3, <2>4, <2>5, <2>6
<1>3. CASE RProbe
  <2>1. TypeOK'
    <3>1. s \in SerioType /\ dev \in DevType  BY DEF TypeOK, SerioType, DevType
    <3>2. SGo("cmd") => s' \in SerioType  BY <3>1 DEF SerioType
    <3>3. s' \in SerioType /\ dev' \in DevType
      <4>. HIDE DEF SGo
      <4>. QED  BY <1>3, <3>2, Fresh DEF RProbe
    <3>. QED
      BY <1>3, <3>2, <3>3
      DEF RProbe, TypeOK, SerioType, DevType
  <2>2. Owners'  BY <1>3 DEF RProbe, TypeOK, Owners, Lifecycle
  <2>3. Counting'  BY <1>3 DEF RProbe, TypeOK, Counting
  <2>4. Lifecycle'  BY <1>3 DEF RProbe, TypeOK, Owners, Lifecycle
  <2>5. Places'  BY <1>3 DEF RProbe, TypeOK, Owners, Lifecycle, Places
  <2>6. Pending'  BY <1>3 DEF RProbe, TypeOK, Owners, Lifecycle, Places, Pending
  <2>. QED  BY <2>1, <2>2, <2>3, <2>4, <2>5, <2>6
<1>4. CASE SCommandMode
  <2>1. TypeOK'  BY <1>4 DEF SCommandMode, TypeOK
  <2>2. Owners'  BY <1>4 DEF SCommandMode, TypeOK, Owners, Lifecycle
  <2>3. Counting'  BY <1>4 DEF SCommandMode, TypeOK, Counting
  <2>4. Lifecycle'  BY <1>4 DEF SCommandMode, TypeOK, Owners, Lifecycle
  <2>5. Places'  BY <1>4 DEF SCommandMode, TypeOK, Owners, Lifecycle, Places
  <2>6. Pending'  BY <1>4 DEF SCommandMode, TypeOK, Owners, Lifecycle, Places, Pending
  <2>. QED  BY <2>1, <2>2, <2>3, <2>4, <2>5, <2>6
<1>5. CASE SActivate
  <2>1. TypeOK'
    <3>1. s \in SerioType /\ dev \in DevType  BY DEF TypeOK, SerioType, DevType
    <3>2. s' \in SerioType  BY <1>5, <3>1 DEF SActivate, Command, SerioType
    <3>3. dev' \in DevType  BY <1>5, <3>1 DEF SActivate, Command, DevType
    <3>4. past' \in [Events -> Nat]  BY <1>5, Spent DEF SActivate, Command, TypeOK, Events
    <3>. QED
      BY <1>5, <3>2, <3>3, <3>4
      DEF SActivate, Command, TypeOK, SerioType, DevType
  <2>2. Owners'  BY <1>5 DEF SActivate, Command, TypeOK, Owners, Lifecycle
  <2>3. Counting'  BY <1>5 DEF SActivate, Command, TypeOK, Counting
  <2>4. Lifecycle'  BY <1>5 DEF SActivate, Command, TypeOK, Owners, Lifecycle
  <2>5. Places'  BY <1>5 DEF SActivate, Command, TypeOK, Owners, Lifecycle, Places
  <2>6. Pending'  BY <1>5 DEF SActivate, Command, TypeOK, Owners, Lifecycle, Places, Pending
  <2>. QED  BY <2>1, <2>2, <2>3, <2>4, <2>5, <2>6
<1>6. CASE SUnlock
  <2>1. TypeOK'  BY <1>6 DEF SUnlock, TypeOK
  <2>2. Owners'  BY <1>6 DEF SUnlock, TypeOK, Owners, Lifecycle
  <2>3. Counting'  BY <1>6 DEF SUnlock, TypeOK, Counting
  <2>4. Lifecycle'  BY <1>6 DEF SUnlock, TypeOK, Owners, Lifecycle
  <2>5. Places'  BY <1>6 DEF SUnlock, TypeOK, Owners, Lifecycle, Places
  <2>6. Pending'  BY <1>6 DEF SUnlock, TypeOK, Owners, Lifecycle, Places, Pending
  <2>. QED  BY <2>1, <2>2, <2>3, <2>4, <2>5, <2>6
<1>7. CASE DLock
  <2>1. TypeOK'  BY <1>7 DEF DLock, TypeOK
  <2>2. Owners'  BY <1>7 DEF DLock, TypeOK, Owners, Lifecycle
  <2>3. Counting'  BY <1>7 DEF DLock, TypeOK, Counting
  <2>4. Lifecycle'  BY <1>7 DEF DLock, TypeOK, Owners, Lifecycle
  <2>5. Places'  BY <1>7 DEF DLock, TypeOK, Owners, Lifecycle, Places
  <2>6. Pending'  BY <1>7 DEF DLock, TypeOK, Owners, Lifecycle, Places, Pending
  <2>. QED  BY <2>1, <2>2, <2>3, <2>4, <2>5, <2>6
<1>8. CASE DDisable
  <2>1. TypeOK'  BY <1>8 DEF DDisable, TypeOK
  <2>2. Owners'  BY <1>8 DEF DDisable, TypeOK, Owners, Lifecycle
  <2>3. Counting'  BY <1>8 DEF DDisable, TypeOK, Counting
  <2>4. Lifecycle'  BY <1>8 DEF DDisable, TypeOK, Owners, Lifecycle
  <2>5. Places'  BY <1>8 DEF DDisable, TypeOK, Owners, Lifecycle, Places
  <2>6. Pending'  BY <1>8 DEF DDisable, TypeOK, Owners, Lifecycle, Places, Pending
  <2>. QED  BY <2>1, <2>2, <2>3, <2>4, <2>5, <2>6
<1>9. CASE DSync
  <2>1. TypeOK'  BY <1>9 DEF DSync, TypeOK
  <2>2. Owners'  BY <1>9 DEF DSync, TypeOK, Owners, Lifecycle
  <2>3. Counting'  BY <1>9 DEF DSync, TypeOK, Counting
  <2>4. Lifecycle'  BY <1>9 DEF DSync, TypeOK, Owners, Lifecycle
  <2>5. Places'  BY <1>9 DEF DSync, TypeOK, Owners, Lifecycle, Places
  <2>6. Pending'  BY <1>9 DEF DSync, TypeOK, Owners, Lifecycle, Places, Pending
  <2>. QED  BY <2>1, <2>2, <2>3, <2>4, <2>5, <2>6
<1>10. CASE DHandler
  <2>1. TypeOK'
    <3>1. s \in SerioType  BY DEF TypeOK, SerioType
    <3>2. s' \in SerioType  BY <1>10, <3>1 DEF DHandler, SerioType
    <3>f. handler' \in BOOLEAN  BY <1>10 DEF DHandler, TypeOK
    <3>. QED
      BY <3>f, <1>10, <3>2
      DEF DHandler, TypeOK, SerioType
  <2>2. Owners'  BY <1>10 DEF DHandler, TypeOK, Owners, Lifecycle
  <2>3. Counting'  BY <1>10 DEF DHandler, TypeOK, Counting
  <2>4. Lifecycle'  BY <1>10 DEF DHandler, TypeOK, Owners, Lifecycle
  <2>5. Places'  BY <1>10 DEF DHandler, TypeOK, Owners, Lifecycle, Places
  <2>6. Pending'  BY <1>10 DEF DHandler, TypeOK, Owners, Lifecycle, Places, Pending
  <2>. QED  BY <2>1, <2>2, <2>3, <2>4, <2>5, <2>6
<1>11. CASE DFree
  <2>1. TypeOK'
    <3>1. s \in SerioType  BY DEF TypeOK, SerioType
    <3>2. s' \in SerioType  BY <1>11, <3>1 DEF DFree, SerioType
    <3>f. priv' \in BOOLEAN  BY <1>11 DEF DFree, TypeOK
    <3>. QED
      BY <3>f, <1>11, <3>2
      DEF DFree, TypeOK, SerioType
  <2>2. Owners'  BY <1>11 DEF DFree, TypeOK, Owners, Lifecycle
  <2>3. Counting'  BY <1>11 DEF DFree, TypeOK, Counting
  <2>4. Lifecycle'  BY <1>11 DEF DFree, TypeOK, Owners, Lifecycle
  <2>5. Places'  BY <1>11 DEF DFree, TypeOK, Owners, Lifecycle, Places
  <2>6. Pending'  BY <1>11 DEF DFree, TypeOK, Owners, Lifecycle, Places, Pending
  <2>. QED  BY <2>1, <2>2, <2>3, <2>4, <2>5, <2>6
<1>12. CASE DIgnore
  <2>1. TypeOK'  BY <1>12 DEF DIgnore, TypeOK
  <2>2. Owners'  BY <1>12 DEF DIgnore, TypeOK, Owners, Lifecycle
  <2>3. Counting'  BY <1>12 DEF DIgnore, TypeOK, Counting
  <2>4. Lifecycle'  BY <1>12 DEF DIgnore, TypeOK, Owners, Lifecycle
  <2>5. Places'  BY <1>12 DEF DIgnore, TypeOK, Owners, Lifecycle, Places
  <2>6. Pending'  BY <1>12 DEF DIgnore, TypeOK, Owners, Lifecycle, Places, Pending
  <2>. QED  BY <2>1, <2>2, <2>3, <2>4, <2>5, <2>6
<1>13. CASE DClose
  <2>1. TypeOK'
    <3>1. s \in SerioType  BY DEF TypeOK, SerioType
    <3>2. s' \in SerioType  BY <1>13, <3>1 DEF DClose, SerioType
    <3>f. bound' \in BOOLEAN  BY <1>13 DEF DClose, TypeOK
    <3>. QED
      BY <3>f, <1>13, <3>2
      DEF DClose, TypeOK, SerioType
  <2>2. Owners'  BY <1>13 DEF DClose, TypeOK, Owners, Lifecycle
  <2>3. Counting'  BY <1>13 DEF DClose, TypeOK, Counting
  <2>4. Lifecycle'  BY <1>13 DEF DClose, TypeOK, Owners, Lifecycle
  <2>5. Places'  BY <1>13 DEF DClose, TypeOK, Owners, Lifecycle, Places
  <2>6. Pending'  BY <1>13 DEF DClose, TypeOK, Owners, Lifecycle, Places, Pending
  <2>. QED  BY <2>1, <2>2, <2>3, <2>4, <2>5, <2>6
<1>14. CASE CLock
  <2>1. TypeOK'
    <3>1. s \in SerioType /\ quirk \in QuirkType  BY DEF TypeOK, SerioType, QuirkType
    <3>2. s' \in SerioType  BY <1>14, <3>1 DEF CLock, SerioType
    <3>3. quirk' \in QuirkType  BY <1>14, <3>1 DEF CLock, QuirkType
    <3>f. bound' \in BOOLEAN /\ handler' \in BOOLEAN /\ priv' \in BOOLEAN
      BY <1>14 DEF CLock, TypeOK
    <3>. QED
      BY <3>f, <1>14, <3>2, <3>3
      DEF CLock, TypeOK, SerioType, QuirkType
  <2>2. Owners'  BY <1>14 DEF CLock, TypeOK, Owners, Lifecycle
  <2>3. Counting'  BY <1>14 DEF CLock, TypeOK, Counting
  <2>4. Lifecycle'  BY <1>14 DEF CLock, TypeOK, Owners, Lifecycle
  <2>5. Places'  BY <1>14 DEF CLock, TypeOK, Owners, Lifecycle, Places
  <2>6. Pending'  BY <1>14 DEF CLock, TypeOK, Owners, Lifecycle, Places, Pending
  <2>. QED  BY <2>1, <2>2, <2>3, <2>4, <2>5, <2>6
<1>15. CASE CProbe
  <2>1. TypeOK'
    <3>1. s \in SerioType /\ dev \in DevType  BY DEF TypeOK, SerioType, DevType
    <3>2. s' \in SerioType  BY <1>15, <3>1 DEF CProbe, SerioType
    <3>3. dev' \in DevType  BY <1>15, <3>1, Fresh DEF CProbe
    <3>4. past' \in [Events -> Nat]  BY <1>15, Spent DEF CProbe, TypeOK, Events
    <3>f. bound' \in BOOLEAN /\ handler' \in BOOLEAN /\ priv' \in BOOLEAN
      BY <1>15 DEF CProbe, TypeOK
    <3>. QED
      BY <3>f, <1>15, <3>2, <3>3, <3>4
      DEF CProbe, TypeOK, SerioType, DevType
  <2>2. Owners'  BY <1>15 DEF CProbe, TypeOK, Owners, Lifecycle
  <2>3. Counting'  BY <1>15 DEF CProbe, TypeOK, Counting
  <2>4. Lifecycle'  BY <1>15 DEF CProbe, TypeOK, Owners, Lifecycle
  <2>5. Places'  BY <1>15 DEF CProbe, TypeOK, Owners, Lifecycle, Places
  <2>6. Pending'  BY <1>15 DEF CProbe, TypeOK, Owners, Lifecycle, Places, Pending
  <2>. QED  BY <2>1, <2>2, <2>3, <2>4, <2>5, <2>6
<1>16. CASE CRegister
  <2>1. TypeOK'
    <3>1. s \in SerioType  BY DEF TypeOK, SerioType
    <3>2. s' \in SerioType  BY <1>16, <3>1 DEF CRegister, SerioType
    <3>3. past' \in [Events -> Nat]  BY <1>16, Spent DEF CRegister, TypeOK, Events
    <3>f. priv' \in BOOLEAN  BY <1>16 DEF CRegister, TypeOK
    <3>. QED
      BY <3>f, <1>16, <3>2, <3>3
      DEF CRegister, TypeOK, SerioType
  <2>2. Owners'  BY <1>16 DEF CRegister, TypeOK, Owners, Lifecycle
  <2>3. Counting'  BY <1>16 DEF CRegister, TypeOK, Counting
  <2>4. Lifecycle'  BY <1>16 DEF CRegister, TypeOK, Owners, Lifecycle
  <2>5. Places'  BY <1>16 DEF CRegister, TypeOK, Owners, Lifecycle, Places
  <2>6. Pending'  BY <1>16 DEF CRegister, TypeOK, Owners, Lifecycle, Places, Pending
  <2>. QED  BY <2>1, <2>2, <2>3, <2>4, <2>5, <2>6
<1>17. CASE CUndo
  <2>1. TypeOK'
    <3>1. s \in SerioType  BY DEF TypeOK, SerioType
    <3>2. s' \in SerioType  BY <1>17, <3>1 DEF CUndo, SerioType
    <3>f. bound' \in BOOLEAN  BY <1>17 DEF CUndo, TypeOK
    <3>. QED
      BY <3>f, <1>17, <3>2
      DEF CUndo, TypeOK, SerioType
  <2>2. Owners'  BY <1>17 DEF CUndo, TypeOK, Owners, Lifecycle
  <2>3. Counting'  BY <1>17 DEF CUndo, TypeOK, Counting
  <2>4. Lifecycle'  BY <1>17 DEF CUndo, TypeOK, Owners, Lifecycle
  <2>5. Places'  BY <1>17 DEF CUndo, TypeOK, Owners, Lifecycle, Places
  <2>6. Pending'  BY <1>17 DEF CUndo, TypeOK, Owners, Lifecycle, Places, Pending
  <2>. QED  BY <2>1, <2>2, <2>3, <2>4, <2>5, <2>6
<1>. QED  BY <1>1, <1>2, <1>3, <1>4, <1>5, <1>6, <1>7, <1>8, <1>9, <1>10, <1>11, <1>12, <1>13,
             <1>14, <1>15, <1>16, <1>17 DEF Serio

\* So does the writer of an attribute.
LEMMA AttrBase ==
  ASSUME Base, Attr
  PROVE  Base'
<1>. USE SizeAssumption, ParameterAssumption
     DEF Base, packet, driver, SetState, Release, Take, SGo, AGo, States, SerioHolds, Gone,
         Connecting
<1>1. CASE ALock
  <2>1. TypeOK'  BY <1>1 DEF ALock, TypeOK
  <2>2. Owners'  BY <1>1 DEF ALock, TypeOK, Owners, Lifecycle
  <2>3. Counting'  BY <1>1 DEF ALock, TypeOK, Counting
  <2>4. Lifecycle'  BY <1>1 DEF ALock, TypeOK, Owners, Lifecycle
  <2>5. Places'  BY <1>1 DEF ALock, TypeOK, Owners, Lifecycle, Places
  <2>6. Pending'  BY <1>1 DEF ALock, TypeOK, Owners, Lifecycle, Places, Pending
  <2>. QED  BY <2>1, <2>2, <2>3, <2>4, <2>5, <2>6
<1>2. CASE ADeactivate
  <2>1. TypeOK'
    <3>1. a \in AttrType /\ dev \in DevType  BY DEF TypeOK, AttrType, DevType
    <3>2. a' \in AttrType  BY <1>2, <3>1 DEF ADeactivate, Command, AttrType
    <3>3. dev' \in DevType  BY <1>2, <3>1 DEF ADeactivate, Command, DevType
    <3>4. past' \in [Events -> Nat]  BY <1>2, Spent DEF ADeactivate, Command, TypeOK, Events
    <3>. QED
      BY <1>2, <3>2, <3>3, <3>4
      DEF ADeactivate, Command, TypeOK, AttrType, DevType
  <2>2. Owners'  BY <1>2 DEF ADeactivate, Command, TypeOK, Owners, Lifecycle
  <2>3. Counting'  BY <1>2 DEF ADeactivate, Command, TypeOK, Counting
  <2>4. Lifecycle'  BY <1>2 DEF ADeactivate, Command, TypeOK, Owners, Lifecycle
  <2>5. Places'  BY <1>2 DEF ADeactivate, Command, TypeOK, Owners, Lifecycle, Places
  <2>6. Pending'  BY <1>2 DEF ADeactivate, Command, TypeOK, Owners, Lifecycle, Places, Pending
  <2>. QED  BY <2>1, <2>2, <2>3, <2>4, <2>5, <2>6
<1>3. CASE AFree
  <2>1. TypeOK'
    <3>1. a \in AttrType  BY DEF TypeOK, AttrType
    <3>2. a' \in AttrType  BY <1>3, <3>1 DEF AFree, AttrType
    <3>f. priv' \in BOOLEAN  BY <1>3 DEF AFree, TypeOK
    <3>. QED
      BY <3>f, <1>3, <3>2
      DEF AFree, TypeOK, AttrType
  <2>2. Owners'  BY <1>3 DEF AFree, TypeOK, Owners, Lifecycle
  <2>3. Counting'  BY <1>3 DEF AFree, TypeOK, Counting
  <2>4. Lifecycle'  BY <1>3 DEF AFree, TypeOK, Owners, Lifecycle
  <2>5. Places'  BY <1>3 DEF AFree, TypeOK, Owners, Lifecycle, Places
  <2>6. Pending'  BY <1>3 DEF AFree, TypeOK, Owners, Lifecycle, Places, Pending
  <2>. QED  BY <2>1, <2>2, <2>3, <2>4, <2>5, <2>6
<1>4. CASE AIgnore
  <2>1. TypeOK'  BY <1>4 DEF AIgnore, TypeOK
  <2>2. Owners'  BY <1>4 DEF AIgnore, TypeOK, Owners, Lifecycle
  <2>3. Counting'  BY <1>4 DEF AIgnore, TypeOK, Counting
  <2>4. Lifecycle'  BY <1>4 DEF AIgnore, TypeOK, Owners, Lifecycle
  <2>5. Places'  BY <1>4 DEF AIgnore, TypeOK, Owners, Lifecycle, Places
  <2>6. Pending'  BY <1>4 DEF AIgnore, TypeOK, Owners, Lifecycle, Places, Pending
  <2>. QED  BY <2>1, <2>2, <2>3, <2>4, <2>5, <2>6
<1>5. CASE ASwitch
  <2>1. TypeOK'  BY <1>5 DEF ASwitch, TypeOK
  <2>2. Owners'  BY <1>5 DEF ASwitch, TypeOK, Owners, Lifecycle
  <2>3. Counting'  BY <1>5 DEF ASwitch, TypeOK, Counting
  <2>4. Lifecycle'  BY <1>5 DEF ASwitch, TypeOK, Owners, Lifecycle
  <2>5. Places'  BY <1>5 DEF ASwitch, TypeOK, Owners, Lifecycle, Places
  <2>6. Pending'  BY <1>5 DEF ASwitch, TypeOK, Owners, Lifecycle, Places, Pending
  <2>. QED  BY <2>1, <2>2, <2>3, <2>4, <2>5, <2>6
<1>6. CASE ARegister
  <2>1. TypeOK'  BY <1>6, Spent DEF ARegister, TypeOK, Events
  <2>2. Owners'  BY <1>6 DEF ARegister, TypeOK, Owners, Lifecycle
  <2>3. Counting'  BY <1>6 DEF ARegister, TypeOK, Counting
  <2>4. Lifecycle'  BY <1>6 DEF ARegister, TypeOK, Owners, Lifecycle
  <2>5. Places'  BY <1>6 DEF ARegister, TypeOK, Owners, Lifecycle, Places
  <2>6. Pending'  BY <1>6 DEF ARegister, TypeOK, Owners, Lifecycle, Places, Pending
  <2>. QED  BY <2>1, <2>2, <2>3, <2>4, <2>5, <2>6
<1>7. CASE AActivate
  <2>1. TypeOK'
    <3>1. a \in AttrType /\ dev \in DevType  BY DEF TypeOK, AttrType, DevType
    <3>2. a' \in AttrType  BY <1>7, <3>1 DEF AActivate, Command, AttrType
    <3>3. dev' \in DevType  BY <1>7, <3>1 DEF AActivate, Command, DevType
    <3>4. past' \in [Events -> Nat]  BY <1>7, Spent DEF AActivate, Command, TypeOK, Events
    <3>. QED
      BY <1>7, <3>2, <3>3, <3>4
      DEF AActivate, Command, TypeOK, AttrType, DevType
  <2>2. Owners'  BY <1>7 DEF AActivate, Command, TypeOK, Owners, Lifecycle
  <2>3. Counting'  BY <1>7 DEF AActivate, Command, TypeOK, Counting
  <2>4. Lifecycle'  BY <1>7 DEF AActivate, Command, TypeOK, Owners, Lifecycle
  <2>5. Places'  BY <1>7 DEF AActivate, Command, TypeOK, Owners, Lifecycle, Places
  <2>6. Pending'  BY <1>7 DEF AActivate, Command, TypeOK, Owners, Lifecycle, Places, Pending
  <2>. QED  BY <2>1, <2>2, <2>3, <2>4, <2>5, <2>6
<1>8. CASE AUnlock
  <2>1. TypeOK'  BY <1>8 DEF AUnlock, TypeOK
  <2>2. Owners'  BY <1>8 DEF AUnlock, TypeOK, Owners, Lifecycle
  <2>3. Counting'  BY <1>8 DEF AUnlock, TypeOK, Counting
  <2>4. Lifecycle'  BY <1>8 DEF AUnlock, TypeOK, Owners, Lifecycle
  <2>5. Places'  BY <1>8 DEF AUnlock, TypeOK, Owners, Lifecycle, Places
  <2>6. Pending'  BY <1>8 DEF AUnlock, TypeOK, Owners, Lifecycle, Places, Pending
  <2>. QED  BY <2>1, <2>2, <2>3, <2>4, <2>5, <2>6
<1>. QED  BY <1>1, <1>2, <1>3, <1>4, <1>5, <1>6, <1>7, <1>8 DEF Attr

\* What is left: bytes, the events of the mouse and of the users.
LEMMA EnvironmentBase ==
  ASSUME Base, Environment
  PROVE  Base'
<1>. USE SizeAssumption, ParameterAssumption DEF Base, SerioHolds, Gone, Connecting
<1>1. ASSUME NEW b \in Byte, Receive(b)  PROVE Base'
  <2>1. /\ GivenUp \/ Lost \/ \E n \in 0 .. PktSize - 1, q \in 0 .. ResetAfter : Kept(n, q)
        /\ head' \in BOOLEAN
        /\ bound /\ st \in {"cmd", "active"}
        /\ UNCHANGED <<driver, quirk, mutex, w, s, a, dev, past>>
    BY <1>1, Received
  <2>2. UNCHANGED <<handler, priv, bound, quirk, mutex, w, s, a, dev, past>>
    BY <2>1 DEF driver
  <2>3. CASE GivenUp
    <3>1. st' = "ignore" /\ cnt' = 0 /\ oos' = 0 /\ age' = 0 /\ req' = TRUE /\ work' = work
      BY <2>3 DEF GivenUp, Reannounce, SetState
    <3>2. TypeOK'  BY <2>1, <2>2, <3>1 DEF TypeOK, States
    <3>3. Owners' /\ Lifecycle'  BY <2>2, <3>1 DEF Owners, Lifecycle
    <3>4. Counting'  BY <2>2, <3>1 DEF Counting, TypeOK
    <3>5. Places'  BY <2>1, <2>2, <3>1 DEF Places
    <3>6. Pending'  BY <2>2, <3>1 DEF Pending
    <3>. QED  BY <3>2, <3>3, <3>4, <3>5, <3>6
  <2>4. CASE Lost
    <3>1. /\ st = "active" /\ st' = "resync" /\ cnt' = 0 /\ oos' = 0 /\ age' = 0 /\ req' = req
          /\ work' = IF work = "disabled" THEN work ELSE "queued"
      BY <2>4 DEF Lost, LoseSync, Queue, SetState
    <3>2. TypeOK'  BY <2>1, <2>2, <3>1 DEF TypeOK, States
    <3>3. Owners'  BY <2>2, <3>1 DEF Owners
    <3>4. Counting'  BY <2>2, <3>1 DEF Counting, TypeOK
    <3>5. Lifecycle'  BY <2>1, <2>2, <3>1 DEF Lifecycle, Places, Owners, TypeOK
    <3>6. Places'  BY <2>1, <2>2, <3>1 DEF Places
    <3>7. Pending'  BY <2>2, <3>1 DEF Pending
    <3>. QED  BY <3>2, <3>3, <3>4, <3>5, <3>6, <3>7
  <2>5. CASE \E n \in 0 .. PktSize - 1, q \in 0 .. ResetAfter : Kept(n, q)
    <3>1. PICK n \in 0 .. PktSize - 1, q \in 0 .. ResetAfter : Kept(n, q)
      BY <2>5
    <3>2. /\ st' = st /\ work' = work /\ req' = req /\ cnt' = n /\ oos' = q
          /\ n \in 0 .. PktSize - 1 /\ (ResetAfter > 0 => q < ResetAfter) /\ age' \in 0 .. 2
      BY <3>1 DEF Kept
    <3>3. TypeOK'  BY <2>1, <2>2, <3>2 DEF TypeOK
    <3>4. Owners' /\ Lifecycle'  BY <2>2, <3>2 DEF Owners, Lifecycle
    <3>5. Counting'  BY <2>2, <3>2 DEF Counting, TypeOK
    <3>6. Places' /\ Pending'  BY <2>2, <3>2 DEF Places, Pending
    <3>. QED  BY <3>3, <3>4, <3>5, <3>6
  <2>. QED  BY <2>1, <2>3, <2>4, <2>5
<1>2. ASSUME NEW k \in Writes, AWrite(k)  PROVE Base'
  <2>1. a'.pc = "lock" /\ a' \in AttrType  BY <1>2 DEF AWrite, AttrType
  <2>2. UNCHANGED <<st, cnt, oos, age, head, handler, priv, bound, quirk, work, req, mutex, w, s,
          dev, past>>
    BY <1>2 DEF AWrite, packet, driver
  <2>3. TypeOK'  BY <2>1, <2>2 DEF TypeOK, AttrType
  <2>4. a.pc = "idle" /\ s.pc \in {"idle", "r_lock", "r_probe"}  BY <1>2 DEF AWrite
  <2>. QED  BY <2>1, <2>2, <2>3, <2>4 DEF Owners, Counting, Lifecycle, Places, Pending
<1>3. CASE Reset
  <2>1. UNCHANGED <<st, cnt, oos, age, head, handler, priv, bound, quirk, work, req, mutex, w, s,
          a>>
    BY <1>3 DEF Reset, packet, driver
  <2>2. dev' \in DevType /\ past' \in [Events -> Nat]
    BY <1>3, Spent, Fresh DEF Reset, TypeOK, Events
  <2>3. TypeOK'  BY <2>1, <2>2 DEF TypeOK, DevType
  <2>. QED  BY <2>1, <2>3 DEF Owners, Counting, Lifecycle, Places, Pending
<1>4. CASE Tick
  <2>1. UNCHANGED <<st, cnt, oos, head, handler, priv, bound, quirk, work, req, mutex, w, s, a,
          dev, past>>
    BY <1>4 DEF Tick, driver
  <2>2. age' \in 0 .. 2  BY <1>4 DEF Tick, TypeOK
  <2>3. TypeOK'  BY <2>1, <2>2 DEF TypeOK
  <2>. QED  BY <2>1, <2>3 DEF Owners, Counting, Lifecycle, Places, Pending
<1>5. CASE Unbind \/ Bind
  <2>1. UNCHANGED <<st, cnt, oos, age, head, handler, priv, bound, quirk, work, req, mutex, w, a,
          dev>>
    BY <1>5 DEF Unbind, Bind, packet, driver
  <2>2. s' \in SerioType /\ past' \in [Events -> Nat]
    BY <1>5, Spent, Fresh DEF Unbind, Bind, TypeOK, Events
  <2>3. TypeOK'  BY <2>1, <2>2 DEF TypeOK, SerioType
  <2>4. (s.pc = "idle" /\ s'.pc = "d_files") \/ (s.pc = "off" /\ s'.pc = "c_lock")
    <3>1. CASE Unbind  BY <3>1 DEF Unbind
    <3>2. CASE Bind  BY <3>2 DEF Bind
    <3>. QED  BY <1>5, <3>1, <3>2
  <2>. QED  BY <2>1, <2>3, <2>4 DEF Owners, Counting, Lifecycle, Places, Pending
<1>. QED  BY <1>1, <1>2, <1>3, <1>4, <1>5 DEF Environment

LEMMA InitBase == Init => Base
<1>. SUFFICES ASSUME Init  PROVE Base
  OBVIOUS
<1>1. TypeOK
  <2>1. w \in WorkType /\ s \in SerioType /\ quirk \in QuirkType /\ dev \in DevType
    BY NoWorkType, Fresh DEF Init
  <2>2. a \in AttrType /\ past \in [Events -> Nat]  BY DEF Init, AttrType
  <2>3. head \in BOOLEAN /\ handler \in BOOLEAN /\ priv \in BOOLEAN /\ bound \in BOOLEAN
        /\ req \in BOOLEAN
    BY DEF Init
  <2>. QED
    BY <2>1, <2>2, <2>3, SizeAssumption, ParameterAssumption
    DEF Init, TypeOK, States, WorkType, SerioType, QuirkType, DevType, AttrType
<1>2. w.pc = "idle"  BY DEF Init, NoWork
<1>. QED
  BY <1>1, <1>2, SizeAssumption, ParameterAssumption
  DEF Init, Base, Owners, Counting, Lifecycle, Places, Pending, SerioHolds, Gone, Connecting

LEMMA BaseStep == Base /\ [Next]_vars => Base'
<1>. SUFFICES ASSUME Base, [Next]_vars  PROVE Base'
  OBVIOUS
<1>1. CASE UNCHANGED vars
  BY <1>1 DEF vars, packet, driver, Base, TypeOK, Owners, Counting, Lifecycle, Places, Pending
<1>. QED  BY <1>1, EnvironmentBase, WorkBase, SerioBase, AttrBase DEF Next

\* In every reachable state the variables keep to their types, each flag and mutex
\* has the owner its thread is at, and the port's state is one of those its serio
\* thread can find at its step: the invariant the theorems below rest on.
THEOREM PortBase == Spec => []Base
<1>. QED  BY InitBase, BaseStep, PTL DEF Spec

-----------------------------------------------------------------------------
\* The variables keep to their types: the port goes through the states of
\* enum psmouse_state only, with the counters of a packet in their bounds.
THEOREM PortTypes == Spec => []TypeOK
<1>1. Base => TypeOK  BY DEF Base
<1>. QED  BY <1>1, PortBase, PTL

\* A byte is stored inside the array whoever else counts in pktcnt, for the protocols
\* whose packets are shorter than the array.
THEOREM PortPacketInArray ==
  ASSUME PktSize < ArraySize
  PROVE  Spec => []PacketInArray
<1>1. Base => PacketInArray
  BY SizeAssumption DEF Base, TypeOK, Counting, PacketInArray
<1>. QED  BY <1>1, PortBase, PTL

\* Neither the interrupt handler nor the work calls a protocol that is being freed.
THEOREM PortNoUseAfterFree == Spec => []NoUseAfterFree
<1>1. Base => NoUseAfterFree
  BY DEF Base, Lifecycle, NoUseAfterFree, MayCall, Gone, Connecting
<1>. QED  BY <1>1, PortBase, PTL

\* A port that ignores bytes is always due to be resynchronised or reconnected.
THEOREM PortNeverStranded == Spec => []NeverStranded
<1>1. Base => NeverStranded
  BY DEF Base, TypeOK, Lifecycle, Pending, NeverStranded, WillResync, WillReconnect, Gone
<1>. QED  BY <1>1, PortBase, PTL

-----------------------------------------------------------------------------
(* At most one command fails. *)

OneFails == \A b \in Budgets : b["fail"] <= 1

LEMMA FirstFailure ==
  ASSUME OneFails, TypeOK, Spend("fail")
  PROVE  past["fail"] = 0 /\ past'["fail"] = 1
<1>1. PICK b \in Budgets : \A k \in Events : past'[k] <= b[k]
  BY DEF Spend
<1>2. past["fail"] \in Nat /\ past'["fail"] = past["fail"] + 1
  BY Spent DEF TypeOK, Events
<1>3. b["fail"] \in Nat /\ b["fail"] <= 1 /\ past'["fail"] <= b["fail"]
  BY <1>1, ParameterAssumption DEF OneFails, Events
<1>. QED  BY <1>2, <1>3

\* A step that leaves the mouse, the writer and the count of failures alone.
LEMMA StreamingKept ==
  ASSUME Streaming, dev' = dev, a' = a, past'["fail"] = past["fail"],
         st' \in {st, "ignore", "init", "cmd", "resync"},
         w'.pc = "end" => w' = w
  PROVE  Streaming'
  BY DEF Streaming

\* Where the port is not active, only the work that is about to end matters.
LEMMA NotActive ==
  ASSUME st' # "active", w'.pc = "end" => w'.failed \/ dev'.on \/ ~dev'.native
  PROVE  Streaming'
  BY DEF Streaming

LEMMA WorkStreaming ==
  ASSUME Base, Streaming, OneFails, Work
  PROVE  Streaming'
<1>. USE DEF Base, TypeOK, packet, SetState, Release, WGo
<1>1. CASE WStart
  <2>1. w'.pc = "lock"  BY <1>1, NoWorkType DEF WStart, WorkType, NoWork
  <2>. QED  BY <1>1, <2>1, StreamingKept DEF WStart
<1>2. CASE WLock  BY <1>2, StreamingKept DEF WLock
<1>3. CASE WDisable
  <2>1. w'.pc \in {"poll", "enable"} /\ st' = "resync"  BY <1>3 DEF WDisable, Places
  <2>. QED  BY <2>1, NotActive
<1>4. CASE WPoll
  <2>1. w'.pc \in {"load", "enable"}  BY <1>4 DEF WPoll
  <2>2. st' # "active"  BY <1>4 DEF WPoll, Places
  <2>. QED  BY <2>1, <2>2, NotActive
<1>5. CASE WLoad \/ WStore \/ WParse \/ WBack
  <2>1. w'.pc # "end"  BY <1>5 DEF WLoad, WStore, WParse, WBack
  <2>2. st' # "active"  BY <1>5 DEF WLoad, WStore, WParse, WBack, Places
  <2>. QED  BY <2>1, <2>2, NotActive
<1>6. CASE WEnable
  <2>1. st' = "resync"  BY <1>6 DEF WEnable, Places
  <2>2. w'.failed \/ dev'.on  BY <1>6 DEF WEnable
  <2>. QED  BY <2>1, <2>2, NotActive
<1>7. CASE WEnd
  <2>1. w'.pc # "end" /\ dev' = dev /\ a' = a  BY <1>7 DEF WEnd
  <2>2. a.pc # "activate"  BY <1>7 DEF WEnd, Owners
  <2>3. st' = "active" => ~w.failed  BY <1>7 DEF WEnd
  <2>4. w.pc = "end"  BY <1>7 DEF WEnd
  <2>. QED  BY <2>1, <2>2, <2>3, <2>4 DEF Streaming
<1>8. CASE WReconnect  BY <1>8, StreamingKept DEF WReconnect
<1>9. CASE WUnlock
  <2>1. w'.pc = "idle"  BY <1>9 DEF WUnlock, NoWork
  <2>. QED  BY <1>9, <2>1, StreamingKept DEF WUnlock
<1>. QED  BY <1>1, <1>2, <1>3, <1>4, <1>5, <1>6, <1>7, <1>8, <1>9 DEF Work

LEMMA SerioStreaming ==
  ASSUME Base, Streaming, OneFails, Serio
  PROVE  Streaming'
<1>. USE DEF Base, TypeOK, packet, SetState, Release, Take, SGo
<1>1. CASE STake \/ SUnlock \/ DDisable \/ DSync \/ DHandler \/ DFree \/ DClose
  BY <1>1, StreamingKept DEF STake, SUnlock, DDisable, DSync, DHandler, DFree, DClose
<1>2. CASE RLock \/ SCommandMode \/ DLock \/ DIgnore \/ CLock \/ CUndo
  BY <1>2, StreamingKept DEF RLock, SCommandMode, DLock, DIgnore, CLock, CUndo
<1>3. CASE RProbe \/ CProbe
  <2>1. st' = "init" /\ w'.pc # "end"
    BY <1>3 DEF RProbe, CProbe, Places, Owners, SerioHolds
  <2>. QED  BY <2>1, NotActive
<1>4. CASE SActivate
  <2>1. w'.pc # "end" /\ a' = a /\ a.pc # "activate"
    BY <1>4 DEF SActivate, Owners, SerioHolds
  <2>2. st' = "active" => dev'.on  BY <1>4 DEF SActivate, Command, Places
  <2>. QED  BY <2>1, <2>2 DEF Streaming
<1>5. CASE CRegister
  <2>1. st' # "active" /\ w'.pc # "end"
    BY <1>5 DEF CRegister, Places, Owners, SerioHolds
  <2>. QED  BY <2>1, NotActive
<1>. QED  BY <1>1, <1>2, <1>3, <1>4, <1>5 DEF Serio

LEMMA AttrStreaming ==
  ASSUME Base, Streaming, OneFails, Attr
  PROVE  Streaming'
<1>. USE DEF Base, TypeOK, packet, SetState, Release, AGo
<1>w. a.pc # "lock" => w.pc \in {"idle", "lock"}
  BY DEF Attr, ALock, ADeactivate, AFree, AIgnore, ASwitch, ARegister, AActivate, AUnlock, Owners
<1>1. CASE ALock
  <2>1. a.pc = "lock" /\ a'.pc # "activate"  BY <1>1 DEF ALock
  <2>. QED  BY <1>1, <2>1 DEF ALock, Streaming
<1>2. CASE ADeactivate
  <2>1. w' = w /\ w.pc # "end" /\ a'.pc \in {"free", "activate"}
    BY <1>2, <1>w DEF ADeactivate
  <2>2. CASE st' = "cmd"  BY <2>1, <2>2, NotActive
  <2>3. CASE Spend("fail")
    <3>1. past'["fail"] = 1  BY <2>3, FirstFailure
    <3>. QED  BY <2>1, <3>1 DEF Streaming
  <2>. QED  BY <1>2, <2>2, <2>3 DEF ADeactivate, Command
<1>3. CASE AFree
  <2>1. a'.pc = "ignore"  BY <1>3 DEF AFree
  <2>. QED  BY <1>3, <2>1 DEF AFree, Streaming
<1>4. CASE AIgnore \/ ASwitch \/ ARegister
  <2>1. w' = w /\ w.pc # "end"  BY <1>4, <1>w DEF AIgnore, ASwitch, ARegister
  <2>2. st' # "active"  BY <1>4 DEF AIgnore, ASwitch, ARegister, Places
  <2>. QED  BY <2>1, <2>2, NotActive
<1>5. CASE AActivate
  <2>1. w' = w /\ w.pc # "end" /\ a'.pc = "unlock" /\ a.pc = "activate"
    BY <1>5, <1>w DEF AActivate
  <2>2. CASE dev' = [dev EXCEPT !.on = TRUE]  BY <2>1, <2>2 DEF Streaming
  <2>3. CASE Spend("fail") /\ UNCHANGED packet
    <3>1. past["fail"] = 0  BY <2>3, FirstFailure
    <3>2. st # "active"  BY <2>1, <3>1 DEF Streaming
    <3>3. st' # "active"  BY <2>3, <3>2
    <3>. QED  BY <2>1, <3>3, NotActive
  <2>. QED  BY <1>5, <2>2, <2>3 DEF AActivate, Command
<1>6. CASE AUnlock
  <2>1. a.pc = "unlock" /\ a'.pc = "idle"  BY <1>6 DEF AUnlock
  <2>. QED  BY <1>6, <2>1 DEF AUnlock, Streaming
<1>. QED  BY <1>1, <1>2, <1>3, <1>4, <1>5, <1>6 DEF Attr

LEMMA EnvironmentStreaming ==
  ASSUME Base, Streaming, OneFails, Environment
  PROVE  Streaming'
<1>1. ASSUME NEW b \in Byte, Receive(b)  PROVE Streaming'
  <2>1. UNCHANGED <<w, a, dev, past>>  BY <1>1, Received DEF Base
  <2>2. GivenUp \/ Lost \/ \E n \in 0 .. PktSize - 1, q \in 0 .. ResetAfter : Kept(n, q)
    BY <1>1, Received DEF Base
  <2>3. st' \in {st, "ignore", "resync"}
    BY <2>2 DEF GivenUp, Lost, Kept, Reannounce, LoseSync, SetState
  <2>. QED  BY <2>1, <2>3, StreamingKept
<1>2. ASSUME NEW k \in Writes, AWrite(k)  PROVE Streaming'
  <2>1. UNCHANGED <<st, dev, w, past>> /\ a.pc = "idle" /\ a'.pc = "lock"
    BY <1>2 DEF AWrite, packet
  <2>. QED  BY <2>1 DEF Streaming
<1>3. CASE Reset
  <2>1. ~dev'.native /\ past'["fail"] = past["fail"] /\ UNCHANGED <<st, w, a>>
    BY <1>3, Spent DEF Reset, packet, Base, TypeOK, Events
  <2>. QED  BY <2>1 DEF Streaming
<1>4. CASE Tick  BY <1>4, StreamingKept DEF Tick
<1>5. CASE Unbind \/ Bind
  <2>1. past'["fail"] = past["fail"] /\ UNCHANGED <<st, w, a, dev>>
    BY <1>5, Spent DEF Unbind, Bind, packet, Base, TypeOK, Events
  <2>. QED  BY <2>1, StreamingKept
<1>. QED  BY <1>1, <1>2, <1>3, <1>4, <1>5 DEF Environment

\* A port in use listens to a mouse that reports, unless the mouse was reset or two
\* commands failed: one failure on the way to a new attribute is made good.
THEOREM PortActiveIsStreaming ==
  ASSUME OneFails
  PROVE  Spec => []ActiveIsStreaming
<1>1. Init => Streaming  BY DEF Init, Streaming, NoWork
<1>2. Base /\ Streaming /\ [Next]_vars => Streaming'
  <2>1. ASSUME Base, Streaming, UNCHANGED vars  PROVE Streaming'
    BY <2>1, StreamingKept DEF vars, packet
  <2>. QED
    BY <2>1, WorkStreaming, SerioStreaming, AttrStreaming, EnvironmentStreaming DEF Next
<1>3. Base /\ Streaming => ActiveIsStreaming
  BY DEF Base, Owners, Streaming, ActiveIsStreaming
<1>. QED  BY <1>1, <1>2, <1>3, PortBase, PTL DEF Spec
=============================================================================
