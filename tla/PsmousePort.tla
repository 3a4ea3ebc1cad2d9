----------------------------- MODULE PsmousePort -----------------------------
(***************************************************************************)
(* One PS/2 port of drivers/input/mouse/psmouse-base.c: the interrupt      *)
(* handler that assembles packets and notices a lost synchronisation, the  *)
(* resync work, the serio thread that reconnects, disconnects and connects *)
(* the port, and a writer of its sysfs attributes.  psmouse_mutex          *)
(* serialises the threads; the interrupt handler is kept out only of       *)
(* psmouse_set_state() and other sections under serio_pause_rx().          *)
(*                                                                         *)
(* psmouse_disconnect() and psmouse_handle_byte() are the ones of backport *)
(* 0101.  A byte is 0xAA, 0x00 or any other; the verdict of a protocol is  *)
(* arbitrary except that a packet is full from PktSize bytes on.  The      *)
(* serio core serves every request it is given and removes the attributes  *)
(* of a port, waiting for their writers, before it disconnects it.         *)
(***************************************************************************)
EXTENDS Integers

CONSTANTS
  PktSize,     \* pktsize of the protocol
  ArraySize,   \* length of the array packet
  ResetAfter,  \* bad packets in a row before a reconnect, 0 for never
  ResyncTime,  \* whether a mouse long idle is polled before it is trusted
  Writes,      \* kinds of attribute that are written: "rate", "protocol"
  Budgets      \* how often each of Events may happen: any one of these

Events == {"fail", "unbind", "reset"}
ASSUME SizeAssumption == PktSize \in Nat /\ ArraySize \in Nat /\ 1 < PktSize /\ PktSize <= ArraySize
ASSUME ParameterAssumption ==
  /\ ResetAfter \in Nat /\ ResyncTime \in BOOLEAN /\ Writes \subseteq {"rate", "protocol"}
  /\ Budgets \subseteq [Events -> Nat]

VARIABLES
  st,      \* state
  cnt,     \* pktcnt
  head,    \* packet[0] is 0xAA
  oos,     \* out_of_sync_cnt, counted while ResetAfter is not 0
  age,     \* time since last: 0, 1 over HZ/2, 2 over resync_time
  handler, \* protocol_handler is not NULL
  priv,    \* the protocol's private data is allocated
  bound,   \* psmouse is allocated and the port open
  quirk,   \* num_resyncs, up to 3, and acks_disable_command
  work,    \* resync_work: "idle", "queued" or "disabled"
  req,     \* a reconnect of the port is due
  mutex,   \* owner of psmouse_mutex
  w,       \* the resync work: pc and locals
  s,       \* the serio thread: pc, and whether a connect follows
  a,       \* the writer of an attribute: pc, and which kind
  dev,     \* the mouse: reporting, and speaking the protocol
  past     \* failing commands, unbinds or binds, and resets of the mouse so far

packet == <<st, cnt, oos, age>>
driver == <<handler, priv, bound>>
vars == <<packet, head, driver, quirk, work, req, mutex, w, s, a, dev, past>>

Byte == {"bat", "id", "data"}
States == {"ignore", "init", "resync", "cmd", "active"}
NoWork == [pc |-> "idle", i |-> 0, v |-> 0, failed |-> FALSE]
Spend(e) ==
  /\ past' = [past EXCEPT ![e] = @ + 1]
  /\ \E b \in Budgets : \A k \in Events : past'[k] <= b[k]

\* __psmouse_set_state(), psmouse_set_state()
SetState(new) == st' = new /\ cnt' = 0 /\ oos' = 0 /\ age' = 0

Init ==
  /\ st = "init" /\ cnt = 0 /\ head = FALSE /\ oos = 0 /\ age = 0
  /\ handler = FALSE /\ priv = FALSE /\ bound = FALSE
  /\ quirk = [n |-> 0, acks |-> FALSE] /\ work = "idle" /\ req = FALSE
  /\ mutex = "none" /\ w = NoWork /\ s = [pc |-> "c_lock", again |-> TRUE]
  /\ a = [pc |-> "idle", kind |-> "rate"]
  /\ dev = [on |-> FALSE, native |-> FALSE] /\ past = [e \in Events |-> 0]

-----------------------------------------------------------------------------
(* The interrupt handler: psmouse_pre_receive_byte(), psmouse_receive_byte() *)
(* and psmouse_handle_byte().                                                *)

\* What the protocol may say of a packet of c bytes.
Verdicts(c) == {"bad", IF c >= PktSize THEN "full" ELSE "good"}

Counted == st = "active" /\ ResetAfter > 0
Worse(o) == IF Counted THEN o + 1 ELSE o

Exhausted(o) == Counted /\ o + 1 = ResetAfter

\* The port is given up until it has been reconnected.
Reannounce == SetState("ignore") /\ req' = TRUE /\ UNCHANGED work

\* schedule_work(); a disabled work is not queued
Queue == work' = IF work = "disabled" THEN work ELSE "queued"

\* Mutant of LoseSync: the work is scheduled only if there is packet data.
LoseSyncUnqueued == SetState("resync") /\ UNCHANGED <<work, req>>

LoseSync == SetState("resync") /\ Queue /\ UNCHANGED req

\* psmouse_handle_byte() with pktcnt = c and out_of_sync_cnt = o
HandleByte(c, o) ==
  IF ~handler THEN cnt' = 0 /\ oos' = o /\ age' = 0 /\ UNCHANGED <<st, work, req>>
  ELSE \E r \in Verdicts(c) :
    IF r = "bad" /\ Exhausted(o) THEN Reannounce
    ELSE /\ cnt' = IF r = "good" THEN c ELSE 0
         /\ oos' = CASE r = "good" -> o [] r = "full" -> 0 [] OTHER -> Worse(o)
         /\ age' = 0 /\ UNCHANGED <<st, work, req>>

\* The packet has c bytes now.
Accept(c, o) ==
  IF st = "active" /\ c = 1 /\ ResyncTime /\ age = 2 THEN LoseSync
  ELSE HandleByte(c, o)

\* What handling 0xAA as a first byte after all leaves: pktcnt, out_of_sync_cnt.
Unannounced ==
  IF ~handler THEN {<<0, oos>>}
  ELSE {<<1, oos>>} \cup (IF Exhausted(oos) THEN {} ELSE {<<0, Worse(oos)>>})

Receive(b) ==
  /\ bound /\ st \in {"cmd", "active"}
  /\ LET c == cnt + 1
         h == IF cnt = 0 THEN b = "bat" ELSE head
     IN \/ /\ st = "active" /\ cnt > 0 /\ age > 0
           /\ LoseSync /\ UNCHANGED head
        \/ /\ ~(st = "active" /\ cnt > 0 /\ age > 0) /\ (~h \/ c > 2)
           /\ head' = h /\ Accept(c, oos)
        \/ /\ h /\ c = 1
           /\ head' = h /\ cnt' = c /\ age' = 0 /\ UNCHANGED <<st, oos, work, req>>
        \/ /\ ~(st = "active" /\ age > 0) /\ h /\ c = 2
           /\ IF b = "id" THEN Reannounce /\ UNCHANGED head
              ELSE \/ handler /\ Exhausted(oos) /\ Reannounce /\ UNCHANGED head
                   \/ \E u \in Unannounced :
                        /\ head' = IF u[1] = 0 THEN b = "bat" ELSE head
                        /\ Accept(u[1] + 1, u[2])
  /\ UNCHANGED <<driver, quirk, mutex, w, s, a, dev, past>>

-----------------------------------------------------------------------------
(* Commands: psmouse_activate() and psmouse_deactivate().  One that fails    *)
(* may have reached the mouse or not, and leaves the state as it is.         *)

Take(t) == mutex = "none" /\ mutex' = t
Release == mutex' = "none"

Command(on, new) ==
  \/ dev' = [dev EXCEPT !.on = on] /\ SetState(new) /\ UNCHANGED past
  \/ /\ Spend("fail") /\ UNCHANGED packet
     /\ \E o \in {dev.on, on} : dev' = [dev EXCEPT !.on = o]

-----------------------------------------------------------------------------
(* psmouse_resync() *)

WGo(p) == w' = [w EXCEPT !.pc = p]

WStart ==
  /\ w.pc = "idle" /\ work = "queued"
  /\ work' = "idle" /\ w' = [NoWork EXCEPT !.pc = "lock"]
  /\ UNCHANGED <<packet, head, driver, quirk, req, mutex, s, a, dev, past>>

WLock ==
  /\ w.pc = "lock" /\ mutex = "none"
  /\ IF st # "resync" THEN WGo("idle") /\ UNCHANGED <<mutex, quirk>>
     ELSE /\ mutex' = "work" /\ WGo("disable")
          /\ quirk' = [quirk EXCEPT !.n = IF @ = 3 THEN 3 ELSE @ + 1]
  /\ UNCHANGED <<packet, head, driver, work, req, s, a, dev, past>>

WDisable ==
  /\ w.pc = "disable"
  /\ \/ /\ quirk' = [quirk EXCEPT !.acks = TRUE] /\ WGo("poll")
        /\ dev' = [dev EXCEPT !.on = FALSE]
     \/ /\ UNCHANGED quirk
        /\ IF quirk.n < 3 \/ quirk.acks THEN w' = [w EXCEPT !.pc = "enable", !.failed = TRUE]
           ELSE WGo("poll")
        /\ \E o \in {dev.on, FALSE} : dev' = [dev EXCEPT !.on = o]
  /\ UNCHANGED <<packet, head, driver, work, req, mutex, s, a, past>>

\* A mouse that was reset sends too short an answer.
WPoll ==
  /\ w.pc = "poll"
  /\ \/ /\ dev.native /\ SetState("cmd") /\ WGo("load")
        /\ head' \in BOOLEAN
     \/ w' = [w EXCEPT !.pc = "enable", !.failed = TRUE] /\ UNCHANGED <<packet, head>>
  /\ UNCHANGED <<driver, quirk, work, req, mutex, s, a, dev, past>>

\* pktcnt++ without the lock of the interrupt handler
WLoad ==
  /\ w.pc = "load" /\ w' = [w EXCEPT !.pc = "store", !.v = cnt]
  /\ UNCHANGED <<packet, head, driver, quirk, work, req, mutex, s, a, dev, past>>

WStore ==
  /\ w.pc = "store" /\ WGo("parse") /\ cnt' = w.v + 1
  /\ UNCHANGED <<st, oos, age, head, driver, quirk, work, req, mutex, s, a, dev, past>>

\* Mutant of WParse: the loop goes on after a full packet.
WParseOn ==
  /\ w.pc = "parse"
  /\ IF w.i + 1 <= PktSize THEN w' = [w EXCEPT !.pc = "load", !.i = @ + 1]
     ELSE WGo("back")
  /\ UNCHANGED <<packet, head, driver, quirk, work, req, mutex, s, a, dev, past>>

\* The polled bytes are parsed one by one until the protocol has a verdict.
WParse ==
  /\ w.pc = "parse"
  /\ \E r \in Verdicts(cnt) :
       w' = IF r = "good" /\ w.i + 1 < PktSize
            THEN [w EXCEPT !.pc = "load", !.i = @ + 1]
            ELSE [w EXCEPT !.pc = "back", !.failed = r # "full"]
  /\ UNCHANGED <<packet, head, driver, quirk, work, req, mutex, s, a, dev, past>>

WBack ==
  /\ w.pc = "back" /\ WGo("enable") /\ SetState("resync")
  /\ UNCHANGED <<head, driver, quirk, work, req, mutex, s, a, dev, past>>

\* Mutant of WEnable: that enabling failed is not noted.
WEnableUnnoted ==
  /\ w.pc = "enable" /\ WGo("end")
  /\ \/ dev' = [dev EXCEPT !.on = TRUE] /\ UNCHANGED past
     \/ Spend("fail") /\ UNCHANGED dev
  /\ UNCHANGED <<packet, head, driver, quirk, work, req, mutex, s, a>>

\* Up to five attempts, counted as one failure if none succeeds.
WEnable ==
  /\ w.pc = "enable"
  /\ \/ WGo("end") /\ dev' = [dev EXCEPT !.on = TRUE] /\ UNCHANGED past
     \/ /\ Spend("fail") /\ w' = [w EXCEPT !.pc = "end", !.failed = TRUE]
        /\ \E o \in {dev.on, TRUE} : dev' = [dev EXCEPT !.on = o]
  /\ UNCHANGED <<packet, head, driver, quirk, work, req, mutex, s, a>>

WEnd ==
  /\ w.pc = "end"
  /\ IF w.failed THEN SetState("ignore") /\ WGo("reconnect")
     ELSE SetState("active") /\ WGo("unlock")
  /\ UNCHANGED <<head, driver, quirk, work, req, mutex, s, a, dev, past>>

WReconnect ==
  /\ w.pc = "reconnect" /\ req' = TRUE /\ WGo("unlock")
  /\ UNCHANGED <<packet, head, driver, quirk, work, mutex, s, a, dev, past>>

WUnlock ==
  /\ w.pc = "unlock" /\ Release /\ w' = NoWork
  /\ UNCHANGED <<packet, head, driver, quirk, work, req, s, a, dev, past>>

Work == WStart \/ WLock \/ WDisable \/ WPoll \/ WLoad \/ WStore \/ WParse
        \/ WBack \/ WEnable \/ WEnd \/ WReconnect \/ WUnlock

-----------------------------------------------------------------------------
(* The serio thread: psmouse_reconnect(), ... *)

SGo(p) == s' = [s EXCEPT !.pc = p]

STake ==
  /\ s.pc = "idle" /\ req /\ req' = FALSE /\ SGo("r_lock")
  /\ UNCHANGED <<packet, head, driver, quirk, work, mutex, w, a, dev, past>>

RLock ==
  /\ s.pc = "r_lock" /\ Take("serio") /\ SetState("init") /\ SGo("r_probe")
  /\ UNCHANGED <<head, driver, quirk, work, req, w, a, dev, past>>

\* The mouse is reset and found again, or not, or found to be another.
RProbe ==
  /\ s.pc = "r_probe"
  /\ \/ SGo("cmd") /\ dev' = [on |-> FALSE, native |-> TRUE] /\ UNCHANGED mutex
     \/ /\ s' = [pc |-> "d_files", again |-> TRUE] /\ Release
        /\ dev' = [on |-> FALSE, native |-> FALSE]
  /\ UNCHANGED <<packet, head, driver, quirk, work, req, w, a, past>>

\* psmouse_initialize() follows, here and in psmouse_connect()
SCommandMode ==
  /\ s.pc \in {"cmd", "c_cmd"} /\ SetState("cmd")
  /\ SGo(IF s.pc = "cmd" THEN "activate" ELSE "c_register")
  /\ UNCHANGED <<head, driver, quirk, work, req, mutex, w, a, dev, past>>

SActivate ==
  /\ s.pc = "activate" /\ Command(TRUE, "active") /\ SGo("unlock")
  /\ UNCHANGED <<head, driver, quirk, work, req, mutex, w, a>>

SUnlock ==
  /\ s.pc = "unlock" /\ Release /\ SGo("idle")
  /\ UNCHANGED <<packet, head, driver, quirk, work, req, w, a, dev, past>>

(* ... psmouse_disconnect(), ... *)

\* The user unbinds the driver.
Unbind ==
  /\ s.pc = "idle" /\ Spend("unbind") /\ s' = [pc |-> "d_files", again |-> FALSE]
  /\ UNCHANGED <<packet, head, driver, quirk, work, req, mutex, w, a, dev>>

\* The core takes the attributes away first and waits for their writers.
DLock ==
  /\ s.pc = "d_files" /\ a.pc = "idle" /\ mutex = "none"
  /\ SetState("cmd") /\ SGo("d_disable")
  /\ UNCHANGED <<head, driver, quirk, work, req, mutex, w, a, dev, past>>

\* disable_work_sync(), the mutex released
DDisable ==
  /\ s.pc = "d_disable" /\ work' = "disabled" /\ SGo("d_sync")
  /\ UNCHANGED <<packet, head, driver, quirk, req, mutex, w, a, dev, past>>

\* Mutant of DSync: the mutex is kept while the work is waited for.
DSyncLocked ==
  /\ s.pc = "d_sync"
  /\ IF mutex = "serio" THEN w.pc = "idle" /\ SGo("d_handler") /\ UNCHANGED mutex
     ELSE Take("serio") /\ UNCHANGED s
  /\ UNCHANGED <<packet, head, driver, quirk, work, req, w, a, dev, past>>

DSync ==
  /\ s.pc = "d_sync" /\ w.pc = "idle" /\ Take("serio") /\ SGo("d_handler")
  /\ UNCHANGED <<packet, head, driver, quirk, work, req, w, a, dev, past>>

\* Mutant of DHandler: the handler as it was before backport 0101.
DHandlerKept ==
  /\ s.pc = "d_handler" /\ SGo("d_free")
  /\ UNCHANGED <<packet, head, driver, quirk, work, req, mutex, w, a, dev, past>>

DHandler ==
  /\ s.pc = "d_handler" /\ handler' = FALSE /\ SGo("d_free")
  /\ UNCHANGED <<packet, head, priv, bound, quirk, work, req, mutex, w, a, dev, past>>

\* psmouse->disconnect()
DFree ==
  /\ s.pc = "d_free" /\ priv' = FALSE /\ SGo("d_ignore")
  /\ UNCHANGED <<packet, head, handler, bound, quirk, work, req, mutex, w, a, dev, past>>

DIgnore ==
  /\ s.pc = "d_ignore" /\ SetState("ignore") /\ SGo("d_close")
  /\ UNCHANGED <<head, driver, quirk, work, req, mutex, w, a, dev, past>>

\* serio_close(), kfree(): what was asked of the port is forgotten with it
DClose ==
  /\ s.pc = "d_close" /\ bound' = FALSE /\ Release
  /\ SGo(IF s.again THEN "c_lock" ELSE "off")
  /\ UNCHANGED <<packet, head, handler, priv, quirk, work, req, w, a, dev, past>>

(* ... and psmouse_connect(). *)

Bind ==
  /\ s.pc = "off" /\ Spend("unbind") /\ s' = [pc |-> "c_lock", again |-> TRUE]
  /\ UNCHANGED <<packet, head, driver, quirk, work, req, mutex, w, a, dev>>

CLock ==
  /\ s.pc = "c_lock" /\ Take("serio") /\ SetState("init") /\ bound' = TRUE
  /\ handler' = FALSE /\ priv' = FALSE /\ work' = "idle"
  /\ quirk' = [n |-> 0, acks |-> FALSE] /\ SGo("c_probe")
  /\ UNCHANGED <<head, req, w, a, dev, past>>

CProbe ==
  /\ s.pc = "c_probe"
  /\ \/ /\ SGo("c_cmd") /\ handler' = TRUE /\ priv' = TRUE
        /\ dev' = [on |-> FALSE, native |-> TRUE] /\ UNCHANGED <<bound, mutex, past>>
     \/ /\ Spend("fail") /\ SGo("off") /\ bound' = FALSE /\ Release
        /\ UNCHANGED <<handler, priv, dev>>
  /\ UNCHANGED <<packet, head, quirk, work, req, w, a>>

\* psmouse->disconnect(), the handler still set, if there is no input device
CRegister ==
  /\ s.pc = "c_register"
  /\ \/ SGo("activate") /\ UNCHANGED <<priv, past>>
     \/ SGo("c_undo") /\ Spend("fail") /\ priv' = FALSE
  /\ UNCHANGED <<packet, head, handler, bound, quirk, work, req, mutex, w, a, dev>>

CUndo ==
  /\ s.pc = "c_undo" /\ SetState("ignore") /\ bound' = FALSE /\ Release /\ SGo("off")
  /\ UNCHANGED <<head, handler, priv, quirk, work, req, w, a, dev, past>>

Serio == STake \/ RLock \/ RProbe \/ SCommandMode \/ SActivate \/ SUnlock
         \/ DLock \/ DDisable \/ DSync \/ DHandler \/ DFree \/ DIgnore
         \/ DClose \/ CLock \/ CProbe \/ CRegister \/ CUndo

-----------------------------------------------------------------------------
(* psmouse_attr_set_helper() for a protected attribute of a port, and        *)
(* psmouse_attr_set_protocol() on a port without children.                   *)

AGo(p) == a' = [a EXCEPT !.pc = p]

AWrite(k) ==
  /\ a.pc = "idle" /\ s.pc \in {"idle", "r_lock", "r_probe"} /\ bound
  /\ a' = [pc |-> "lock", kind |-> k]
  /\ UNCHANGED <<packet, head, driver, quirk, work, req, mutex, w, s, dev, past>>

ALock ==
  /\ a.pc = "lock" /\ mutex = "none"
  /\ IF st = "ignore" THEN AGo("idle") /\ UNCHANGED mutex
     ELSE AGo("deactivate") /\ mutex' = "attr"
  /\ UNCHANGED <<packet, head, driver, quirk, work, req, w, s, dev, past>>

ADeactivate ==
  /\ a.pc = "deactivate" /\ Command(FALSE, "cmd")
  /\ AGo(IF a.kind = "protocol" THEN "free" ELSE "activate")
  /\ UNCHANGED <<head, driver, quirk, work, req, mutex, w, s>>

\* psmouse->disconnect(), the handler still set
AFree ==
  /\ a.pc = "free" /\ priv' = FALSE /\ AGo("ignore")
  /\ UNCHANGED <<packet, head, handler, bound, quirk, work, req, mutex, w, s, dev, past>>

\* PSMOUSE_IGNORE, then PSMOUSE_INITIALIZING
AIgnore ==
  /\ a.pc = "ignore" /\ SetState("init") /\ AGo("switch")
  /\ UNCHANGED <<head, driver, quirk, work, req, mutex, w, s, dev, past>>

\* psmouse_switch_protocol(), falling back on plain PS/2
ASwitch ==
  /\ a.pc = "switch" /\ priv' = TRUE /\ SetState("cmd") /\ AGo("register")
  /\ dev' = [on |-> FALSE, native |-> TRUE]
  /\ UNCHANGED <<head, handler, bound, quirk, work, req, mutex, w, s, past>>

\* If the input device cannot be registered, back to the old protocol.
ARegister ==
  /\ a.pc = "register"
  /\ \/ AGo("activate") /\ UNCHANGED past
     \/ /\ a.kind = "protocol" /\ Spend("fail")
        /\ a' = [pc |-> "free", kind |-> "rollback"]
  /\ UNCHANGED <<packet, head, driver, quirk, work, req, mutex, w, s, dev>>

AActivate ==
  /\ a.pc = "activate" /\ Command(TRUE, "active") /\ AGo("unlock")
  /\ UNCHANGED <<head, driver, quirk, work, req, mutex, w, s>>

AUnlock ==
  /\ a.pc = "unlock" /\ Release /\ AGo("idle")
  /\ UNCHANGED <<packet, head, driver, quirk, work, req, w, s, dev, past>>

Attr == ALock \/ ADeactivate \/ AFree \/ AIgnore \/ ASwitch \/ ARegister
        \/ AActivate \/ AUnlock

-----------------------------------------------------------------------------
\* A mouse loses its power for a moment; what it says of that are bytes.
Reset ==
  /\ dev.native /\ Spend("reset") /\ dev' = [on |-> FALSE, native |-> FALSE]
  /\ UNCHANGED <<packet, head, driver, quirk, work, req, mutex, w, s, a>>

\* Only an active port looks at the time.
Tick ==
  /\ st = "active" /\ age < 2 /\ age' = age + 1
  /\ UNCHANGED <<st, cnt, oos, head, driver, quirk, work, req, mutex, w, s, a, dev, past>>

Environment ==
  Reset \/ Tick \/ Unbind \/ Bind
  \/ (\E b \in Byte : Receive(b)) \/ (\E k \in Writes : AWrite(k))

Next == Environment \/ Work \/ Serio \/ Attr

Spec == Init /\ [][Next]_vars

\* The threads run and psmouse_mutex is handed to who waits for it.
FairSpec == Spec /\ SF_vars(Work) /\ SF_vars(Serio) /\ SF_vars(Attr)

-----------------------------------------------------------------------------
(* Properties. *)

\* The variables keep to their types.
TypeOK ==
  /\ st \in States /\ cnt \in 0 .. PktSize + 1 /\ head \in BOOLEAN
  /\ oos \in 0 .. ResetAfter /\ age \in 0 .. 2
  /\ handler \in BOOLEAN /\ priv \in BOOLEAN /\ bound \in BOOLEAN
  /\ quirk \in [n : 0 .. 3, acks : BOOLEAN]
  /\ work \in {"idle", "queued", "disabled"} /\ req \in BOOLEAN
  /\ mutex \in {"none", "work", "serio", "attr"}
  /\ w \in [pc : {"idle", "lock", "disable", "poll", "load", "store", "parse",
                  "back", "enable", "end", "reconnect", "unlock"},
            i : 0 .. PktSize, v : 0 .. PktSize, failed : BOOLEAN]
  /\ s \in [pc : {"idle", "r_lock", "r_probe", "cmd", "activate", "unlock",
                  "d_files", "d_disable", "d_sync", "d_handler", "d_free",
                  "d_ignore", "d_close", "off", "c_lock", "c_probe", "c_cmd",
                  "c_register", "c_undo"},
            again : BOOLEAN]
  /\ a \in [pc : {"idle", "lock", "deactivate", "free", "ignore", "switch",
                  "register", "activate", "unlock"}, kind : {"rate", "protocol", "rollback"}]
  /\ dev \in [on : BOOLEAN, native : BOOLEAN]
  /\ past \in [Events -> Nat]

\* A byte that arrives while psmouse_resync() parses the packet it polled, or
\* at any other time, is stored inside the array: both count in pktcnt, the
\* resync work without the lock of the interrupt handler.  It takes an array longer
\* than the packet, which all protocols have but the two with packets of eight bytes.
PacketInArray == bound /\ st \in {"cmd", "active"} => cnt < ArraySize

\* The interrupt handler, or the resync work, can call the protocol.
MayCall == (bound /\ handler /\ st \in {"cmd", "active"}) \/ w.pc = "parse"

\* While psmouse_disconnect() frees the protocol's data and after, neither the
\* interrupt handler nor a resync that had begun before calls the protocol; and
\* psmouse is freed only when no resync work is queued or runs that has it.
NoUseAfterFree ==
  /\ s.pc \in {"d_ignore", "d_close", "off"} => ~MayCall
  /\ ~bound => work # "queued" /\ w.pc = "idle" /\ a.pc = "idle"

\* The threads that may still move the port out of a state in which bytes are
\* ignored.
WillReconnect == req \/ s.pc # "idle" \/ w.pc = "reconnect"
WillResync == work = "queued" \/ w.pc # "idle" \/ s.pc # "idle" \/ a.pc # "idle"

\* Nobody's state change overtakes another's so that the port ignores its
\* mouse for good: a port that waits for a resync has one queued, one that
\* waits for a reconnect has asked for it.
NeverStranded ==
  bound => (st = "resync" => WillResync) /\ (st = "ignore" => WillReconnect)

\* A single failing command does not leave the driver waiting for motion of a
\* mouse that it has itself disabled.
ActiveIsStreaming ==
  st = "active" /\ mutex = "none" /\ dev.native => dev.on

\* The comment of backport 0101 in psmouse_handle_byte(): protocol_handler is
\* NULL when device is being disconnected.
HandlerNullOnDisconnect == bound /\ handler /\ st \in {"cmd", "active"} => priv

\* A port that lost its synchronisation, or gave up on its mouse, is in use
\* again in the end, or unbound, unless a command failed; and psmouse_disconnect()
\* never waits for a resync that waits for it.
BackInService ==
  /\ (bound /\ st \in {"resync", "ignore"}) ~> (st = "active" \/ s.pc = "off" \/ past["fail"] > 0)
  /\ (s.pc = "d_sync") ~> (s.pc \notin {"d_sync", "d_handler"})
=============================================================================
