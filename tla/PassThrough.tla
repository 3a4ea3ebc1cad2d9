----------------------------- MODULE PassThrough -----------------------------
(***************************************************************************)
(* A Synaptics touchpad with a trackstick on its pass-through port: two    *)
(* psmouse, the parent and its child, in psmouse-base.c, and the child     *)
(* port of synaptics.c.  The serio thread registers, reconnects and takes  *)
(* away ports under serio_mutex, a user writes attributes, the child loses *)
(* its synchronisation; each takes psmouse_mutex and must find the parent  *)
(* silent while it talks to the child.  The parent hands the child its     *)
(* bytes from its own interrupt handler.                                   *)
(*                                                                         *)
(* The serio core and the driver core, not in this repository, are modelled*)
(* as they are used: a port whose reconnect fails is disconnected, its     *)
(* children first, and connected anew; attributes go before the driver     *)
(* does, once their writers have left.  Commands to a mouse that is there  *)
(* work; a probe or a registration may fail.                               *)
(***************************************************************************)
EXTENDS Integers

CONSTANTS
  Hasty,    \* whether the protocol of a touchpad is changed while its child
            \* port is still to be registered
  Budgets   \* how often each of Events may happen: any one of these

Kinds == {"rate", "protocol", "p_rate", "p_protocol"}
Events == {"write", "switch", "loss", "p_loss", "fail", "p_fail"}
ASSUME ParameterAssumption ==
  Hasty \in BOOLEAN /\ Budgets \subseteq [Events -> Nat]

VARIABLES
  par,    \* the parent: state, reporting, protocol, whether private is there
  pt,     \* its pt_port, pt_port_open and SYN_BIT_FOUR_BYTE_CLIENT
  kid,    \* the child: allocated, state, reporting, packets of four bytes
  port,   \* the child port: "none", "queued" for registration, "listed"
  todo,   \* what the serio thread is asked to do
  th,     \* per thread: activity, step, whether it succeeded
  mutex,  \* owner of psmouse_mutex
  smutex, \* owner of serio_mutex
  past    \* how often each of Events happened
vars == <<par, pt, kid, port, todo, th, mutex, smutex, past>>

Thread == {"serio", "user", "work"}
Resting == [act |-> "none", at |-> "idle", ok |-> TRUE]
NoKid == [there |-> FALSE, st |-> "ignore", on |-> FALSE, four |-> FALSE]
NoGuest == [port |-> FALSE, open |-> FALSE, four |-> FALSE]

\* psmouse_deactivate(), psmouse_activate()
Silent(p) == [p EXCEPT !.st = "cmd", !.on = FALSE]
Streaming(p) == [p EXCEPT !.st = "active", !.on = TRUE]

\* A touchpad in use whose child port is still to be registered.
Init ==
  /\ par = [st |-> "active", on |-> TRUE, syn |-> TRUE, priv |-> TRUE]
  /\ pt = NoGuest /\ kid = NoKid /\ port = "queued" /\ todo = {"register"}
  /\ th = [t \in Thread |-> Resting] /\ mutex = "none" /\ smutex = "none"
  /\ past = [e \in Events |-> 0]

Spend(e) ==
  /\ past' = [past EXCEPT ![e] = @ + 1]
  /\ \E b \in Budgets : \A k \in Events : past'[k] <= b[k]
At(t, acts, at) == th[t].act \in acts /\ th[t].at = at
Go(t, at) == th' = [th EXCEPT ![t].at = at]
Fail(t, at) == th' = [th EXCEPT ![t].at = at, ![t].ok = FALSE]
Become(t, act, at) == th' = [th EXCEPT ![t] = [act |-> act, at |-> at, ok |-> TRUE]]
Rest(t) == th' = [th EXCEPT ![t] = Resting]
Take(t) == mutex = "none" /\ mutex' = t

-----------------------------------------------------------------------------
(* What is done with the child: connect, reconnect, disconnect, a resync and *)
(* the writes of its attributes.                                             *)

ChildActs == {"connect", "reconnect", "disconnect", "resync", "rate", "protocol"}
Served == th["user"].act \in {"rate", "protocol"}

\* psmouse_mutex is taken, ...
Lock(t) ==
  /\ At(t, ChildActs \ {"disconnect"}, "lock") /\ mutex = "none"
  /\ \/ /\ th[t].act = "resync" /\ kid.st # "resync"
        /\ Rest(t) /\ UNCHANGED mutex
     \/ /\ th[t].act \in {"rate", "protocol"} /\ kid.st = "ignore"
        /\ Rest(t) /\ UNCHANGED mutex
     \/ /\ th[t].act = "resync" => kid.st = "resync"
        /\ th[t].act \in {"rate", "protocol"} => kid.st # "ignore"
        /\ mutex' = t /\ Go(t, "deactivate")
  /\ UNCHANGED <<par, pt, kid, port, todo, smutex, past>>

\* ... by a disconnect for a moment only, ...
DisconnectLock(t) ==
  /\ At(t, {"disconnect"}, "lock") /\ mutex = "none" /\ ~Served
  /\ kid' = [kid EXCEPT !.st = "cmd"] /\ Go(t, "sync")
  /\ UNCHANGED <<par, pt, port, todo, mutex, smutex, past>>

\* Mutant of Sync: the mutex is not taken again.
SyncUnlocked(t) ==
  /\ At(t, {"disconnect"}, "sync") /\ th["work"] = Resting /\ Go(t, "deactivate")
  /\ UNCHANGED <<par, pt, kid, port, todo, mutex, smutex, past>>

\* ... which waits for a resync before it takes it again.
Sync(t) ==
  /\ At(t, {"disconnect"}, "sync") /\ th["work"] = Resting /\ Take(t)
  /\ Go(t, "deactivate")
  /\ UNCHANGED <<par, pt, kid, port, todo, smutex, past>>

\* psmouse_deactivate(parent)
DeactivateParent(t) ==
  /\ At(t, ChildActs, "deactivate")
  /\ par' = Silent(par)
  /\ Go(t, CASE th[t].act = "connect" -> "open" [] th[t].act = "disconnect" -> "close"
             [] th[t].act \in {"rate", "protocol"} -> "set" [] OTHER -> "probe")
  /\ UNCHANGED <<pt, kid, port, todo, mutex, smutex, past>>

\* A connect opens the port, then looks for a mouse of either packet size.
Open(t) ==
  /\ At(t, {"connect"}, "open") /\ Go(t, "probe")
  /\ kid' = [NoKid EXCEPT !.there = TRUE, !.st = "init"] /\ pt' = [pt EXCEPT !.open = TRUE]
  /\ UNCHANGED <<par, port, todo, mutex, smutex, past>>

Connect(t) ==
  /\ At(t, {"connect"}, "probe")
  /\ \/ /\ Go(t, "guest") /\ UNCHANGED <<pt, past>>
        /\ \E four \in BOOLEAN : kid' = [Silent(kid) EXCEPT !.four = four]
     \/ Spend("fail") /\ Fail(t, "resume") /\ kid' = NoKid /\ pt' = [pt EXCEPT !.open = FALSE]
  /\ UNCHANGED <<par, port, todo, mutex, smutex>>

\* A reconnect resets it and leaves a failure to the serio core.
Reconnect(t) ==
  /\ At(t, {"reconnect"}, "probe")
  /\ \/ Go(t, "guest") /\ kid' = Silent(kid) /\ UNCHANGED past
     \/ Spend("fail") /\ Fail(t, "resume") /\ kid' = [kid EXCEPT !.st = "init", !.on = FALSE]
  /\ UNCHANGED <<par, pt, port, todo, mutex, smutex>>

\* A resync polls it and asks for a reconnect if that fails.
Resync(t) ==
  /\ At(t, {"resync"}, "probe")
  /\ \/ Go(t, "activate") /\ UNCHANGED <<kid, todo, past>>
     \/ /\ Spend("fail") /\ Fail(t, "resume")
        /\ kid' = [kid EXCEPT !.st = "ignore"] /\ todo' = todo \cup {"reconnect"}
  /\ UNCHANGED <<par, pt, port, mutex, smutex>>

\* An attribute is set: a rate, or another protocol.  If its input device
\* cannot be registered the old protocol is set up again.
Set(t) ==
  /\ At(t, {"rate", "protocol"}, "set")
  /\ \/ th[t].act = "rate" /\ kid' = Silent(kid) /\ Go(t, "activate") /\ UNCHANGED past
     \/ /\ th[t].act = "protocol" /\ Go(t, "guest") /\ UNCHANGED past
        /\ \E four \in BOOLEAN : kid' = [Silent(kid) EXCEPT !.four = four]
     \/ th[t].act = "protocol" /\ Spend("fail") /\ kid' = Silent(kid) /\ Go(t, "activate")
  /\ UNCHANGED <<par, pt, port, todo, mutex, smutex>>

\* Mutant of Close: the child is freed, then the port closed.
CloseFreed(t) ==
  /\ At(t, {"disconnect"}, "close") /\ kid' = NoKid /\ Go(t, "free")
  /\ UNCHANGED <<par, pt, port, todo, mutex, smutex, past>>

\* serio_close()
Close(t) ==
  /\ At(t, {"disconnect"}, "close") /\ pt' = [pt EXCEPT !.open = FALSE]
  /\ kid' = [kid EXCEPT !.st = "ignore"] /\ Go(t, "free")
  /\ UNCHANGED <<par, port, todo, mutex, smutex, past>>

\* serio_set_drvdata(), kfree()
Free(t) ==
  /\ At(t, {"disconnect"}, "free") /\ kid' = NoKid /\ Go(t, "resume")
  /\ UNCHANGED <<par, pt, port, todo, mutex, smutex, past>>

\* synaptics_pt_activate()
Guest(t) ==
  /\ At(t, ChildActs, "guest") /\ Go(t, "activate")
  /\ pt' = [pt EXCEPT !.four = IF pt.port THEN kid.four ELSE @]
  /\ UNCHANGED <<par, kid, port, todo, mutex, smutex, past>>

Activate(t) ==
  /\ At(t, ChildActs, "activate") /\ kid' = Streaming(kid) /\ Go(t, "resume")
  /\ UNCHANGED <<par, pt, port, todo, mutex, smutex, past>>

\* Mutant of Resume: not after a failure.
ResumeOk(t) ==
  /\ At(t, ChildActs, "resume") /\ Go(t, "unlock")
  /\ par' = IF th[t].ok THEN Streaming(par) ELSE par
  /\ UNCHANGED <<pt, kid, port, todo, mutex, smutex, past>>

\* psmouse_activate(parent)
Resume(t) ==
  /\ At(t, ChildActs, "resume") /\ Go(t, "unlock") /\ par' = Streaming(par)
  /\ UNCHANGED <<pt, kid, port, todo, mutex, smutex, past>>

\* After a reconnect that failed the serio core disconnects and connects the
\* child; a child disconnected for its parent loses its port as well.
Unlock(t) ==
  /\ At(t, ChildActs, "unlock") /\ mutex' = "none"
  /\ IF th[t].act = "reconnect" /\ ~th[t].ok
     THEN th' = [th EXCEPT ![t].act = "disconnect", ![t].at = "lock"] /\ UNCHANGED smutex
     ELSE IF th[t].act = "disconnect"
     THEN IF th[t].ok THEN Go(t, "destroy") /\ UNCHANGED smutex
          ELSE Become(t, "connect", "lock") /\ UNCHANGED smutex
     ELSE Rest(t) /\ smutex' = IF t = "serio" THEN "none" ELSE smutex
  /\ UNCHANGED <<par, pt, kid, port, todo, past>>

\* serio_destroy_port() of the child, and back to what the parent is up to
Destroy(t) ==
  /\ At(t, {"disconnect"}, "destroy")
  /\ pt' = [pt EXCEPT !.port = FALSE] /\ port' = "none"
  /\ IF t = "user" THEN Become(t, "p_protocol", "relock") /\ smutex' = "none"
     ELSE Become(t, "p_disconnect", "lock") /\ UNCHANGED smutex
  /\ UNCHANGED <<par, kid, todo, mutex, past>>

ChildStep(t) ==
  \/ Lock(t) \/ DisconnectLock(t) \/ Sync(t) \/ DeactivateParent(t) \/ Open(t)
  \/ Connect(t) \/ Reconnect(t) \/ Resync(t) \/ Set(t) \/ Close(t) \/ Free(t)
  \/ Guest(t) \/ Activate(t) \/ Resume(t) \/ Unlock(t) \/ Destroy(t)

-----------------------------------------------------------------------------
(* What is done with the parent: the serio thread reconnects it, the user    *)
(* writes its attributes.                                                    *)

ParentActs == {"p_reconnect", "p_disconnect", "p_connect", "p_rate", "p_protocol"}

\* synaptics_pt_create(): the port is registered later
Create == port' = "queued" /\ pt' = NoGuest /\ todo' = todo \cup {"register"}

PLock(t) ==
  /\ At(t, ParentActs, "lock") /\ Take(t)
  /\ th[t].act = "p_disconnect" => th["user"].act \notin {"p_rate", "p_protocol"}
  /\ \/ th[t].act = "p_reconnect" /\ par' = [par EXCEPT !.st = "init"] /\ Go(t, "probe")
     \/ th[t].act = "p_disconnect" /\ par' = [par EXCEPT !.st = "cmd"] /\ Go(t, "free")
     \/ th[t].act = "p_connect" /\ par' = [par EXCEPT !.st = "init"] /\ Go(t, "switch")
     \/ th[t].act = "p_rate" /\ par.st # "ignore" /\ par' = Silent(par) /\ Go(t, "resume")
     \/ th[t].act = "p_protocol" /\ par.st # "ignore" /\ par' = Silent(par) /\ Go(t, "children")
     \/ th[t].act \in {"p_rate", "p_protocol"} /\ par.st = "ignore" /\ Go(t, "unlock") /\ UNCHANGED par
  /\ UNCHANGED <<pt, kid, port, todo, smutex, past>>

\* synaptics_reconnect() forgets the packet size of the child.
PReconnect(t) ==
  /\ At(t, {"p_reconnect"}, "probe")
  /\ \/ /\ Go(t, "resume") /\ par' = Silent(par) /\ UNCHANGED past
        /\ pt' = [pt EXCEPT !.four = IF par.syn THEN FALSE ELSE @]
     \/ Spend("p_fail") /\ Fail(t, "unlock") /\ par' = [par EXCEPT !.on = FALSE] /\ UNCHANGED pt
  /\ UNCHANGED <<kid, port, todo, mutex, smutex>>

\* Mutant of Children: the mutex is kept.
ChildrenLocked(t) ==
  /\ At(t, {"p_protocol"}, "children")
  /\ Go(t, IF port = "listed" THEN "unregister" ELSE "free")
  /\ UNCHANGED <<par, pt, kid, port, todo, mutex, smutex, past>>

\* psmouse_attr_set_protocol() takes the child ports away without the mutex,
\* which their disconnect needs.
Children(t) ==
  /\ At(t, {"p_protocol"}, "children")
  /\ IF port = "listed" THEN mutex' = "none" /\ Go(t, "unregister")
     ELSE Go(t, "free") /\ UNCHANGED mutex
  /\ UNCHANGED <<par, pt, kid, port, todo, smutex, past>>

Unregister(t) ==
  /\ At(t, {"p_protocol"}, "unregister") /\ smutex = "none"
  /\ IF port = "listed"
     THEN smutex' = t /\ Become(t, "disconnect", IF kid.there THEN "lock" ELSE "destroy")
     ELSE Go(t, "relock") /\ UNCHANGED smutex
  /\ UNCHANGED <<par, pt, kid, port, todo, mutex, past>>

Relock(t) ==
  /\ At(t, {"p_protocol"}, "relock") /\ Take(t) /\ Go(t, "children")
  /\ UNCHANGED <<par, pt, kid, port, todo, smutex, past>>

\* synaptics_disconnect()
PFree(t) ==
  /\ At(t, {"p_disconnect", "p_protocol"}, "free")
  /\ par' = [par EXCEPT !.priv = FALSE] /\ Go(t, "ignore")
  /\ UNCHANGED <<pt, kid, port, todo, mutex, smutex, past>>

PIgnore(t) ==
  /\ At(t, {"p_disconnect", "p_protocol"}, "ignore")
  /\ par' = [par EXCEPT !.st = "ignore"]
  /\ Go(t, IF th[t].act = "p_protocol" THEN "switch" ELSE "unlock")
  /\ UNCHANGED <<pt, kid, port, todo, mutex, smutex, past>>

\* A Synaptics protocol makes a child port, another does not.
PSwitch(t) ==
  /\ At(t, {"p_connect", "p_protocol"}, "switch") /\ Go(t, "resume")
  /\ \/ port = "none" /\ Create /\ par' = [Silent(par) EXCEPT !.syn = TRUE, !.priv = TRUE]
     \/ /\ th[t].act = "p_protocol" /\ par' = [Silent(par) EXCEPT !.syn = FALSE]
        /\ UNCHANGED <<port, pt, todo>>
  /\ UNCHANGED <<kid, mutex, smutex, past>>

PResume(t) ==
  /\ At(t, ParentActs, "resume") /\ par' = Streaming(par) /\ Go(t, "unlock")
  /\ UNCHANGED <<pt, kid, port, todo, mutex, smutex, past>>

\* The child is reconnected after its parent, or, if that failed, taken away
\* before it.
PUnlock(t) ==
  /\ At(t, ParentActs, "unlock") /\ mutex' = "none"
  /\ \/ /\ th[t].act = "p_reconnect" /\ th[t].ok /\ port = "listed"
        /\ Become(t, IF kid.there THEN "reconnect" ELSE "connect", "lock") /\ UNCHANGED smutex
     \/ /\ th[t].act = "p_reconnect" /\ ~th[t].ok /\ UNCHANGED smutex
        /\ IF port = "listed" THEN Become(t, "disconnect", IF kid.there THEN "lock" ELSE "destroy")
           ELSE Become(t, "p_disconnect", "lock")
     \/ th[t].act = "p_disconnect" /\ Become(t, "p_connect", "lock") /\ UNCHANGED smutex
     \/ /\ th[t].act \in {"p_rate", "p_protocol", "p_connect"} \/ (th[t].act = "p_reconnect" /\ th[t].ok /\ port # "listed")
        /\ Rest(t) /\ smutex' = IF t = "serio" THEN "none" ELSE smutex
  /\ UNCHANGED <<par, pt, kid, port, todo, past>>

ParentStep(t) ==
  \/ PLock(t) \/ PReconnect(t) \/ Children(t) \/ Unregister(t) \/ Relock(t)
  \/ PFree(t) \/ PIgnore(t) \/ PSwitch(t) \/ PResume(t) \/ PUnlock(t)

-----------------------------------------------------------------------------
(* The serio thread takes what it is asked to do. *)

\* serio_add_port(), synaptics_pt_start()
Register ==
  /\ th["serio"] = Resting /\ smutex = "none" /\ "register" \in todo
  /\ todo' = todo \ {"register"} /\ smutex' = "serio"
  /\ pt' = [pt EXCEPT !.port = TRUE] /\ port' = "listed"
  /\ Become("serio", "connect", "lock")
  /\ UNCHANGED <<par, kid, mutex, past>>

ReconnectChild ==
  /\ th["serio"] = Resting /\ smutex = "none" /\ "reconnect" \in todo
  /\ todo' = todo \ {"reconnect"}
  /\ IF port = "listed"
     THEN smutex' = "serio" /\ Become("serio", IF kid.there THEN "reconnect" ELSE "connect", "lock")
     ELSE UNCHANGED <<smutex, th>>
  /\ UNCHANGED <<par, pt, kid, port, mutex, past>>

ReconnectParent ==
  /\ th["serio"] = Resting /\ smutex = "none" /\ "p_reconnect" \in todo
  /\ todo' = todo \ {"p_reconnect"} /\ smutex' = "serio"
  /\ Become("serio", "p_reconnect", "lock")
  /\ UNCHANGED <<par, pt, kid, port, mutex, past>>

Serio == Register \/ ReconnectChild \/ ReconnectParent \/ ChildStep("serio") \/ ParentStep("serio")

\* An attribute is there while its port is bound.
Write ==
  /\ th["user"] = Resting
  /\ \E k \in Kinds :
       /\ Spend(IF k = "p_protocol" THEN "switch" ELSE "write")
       /\ k \in {"rate", "protocol"} =>
            kid.there /\ th["serio"].act \notin {"connect", "disconnect"}
       /\ k \in {"p_rate", "p_protocol"} =>
            \A t \in Thread : th[t].act \notin {"p_disconnect", "p_connect"}
       /\ k = "p_protocol" => Hasty \/ port # "queued"
       /\ Become("user", k, "lock")
  /\ UNCHANGED <<par, pt, kid, port, todo, mutex, smutex>>

\* The interrupt handler finds the child out of step, or the parent.
Loss ==
  /\ kid.st = "active" /\ par.on /\ pt.port /\ pt.open /\ th["work"] = Resting /\ Spend("loss")
  /\ kid' = [kid EXCEPT !.st = "resync"] /\ Become("work", "resync", "lock")
  /\ UNCHANGED <<par, pt, port, todo, mutex, smutex>>

PLoss ==
  /\ par.st = "active" /\ Spend("p_loss")
  /\ par' = [par EXCEPT !.st = "ignore"] /\ todo' = todo \cup {"p_reconnect"}
  /\ UNCHANGED <<pt, kid, port, th, mutex, smutex>>

User == ChildStep("user") \/ ParentStep("user")
Work == ChildStep("work")

Next == Serio \/ User \/ Work \/ Write \/ Loss \/ PLoss

Spec == Init /\ [][Next]_vars
\* The threads run, and who waits for a mutex gets it in the end.
FairSpec == Spec /\ SF_vars(Serio) /\ SF_vars(User) /\ SF_vars(Work)

-----------------------------------------------------------------------------
(* Properties. *)

Quiescent == (\A t \in Thread : th[t] = Resting) /\ todo = {}

\* The variables keep to their types.
TypeOK ==
  /\ par \in [st : {"init", "cmd", "active", "ignore"}, on : BOOLEAN, syn : BOOLEAN, priv : BOOLEAN]
  /\ pt \in [port : BOOLEAN, open : BOOLEAN, four : BOOLEAN]
  /\ kid \in [there : BOOLEAN, st : {"init", "cmd", "active", "resync", "ignore"},
              on : BOOLEAN, four : BOOLEAN]
  /\ ~kid.there => kid = NoKid
  /\ port \in {"none", "queued", "listed"}
  /\ todo \subseteq {"register", "reconnect", "p_reconnect"}
  /\ \A t \in Thread :
       /\ th[t].act \in ChildActs \cup ParentActs \cup {"none"} /\ th[t].ok \in BOOLEAN
       /\ th[t].at \in {"idle", "lock", "sync", "deactivate", "open", "probe", "set",
                        "close", "free", "guest", "activate", "resume", "unlock",
                        "destroy", "children", "unregister", "relock", "ignore", "switch"}
  /\ {mutex, smutex} \subseteq Thread \cup {"none"} /\ past \in [Events -> Nat]

\* The interrupt handler of the parent, which reads the child's state for a
\* pass-through packet, never finds the child freed.
GuestAlive ==
  par.st \in {"cmd", "active"} /\ par.syn /\ pt.port /\ pt.open => kid.there

\* While one thread talks to the child, the parent is silent and stays so.
QuietTalk ==
  \A t \in Thread :
    At(t, ChildActs, "probe") \/ At(t, ChildActs, "set") \/ At(t, ChildActs, "guest")
      \/ At(t, ChildActs, "activate") => par.st = "cmd" /\ ~par.on

\* Whatever failed with the child, its parent is in use again, and packs the bytes
\* of its child as the child sends them, also after it was itself reset and has
\* forgotten the size.
BothInUse ==
  Quiescent => /\ par.st = "active" /\ par.on
               /\ kid.st = "active" => pt.four = kid.four

\* A change of the parent's protocol comes to its end, although it waits for
\* the serio core to take the child away, and the child for psmouse_mutex.
SwitchEnds == (th["user"].act = "p_protocol") ~> (th["user"] = Resting)

\* psmouse_attr_set_protocol() aborts the change of protocol unless all child
\* ports could be destroyed: no child port outlives the protocol it belongs to.
ChildNeedsParent == port = "listed" => par.syn

\* psmouse_deactivate(): no motion reports unless explicitly requested; a port
\* whose attribute is set was deactivated first.
StaysDeactivated ==
  At("user", {"p_protocol"}, "free") => par.st # "active" /\ ~par.on
=============================================================================
