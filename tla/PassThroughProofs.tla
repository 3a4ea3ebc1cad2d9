-------------------------- MODULE PassThroughProofs --------------------------
(***************************************************************************)
(* Proofs about PassThrough, for any events and whether or not a protocol  *)
(* is changed in haste.                                                    *)
(*                                                                         *)
(* Courses says at which steps of what each thread can be, Mutexes which   *)
(* of them hold a mutex, Quiet that the parent is silent between the       *)
(* steps that silence and resume it.  Place says when there is a port and  *)
(* a child on it, Joins and Parts what the thread that connects or         *)
(* disconnects a child finds and leaves at each of its steps; Parent and   *)
(* Packets who will set the parent and the size of the child's packets     *)
(* right again, when they are not.                                         *)
(***************************************************************************)
EXTENDS PassThrough, TLAPS

Label == {"idle", "lock", "sync", "deactivate", "open", "probe", "set",
          "close", "free", "guest", "activate", "resume", "unlock",
          "destroy", "children", "unregister", "relock", "ignore", "switch"}
Holding == Label \ {"idle", "lock", "sync", "destroy", "unregister", "relock"}
Talking == {"open", "probe", "set", "close", "free", "guest", "activate", "resume"}
ThreadType == [act : ChildActs \cup ParentActs \cup {"none"}, at : Label, ok : BOOLEAN]
ParType == [st : {"init", "cmd", "active", "ignore"}, on : BOOLEAN, syn : BOOLEAN, priv : BOOLEAN]
PtType == [port : BOOLEAN, open : BOOLEAN, four : BOOLEAN]
KidType == [there : BOOLEAN, st : {"init", "cmd", "active", "resync", "ignore"},
            on : BOOLEAN, four : BOOLEAN]

\* What each thread does, and the steps of it
SerioActs == {"connect", "reconnect", "disconnect", "p_reconnect", "p_disconnect", "p_connect"}
UserActs == {"rate", "protocol", "disconnect", "p_rate", "p_protocol"}
Course(x) ==
  /\ x.act = "none" => x = Resting
  /\ x.act = "connect" =>
       x.at \in {"lock", "deactivate", "open", "probe", "guest", "activate", "resume", "unlock"}
  /\ x.act = "reconnect" =>
       x.at \in {"lock", "deactivate", "probe", "guest", "activate", "resume", "unlock"}
  /\ x.act = "disconnect" =>
       x.at \in {"lock", "sync", "deactivate", "close", "free", "resume", "unlock", "destroy"}
  /\ x.act = "resync" => x.at \in {"lock", "deactivate", "probe", "activate", "resume", "unlock"}
  /\ x.act \in {"rate", "protocol"} =>
       x.at \in {"lock", "deactivate", "set", "guest", "activate", "resume", "unlock"}
  /\ x.act = "p_reconnect" => x.at \in {"lock", "probe", "resume", "unlock"}
  /\ x.act = "p_reconnect" /\ ~x.ok => x.at = "unlock"
  /\ x.act = "p_disconnect" => x.at \in {"lock", "free", "ignore", "unlock"}
  /\ x.act = "p_connect" => x.at \in {"lock", "switch", "resume", "unlock"}
  /\ x.act = "p_rate" => x.at \in {"lock", "resume", "unlock"}
  /\ x.act = "p_protocol" =>
       x.at \in {"lock", "children", "unregister", "relock", "free", "ignore", "switch",
                 "resume", "unlock"}
Courses ==
  /\ th \in [Thread -> ThreadType]
  /\ th["serio"].act \in SerioActs \cup {"none"}
  /\ th["user"].act \in UserActs \cup {"none"} /\ th["user"].ok
  /\ th["work"].act \in {"resync", "none"}
  /\ \A t \in Thread : Course(th[t])

Mutexes ==
  /\ \A t \in Thread : mutex = t <=> th[t].at \in Holding
  /\ smutex = "serio" <=> th["serio"].act # "none"
  /\ smutex = "user" <=> th["user"].act = "disconnect"

Quiet ==
  \A t \in Thread :
    th[t].act \in ChildActs /\ th[t].at \in Talking => par.st = "cmd" /\ ~par.on

\* Where there is a child there is a port for it.
Place ==
  /\ pt.port <=> port = "listed"
  /\ "register" \in todo => port = "queued"
  /\ kid.there => port = "listed"
  /\ pt.open => kid.there
  /\ Served \/ th["work"].act = "resync" \/ th["serio"].act = "reconnect" => kid.there
  /\ \A t \in Thread : th[t].act \in {"connect", "disconnect"} => port = "listed"

\* A child that is connected ...
Joins ==
  th["serio"].act = "connect" =>
    /\ ~Served
    /\ ~th["serio"].ok => th["serio"].at \in {"resume", "unlock"}
    /\ th["serio"].at \in {"lock", "deactivate", "open"} \/ ~th["serio"].ok => ~kid.there
    /\ th["serio"].at \in {"probe", "guest", "activate"} => kid.there
    /\ th["serio"].at = "probe" => kid.st = "init" /\ th["work"].act = "none"

\* ... or disconnected is alone with the thread that does it.
Parts ==
  \A t \in Thread : th[t].act = "disconnect" =>
    /\ th[t].at # "lock" => ~Served
    /\ kid.there <=> th[t].at \in {"lock", "sync", "deactivate", "close", "free"}
    /\ th[t].at \in {"sync", "deactivate", "close"} => kid.st = "cmd"
    /\ th[t].at = "free" => kid.st = "ignore" /\ ~pt.open
    /\ th[t].at = "sync" => th["work"].at \in {"idle", "lock"}
    /\ th[t].at \in {"deactivate", "close", "free"} => th["work"].act = "none"

\* The parent is in use, or somebody will set it right.
Parent ==
  \/ par.st = "active" /\ par.on
  \/ "p_reconnect" \in todo
  \/ \E t \in Thread : th[t].act \in ChildActs /\ th[t].at \in Talking
  \/ th["serio"].act = "p_reconnect" /\ ~(th["serio"].at = "unlock" /\ th["serio"].ok)
  \/ th["serio"].act = "disconnect" /\ th["serio"].ok
  \/ th["serio"].act = "p_disconnect"
  \/ th["serio"].act = "p_connect" /\ th["serio"].at # "unlock"
  \/ th["user"].act = "p_rate" /\ th["user"].at = "resume"
  \/ th["user"].act = "p_protocol" /\ th["user"].at \notin {"lock", "unlock"}
  \/ th["user"].act = "disconnect"

\* The packets of the child are as it sends them, or somebody will set it right.
Packets ==
  kid.there =>
    \/ pt.four = kid.four
    \/ /\ th["serio"].act = "p_reconnect" /\ th["serio"].ok
       /\ th["serio"].at \in {"resume", "unlock"}
    \/ /\ th["serio"].act \in {"reconnect", "connect"}
       /\ th["serio"].at \in {"lock", "deactivate", "open", "probe", "guest"} \/ ~th["serio"].ok
    \/ th["serio"].act = "disconnect"
    \/ th["user"].act = "protocol" /\ th["user"].at = "guest"

Types ==
  /\ par \in ParType /\ pt \in PtType /\ kid \in KidType
  /\ ~kid.there => kid = NoKid
  /\ port \in {"none", "queued", "listed"}
  /\ todo \subseteq {"register", "reconnect", "p_reconnect"}
  /\ {mutex, smutex} \subseteq Thread \cup {"none"} /\ past \in [Events -> Nat]

Base == Types /\ Courses /\ Mutexes /\ Quiet /\ Place /\ Joins /\ Parts
Inv == Base /\ Parent /\ Packets

-----------------------------------------------------------------------------
(* Threads. *)

Comes(t, act, at, ok) ==
  /\ th' \in [Thread -> ThreadType]
  /\ th'[t].act = act /\ th'[t].at = at /\ th'[t].ok = ok
  /\ \A u \in Thread \ {t} : th'[u] = th[u]

LEMMA Moved ==
  ASSUME th \in [Thread -> ThreadType], NEW t \in Thread, NEW at \in Label, Go(t, at)
  PROVE  Comes(t, th[t].act, at, th[t].ok)
<1>1. [th[t] EXCEPT !.at = at] \in ThreadType  BY DEF ThreadType
<1>2. th' = [th EXCEPT ![t] = [th[t] EXCEPT !.at = at]]  BY DEF Go
<1>. QED  BY <1>1, <1>2 DEF ThreadType, Comes

LEMMA Failed ==
  ASSUME th \in [Thread -> ThreadType], NEW t \in Thread, NEW at \in Label, Fail(t, at)
  PROVE  Comes(t, th[t].act, at, FALSE)
<1>1. [[th[t] EXCEPT !.at = at] EXCEPT !.ok = FALSE] \in ThreadType  BY DEF ThreadType
<1>2. th' = [th EXCEPT ![t] = [[th[t] EXCEPT !.at = at] EXCEPT !.ok = FALSE]]  BY DEF Fail
<1>. QED  BY <1>1, <1>2 DEF ThreadType, Comes

LEMMA Turned ==
  ASSUME th \in [Thread -> ThreadType], NEW t \in Thread, NEW at \in Label,
         NEW act \in ChildActs \cup ParentActs, Become(t, act, at)
  PROVE  Comes(t, act, at, TRUE)
<1>1. [act |-> act, at |-> at, ok |-> TRUE] \in ThreadType  BY DEF ThreadType
<1>. QED  BY <1>1 DEF Become, ThreadType, Comes

LEMMA Rested ==
  ASSUME th \in [Thread -> ThreadType], NEW t \in Thread, Rest(t)
  PROVE  Comes(t, "none", "idle", TRUE) /\ th'[t] = Resting
<1>1. Resting \in ThreadType  BY DEF Resting, ThreadType, Label
<1>. QED  BY <1>1 DEF Rest, Resting, ThreadType, Comes

LEMMA Spent ==
  ASSUME past \in [Events -> Nat], NEW e \in Events, Spend(e)
  PROVE  past' \in [Events -> Nat]
<1>1. past[e] + 1 \in Nat  OBVIOUS
<1>. QED  BY <1>1 DEF Spend

\* The steps with the child keep Inv.
LEMMA ChildKeeps ==
  ASSUME Inv, NEW t \in Thread, ChildStep(t)
  PROVE  Inv'
<1>. USE DEF Base, Inv, At, Thread, ChildActs, ParentActs, Label, Resting, SerioActs, UserActs,
         Holding, Talking, Served
<1>t. /\ par \in ParType /\ pt \in PtType /\ kid \in KidType /\ th \in [Thread -> ThreadType]
      /\ past \in [Events -> Nat]
  BY DEF Types, Courses
<1>n. NoKid \in KidType /\ ~NoKid.there /\ NoKid.st = "ignore" /\ NoKid.four = FALSE
      /\ NoGuest \in PtType /\ ~NoGuest.port /\ ~NoGuest.open
  BY DEF NoKid, KidType, NoGuest, PtType
<1>1. CASE Lock(t)
  <2>1. \/ /\ At(t, {"resync", "rate", "protocol"}, "lock")
           /\ Comes(t, "none", "idle", TRUE)
           /\ th'[t] = Resting
           /\ UNCHANGED <<par, pt, kid, port, todo, mutex, smutex, past>>
        \/ /\ At(t, ChildActs \ {"disconnect"}, "lock")
           /\ th[t].act = "resync" => kid.st = "resync"
           /\ Comes(t, th[t].act, "deactivate", th[t].ok)
           /\ mutex = "none"
           /\ mutex' = t
           /\ UNCHANGED <<par, pt, kid, port, todo, smutex, past>>
    BY <1>1, <1>t, <1>n, Moved, Rested DEF Lock
  <2>2. Types'  BY <1>n, <2>1 DEF Types
  <2>3. Courses'
    <3>1. Course(th'[t]) /\ th' \in [Thread -> ThreadType]  BY <2>1 DEF Courses, Course, Comes
    <3>. QED  BY <2>1, <3>1 DEF Courses, Comes
  <2>4. Mutexes'  BY <2>1 DEF Courses, Course, Mutexes, Comes
  <2>5. Quiet'  BY <2>1 DEF Courses, Course, Mutexes, Quiet, Comes
  <2>6. Place'  BY <1>n, <2>1 DEF Courses, Course, Mutexes, Place, Joins, Parts, Comes
  <2>7. Joins'  BY <1>n, <2>1 DEF Courses, Course, Mutexes, Place, Joins, Parts, Comes
  <2>8. Parts'  BY <1>n, <2>1 DEF Courses, Course, Mutexes, Place, Joins, Parts, Comes
  <2>9. Parent'  BY <2>1 DEF Courses, Course, Mutexes, Parent, Comes
  <2>10. Packets'  BY <1>n, <2>1 DEF Courses, Course, Mutexes, Packets, Place, Joins, Parts, Comes
  <2>. QED  BY <2>2, <2>3, <2>4, <2>5, <2>6, <2>7, <2>8, <2>9, <2>10
<1>2. CASE DisconnectLock(t)
  <2>1. /\ At(t, {"disconnect"}, "lock")
        /\ mutex = "none"
        /\ ~Served
        /\ Comes(t, th[t].act, "sync", th[t].ok)
        /\ kid' \in KidType
        /\ kid'.there = kid.there
        /\ kid'.st = "cmd"
        /\ kid'.four = kid.four
        /\ UNCHANGED <<par, pt, port, todo, mutex, smutex, past>>
    BY <1>2, <1>t, <1>n, Moved DEF DisconnectLock, KidType
  <2>2. Types'
    <3>1. kid.there  BY <1>n, <2>1 DEF Types, Courses, Course, Place, Joins, Parts
    <3>. QED  BY <1>n, <2>1, <3>1 DEF Types
  <2>3. Courses'
    <3>1. Course(th'[t]) /\ th' \in [Thread -> ThreadType]  BY <2>1 DEF Courses, Course, Comes
    <3>. QED  BY <2>1, <3>1 DEF Courses, Comes
  <2>4. Mutexes'  BY <2>1 DEF Courses, Course, Mutexes, Comes
  <2>5. Quiet'  BY <2>1 DEF Courses, Course, Mutexes, Quiet, Comes
  <2>6. Place'  BY <1>n, <2>1 DEF Courses, Course, Mutexes, Place, Joins, Parts, Comes
  <2>7. Joins'  BY <1>n, <2>1 DEF Courses, Course, Mutexes, Place, Joins, Parts, Comes
  <2>8. Parts'  BY <1>n, <2>1 DEF Courses, Course, Mutexes, Place, Joins, Parts, Comes
  <2>9. Parent'  BY <2>1 DEF Courses, Course, Mutexes, Parent, Comes
  <2>10. Packets'  BY <1>n, <2>1 DEF Courses, Course, Mutexes, Packets, Place, Joins, Parts, Comes
  <2>. QED  BY <2>2, <2>3, <2>4, <2>5, <2>6, <2>7, <2>8, <2>9, <2>10
<1>3. CASE Sync(t)
  <2>1. /\ At(t, {"disconnect"}, "sync")
        /\ th["work"].act = "none"
        /\ Comes(t, th[t].act, "deactivate", th[t].ok)
        /\ mutex = "none"
        /\ mutex' = t
        /\ UNCHANGED <<par, pt, kid, port, todo, smutex, past>>
    BY <1>3, <1>t, <1>n, Moved DEF Sync, Take, Resting
  <2>2. Types'  BY <1>n, <2>1 DEF Types
  <2>3. Courses'
    <3>1. Course(th'[t]) /\ th' \in [Thread -> ThreadType]  BY <2>1 DEF Courses, Course, Comes
    <3>. QED  BY <2>1, <3>1 DEF Courses, Comes
  <2>4. Mutexes'  BY <2>1 DEF Courses, Course, Mutexes, Comes
  <2>5. Quiet'  BY <2>1 DEF Courses, Course, Mutexes, Quiet, Comes
  <2>6. Place'  BY <1>n, <2>1 DEF Courses, Course, Mutexes, Place, Joins, Parts, Comes
  <2>7. Joins'  BY <1>n, <2>1 DEF Courses, Course, Mutexes, Place, Joins, Parts, Comes
  <2>8. Parts'  BY <1>n, <2>1 DEF Courses, Course, Mutexes, Place, Joins, Parts, Comes
  <2>9. Parent'  BY <2>1 DEF Courses, Course, Mutexes, Parent, Comes
  <2>10. Packets'  BY <1>n, <2>1 DEF Courses, Course, Mutexes, Packets, Place, Joins, Parts, Comes
  <2>. QED  BY <2>2, <2>3, <2>4, <2>5, <2>6, <2>7, <2>8, <2>9, <2>10
<1>4. CASE DeactivateParent(t)
  <2>1. /\ At(t, ChildActs, "deactivate")
        /\ \E at \in {"open", "close", "set", "probe"} :
             /\ Comes(t, th[t].act, at, th[t].ok)
             /\ at = "open" <=> th[t].act = "connect"
             /\ at = "close" <=> th[t].act = "disconnect"
             /\ at = "set" <=> th[t].act \in {"rate", "protocol"}
        /\ par' \in ParType
        /\ par'.st = "cmd"
        /\ par'.on = FALSE
        /\ UNCHANGED <<pt, kid, port, todo, mutex, smutex, past>>
    BY <1>4, <1>t, <1>n, Moved DEF DeactivateParent, Silent, ParType
  <2>2. Types'  BY <1>n, <2>1 DEF Types
  <2>3. Courses'
    <3>1. Course(th'[t]) /\ th' \in [Thread -> ThreadType]  BY <2>1 DEF Courses, Course, Comes
    <3>. QED  BY <2>1, <3>1 DEF Courses, Comes
  <2>4. Mutexes'  BY <2>1 DEF Courses, Course, Mutexes, Comes
  <2>5. Quiet'  BY <2>1 DEF Courses, Course, Mutexes, Quiet, Comes
  <2>6. Place'  BY <1>n, <2>1 DEF Courses, Course, Mutexes, Place, Joins, Parts, Comes
  <2>7. Joins'  BY <1>n, <2>1 DEF Courses, Course, Mutexes, Place, Joins, Parts, Comes
  <2>8. Parts'  BY <1>n, <2>1 DEF Courses, Course, Mutexes, Place, Joins, Parts, Comes
  <2>9. Parent'  BY <2>1 DEF Courses, Course, Mutexes, Parent, Comes
  <2>10. Packets'  BY <1>n, <2>1 DEF Courses, Course, Mutexes, Packets, Place, Joins, Parts, Comes
  <2>. QED  BY <2>2, <2>3, <2>4, <2>5, <2>6, <2>7, <2>8, <2>9, <2>10
<1>5. CASE Open(t)
  <2>1. /\ At(t, {"connect"}, "open")
        /\ Comes(t, th[t].act, "probe", th[t].ok)
        /\ kid' \in KidType
        /\ kid'.there = TRUE
        /\ kid'.st = "init"
        /\ pt' \in PtType
        /\ pt'.port = pt.port
        /\ pt'.open = TRUE
        /\ pt'.four = pt.four
        /\ UNCHANGED <<par, port, todo, mutex, smutex, past>>
    BY <1>5, <1>t, <1>n, Moved DEF Open, PtType, KidType
  <2>2. Types'  BY <1>n, <2>1 DEF Types
  <2>3. Courses'
    <3>1. Course(th'[t]) /\ th' \in [Thread -> ThreadType]  BY <2>1 DEF Courses, Course, Comes
    <3>. QED  BY <2>1, <3>1 DEF Courses, Comes
  <2>4. Mutexes'  BY <2>1 DEF Courses, Course, Mutexes, Comes
  <2>5. Quiet'  BY <2>1 DEF Courses, Course, Mutexes, Quiet, Comes
  <2>6. Place'  BY <1>n, <2>1 DEF Courses, Course, Mutexes, Place, Joins, Parts, Comes
  <2>7. Joins'  BY <1>n, <2>1 DEF Courses, Course, Mutexes, Place, Joins, Parts, Comes
  <2>8. Parts'  BY <1>n, <2>1 DEF Courses, Course, Mutexes, Place, Joins, Parts, Comes
  <2>9. Parent'  BY <2>1 DEF Courses, Course, Mutexes, Parent, Comes
  <2>10. Packets'  BY <1>n, <2>1 DEF Courses, Course, Mutexes, Packets, Place, Joins, Parts, Comes
  <2>. QED  BY <2>2, <2>3, <2>4, <2>5, <2>6, <2>7, <2>8, <2>9, <2>10
<1>6. CASE Connect(t)
  <2>1. \/ /\ At(t, {"connect"}, "probe")
           /\ Comes(t, th[t].act, "guest", th[t].ok)
           /\ kid' \in KidType
           /\ kid'.there = kid.there
           /\ kid'.st = "cmd"
           /\ UNCHANGED <<par, pt, port, todo, mutex, smutex, past>>
        \/ /\ At(t, {"connect"}, "probe")
           /\ Comes(t, th[t].act, "resume", FALSE)
           /\ kid' = NoKid
           /\ pt' \in PtType
           /\ pt'.port = pt.port
           /\ pt'.open = FALSE
           /\ pt'.four = pt.four
           /\ past' \in [Events -> Nat]
           /\ UNCHANGED <<par, port, todo, mutex, smutex>>
    BY <1>6, <1>t, <1>n, Moved, Failed, Spent DEF Connect, Silent, PtType, KidType, Events
  <2>2. Types'
    <3>1. kid.there  BY <1>n, <2>1 DEF Types, Courses, Course, Place, Joins, Parts
    <3>. QED  BY <1>n, <2>1, <3>1 DEF Types
  <2>3. Courses'
    <3>1. Course(th'[t]) /\ th' \in [Thread -> ThreadType]  BY <2>1 DEF Courses, Course, Comes
    <3>. QED  BY <2>1, <3>1 DEF Courses, Comes
  <2>4. Mutexes'  BY <2>1 DEF Courses, Course, Mutexes, Comes
  <2>5. Quiet'  BY <2>1 DEF Courses, Course, Mutexes, Quiet, Comes
  <2>6. Place'  BY <1>n, <2>1 DEF Courses, Course, Mutexes, Place, Joins, Parts, Comes
  <2>7. Joins'  BY <1>n, <2>1 DEF Courses, Course, Mutexes, Place, Joins, Parts, Comes
  <2>8. Parts'  BY <1>n, <2>1 DEF Courses, Course, Mutexes, Place, Joins, Parts, Comes
  <2>9. Parent'  BY <2>1 DEF Courses, Course, Mutexes, Parent, Comes
  <2>10. Packets'  BY <1>n, <2>1 DEF Courses, Course, Mutexes, Packets, Place, Joins, Parts, Comes
  <2>. QED  BY <2>2, <2>3, <2>4, <2>5, <2>6, <2>7, <2>8, <2>9, <2>10
<1>7. CASE Reconnect(t)
  <2>1. \/ /\ At(t, {"reconnect"}, "probe")
           /\ Comes(t, th[t].act, "guest", th[t].ok)
           /\ kid' \in KidType
           /\ kid'.there = kid.there
           /\ kid'.st = "cmd"
           /\ kid'.four = kid.four
           /\ UNCHANGED <<par, pt, port, todo, mutex, smutex, past>>
        \/ /\ At(t, {"reconnect"}, "probe")
           /\ Comes(t, th[t].act, "resume", FALSE)
           /\ kid' \in KidType
           /\ kid'.there = kid.there
           /\ kid'.st = "init"
           /\ kid'.four = kid.four
           /\ past' \in [Events -> Nat]
           /\ UNCHANGED <<par, pt, port, todo, mutex, smutex>>
    BY <1>7, <1>t, <1>n, Moved, Failed, Spent DEF Reconnect, Silent, KidType, Events
  <2>2. Types'
    <3>1. kid.there  BY <1>n, <2>1 DEF Types, Courses, Course, Place, Joins, Parts
    <3>. QED  BY <1>n, <2>1, <3>1 DEF Types
  <2>3. Courses'
    <3>1. Course(th'[t]) /\ th' \in [Thread -> ThreadType]  BY <2>1 DEF Courses, Course, Comes
    <3>. QED  BY <2>1, <3>1 DEF Courses, Comes
  <2>4. Mutexes'  BY <2>1 DEF Courses, Course, Mutexes, Comes
  <2>5. Quiet'  BY <2>1 DEF Courses, Course, Mutexes, Quiet, Comes
  <2>6. Place'  BY <1>n, <2>1 DEF Courses, Course, Mutexes, Place, Joins, Parts, Comes
  <2>7. Joins'  BY <1>n, <2>1 DEF Courses, Course, Mutexes, Place, Joins, Parts, Comes
  <2>8. Parts'  BY <1>n, <2>1 DEF Courses, Course, Mutexes, Place, Joins, Parts, Comes
  <2>9. Parent'  BY <2>1 DEF Courses, Course, Mutexes, Parent, Comes
  <2>10. Packets'  BY <1>n, <2>1 DEF Courses, Course, Mutexes, Packets, Place, Joins, Parts, Comes
  <2>. QED  BY <2>2, <2>3, <2>4, <2>5, <2>6, <2>7, <2>8, <2>9, <2>10
<1>8. CASE Resync(t)
  <2>1. \/ /\ At(t, {"resync"}, "probe")
           /\ Comes(t, th[t].act, "activate", th[t].ok)
           /\ UNCHANGED <<par, pt, kid, port, todo, mutex, smutex, past>>
        \/ /\ At(t, {"resync"}, "probe")
           /\ Comes(t, th[t].act, "resume", FALSE)
           /\ kid' \in KidType
           /\ kid'.there = kid.there
           /\ kid'.st = "ignore"
           /\ kid'.four = kid.four
           /\ todo' = todo \cup {"reconnect"}
           /\ past' \in [Events -> Nat]
           /\ UNCHANGED <<par, pt, port, mutex, smutex>>
    BY <1>8, <1>t, <1>n, Moved, Failed, Spent DEF Resync, KidType, Events
  <2>2. Types'
    <3>1. kid.there  BY <1>n, <2>1 DEF Types, Courses, Course, Place, Joins, Parts
    <3>. QED  BY <1>n, <2>1, <3>1 DEF Types
  <2>3. Courses'
    <3>1. Course(th'[t]) /\ th' \in [Thread -> ThreadType]  BY <2>1 DEF Courses, Course, Comes
    <3>. QED  BY <2>1, <3>1 DEF Courses, Comes
  <2>4. Mutexes'  BY <2>1 DEF Courses, Course, Mutexes, Comes
  <2>5. Quiet'  BY <2>1 DEF Courses, Course, Mutexes, Quiet, Comes
  <2>6. Place'  BY <1>n, <2>1 DEF Courses, Course, Mutexes, Place, Joins, Parts, Comes
  <2>7. Joins'  BY <1>n, <2>1 DEF Courses, Course, Mutexes, Place, Joins, Parts, Comes
  <2>8. Parts'  BY <1>n, <2>1 DEF Courses, Course, Mutexes, Place, Joins, Parts, Comes
  <2>9. Parent'  BY <2>1 DEF Courses, Course, Mutexes, Parent, Comes
  <2>10. Packets'
    <3>1. t = "work"  BY <2>1 DEF Courses, Course
    <3>2. th'["serio"] = th["serio"] /\ th'["user"] = th["user"]  BY <2>1, <3>1 DEF Comes
    <3>3. pt' = pt /\ kid'.there = kid.there /\ kid'.four = kid.four  BY <2>1
    <3>. QED  BY <3>2, <3>3 DEF Packets
  <2>. QED  BY <2>2, <2>3, <2>4, <2>5, <2>6, <2>7, <2>8, <2>9, <2>10
<1>9. CASE Set(t)
  <2>1. \/ /\ At(t, {"rate", "protocol"}, "set")
           /\ Comes(t, th[t].act, "activate", th[t].ok)
           /\ kid' \in KidType
           /\ kid'.there = kid.there
           /\ kid'.st = "cmd"
           /\ kid'.four = kid.four
           /\ past' \in [Events -> Nat]
           /\ UNCHANGED <<par, pt, port, todo, mutex, smutex>>
        \/ /\ At(t, {"protocol"}, "set")
           /\ Comes(t, th[t].act, "guest", th[t].ok)
           /\ kid' \in KidType
           /\ kid'.there = kid.there
           /\ kid'.st = "cmd"
           /\ UNCHANGED <<par, pt, port, todo, mutex, smutex, past>>
    BY <1>9, <1>t, <1>n, Moved, Spent DEF Set, Silent, KidType, Events
  <2>2. Types'
    <3>1. kid.there  BY <1>n, <2>1 DEF Types, Courses, Course, Place, Joins, Parts
    <3>. QED  BY <1>n, <2>1, <3>1 DEF Types
  <2>3. Courses'
    <3>1. Course(th'[t]) /\ th' \in [Thread -> ThreadType]  BY <2>1 DEF Courses, Course, Comes
    <3>. QED  BY <2>1, <3>1 DEF Courses, Comes
  <2>4. Mutexes'  BY <2>1 DEF Courses, Course, Mutexes, Comes
  <2>5. Quiet'  BY <2>1 DEF Courses, Course, Mutexes, Quiet, Comes
  <2>6. Place'  BY <1>n, <2>1 DEF Courses, Course, Mutexes, Place, Joins, Parts, Comes
  <2>7. Joins'  BY <1>n, <2>1 DEF Courses, Course, Mutexes, Place, Joins, Parts, Comes
  <2>8. Parts'  BY <1>n, <2>1 DEF Courses, Course, Mutexes, Place, Joins, Parts, Comes
  <2>9. Parent'  BY <2>1 DEF Courses, Course, Mutexes, Parent, Comes
  <2>10. Packets'
    <3>1. t = "user"  BY <2>1 DEF Courses, Course
    <3>2. th'["serio"] = th["serio"] /\ th["user"].at = "set"  BY <2>1, <3>1 DEF Comes
    <3>3. pt' = pt /\ kid'.there = kid.there  BY <2>1
    <3>4. kid'.four = kid.four \/ (th'["user"].act = "protocol" /\ th'["user"].at = "guest")
      BY <2>1, <3>1 DEF Comes
    <3>. QED  BY <3>2, <3>3, <3>4 DEF Packets
  <2>. QED  BY <2>2, <2>3, <2>4, <2>5, <2>6, <2>7, <2>8, <2>9, <2>10
<1>10. CASE Close(t)
  <2>1. /\ At(t, {"disconnect"}, "close")
        /\ Comes(t, th[t].act, "free", th[t].ok)
        /\ kid' \in KidType
        /\ kid'.there = kid.there
        /\ kid'.st = "ignore"
        /\ kid'.four = kid.four
        /\ pt' \in PtType
        /\ pt'.port = pt.port
        /\ pt'.open = FALSE
        /\ pt'.four = pt.four
        /\ UNCHANGED <<par, port, todo, mutex, smutex, past>>
    BY <1>10, <1>t, <1>n, Moved DEF Close, PtType, KidType
  <2>2. Types'
    <3>1. kid.there  BY <1>n, <2>1 DEF Types, Courses, Course, Place, Joins, Parts
    <3>. QED  BY <1>n, <2>1, <3>1 DEF Types
  <2>3. Courses'
    <3>1. Course(th'[t]) /\ th' \in [Thread -> ThreadType]  BY <2>1 DEF Courses, Course, Comes
    <3>. QED  BY <2>1, <3>1 DEF Courses, Comes
  <2>4. Mutexes'  BY <2>1 DEF Courses, Course, Mutexes, Comes
  <2>5. Quiet'  BY <2>1 DEF Courses, Course, Mutexes, Quiet, Comes
  <2>6. Place'  BY <1>n, <2>1 DEF Courses, Course, Mutexes, Place, Joins, Parts, Comes
  <2>7. Joins'  BY <1>n, <2>1 DEF Courses, Course, Mutexes, Place, Joins, Parts, Comes
  <2>8. Parts'  BY <1>n, <2>1 DEF Courses, Course, Mutexes, Place, Joins, Parts, Comes
  <2>9. Parent'  BY <2>1 DEF Courses, Course, Mutexes, Parent, Comes
  <2>10. Packets'  BY <1>n, <2>1 DEF Courses, Course, Mutexes, Packets, Place, Joins, Parts, Comes
  <2>. QED  BY <2>2, <2>3, <2>4, <2>5, <2>6, <2>7, <2>8, <2>9, <2>10
<1>11. CASE Free(t)
  <2>1. /\ At(t, {"disconnect"}, "free")
        /\ Comes(t, th[t].act, "resume", th[t].ok)
        /\ kid' = NoKid
        /\ UNCHANGED <<par, pt, port, todo, mutex, smutex, past>>
    BY <1>11, <1>t, <1>n, Moved DEF Free, KidType
  <2>2. Types'
    <3>1. kid.there  BY <1>n, <2>1 DEF Types, Courses, Course, Place, Joins, Parts
    <3>. QED  BY <1>n, <2>1, <3>1 DEF Types
  <2>3. Courses'
    <3>1. Course(th'[t]) /\ th' \in [Thread -> ThreadType]  BY <2>1 DEF Courses, Course, Comes
    <3>. QED  BY <2>1, <3>1 DEF Courses, Comes
  <2>4. Mutexes'  BY <2>1 DEF Courses, Course, Mutexes, Comes
  <2>5. Quiet'  BY <2>1 DEF Courses, Course, Mutexes, Quiet, Comes
  <2>6. Place'  BY <1>n, <2>1 DEF Courses, Course, Mutexes, Place, Joins, Parts, Comes
  <2>7. Joins'  BY <1>n, <2>1 DEF Courses, Course, Mutexes, Place, Joins, Parts, Comes
  <2>8. Parts'  BY <1>n, <2>1 DEF Courses, Course, Mutexes, Place, Joins, Parts, Comes
  <2>9. Parent'  BY <2>1 DEF Courses, Course, Mutexes, Parent, Comes
  <2>10. Packets'  BY <1>n, <2>1 DEF Courses, Course, Mutexes, Packets, Place, Joins, Parts, Comes
  <2>. QED  BY <2>2, <2>3, <2>4, <2>5, <2>6, <2>7, <2>8, <2>9, <2>10
<1>12. CASE Guest(t)
  <2>1. /\ At(t, ChildActs, "guest")
        /\ Comes(t, th[t].act, "activate", th[t].ok)
        /\ pt' \in PtType
        /\ pt'.port = pt.port
        /\ pt'.open = pt.open
        /\ pt.port => pt'.four = kid.four
        /\ UNCHANGED <<par, kid, port, todo, mutex, smutex, past>>
    BY <1>12, <1>t, <1>n, Moved DEF Guest, PtType, KidType
  <2>2. Types'  BY <1>n, <2>1 DEF Types
  <2>3. Courses'
    <3>1. Course(th'[t]) /\ th' \in [Thread -> ThreadType]  BY <2>1 DEF Courses, Course, Comes
    <3>. QED  BY <2>1, <3>1 DEF Courses, Comes
  <2>4. Mutexes'  BY <2>1 DEF Courses, Course, Mutexes, Comes
  <2>5. Quiet'  BY <2>1 DEF Courses, Course, Mutexes, Quiet, Comes
  <2>6. Place'  BY <1>n, <2>1 DEF Courses, Course, Mutexes, Place, Joins, Parts, Comes
  <2>7. Joins'  BY <1>n, <2>1 DEF Courses, Course, Mutexes, Place, Joins, Parts, Comes
  <2>8. Parts'  BY <1>n, <2>1 DEF Courses, Course, Mutexes, Place, Joins, Parts, Comes
  <2>9. Parent'  BY <2>1 DEF Courses, Course, Mutexes, Parent, Comes
  <2>10. Packets'  BY <1>n, <2>1 DEF Courses, Course, Mutexes, Packets, Place, Joins, Parts, Comes
  <2>. QED  BY <2>2, <2>3, <2>4, <2>5, <2>6, <2>7, <2>8, <2>9, <2>10
<1>13. CASE Activate(t)
  <2>1. /\ At(t, ChildActs, "activate")
        /\ Comes(t, th[t].act, "resume", th[t].ok)
        /\ kid' \in KidType
        /\ kid'.there = kid.there
        /\ kid'.st = "active"
        /\ kid'.four = kid.four
        /\ UNCHANGED <<par, pt, port, todo, mutex, smutex, past>>
    BY <1>13, <1>t, <1>n, Moved DEF Activate, Streaming, KidType
  <2>2. Types'
    <3>1. kid.there  BY <1>n, <2>1 DEF Types, Courses, Course, Place, Joins, Parts
    <3>. QED  BY <1>n, <2>1, <3>1 DEF Types
  <2>3. Courses'
    <3>1. Course(th'[t]) /\ th' \in [Thread -> ThreadType]  BY <2>1 DEF Courses, Course, Comes
    <3>. QED  BY <2>1, <3>1 DEF Courses, Comes
  <2>4. Mutexes'  BY <2>1 DEF Courses, Course, Mutexes, Comes
  <2>5. Quiet'  BY <2>1 DEF Courses, Course, Mutexes, Quiet, Comes
  <2>6. Place'  BY <1>n, <2>1 DEF Courses, Course, Mutexes, Place, Joins, Parts, Comes
  <2>7. Joins'  BY <1>n, <2>1 DEF Courses, Course, Mutexes, Place, Joins, Parts, Comes
  <2>8. Parts'  BY <1>n, <2>1 DEF Courses, Course, Mutexes, Place, Joins, Parts, Comes
  <2>9. Parent'  BY <2>1 DEF Courses, Course, Mutexes, Parent, Comes
  <2>10. Packets'  BY <1>n, <2>1 DEF Courses, Course, Mutexes, Packets, Place, Joins, Parts, Comes
  <2>. QED  BY <2>2, <2>3, <2>4, <2>5, <2>6, <2>7, <2>8, <2>9, <2>10
<1>14. CASE Resume(t)
  <2>1. /\ At(t, ChildActs, "resume")
        /\ Comes(t, th[t].act, "unlock", th[t].ok)
        /\ par' \in ParType
        /\ par'.st = "active"
        /\ par'.on = TRUE
        /\ UNCHANGED <<pt, kid, port, todo, mutex, smutex, past>>
    BY <1>14, <1>t, <1>n, Moved DEF Resume, Streaming, ParType
  <2>2. Types'  BY <1>n, <2>1 DEF Types
  <2>3. Courses'
    <3>1. Course(th'[t]) /\ th' \in [Thread -> ThreadType]  BY <2>1 DEF Courses, Course, Comes
    <3>. QED  BY <2>1, <3>1 DEF Courses, Comes
  <2>4. Mutexes'  BY <2>1 DEF Courses, Course, Mutexes, Comes
  <2>5. Quiet'  BY <2>1 DEF Courses, Course, Mutexes, Quiet, Comes
  <2>6. Place'  BY <1>n, <2>1 DEF Courses, Course, Mutexes, Place, Joins, Parts, Comes
  <2>7. Joins'  BY <1>n, <2>1 DEF Courses, Course, Mutexes, Place, Joins, Parts, Comes
  <2>8. Parts'  BY <1>n, <2>1 DEF Courses, Course, Mutexes, Place, Joins, Parts, Comes
  <2>9. Parent'  BY <2>1 DEF Courses, Course, Mutexes, Parent, Comes
  <2>10. Packets'  BY <1>n, <2>1 DEF Courses, Course, Mutexes, Packets, Place, Joins, Parts, Comes
  <2>. QED  BY <2>2, <2>3, <2>4, <2>5, <2>6, <2>7, <2>8, <2>9, <2>10
<1>15. CASE Unlock(t)
  <2>1. \/ /\ At(t, {"reconnect"}, "unlock")
           /\ ~th[t].ok
           /\ Comes(t, "disconnect", "lock", FALSE)
           /\ mutex' = "none"
           /\ UNCHANGED <<par, pt, kid, port, todo, smutex, past>>
        \/ /\ At(t, {"disconnect"}, "unlock")
           /\ th[t].ok
           /\ Comes(t, th[t].act, "destroy", th[t].ok)
           /\ mutex' = "none"
           /\ UNCHANGED <<par, pt, kid, port, todo, smutex, past>>
        \/ /\ At(t, {"disconnect"}, "unlock")
           /\ ~th[t].ok
           /\ Comes(t, "connect", "lock", TRUE)
           /\ mutex' = "none"
           /\ UNCHANGED <<par, pt, kid, port, todo, smutex, past>>
        \/ /\ At(t, ChildActs \ {"disconnect"}, "unlock")
           /\ th[t].act = "reconnect" => th[t].ok
           /\ Comes(t, "none", "idle", TRUE)
           /\ th'[t] = Resting
           /\ mutex' = "none"
           /\ smutex' = IF t = "serio" THEN "none" ELSE smutex
           /\ UNCHANGED <<par, pt, kid, port, todo, past>>
    <3>1. CASE th[t].act = "reconnect" /\ ~th[t].ok
      <4>1. th' = [th EXCEPT ![t].act = "disconnect", ![t].at = "lock"]  BY <1>15, <3>1 DEF Unlock
      <4>2. [[th[t] EXCEPT !.act = "disconnect"] EXCEPT !.at = "lock"] \in ThreadType
        BY <1>t DEF ThreadType
      <4>3. th' = [th EXCEPT ![t] = [[th[t] EXCEPT !.act = "disconnect"] EXCEPT !.at = "lock"]]
        BY <4>1
      <4>4. Comes(t, "disconnect", "lock", FALSE)  BY <1>t, <3>1, <4>2, <4>3 DEF Comes, ThreadType
      <4>. QED  BY <1>15, <3>1, <4>4 DEF Unlock
    <3>2. CASE th[t].act = "disconnect" /\ th[t].ok
      BY <1>15, <1>t, <3>2, Moved DEF Unlock
    <3>3. CASE th[t].act = "disconnect" /\ ~th[t].ok
      BY <1>15, <1>t, <3>3, Turned DEF Unlock
    <3>4. CASE th[t].act # "disconnect" /\ (th[t].act = "reconnect" => th[t].ok)
      BY <1>15, <1>t, <3>4, Rested DEF Unlock
    <3>. QED  BY <1>15, <3>1, <3>2, <3>3, <3>4 DEF Unlock
  <2>2. Types'  BY <1>n, <2>1 DEF Types
  <2>3. Courses'
    <3>1. Course(th'[t]) /\ th' \in [Thread -> ThreadType]  BY <2>1 DEF Courses, Course, Comes
    <3>. QED  BY <2>1, <3>1 DEF Courses, Comes
  <2>4. Mutexes'  BY <2>1 DEF Courses, Course, Mutexes, Comes
  <2>5. Quiet'  BY <2>1 DEF Courses, Course, Mutexes, Quiet, Comes
  <2>6. Place'  BY <1>n, <2>1 DEF Courses, Course, Mutexes, Place, Joins, Parts, Comes
  <2>7. Joins'  BY <1>n, <2>1 DEF Courses, Course, Mutexes, Place, Joins, Parts, Comes
  <2>8. Parts'  BY <1>n, <2>1 DEF Courses, Course, Mutexes, Place, Joins, Parts, Comes
  <2>9. Parent'  BY <2>1 DEF Courses, Course, Mutexes, Parent, Comes
  <2>10. Packets'  BY <1>n, <2>1 DEF Courses, Course, Mutexes, Packets, Place, Joins, Parts, Comes
  <2>. QED  BY <2>2, <2>3, <2>4, <2>5, <2>6, <2>7, <2>8, <2>9, <2>10
<1>16. CASE Destroy(t)
  <2>1. \/ /\ At(t, {"disconnect"}, "destroy")
           /\ pt' \in PtType
           /\ pt'.port = FALSE
           /\ pt'.open = pt.open
           /\ pt'.four = pt.four
           /\ port' = "none"
           /\ t = "user"
           /\ Comes(t, "p_protocol", "relock", TRUE)
           /\ smutex' = "none"
           /\ UNCHANGED <<par, kid, todo, mutex, past>>
        \/ /\ At(t, {"disconnect"}, "destroy")
           /\ pt' \in PtType
           /\ pt'.port = FALSE
           /\ pt'.open = pt.open
           /\ pt'.four = pt.four
           /\ port' = "none"
           /\ t # "user"
           /\ Comes(t, "p_disconnect", "lock", TRUE)
           /\ UNCHANGED <<par, kid, todo, mutex, smutex, past>>
    BY <1>16, <1>t, <1>n, Turned DEF Destroy, PtType
  <2>2. Types'  BY <1>n, <2>1 DEF Types
  <2>3. Courses'
    <3>1. Course(th'[t]) /\ th' \in [Thread -> ThreadType]  BY <2>1 DEF Courses, Course, Comes
    <3>. QED  BY <2>1, <3>1 DEF Courses, Comes
  <2>4. Mutexes'  BY <2>1 DEF Courses, Course, Mutexes, Comes
  <2>5. Quiet'  BY <2>1 DEF Courses, Course, Mutexes, Quiet, Comes
  <2>6. Place'  BY <1>n, <2>1 DEF Courses, Course, Mutexes, Place, Joins, Parts, Comes
  <2>7. Joins'  BY <1>n, <2>1 DEF Courses, Course, Mutexes, Place, Joins, Parts, Comes
  <2>8. Parts'  BY <1>n, <2>1 DEF Courses, Course, Mutexes, Place, Joins, Parts, Comes
  <2>9. Parent'  BY <2>1 DEF Courses, Course, Mutexes, Parent, Comes
  <2>10. Packets'  BY <1>n, <2>1 DEF Courses, Course, Mutexes, Packets, Place, Joins, Parts, Comes
  <2>. QED  BY <2>2, <2>3, <2>4, <2>5, <2>6, <2>7, <2>8, <2>9, <2>10
<1>. QED  BY <1>1, <1>2, <1>3, <1>4, <1>5, <1>6, <1>7, <1>8, <1>9, <1>10, <1>11, <1>12, <1>13,
             <1>14, <1>15, <1>16 DEF ChildStep

\* So do the steps with the parent, ...
LEMMA ParentKeeps ==
  ASSUME Inv, NEW t \in Thread \ {"work"}, ParentStep(t)
  PROVE  Inv'
<1>. USE DEF Base, Inv, At, Thread, ChildActs, ParentActs, Label, Resting, SerioActs, UserActs,
         Holding, Talking, Served
<1>t. /\ par \in ParType /\ pt \in PtType /\ kid \in KidType /\ th \in [Thread -> ThreadType]
      /\ past \in [Events -> Nat]
  BY DEF Types, Courses
<1>n. NoKid \in KidType /\ ~NoKid.there /\ NoKid.st = "ignore" /\ NoKid.four = FALSE
      /\ NoGuest \in PtType /\ ~NoGuest.port /\ ~NoGuest.open
  BY DEF NoKid, KidType, NoGuest, PtType
<1>1. CASE PLock(t)
  <2>1. \/ /\ At(t, {"p_reconnect"}, "lock")
           /\ Comes(t, th[t].act, "probe", th[t].ok)
           /\ par' \in ParType
           /\ mutex = "none"
           /\ mutex' = t
           /\ UNCHANGED <<pt, kid, port, todo, smutex, past>>
        \/ /\ At(t, {"p_disconnect"}, "lock")
           /\ Comes(t, th[t].act, "free", th[t].ok)
           /\ par' \in ParType
           /\ mutex = "none"
           /\ mutex' = t
           /\ UNCHANGED <<pt, kid, port, todo, smutex, past>>
        \/ /\ At(t, {"p_connect"}, "lock")
           /\ Comes(t, th[t].act, "switch", th[t].ok)
           /\ par' \in ParType
           /\ mutex = "none"
           /\ mutex' = t
           /\ UNCHANGED <<pt, kid, port, todo, smutex, past>>
        \/ /\ At(t, {"p_rate"}, "lock")
           /\ Comes(t, th[t].act, "resume", th[t].ok)
           /\ par' \in ParType
           /\ mutex = "none"
           /\ mutex' = t
           /\ UNCHANGED <<pt, kid, port, todo, smutex, past>>
        \/ /\ At(t, {"p_protocol"}, "lock")
           /\ Comes(t, th[t].act, "children", th[t].ok)
           /\ par' \in ParType
           /\ mutex = "none"
           /\ mutex' = t
           /\ UNCHANGED <<pt, kid, port, todo, smutex, past>>
        \/ /\ At(t, {"p_rate", "p_protocol"}, "lock")
           /\ Comes(t, th[t].act, "unlock", th[t].ok)
           /\ mutex = "none"
           /\ mutex' = t
           /\ UNCHANGED <<par, pt, kid, port, todo, smutex, past>>
    BY <1>1, <1>t, <1>n, Moved DEF PLock, Take, Silent, ParType
  <2>2. Types'  BY <1>n, <2>1 DEF Types
  <2>3. Courses'
    <3>1. Course(th'[t]) /\ th' \in [Thread -> ThreadType]  BY <2>1 DEF Courses, Course, Comes
    <3>. QED  BY <2>1, <3>1 DEF Courses, Comes
  <2>4. Mutexes'  BY <2>1 DEF Courses, Course, Mutexes, Comes
  <2>5. Quiet'  BY <2>1 DEF Courses, Course, Mutexes, Quiet, Comes
  <2>6. Place'  BY <1>n, <2>1 DEF Courses, Course, Mutexes, Place, Joins, Parts, Comes
  <2>7. Joins'  BY <1>n, <2>1 DEF Courses, Course, Mutexes, Place, Joins, Parts, Comes
  <2>8. Parts'  BY <1>n, <2>1 DEF Courses, Course, Mutexes, Place, Joins, Parts, Comes
  <2>9. Parent'  BY <2>1 DEF Courses, Course, Mutexes, Parent, Comes
  <2>10. Packets'  BY <1>n, <2>1 DEF Courses, Course, Mutexes, Packets, Place, Joins, Parts, Comes
  <2>. QED  BY <2>2, <2>3, <2>4, <2>5, <2>6, <2>7, <2>8, <2>9, <2>10
<1>2. CASE PReconnect(t)
  <2>1. \/ /\ At(t, {"p_reconnect"}, "probe")
           /\ Comes(t, th[t].act, "resume", th[t].ok)
           /\ par' \in ParType
           /\ pt' \in PtType
           /\ pt'.port = pt.port
           /\ pt'.open = pt.open
           /\ UNCHANGED <<kid, port, todo, mutex, smutex, past>>
        \/ /\ At(t, {"p_reconnect"}, "probe")
           /\ Comes(t, th[t].act, "unlock", FALSE)
           /\ par' \in ParType
           /\ past' \in [Events -> Nat]
           /\ UNCHANGED <<pt, kid, port, todo, mutex, smutex>>
    BY <1>2, <1>t, <1>n, Moved, Failed, Spent DEF PReconnect, Silent, ParType, PtType, Events
  <2>2. Types'  BY <1>n, <2>1 DEF Types
  <2>3. Courses'
    <3>1. Course(th'[t]) /\ th' \in [Thread -> ThreadType]  BY <2>1 DEF Courses, Course, Comes
    <3>. QED  BY <2>1, <3>1 DEF Courses, Comes
  <2>4. Mutexes'  BY <2>1 DEF Courses, Course, Mutexes, Comes
  <2>5. Quiet'  BY <2>1 DEF Courses, Course, Mutexes, Quiet, Comes
  <2>6. Place'  BY <1>n, <2>1 DEF Courses, Course, Mutexes, Place, Joins, Parts, Comes
  <2>7. Joins'  BY <1>n, <2>1 DEF Courses, Course, Mutexes, Place, Joins, Parts, Comes
  <2>8. Parts'  BY <1>n, <2>1 DEF Courses, Course, Mutexes, Place, Joins, Parts, Comes
  <2>9. Parent'  BY <2>1 DEF Courses, Course, Mutexes, Parent, Comes
  <2>10. Packets'
    <3>1. t = "serio"  BY <2>1 DEF Courses, Course
    <3>2. th'["user"] = th["user"] /\ th["serio"].act = "p_reconnect" /\ th["serio"].at = "probe"
      BY <2>1, <3>1 DEF Comes
    <3>3. kid' = kid /\ (pt' = pt \/ th'["serio"].at = "resume")  BY <2>1, <3>1 DEF Comes
    <3>4. th'["serio"].act = "p_reconnect" /\ (th'["serio"].at = "resume" => th'["serio"].ok)
      BY <2>1, <3>1 DEF Comes, Courses, Course
    <3>. QED  BY <3>2, <3>3, <3>4 DEF Packets
  <2>. QED  BY <2>2, <2>3, <2>4, <2>5, <2>6, <2>7, <2>8, <2>9, <2>10
<1>3. CASE Children(t)
  <2>1. \/ /\ At(t, {"p_protocol"}, "children")
           /\ Comes(t, th[t].act, "unregister", th[t].ok)
           /\ mutex' = "none"
           /\ UNCHANGED <<par, pt, kid, port, todo, smutex, past>>
        \/ /\ At(t, {"p_protocol"}, "children")
           /\ Comes(t, th[t].act, "free", th[t].ok)
           /\ UNCHANGED <<par, pt, kid, port, todo, mutex, smutex, past>>
    BY <1>3, <1>t, <1>n, Moved DEF Children
  <2>2. Types'  BY <1>n, <2>1 DEF Types
  <2>3. Courses'
    <3>1. Course(th'[t]) /\ th' \in [Thread -> ThreadType]  BY <2>1 DEF Courses, Course, Comes
    <3>. QED  BY <2>1, <3>1 DEF Courses, Comes
  <2>4. Mutexes'  BY <2>1 DEF Courses, Course, Mutexes, Comes
  <2>5. Quiet'  BY <2>1 DEF Courses, Course, Mutexes, Quiet, Comes
  <2>6. Place'  BY <1>n, <2>1 DEF Courses, Course, Mutexes, Place, Joins, Parts, Comes
  <2>7. Joins'  BY <1>n, <2>1 DEF Courses, Course, Mutexes, Place, Joins, Parts, Comes
  <2>8. Parts'  BY <1>n, <2>1 DEF Courses, Course, Mutexes, Place, Joins, Parts, Comes
  <2>9. Parent'  BY <2>1 DEF Courses, Course, Mutexes, Parent, Comes
  <2>10. Packets'  BY <1>n, <2>1 DEF Courses, Course, Mutexes, Packets, Place, Joins, Parts, Comes
  <2>. QED  BY <2>2, <2>3, <2>4, <2>5, <2>6, <2>7, <2>8, <2>9, <2>10
<1>4. CASE Unregister(t)
  <2>1. \/ /\ At(t, {"p_protocol"}, "unregister")
           /\ smutex = "none"
           /\ port = "listed"
           /\ smutex' = t
           /\ kid.there
           /\ Comes(t, "disconnect", "lock", TRUE)
           /\ UNCHANGED <<par, pt, kid, port, todo, mutex, past>>
        \/ /\ At(t, {"p_protocol"}, "unregister")
           /\ smutex = "none"
           /\ port = "listed"
           /\ smutex' = t
           /\ ~kid.there
           /\ Comes(t, "disconnect", "destroy", TRUE)
           /\ UNCHANGED <<par, pt, kid, port, todo, mutex, past>>
        \/ /\ At(t, {"p_protocol"}, "unregister")
           /\ Comes(t, th[t].act, "relock", th[t].ok)
           /\ UNCHANGED <<par, pt, kid, port, todo, mutex, smutex, past>>
    BY <1>4, <1>t, <1>n, Moved, Turned DEF Unregister
  <2>2. Types'  BY <1>n, <2>1 DEF Types
  <2>3. Courses'
    <3>1. Course(th'[t]) /\ th' \in [Thread -> ThreadType]  BY <2>1 DEF Courses, Course, Comes
    <3>. QED  BY <2>1, <3>1 DEF Courses, Comes
  <2>4. Mutexes'  BY <2>1 DEF Courses, Course, Mutexes, Comes
  <2>5. Quiet'  BY <2>1 DEF Courses, Course, Mutexes, Quiet, Comes
  <2>6. Place'  BY <1>n, <2>1 DEF Courses, Course, Mutexes, Place, Joins, Parts, Comes
  <2>7. Joins'  BY <1>n, <2>1 DEF Courses, Course, Mutexes, Place, Joins, Parts, Comes
  <2>8. Parts'  BY <1>n, <2>1 DEF Courses, Course, Mutexes, Place, Joins, Parts, Comes
  <2>9. Parent'  BY <2>1 DEF Courses, Course, Mutexes, Parent, Comes
  <2>10. Packets'  BY <1>n, <2>1 DEF Courses, Course, Mutexes, Packets, Place, Joins, Parts, Comes
  <2>. QED  BY <2>2, <2>3, <2>4, <2>5, <2>6, <2>7, <2>8, <2>9, <2>10
<1>5. CASE Relock(t)
  <2>1. /\ At(t, {"p_protocol"}, "relock")
        /\ Comes(t, th[t].act, "children", th[t].ok)
        /\ mutex = "none"
        /\ mutex' = t
        /\ UNCHANGED <<par, pt, kid, port, todo, smutex, past>>
    BY <1>5, <1>t, <1>n, Moved DEF Relock, Take
  <2>2. Types'  BY <1>n, <2>1 DEF Types
  <2>3. Courses'
    <3>1. Course(th'[t]) /\ th' \in [Thread -> ThreadType]  BY <2>1 DEF Courses, Course, Comes
    <3>. QED  BY <2>1, <3>1 DEF Courses, Comes
  <2>4. Mutexes'  BY <2>1 DEF Courses, Course, Mutexes, Comes
  <2>5. Quiet'  BY <2>1 DEF Courses, Course, Mutexes, Quiet, Comes
  <2>6. Place'  BY <1>n, <2>1 DEF Courses, Course, Mutexes, Place, Joins, Parts, Comes
  <2>7. Joins'  BY <1>n, <2>1 DEF Courses, Course, Mutexes, Place, Joins, Parts, Comes
  <2>8. Parts'  BY <1>n, <2>1 DEF Courses, Course, Mutexes, Place, Joins, Parts, Comes
  <2>9. Parent'  BY <2>1 DEF Courses, Course, Mutexes, Parent, Comes
  <2>10. Packets'  BY <1>n, <2>1 DEF Courses, Course, Mutexes, Packets, Place, Joins, Parts, Comes
  <2>. QED  BY <2>2, <2>3, <2>4, <2>5, <2>6, <2>7, <2>8, <2>9, <2>10
<1>6. CASE PFree(t)
  <2>1. /\ At(t, {"p_disconnect", "p_protocol"}, "free")
        /\ Comes(t, th[t].act, "ignore", th[t].ok)
        /\ par' \in ParType
        /\ UNCHANGED <<pt, kid, port, todo, mutex, smutex, past>>
    BY <1>6, <1>t, <1>n, Moved DEF PFree, ParType
  <2>2. Types'  BY <1>n, <2>1 DEF Types
  <2>3. Courses'
    <3>1. Course(th'[t]) /\ th' \in [Thread -> ThreadType]  BY <2>1 DEF Courses, Course, Comes
    <3>. QED  BY <2>1, <3>1 DEF Courses, Comes
  <2>4. Mutexes'  BY <2>1 DEF Courses, Course, Mutexes, Comes
  <2>5. Quiet'  BY <2>1 DEF Courses, Course, Mutexes, Quiet, Comes
  <2>6. Place'  BY <1>n, <2>1 DEF Courses, Course, Mutexes, Place, Joins, Parts, Comes
  <2>7. Joins'  BY <1>n, <2>1 DEF Courses, Course, Mutexes, Place, Joins, Parts, Comes
  <2>8. Parts'  BY <1>n, <2>1 DEF Courses, Course, Mutexes, Place, Joins, Parts, Comes
  <2>9. Parent'  BY <2>1 DEF Courses, Course, Mutexes, Parent, Comes
  <2>10. Packets'  BY <1>n, <2>1 DEF Courses, Course, Mutexes, Packets, Place, Joins, Parts, Comes
  <2>. QED  BY <2>2, <2>3, <2>4, <2>5, <2>6, <2>7, <2>8, <2>9, <2>10
<1>7. CASE PIgnore(t)
  <2>1. \/ /\ At(t, {"p_protocol"}, "ignore")
           /\ Comes(t, th[t].act, "switch", th[t].ok)
           /\ par' \in ParType
           /\ UNCHANGED <<pt, kid, port, todo, mutex, smutex, past>>
        \/ /\ At(t, {"p_disconnect"}, "ignore")
           /\ Comes(t, th[t].act, "unlock", th[t].ok)
           /\ par' \in ParType
           /\ UNCHANGED <<pt, kid, port, todo, mutex, smutex, past>>
    BY <1>7, <1>t, <1>n, Moved DEF PIgnore, ParType
  <2>2. Types'  BY <1>n, <2>1 DEF Types
  <2>3. Courses'
    <3>1. Course(th'[t]) /\ th' \in [Thread -> ThreadType]  BY <2>1 DEF Courses, Course, Comes
    <3>. QED  BY <2>1, <3>1 DEF Courses, Comes
  <2>4. Mutexes'  BY <2>1 DEF Courses, Course, Mutexes, Comes
  <2>5. Quiet'  BY <2>1 DEF Courses, Course, Mutexes, Quiet, Comes
  <2>6. Place'  BY <1>n, <2>1 DEF Courses, Course, Mutexes, Place, Joins, Parts, Comes
  <2>7. Joins'  BY <1>n, <2>1 DEF Courses, Course, Mutexes, Place, Joins, Parts, Comes
  <2>8. Parts'  BY <1>n, <2>1 DEF Courses, Course, Mutexes, Place, Joins, Parts, Comes
  <2>9. Parent'  BY <2>1 DEF Courses, Course, Mutexes, Parent, Comes
  <2>10. Packets'  BY <1>n, <2>1 DEF Courses, Course, Mutexes, Packets, Place, Joins, Parts, Comes
  <2>. QED  BY <2>2, <2>3, <2>4, <2>5, <2>6, <2>7, <2>8, <2>9, <2>10
<1>8. CASE PSwitch(t)
  <2>1. \/ /\ At(t, {"p_connect", "p_protocol"}, "switch")
           /\ Comes(t, th[t].act, "resume", th[t].ok)
           /\ par' \in ParType
           /\ port = "none"
           /\ port' = "queued"
           /\ pt' \in PtType
           /\ pt'.port = FALSE
           /\ pt'.open = FALSE
           /\ todo' = todo \cup {"register"}
           /\ UNCHANGED <<kid, mutex, smutex, past>>
        \/ /\ At(t, {"p_connect", "p_protocol"}, "switch")
           /\ Comes(t, th[t].act, "resume", th[t].ok)
           /\ par' \in ParType
           /\ UNCHANGED <<pt, kid, port, todo, mutex, smutex, past>>
    BY <1>8, <1>t, <1>n, Moved DEF PSwitch, Create, Silent, ParType, PtType
  <2>2. Types'  BY <1>n, <2>1 DEF Types
  <2>3. Courses'
    <3>1. Course(th'[t]) /\ th' \in [Thread -> ThreadType]  BY <2>1 DEF Courses, Course, Comes
    <3>. QED  BY <2>1, <3>1 DEF Courses, Comes
  <2>4. Mutexes'  BY <2>1 DEF Courses, Course, Mutexes, Comes
  <2>5. Quiet'  BY <2>1 DEF Courses, Course, Mutexes, Quiet, Comes
  <2>6. Place'  BY <1>n, <2>1 DEF Courses, Course, Mutexes, Place, Joins, Parts, Comes
  <2>7. Joins'  BY <1>n, <2>1 DEF Courses, Course, Mutexes, Place, Joins, Parts, Comes
  <2>8. Parts'  BY <1>n, <2>1 DEF Courses, Course, Mutexes, Place, Joins, Parts, Comes
  <2>9. Parent'  BY <2>1 DEF Courses, Course, Mutexes, Parent, Comes
  <2>10. Packets'  BY <1>n, <2>1 DEF Courses, Course, Mutexes, Packets, Place, Joins, Parts, Comes
  <2>. QED  BY <2>2, <2>3, <2>4, <2>5, <2>6, <2>7, <2>8, <2>9, <2>10
<1>9. CASE PResume(t)
  <2>1. /\ At(t, ParentActs, "resume")
        /\ Comes(t, th[t].act, "unlock", th[t].ok)
        /\ par' \in ParType
        /\ par'.st = "active"
        /\ par'.on = TRUE
        /\ UNCHANGED <<pt, kid, port, todo, mutex, smutex, past>>
    BY <1>9, <1>t, <1>n, Moved DEF PResume, Streaming, ParType
  <2>2. Types'  BY <1>n, <2>1 DEF Types
  <2>3. Courses'
    <3>1. Course(th'[t]) /\ th' \in [Thread -> ThreadType]  BY <2>1 DEF Courses, Course, Comes
    <3>. QED  BY <2>1, <3>1 DEF Courses, Comes
  <2>4. Mutexes'  BY <2>1 DEF Courses, Course, Mutexes, Comes
  <2>5. Quiet'  BY <2>1 DEF Courses, Course, Mutexes, Quiet, Comes
  <2>6. Place'  BY <1>n, <2>1 DEF Courses, Course, Mutexes, Place, Joins, Parts, Comes
  <2>7. Joins'  BY <1>n, <2>1 DEF Courses, Course, Mutexes, Place, Joins, Parts, Comes
  <2>8. Parts'  BY <1>n, <2>1 DEF Courses, Course, Mutexes, Place, Joins, Parts, Comes
  <2>9. Parent'  BY <2>1 DEF Courses, Course, Mutexes, Parent, Comes
  <2>10. Packets'  BY <1>n, <2>1 DEF Courses, Course, Mutexes, Packets, Place, Joins, Parts, Comes
  <2>. QED  BY <2>2, <2>3, <2>4, <2>5, <2>6, <2>7, <2>8, <2>9, <2>10
<1>10. CASE PUnlock(t)
  <2>1. \/ /\ At(t, {"p_reconnect"}, "unlock")
           /\ th[t].ok
           /\ port = "listed"
           /\ kid.there
           /\ Comes(t, "reconnect", "lock", TRUE)
           /\ mutex' = "none"
           /\ UNCHANGED <<par, pt, kid, port, todo, smutex, past>>
        \/ /\ At(t, {"p_reconnect"}, "unlock")
           /\ th[t].ok
           /\ port = "listed"
           /\ ~kid.there
           /\ Comes(t, "connect", "lock", TRUE)
           /\ mutex' = "none"
           /\ UNCHANGED <<par, pt, kid, port, todo, smutex, past>>
        \/ /\ At(t, {"p_reconnect"}, "unlock")
           /\ ~th[t].ok
           /\ port = "listed"
           /\ kid.there
           /\ Comes(t, "disconnect", "lock", TRUE)
           /\ mutex' = "none"
           /\ UNCHANGED <<par, pt, kid, port, todo, smutex, past>>
        \/ /\ At(t, {"p_reconnect"}, "unlock")
           /\ ~th[t].ok
           /\ port = "listed"
           /\ ~kid.there
           /\ Comes(t, "disconnect", "destroy", TRUE)
           /\ mutex' = "none"
           /\ UNCHANGED <<par, pt, kid, port, todo, smutex, past>>
        \/ /\ At(t, {"p_reconnect"}, "unlock")
           /\ ~th[t].ok
           /\ Comes(t, "p_disconnect", "lock", TRUE)
           /\ mutex' = "none"
           /\ UNCHANGED <<par, pt, kid, port, todo, smutex, past>>
        \/ /\ At(t, {"p_disconnect"}, "unlock")
           /\ Comes(t, "p_connect", "lock", TRUE)
           /\ mutex' = "none"
           /\ UNCHANGED <<par, pt, kid, port, todo, smutex, past>>
        \/ /\ At(t, {"p_rate", "p_protocol", "p_connect", "p_reconnect"}, "unlock")
           /\ th[t].act = "p_reconnect" => th[t].ok /\ port # "listed"
           /\ Comes(t, "none", "idle", TRUE)
           /\ th'[t] = Resting
           /\ mutex' = "none"
           /\ smutex' = IF t = "serio" THEN "none" ELSE smutex
           /\ UNCHANGED <<par, pt, kid, port, todo, past>>
    BY <1>10, <1>t, <1>n, Turned, Rested DEF PUnlock
  <2>2. Types'  BY <1>n, <2>1 DEF Types
  <2>3. Courses'
    <3>1. Course(th'[t]) /\ th' \in [Thread -> ThreadType]  BY <2>1 DEF Courses, Course, Comes
    <3>. QED  BY <2>1, <3>1 DEF Courses, Comes
  <2>4. Mutexes'  BY <2>1 DEF Courses, Course, Mutexes, Comes
  <2>5. Quiet'  BY <2>1 DEF Courses, Course, Mutexes, Quiet, Comes
  <2>6. Place'  BY <1>n, <2>1 DEF Courses, Course, Mutexes, Place, Joins, Parts, Comes
  <2>7. Joins'  BY <1>n, <2>1 DEF Courses, Course, Mutexes, Place, Joins, Parts, Comes
  <2>8. Parts'  BY <1>n, <2>1 DEF Courses, Course, Mutexes, Place, Joins, Parts, Comes
  <2>9. Parent'  BY <2>1 DEF Courses, Course, Mutexes, Parent, Comes
  <2>10. Packets'  BY <1>n, <2>1 DEF Courses, Course, Mutexes, Packets, Place, Joins, Parts, Comes
  <2>. QED  BY <2>2, <2>3, <2>4, <2>5, <2>6, <2>7, <2>8, <2>9, <2>10
<1>. QED  BY <1>1, <1>2, <1>3, <1>4, <1>5, <1>6, <1>7, <1>8, <1>9, <1>10 DEF ParentStep

\* ... and what starts them.
LEMMA OtherKeeps ==
  ASSUME Inv, Register \/ ReconnectChild \/ ReconnectParent \/ Write \/ Loss \/ PLoss
  PROVE  Inv'
<1>. USE DEF Base, Inv, At, Thread, ChildActs, ParentActs, Label, Resting, SerioActs, UserActs,
         Holding, Talking, Served
<1>t. /\ par \in ParType /\ pt \in PtType /\ kid \in KidType /\ th \in [Thread -> ThreadType]
      /\ past \in [Events -> Nat]
  BY DEF Types, Courses
<1>n. NoKid \in KidType /\ ~NoKid.there /\ NoKid.st = "ignore" /\ NoKid.four = FALSE
      /\ NoGuest \in PtType /\ ~NoGuest.port /\ ~NoGuest.open
  BY DEF NoKid, KidType, NoGuest, PtType
<1>1. CASE Register
  <2>1. /\ th["serio"] = Resting
        /\ smutex = "none"
        /\ "register" \in todo
        /\ todo' = todo \ {"register"}
        /\ smutex' = "serio"
        /\ pt' \in PtType
        /\ pt'.port = TRUE
        /\ pt'.open = pt.open
        /\ pt'.four = pt.four
        /\ port' = "listed"
        /\ Comes("serio", "connect", "lock", TRUE)
        /\ UNCHANGED <<par, kid, mutex, past>>
    BY <1>1, <1>t, <1>n, Turned DEF Register, Resting, PtType
  <2>2. Types'  BY <1>n, <2>1 DEF Types
  <2>3. Courses'
    <3>1. Course(th'["serio"]) /\ th' \in [Thread -> ThreadType]
      BY <2>1 DEF Courses, Course, Comes
    <3>. QED  BY <2>1, <3>1 DEF Courses, Comes
  <2>4. Mutexes'  BY <2>1 DEF Courses, Course, Mutexes, Comes
  <2>5. Quiet'  BY <2>1 DEF Courses, Course, Mutexes, Quiet, Comes
  <2>6. Place'  BY <1>n, <2>1 DEF Courses, Course, Mutexes, Place, Joins, Parts, Comes
  <2>7. Joins'  BY <1>n, <2>1 DEF Courses, Course, Mutexes, Place, Joins, Parts, Comes
  <2>8. Parts'  BY <1>n, <2>1 DEF Courses, Course, Mutexes, Place, Joins, Parts, Comes
  <2>9. Parent'  BY <2>1 DEF Courses, Course, Mutexes, Parent, Comes
  <2>10. Packets'  BY <1>n, <2>1 DEF Courses, Course, Mutexes, Packets, Place, Joins, Parts, Comes
  <2>. QED  BY <2>2, <2>3, <2>4, <2>5, <2>6, <2>7, <2>8, <2>9, <2>10
<1>2. CASE ReconnectChild
  <2>1. \/ /\ th["serio"] = Resting
           /\ smutex = "none"
           /\ todo' = todo \ {"reconnect"}
           /\ port = "listed"
           /\ smutex' = "serio"
           /\ kid.there
           /\ Comes("serio", "reconnect", "lock", TRUE)
           /\ UNCHANGED <<par, pt, kid, port, mutex, past>>
        \/ /\ th["serio"] = Resting
           /\ smutex = "none"
           /\ todo' = todo \ {"reconnect"}
           /\ port = "listed"
           /\ smutex' = "serio"
           /\ ~kid.there
           /\ Comes("serio", "connect", "lock", TRUE)
           /\ UNCHANGED <<par, pt, kid, port, mutex, past>>
        \/ /\ th["serio"] = Resting
           /\ smutex = "none"
           /\ todo' = todo \ {"reconnect"}
           /\ th' = th
           /\ UNCHANGED <<par, pt, kid, port, mutex, smutex, past>>
    BY <1>2, <1>t, <1>n, Turned DEF ReconnectChild, Resting
  <2>2. Types'  BY <1>n, <2>1 DEF Types
  <2>3. Courses'
    <3>1. Course(th'["serio"]) /\ th' \in [Thread -> ThreadType]
      BY <2>1 DEF Courses, Course, Comes
    <3>. QED  BY <2>1, <3>1 DEF Courses, Comes
  <2>4. Mutexes'  BY <2>1 DEF Courses, Course, Mutexes, Comes
  <2>5. Quiet'  BY <2>1 DEF Courses, Course, Mutexes, Quiet, Comes
  <2>6. Place'  BY <1>n, <2>1 DEF Courses, Course, Mutexes, Place, Joins, Parts, Comes
  <2>7. Joins'  BY <1>n, <2>1 DEF Courses, Course, Mutexes, Place, Joins, Parts, Comes
  <2>8. Parts'  BY <1>n, <2>1 DEF Courses, Course, Mutexes, Place, Joins, Parts, Comes
  <2>9. Parent'  BY <2>1 DEF Courses, Course, Mutexes, Parent, Comes
  <2>10. Packets'  BY <1>n, <2>1 DEF Courses, Course, Mutexes, Packets, Place, Joins, Parts, Comes
  <2>. QED  BY <2>2, <2>3, <2>4, <2>5, <2>6, <2>7, <2>8, <2>9, <2>10
<1>3. CASE ReconnectParent
  <2>1. /\ th["serio"] = Resting
        /\ smutex = "none"
        /\ todo' = todo \ {"p_reconnect"}
        /\ smutex' = "serio"
        /\ Comes("serio", "p_reconnect", "lock", TRUE)
        /\ UNCHANGED <<par, pt, kid, port, mutex, past>>
    BY <1>3, <1>t, <1>n, Turned DEF ReconnectParent, Resting
  <2>2. Types'  BY <1>n, <2>1 DEF Types
  <2>3. Courses'
    <3>1. Course(th'["serio"]) /\ th' \in [Thread -> ThreadType]
      BY <2>1 DEF Courses, Course, Comes
    <3>. QED  BY <2>1, <3>1 DEF Courses, Comes
  <2>4. Mutexes'  BY <2>1 DEF Courses, Course, Mutexes, Comes
  <2>5. Quiet'  BY <2>1 DEF Courses, Course, Mutexes, Quiet, Comes
  <2>6. Place'  BY <1>n, <2>1 DEF Courses, Course, Mutexes, Place, Joins, Parts, Comes
  <2>7. Joins'  BY <1>n, <2>1 DEF Courses, Course, Mutexes, Place, Joins, Parts, Comes
  <2>8. Parts'  BY <1>n, <2>1 DEF Courses, Course, Mutexes, Place, Joins, Parts, Comes
  <2>9. Parent'  BY <2>1 DEF Courses, Course, Mutexes, Parent, Comes
  <2>10. Packets'  BY <1>n, <2>1 DEF Courses, Course, Mutexes, Packets, Place, Joins, Parts, Comes
  <2>. QED  BY <2>2, <2>3, <2>4, <2>5, <2>6, <2>7, <2>8, <2>9, <2>10
<1>4. CASE Write
  <2>1. \/ /\ th["user"] = Resting
           /\ past' \in [Events -> Nat]
           /\ \E k \in {"rate", "protocol"} : Comes("user", k, "lock", TRUE)
           /\ kid.there
           /\ th["serio"].act \notin {"connect", "disconnect"}
           /\ UNCHANGED <<par, pt, kid, port, todo, mutex, smutex>>
        \/ /\ th["user"] = Resting
           /\ past' \in [Events -> Nat]
           /\ \E k \in {"p_rate", "p_protocol"} : Comes("user", k, "lock", TRUE)
           /\ UNCHANGED <<par, pt, kid, port, todo, mutex, smutex>>
    <3>1. PICK k \in Kinds :
            /\ Spend(IF k = "p_protocol" THEN "switch" ELSE "write")
            /\ k \in {"rate", "protocol"} =>
                 kid.there /\ th["serio"].act \notin {"connect", "disconnect"}
            /\ Become("user", k, "lock")
      BY <1>4 DEF Write
    <3>2. past' \in [Events -> Nat]  BY <1>t, <3>1, Spent DEF Events
    <3>3. Comes("user", k, "lock", TRUE)  BY <1>t, <3>1, Turned DEF Kinds
    <3>. QED  BY <1>4, <3>1, <3>2, <3>3 DEF Write, Kinds
  <2>2. Types'  BY <1>n, <2>1 DEF Types
  <2>3. Courses'
    <3>1. Course(th'["user"]) /\ th' \in [Thread -> ThreadType]
      BY <2>1 DEF Courses, Course, Comes
    <3>. QED  BY <2>1, <3>1 DEF Courses, Comes
  <2>4. Mutexes'  BY <2>1 DEF Courses, Course, Mutexes, Comes
  <2>5. Quiet'  BY <2>1 DEF Courses, Course, Mutexes, Quiet, Comes
  <2>6. Place'  BY <1>n, <2>1 DEF Courses, Course, Mutexes, Place, Joins, Parts, Comes
  <2>7. Joins'  BY <1>n, <2>1 DEF Courses, Course, Mutexes, Place, Joins, Parts, Comes
  <2>8. Parts'  BY <1>n, <2>1 DEF Courses, Course, Mutexes, Place, Joins, Parts, Comes
  <2>9. Parent'  BY <2>1 DEF Courses, Course, Mutexes, Parent, Comes
  <2>10. Packets'  BY <1>n, <2>1 DEF Courses, Course, Mutexes, Packets, Place, Joins, Parts, Comes
  <2>. QED  BY <2>2, <2>3, <2>4, <2>5, <2>6, <2>7, <2>8, <2>9, <2>10
<1>5. CASE Loss
  <2>1. /\ kid.st = "active"
        /\ th["work"] = Resting
        /\ Comes("work", "resync", "lock", TRUE)
        /\ kid' \in KidType
        /\ kid'.there = kid.there
        /\ kid'.st = "resync"
        /\ kid'.four = kid.four
        /\ past' \in [Events -> Nat]
        /\ UNCHANGED <<par, pt, port, todo, mutex, smutex>>
    BY <1>5, <1>t, <1>n, Turned, Spent DEF Loss, Resting, KidType, Events
  <2>2. Types'
    <3>1. kid.there  BY <1>n, <2>1 DEF Types, Courses, Course, Place, Joins, Parts
    <3>. QED  BY <1>n, <2>1, <3>1 DEF Types
  <2>3. Courses'
    <3>1. Course(th'["work"]) /\ th' \in [Thread -> ThreadType]
      BY <2>1 DEF Courses, Course, Comes
    <3>. QED  BY <2>1, <3>1 DEF Courses, Comes
  <2>4. Mutexes'  BY <2>1 DEF Courses, Course, Mutexes, Comes
  <2>5. Quiet'  BY <2>1 DEF Courses, Course, Mutexes, Quiet, Comes
  <2>6. Place'
    <3>1. kid.there  BY <1>n, <2>1 DEF Types
    <3>. QED  BY <1>n, <2>1, <3>1 DEF Courses, Course, Place, Comes
  <2>7. Joins'  BY <1>n, <2>1 DEF Courses, Course, Mutexes, Place, Joins, Parts, Comes
  <2>8. Parts'  BY <1>n, <2>1 DEF Courses, Course, Mutexes, Place, Joins, Parts, Comes
  <2>9. Parent'  BY <2>1 DEF Courses, Course, Mutexes, Parent, Comes
  <2>10. Packets'  BY <1>n, <2>1 DEF Courses, Course, Mutexes, Packets, Place, Joins, Parts, Comes
  <2>. QED  BY <2>2, <2>3, <2>4, <2>5, <2>6, <2>7, <2>8, <2>9, <2>10
<1>6. CASE PLoss
  <2>1. /\ par.st = "active"
        /\ th' = th
        /\ par' \in ParType
        /\ par'.st = "ignore"
        /\ par'.on = par.on
        /\ todo' = todo \cup {"p_reconnect"}
        /\ past' \in [Events -> Nat]
        /\ UNCHANGED <<pt, kid, port, mutex, smutex>>
    BY <1>6, <1>t, <1>n, Spent DEF PLoss, ParType, Events
  <2>2. Types'  BY <1>n, <2>1 DEF Types
  <2>3. Courses'
    <3>1. Course(th'["serio"]) /\ th' \in [Thread -> ThreadType]
      BY <2>1 DEF Courses, Course, Comes
    <3>. QED  BY <2>1, <3>1 DEF Courses, Comes
  <2>4. Mutexes'  BY <2>1 DEF Courses, Course, Mutexes, Comes
  <2>5. Quiet'  BY <2>1 DEF Courses, Course, Mutexes, Quiet, Comes
  <2>6. Place'  BY <1>n, <2>1 DEF Courses, Course, Mutexes, Place, Joins, Parts, Comes
  <2>7. Joins'  BY <1>n, <2>1 DEF Courses, Course, Mutexes, Place, Joins, Parts, Comes
  <2>8. Parts'  BY <1>n, <2>1 DEF Courses, Course, Mutexes, Place, Joins, Parts, Comes
  <2>9. Parent'  BY <2>1 DEF Courses, Course, Mutexes, Parent, Comes
  <2>10. Packets'  BY <1>n, <2>1 DEF Courses, Course, Mutexes, Packets, Place, Joins, Parts, Comes
  <2>. QED  BY <2>2, <2>3, <2>4, <2>5, <2>6, <2>7, <2>8, <2>9, <2>10
<1>. QED  BY <1>1, <1>2, <1>3, <1>4, <1>5, <1>6 DEF Serio

-----------------------------------------------------------------------------
(* What the runs check. *)

LEMMA InitInv == Init => Inv
<1>. SUFFICES ASSUME Init  PROVE Inv
  OBVIOUS
<1>. USE DEF Thread, Resting
<1>1. NoKid \in KidType /\ ~NoKid.there /\ NoGuest \in PtType /\ ~NoGuest.port /\ ~NoGuest.open
  BY DEF NoKid, KidType, NoGuest, PtType
<1>2. Resting \in ThreadType  BY DEF ThreadType, Label
<1>3. th \in [Thread -> ThreadType] /\ \A t \in Thread : th[t] = Resting  BY <1>2 DEF Init
<1>4. \A t \in Thread : th[t].act = "none" /\ th[t].at = "idle" /\ th[t].ok  BY <1>3
<1>5. par \in ParType /\ par.st = "active" /\ par.on  BY DEF Init, ParType
<1>6. Types  BY <1>1, <1>5 DEF Init, Types, Events
<1>7. Courses  BY <1>3, <1>4 DEF Courses, Course
<1>8. Mutexes /\ Quiet  BY <1>4 DEF Init, Mutexes, Quiet, Holding, ChildActs
<1>9. Place /\ Joins /\ Parts  BY <1>1, <1>4 DEF Init, Place, Joins, Parts, Served
<1>10. Parent /\ Packets  BY <1>1, <1>5 DEF Init, Parent, Packets
<1>. QED  BY <1>6, <1>7, <1>8, <1>9, <1>10 DEF Inv, Base

LEMMA InvStep == Inv /\ [Next]_vars => Inv'
<1>. SUFFICES ASSUME Inv, [Next]_vars  PROVE Inv'
  OBVIOUS
<1>1. CASE UNCHANGED vars
  BY <1>1 DEF vars, Inv, Base, Types, Courses, Course, Mutexes, Quiet, Place, Joins, Parts,
              Parent, Packets, Served
<1>2. CASE Serio
  BY <1>2, ChildKeeps, ParentKeeps, OtherKeeps DEF Serio, Thread
<1>3. CASE User
  BY <1>3, ChildKeeps, ParentKeeps DEF User, Thread
<1>4. CASE Work
  BY <1>4, ChildKeeps DEF Work, Thread
<1>5. CASE Write \/ Loss \/ PLoss
  BY <1>5, OtherKeeps
<1>. QED  BY <1>1, <1>2, <1>3, <1>4, <1>5 DEF Next

\* The conditions above hold together in every reachable state, for every set of
\* events and whether or not a protocol is changed in haste.
THEOREM GuestInv == Spec => []Inv
<1>. QED  BY InitInv, InvStep, PTL DEF Spec

\* The variables keep to their types: both psmouses go through the states of
\* enum psmouse_state only, each thread through the steps of the functions it calls.
THEOREM GuestTypes == Spec => []TypeOK
<1>1. Types /\ Courses => TypeOK
  BY DEF Types, Courses, TypeOK, ThreadType, Label, ParType, PtType, KidType
<1>2. Inv => TypeOK  BY <1>1 DEF Inv, Base
<1>. QED  BY <1>2, GuestInv, PTL

\* The interrupt handler of the parent never finds the child freed: the port is
\* closed before the child goes, and nobody else opens it meanwhile.
THEOREM GuestStaysAlive == Spec => []GuestAlive
<1>1. Inv => GuestAlive  BY DEF Inv, Base, Place, GuestAlive
<1>. QED  BY <1>1, GuestInv, PTL

\* While one thread talks to the child, the parent is silent: whoever talks has
\* silenced it under psmouse_mutex and still holds it.
THEOREM GuestQuietTalk == Spec => []QuietTalk
<1>1. Inv => QuietTalk
  BY DEF Inv, Base, Quiet, QuietTalk, At, Talking
<1>. QED  BY <1>1, GuestInv, PTL

\* Whatever failed with the child, once all threads rest its parent is in use
\* again and packs the bytes of the child as the child sends them.
THEOREM GuestBothInUse == Spec => []BothInUse
<1>1. ASSUME Inv, Quiescent  PROVE par.st = "active" /\ par.on
        /\ (kid.st = "active" => pt.four = kid.four)
  <2>1. \A t \in Thread : th[t].act = "none" /\ th[t].at = "idle"
    BY <1>1 DEF Quiescent, Resting
  <2>2. par.st = "active" /\ par.on
    BY <1>1, <2>1 DEF Inv, Parent, Quiescent, Thread, ChildActs
  <2>3. kid.there => pt.four = kid.four
    BY <1>1, <2>1 DEF Inv, Packets, Thread
  <2>4. kid.st = "active" => kid.there
    BY <1>1 DEF Inv, Base, Types, NoKid
  <2>. QED  BY <2>2, <2>3, <2>4
<1>2. Inv => BothInUse  BY <1>1 DEF BothInUse
<1>. QED  BY <1>2, GuestInv, PTL
=============================================================================
