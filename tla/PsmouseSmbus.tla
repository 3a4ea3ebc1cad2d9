----------------------------- MODULE PsmouseSmbus -----------------------------
(***************************************************************************)
(* The SMBus companion of a PS/2 touchpad, psmouse-smbus.c, with the part  *)
(* of synaptics.c that asks for one and the port that it belongs to.  A    *)
(* record per companion is shared by the port (connect, disconnect, change *)
(* of protocol), the notifier of the i2c bus (adapters that appear,        *)
(* clients that go) and the work that removes a client; whichever of       *)
(* disconnect and the end of the client comes second frees the record.  A  *)
(* record without a client is a breadcrumb: it waits for an adapter.       *)
(*                                                                         *)
(* psmouse_mutex admits one operation on the port at a time, so the port   *)
(* is one process; psmouse_smbus_mutex makes each walk of the list a step. *)
(* Memory is named, and a name that was freed is handed out again.         *)
(***************************************************************************)
EXTENDS Integers, FiniteSets

CONSTANTS
  Rec,         \* struct psmouse_smbus_dev
  Ps,          \* struct psmouse
  Client,      \* struct i2c_client
  Adapter,     \* i2c adapters that can do Host Notify
  Budgets,     \* how often each of Events may happen: any one of these
  NoOne        \* NULL

ASSUME NoOneAssumption == NoOne \notin Rec \cup Ps \cup Client \cup Adapter
Events == {"switch", "unbind", "add", "remove", "alloc"}
ASSUME BudgetAssumption == Budgets \subseteq [Events -> Nat]

VARIABLES
  rec,      \* [Rec -> record]
  live,     \* the records that are allocated
  list,     \* psmouse_smbus_list
  alive,    \* the psmouse that are allocated
  port,     \* the port: its psmouse, protocol, private, pc and locals
  client,   \* [Client -> the adapter it is on, or NoOne if it is not allocated]
  pdata,    \* the clients that have platform data
  leaked,   \* platform data of a client was never freed
  jobs,     \* clients queued for psmouse_smbus_remove_i2c_device()
  bus,      \* the adapters on the i2c bus
  adding,   \* those of them not yet announced to the notifier
  leaving,  \* those of them whose clients are being destroyed
  rescan,   \* serio_rescan() was called
  tried,    \* [Rec -> the adapters the touchpad was looked for on]: history
  past      \* how often each of Events happened

i2c == <<client, pdata, leaked, jobs, bus, adding, leaving>>
vars == <<rec, live, list, alive, port, i2c, rescan, tried, past>>

NoRecord == [ps |-> NoOne, client |-> NoOne, dead |-> FALSE]
NoPort == [pc |-> "off", ps |-> NoOne, proto |-> "none", priv |-> NoOne,
           todo |-> {}, client |-> NoOne, next |-> "none"]
Spend(e) ==
  /\ past' = [past EXCEPT ![e] = @ + 1]
  /\ \E b \in Budgets : \A k \in Events : past'[k] <= b[k]

Init ==
  /\ rec = [r \in Rec |-> NoRecord] /\ live = {} /\ list = {} /\ alive = {}
  /\ port = [NoPort EXCEPT !.next = "auto"]
  /\ client = [c \in Client |-> NoOne] /\ pdata = {} /\ leaked = FALSE /\ jobs = {}
  /\ bus \in SUBSET Adapter /\ adding = {} /\ leaving = {}
  /\ rescan = FALSE /\ tried = [r \in Rec |-> {}] /\ past = [e \in Events |-> 0]

-----------------------------------------------------------------------------
(* The port. *)

Goes(p) == port' = [port EXCEPT !.pc = p]

Drop(rs) == live' = live \ rs /\ list' = list \ rs

\* psmouse_smbus_cleanup()
Cleanup == Drop({r \in list : rec[r].ps = port.ps})

\* psmouse_connect() up to the protocol
Connect ==
  /\ port.pc = "off" /\ port.next # "none"
  /\ \E p \in Ps \ alive :
       /\ alive' = alive \cup {p}
       /\ port' = [port EXCEPT !.pc = "choose", !.ps = p]
  /\ UNCHANGED <<rec, live, list, i2c, rescan, tried, past>>

\* The protocol is looked for, or named by the user.  synaptics_init() leaves
\* breadcrumbs, synaptics_init_smbus() does not, synaptics_init_absolute()
\* does not ask for a companion.
Choose ==
  /\ port.pc = "choose"
  /\ \/ port.next \in {"auto", "smbus"} /\ Goes("init")
     \/ port.next \in {"auto", "absolute"} /\ Goes("ps2")
  /\ UNCHANGED <<rec, live, list, alive, i2c, rescan, tried, past>>

\* psmouse_smbus_init() up to the walk over the adapters
SmbusInit ==
  /\ port.pc = "init"
  /\ \E r \in Rec \ live :
       /\ live' = live \cup {r} /\ list' = list \cup {r}
       /\ rec' = [rec EXCEPT ![r] = [NoRecord EXCEPT !.ps = port.ps]]
       /\ port' = [port EXCEPT !.pc = "walk", !.priv = r, !.todo = bus \ leaving]
       /\ tried' = [tried EXCEPT ![r] = {}]
  /\ UNCHANGED <<alive, i2c, rescan, past>>

\* psmouse_smbus_create_companion(): the touchpad does not answer, ...
WalkMiss ==
  /\ port.pc = "walk"
  /\ \E a \in port.todo :
       /\ port' = [port EXCEPT !.todo = @ \ {a}]
       /\ tried' = [tried EXCEPT ![port.priv] = @ \cup {a}]
  /\ UNCHANGED <<rec, live, list, alive, i2c, rescan, past>>

\* ... or it does, and a client is made before the record knows of it.  (What
\* a job does to memory that was freed with its adapter and then used for
\* another client, a race that the source declares, is not followed.)
WalkHit ==
  /\ port.pc = "walk"
  /\ \E a \in port.todo \cap (bus \ leaving), c \in {d \in Client \ jobs : client[d] = NoOne} :
       /\ client' = [client EXCEPT ![c] = a] /\ pdata' = pdata \cup {c}
       /\ port' = [port EXCEPT !.pc = "assign", !.client = c]
  /\ UNCHANGED <<rec, live, list, alive, leaked, jobs, bus, adding, leaving, rescan, tried, past>>

Assign ==
  /\ port.pc = "assign"
  /\ rec' = [rec EXCEPT ![port.priv].client = port.client]
  /\ port' = [port EXCEPT !.pc = "idle", !.proto = "smbus", !.client = NoOne,
                          !.todo = {}, !.next = "none"]
  /\ UNCHANGED <<live, list, alive, i2c, rescan, tried, past>>

\* Without a companion the record goes, unless it is to be a breadcrumb.
NoCompanion ==
  /\ port.pc = "walk" /\ port.todo = {}
  /\ IF port.next = "auto" THEN UNCHANGED <<live, list>> ELSE Drop({port.priv})
  /\ Goes(IF port.next = "auto" THEN "ps2" ELSE "plain")
  /\ UNCHANGED <<rec, alive, i2c, rescan, tried, past>>

\* synaptics_setup_ps2(): it works, or, in synaptics_init() only, the
\* breadcrumb is cleaned up; another protocol takes over.
SetupPs2 ==
  /\ port.pc = "ps2"
  /\ \/ /\ port' = [port EXCEPT !.pc = "idle", !.proto = "ps2", !.next = "none", !.priv = NoOne]
        /\ UNCHANGED <<live, list>>
     \/ /\ port' = [port EXCEPT !.pc = "idle", !.proto = "plain", !.next = "none", !.priv = NoOne]
        /\ IF port.next = "auto" THEN Cleanup ELSE UNCHANGED <<live, list>>
  /\ UNCHANGED <<rec, alive, i2c, rescan, tried, past>>

Plain ==
  /\ port.pc = "plain"
  /\ port' = [port EXCEPT !.pc = "idle", !.proto = "plain", !.next = "none", !.priv = NoOne]
  /\ UNCHANGED <<rec, live, list, alive, i2c, rescan, tried, past>>

\* The port is rescanned or unbound, or its protocol is changed.
Leave(how) == port' = [port EXCEPT !.pc = "leave", !.next = how]
Rescan ==
  /\ port.pc \in {"idle", "off"} /\ rescan /\ rescan' = FALSE
  /\ IF port.pc = "idle" THEN Leave("auto") ELSE port' = [port EXCEPT !.next = "auto"]
  /\ UNCHANGED <<rec, live, list, alive, i2c, tried, past>>
Unbind ==
  /\ port.pc = "idle" /\ Spend("unbind") /\ Leave("none")
  /\ UNCHANGED <<rec, live, list, alive, i2c, rescan, tried>>
Bind ==
  /\ port.pc = "off" /\ Spend("unbind") /\ port' = [port EXCEPT !.next = "auto"]
  /\ UNCHANGED <<rec, live, list, alive, i2c, rescan, tried>>
SwitchProtocol ==
  /\ port.pc = "idle" /\ Spend("switch")
  /\ \E how \in {"smbus", "absolute"} : Leave(how)
  /\ UNCHANGED <<rec, live, list, alive, i2c, rescan, tried>>

\* After a change of protocol the psmouse stays.
Left == port' = [port EXCEPT !.pc = IF port.next \in {"smbus", "absolute"} THEN "choose" ELSE "free",
                             !.priv = NoOne, !.proto = "none"]

\* Mutant of SmbusDisconnect: the removal of the client is forgotten.
SmbusDisconnectIdle ==
  /\ port.pc = "leave" /\ port.proto = "smbus"
  /\ IF rec[port.priv].dead THEN Drop({port.priv}) /\ UNCHANGED rec
     ELSE rec' = [rec EXCEPT ![port.priv].dead = TRUE] /\ UNCHANGED <<live, list>>
  /\ Left
  /\ UNCHANGED <<alive, i2c, rescan, tried, past>>

\* psmouse_smbus_disconnect(), and its kzalloc() that may fail
SmbusDisconnect ==
  /\ port.pc = "leave" /\ port.proto = "smbus"
  /\ IF rec[port.priv].dead
     THEN Drop({port.priv}) /\ UNCHANGED <<rec, jobs, past>>
     ELSE /\ rec' = [rec EXCEPT ![port.priv].dead = TRUE]
          /\ \/ jobs' = jobs \cup {rec[port.priv].client} /\ UNCHANGED past
             \/ Spend("alloc") /\ UNCHANGED jobs
          /\ UNCHANGED <<live, list>>
  /\ Left
  /\ UNCHANGED <<alive, client, pdata, leaked, bus, adding, leaving, rescan, tried>>

\* synaptics_disconnect()
Ps2Disconnect ==
  /\ port.pc = "leave" /\ port.proto \in {"ps2", "plain"} /\ Left
  /\ IF port.proto = "ps2" THEN Cleanup ELSE UNCHANGED <<live, list>>
  /\ UNCHANGED <<rec, alive, i2c, rescan, tried, past>>

\* the kfree() of psmouse_disconnect()
FreePsmouse ==
  /\ port.pc = "free" /\ alive' = alive \ {port.ps}
  /\ port' = [port EXCEPT !.pc = "off", !.ps = NoOne]
  /\ UNCHANGED <<rec, live, list, i2c, rescan, tried, past>>

Port == Connect \/ Choose \/ SmbusInit \/ WalkMiss \/ WalkHit \/ Assign
        \/ NoCompanion \/ SetupPs2 \/ Plain \/ Rescan \/ SmbusDisconnect
        \/ Ps2Disconnect \/ FreePsmouse

-----------------------------------------------------------------------------
(* The i2c bus and its notifier. *)

AddAdapter ==
  /\ Spend("add")
  /\ \E a \in Adapter \ bus : bus' = bus \cup {a} /\ adding' = adding \cup {a}
  /\ UNCHANGED <<rec, live, list, alive, port, client, pdata, leaked, jobs, leaving, rescan, tried>>

Crumb(r) == ~rec[r].dead /\ rec[r].client = NoOne

\* Mutant of CheckAdapter: the search ends at a record that is dead.
CheckAdapterStop ==
  /\ \E a \in adding : adding' = adding \ {a}
  /\ rescan' = (rescan \/ ((\A r \in list : ~rec[r].dead) /\ (\E r \in list : Crumb(r))))
  /\ UNCHANGED <<rec, live, list, alive, port, client, pdata, leaked, jobs, bus, leaving, tried, past>>

\* psmouse_smbus_check_adapter()
CheckAdapter ==
  /\ \E a \in adding : adding' = adding \ {a}
  /\ rescan' = (rescan \/ \E r \in list : Crumb(r))
  /\ UNCHANGED <<rec, live, list, alive, port, client, pdata, leaked, jobs, bus, leaving, tried, past>>

\* Mutant of Detach: a record that is dead already stays.
DetachKeep(c) ==
  LET mine == {r \in list : rec[r].client = c}
  IN /\ rec' = [r \in Rec |-> IF r \in mine THEN [rec[r] EXCEPT !.dead = TRUE] ELSE rec[r]]
     /\ rescan' = (rescan \/ \E r \in mine : ~rec[r].dead)
     /\ leaked' = (leaked \/ (mine = {} /\ c \in pdata))
     /\ UNCHANGED <<live, list>>

\* Mutant of Detach: the record goes with its client.
DetachFree(c) ==
  LET mine == {r \in list : rec[r].client = c}
  IN /\ Drop(mine) /\ UNCHANGED rec
     /\ rescan' = (rescan \/ \E r \in mine : ~rec[r].dead)
     /\ leaked' = (leaked \/ (mine = {} /\ c \in pdata))

\* psmouse_smbus_detach_i2c_client()
Detach(c) ==
  LET mine == {r \in list : rec[r].client = c}
  IN /\ rec' = [r \in Rec |-> IF r \in mine THEN [rec[r] EXCEPT !.dead = TRUE] ELSE rec[r]]
     /\ Drop({r \in mine : rec[r].dead})
     /\ rescan' = (rescan \/ \E r \in mine : ~rec[r].dead)
     /\ leaked' = (leaked \/ (mine = {} /\ c \in pdata))

\* A client is unregistered, the notifier called and its memory freed.
Destroy(c) ==
  /\ Detach(c) /\ client' = [client EXCEPT ![c] = NoOne] /\ pdata' = pdata \ {c}
  /\ UNCHANGED <<alive, port, bus, adding, tried>>

\* psmouse_smbus_remove_i2c_device(); that the client may have gone with its
\* adapter is known
RunJob ==
  \E c \in jobs :
    /\ jobs' = jobs \ {c}
    /\ IF client[c] # NoOne THEN Destroy(c)
       ELSE UNCHANGED <<rec, live, list, alive, port, client, pdata, leaked, bus, adding, rescan, tried>>
    /\ UNCHANGED <<leaving, tried, past>>

\* The removal of an adapter begins; the i2c core lets it wait for a walk.
StartRemove ==
  /\ Spend("remove") /\ port.pc \notin {"walk", "assign"}
  /\ \E a \in bus \ (adding \cup leaving) : leaving' = leaving \cup {a}
  /\ UNCHANGED <<rec, live, list, alive, port, client, pdata, leaked, jobs, bus, adding, rescan, tried>>

RemoveClient ==
  /\ \E c \in {d \in Client : client[d] \in leaving} : Destroy(c)
  /\ UNCHANGED <<jobs, leaving, tried, past>>

EndRemove ==
  /\ \E a \in leaving :
       /\ \A c \in Client : client[c] # a
       /\ bus' = bus \ {a} /\ leaving' = leaving \ {a}
       /\ tried' = [r \in Rec |-> tried[r] \ {a}]
  /\ UNCHANGED <<rec, live, list, alive, port, client, pdata, leaked, jobs, adding, rescan, past>>

Bus == CheckAdapter \/ RemoveClient \/ EndRemove

Next == Port \/ Unbind \/ Bind \/ SwitchProtocol \/ Bus \/ RunJob \/ AddAdapter \/ StartRemove

Spec == Init /\ [][Next]_vars
FairSpec == Spec /\ WF_vars(Port) /\ WF_vars(Bus) /\ WF_vars(RunJob)

-----------------------------------------------------------------------------
(* Properties. *)

\* The variables keep to their types.
TypeOK ==
  /\ rec \in [Rec -> [ps : Ps \cup {NoOne}, client : Client \cup {NoOne}, dead : BOOLEAN]]
  /\ live \subseteq Rec /\ list \subseteq live /\ alive \subseteq Ps
  /\ port \in [pc : {"off", "choose", "init", "walk", "assign", "ps2", "plain",
                     "idle", "leave", "free"},
               ps : Ps \cup {NoOne}, proto : {"none", "smbus", "ps2", "plain"},
               priv : Rec \cup {NoOne}, todo : SUBSET Adapter,
               client : Client \cup {NoOne},
               next : {"none", "auto", "smbus", "absolute"}]
  /\ client \in [Client -> Adapter \cup {NoOne}]
  /\ pdata \subseteq Client /\ leaked \in BOOLEAN /\ jobs \subseteq Client
  /\ bus \subseteq Adapter /\ adding \subseteq bus /\ leaving \subseteq bus
  /\ rescan \in BOOLEAN /\ tried \in [Rec -> SUBSET Adapter]
  /\ past \in [Events -> Nat]

\* The record that a port with a companion will use to reconnect and to
\* disconnect is allocated, listed and its own, although the notifier and
\* psmouse_smbus_cleanup() free records without asking the port; and a record that
\* is not dead belongs to a psmouse that still exists, whose port
\* psmouse_smbus_check_adapter() and the detach of a client rescan.
RecordsValid ==
  /\ port.proto = "smbus" \/ port.pc \in {"walk", "assign"} =>
       port.priv \in list /\ rec[port.priv].ps = port.ps
  /\ \A r \in list : ~rec[r].dead => rec[r].ps \in alive

\* A client whose record is dead by a disconnect is on its way out: a touchpad
\* is not driven over PS/2 and SMBus at once for good, unless the removal of the
\* client could not be allocated.
Exclusive ==
  past["alloc"] = 0 /\ port.pc = "idle" /\ port.proto # "smbus" =>
    \A c \in Client : client[c] # NoOne => c \in jobs \/ client[c] \in leaving \/ rescan

\* An adapter that appears while a port waits with a breadcrumb, also while
\* it is still walking over the adapters, makes it look again.
NoAdapterMissed ==
  port.pc \in {"idle", "ps2"} =>
    \A r \in list :
      Crumb(r) => \A a \in bus \ leaving : a \in tried[r] \/ a \in adding \/ rescan

\* synaptics_disconnect() says that its cleanup is for breadcrumbs; the
\* platform data of a client is freed with the client.
PlatformDataFreed == ~leaked

\* A record that one side has left is freed by the other in the end, unless the
\* removal of its client could not be allocated.
DeadRecordsGo ==
  \A r \in Rec : (r \in list /\ rec[r].dead) ~> (r \notin list \/ past["alloc"] > 0)
=============================================================================
