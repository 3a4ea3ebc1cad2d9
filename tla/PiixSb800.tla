------------------------------ MODULE PiixSb800 ------------------------------
(***************************************************************************)
(* The SMBus host of an SB800 or later chip in i2c-piix4.c.  One host      *)
(* controller serves several adapters through a port selection; it is      *)
(* shared with the IMC, a micro controller of the chip, by a hardware      *)
(* semaphore and, for block transfers, by telling the IMC to sleep.  The   *)
(* muxed I/O region lets one adapter in at a time; the controller and the  *)
(* IMC run on their own.                                                   *)
(*                                                                         *)
(* An adapter is named like the port it selects.  A transfer is a read or  *)
(* a write of one datum, of block size or not; a device answers a read     *)
(* with the name of its port.  The controller takes the registers over     *)
(* when it starts and stores an answer when it is done.                    *)
(***************************************************************************)
EXTENDS Integers, FiniteSets

CONSTANTS
  Adapter,   \* adapters of the host, and the ports they select
  Boot,      \* the port the firmware had selected
  Retries,   \* MAX_TIMEOUT, as requests of the semaphore
  Budgets    \* how often each of Events may happen: any one of these

Events == {"stall", "late", "taken"}
ASSUME ParameterAssumption ==
  Boot \notin Adapter /\ Retries \in Nat \ {0} /\ Budgets \subseteq [Events -> Nat]
\* The names of the other owners of the semaphore are not those of adapters.
ASSUME NameAssumption == {"none", "imc"} \cap Adapter = {}

VARIABLES
  t,       \* per adapter: step of piix4_access_sb800(), its arguments, result
  notify,  \* the adapters whose notify_imc is set
  region,  \* owner of the muxed region
  sem,     \* SMBSLVCNT: who owns the SMBus semaphore
  imc,     \* the IMC: asleep, mailbox command, response
  mux,     \* the selected port
  reg,     \* SMBHSTADD and SMBHSTDAT0: direction and datum
  host,    \* the controller: status, and what it is doing
  stored,  \* per port, the last datum written to it: history
  past       \* how often each of Events happened
vars == <<t, notify, region, sem, imc, mux, reg, host, stored, past>>

None == "none"
Port == Adapter \cup {Boot}
Datum == {<<"of", a>> : a \in Adapter} \cup {<<"at", p>> : p \in Port} \cup {<<"blank", Boot>>}
Blank == <<"blank", Boot>>
Own(a) == <<"of", a>>
Answer(p) == <<"at", p>>

Idle == [at |-> "idle", rw |-> "read", block |-> FALSE, tries |-> 0,
         prev |-> Boot, res |-> "ok", got |-> Blank]
Quiet == [rw |-> "read", dat |-> Blank, port |-> Boot]

Init ==
  /\ t = [a \in Adapter |-> Idle] /\ notify \in {{}, Adapter} /\ region = None
  /\ sem = None /\ imc = [asleep |-> FALSE, cmd |-> None, resp |-> FALSE]
  /\ mux = Boot /\ reg = [rw |-> "read", dat |-> Blank]
  /\ host = [busy |-> FALSE, sts |-> "clear", op |-> Quiet]
  /\ stored = [p \in Port |-> Blank] /\ past = [e \in Events |-> 0]

Spend(e) ==
  /\ past' = [past EXCEPT ![e] = @ + 1]
  /\ \E b \in Budgets : \A k \in Events : past'[k] <= b[k]
Go(a, at) == t' = [t EXCEPT ![a].at = at]
End(a, at, res) == t' = [t EXCEPT ![a].at = at, ![a].res = res]
At(a, at) == t[a].at = at

-----------------------------------------------------------------------------
(* piix4_access_sb800() *)

Begin(a) ==
  /\ At(a, "idle") /\ region = None /\ region' = a
  /\ \E rw \in {"read", "write"}, block \in BOOLEAN :
       t' = [t EXCEPT ![a] = [Idle EXCEPT !.at = "sem", !.rw = rw, !.block = block,
                                          !.tries = Retries]]
  /\ stored' = [stored EXCEPT ![a] = Blank]
  /\ UNCHANGED <<notify, sem, imc, mux, reg, host, past>>

\* What follows once the semaphore is ours
Owned(a) == IF t[a].block /\ a \in notify THEN "sleep" ELSE "select"

\* Mutant of Semaphore: the request on the last try is taken for a refusal.
SemaphoreLast(a) ==
  /\ At(a, "sem") /\ sem' = IF sem = None THEN a ELSE sem
  /\ IF t[a].tries = 1 THEN End(a, "release", "busy")
     ELSE IF sem = None THEN Go(a, Owned(a))
     ELSE t' = [t EXCEPT ![a].tries = @ - 1]
  /\ UNCHANGED <<notify, region, imc, mux, reg, host, stored, past>>

\* Mutant of Semaphore: the tries are counted down after the comparison, so that
\* the last refusal is not seen to be one.
SemaphorePost(a) ==
  /\ At(a, "sem") /\ sem' = IF sem = None THEN a ELSE sem
  /\ IF sem = None THEN Go(a, Owned(a))
     ELSE IF t[a].tries > 0 THEN t' = [t EXCEPT ![a].tries = @ - 1]
     ELSE t' = [t EXCEPT ![a].tries = -1, ![a].at = Owned(a)]
  /\ UNCHANGED <<notify, region, imc, mux, reg, host, stored, past>>

\* The semaphore is requested, and seen to be granted or not.
Semaphore(a) ==
  /\ At(a, "sem") /\ sem' = IF sem = None THEN a ELSE sem
  /\ IF sem = None THEN Go(a, Owned(a))
     ELSE IF t[a].tries > 1 THEN t' = [t EXCEPT ![a].tries = @ - 1]
     ELSE End(a, "release", "busy")
  /\ UNCHANGED <<notify, region, imc, mux, reg, host, stored, past>>

\* piix4_imc_sleep(): its region may be taken, ...
Sleep(a) ==
  /\ At(a, "sleep")
  /\ \/ imc' = [imc EXCEPT !.cmd = "sleep", !.resp = FALSE] /\ Go(a, "asleep")
        /\ UNCHANGED <<notify, past>>
     \/ Spend("taken") /\ notify' = notify \ {a} /\ Go(a, "select") /\ UNCHANGED imc
  /\ UNCHANGED <<region, sem, mux, reg, host, stored>>

\* Mutant of Asleep: the answer is not waited for.
AsleepUnseen(a) ==
  /\ At(a, "asleep") /\ Go(a, "select")
  /\ UNCHANGED <<notify, region, sem, imc, mux, reg, host, stored, past>>

\* ... the IMC answers, or not in time, and is not asked again.
Asleep(a) ==
  /\ At(a, "asleep") /\ Go(a, "select")
  /\ \/ imc.resp /\ UNCHANGED <<notify, past>>
     \/ ~imc.resp /\ Spend("late") /\ notify' = notify \ {a}
  /\ UNCHANGED <<region, sem, imc, mux, reg, host, stored>>

\* piix4_sb800_port_sel()
Select(a) ==
  /\ At(a, "select") /\ mux' = a
  /\ t' = [t EXCEPT ![a].at = "setup", ![a].prev = mux]
  /\ UNCHANGED <<notify, region, sem, imc, reg, host, stored, past>>

\* piix4_access(): the registers are set, or the arguments refused.
Setup(a) ==
  /\ At(a, "setup")
  /\ \/ /\ Go(a, "ready")
        /\ reg' = [rw |-> t[a].rw, dat |-> IF t[a].rw = "write" THEN Own(a) ELSE reg.dat]
     \/ t[a].block /\ t[a].rw = "write" /\ End(a, "restore", "invalid") /\ UNCHANGED reg
  /\ UNCHANGED <<notify, region, sem, imc, mux, host, stored, past>>

\* piix4_transaction(): an old status is cleared, a host still busy refused, ...
Ready(a) ==
  /\ At(a, "ready") /\ host' = [host EXCEPT !.sts = "clear"]
  /\ IF host.busy THEN End(a, "restore", "busy") ELSE Go(a, "start")
  /\ UNCHANGED <<notify, region, sem, imc, mux, reg, stored, past>>

Start(a) ==
  /\ At(a, "start") /\ Go(a, "poll")
  /\ host' = [host EXCEPT !.busy = TRUE, !.op = [rw |-> reg.rw, dat |-> reg.dat, port |-> mux]]
  /\ UNCHANGED <<notify, region, sem, imc, mux, reg, stored, past>>

\* Mutant of Poll: the error bits are not looked at.
PollBlind(a) ==
  /\ At(a, "poll") /\ host' = [host EXCEPT !.sts = "clear"]
  /\ \/ /\ ~host.busy /\ UNCHANGED past
        /\ Go(a, IF t[a].rw = "read" THEN "fetch" ELSE "restore")
     \/ host.busy /\ Spend("stall") /\ End(a, "restore", "timeout")
  /\ UNCHANGED <<notify, region, sem, imc, mux, reg, stored>>

\* ... it is waited for, in vain perhaps, and its status cleared.
Poll(a) ==
  /\ At(a, "poll") /\ host' = [host EXCEPT !.sts = "clear"]
  /\ \/ /\ ~host.busy /\ UNCHANGED past
        /\ IF host.sts = "done" THEN Go(a, IF t[a].rw = "read" THEN "fetch" ELSE "restore")
           ELSE End(a, "restore", host.sts)
     \/ host.busy /\ Spend("stall") /\ End(a, "restore", "timeout")
  /\ UNCHANGED <<notify, region, sem, imc, mux, reg, stored>>

\* What was read; a block of a length that cannot be is refused.
Fetch(a) ==
  /\ At(a, "fetch")
  /\ \/ t' = [t EXCEPT ![a].at = "restore", ![a].got = reg.dat]
     \/ t[a].block /\ End(a, "restore", "protocol")
  /\ UNCHANGED <<notify, region, sem, imc, mux, reg, host, stored, past>>

Restore(a) ==
  /\ At(a, "restore") /\ mux' = t[a].prev /\ Go(a, "post")
  /\ UNCHANGED <<notify, region, sem, imc, reg, host, stored, past>>

Post(a) ==
  /\ At(a, "post") /\ sem' = None
  /\ Go(a, IF t[a].block /\ a \in notify THEN "wake" ELSE "release")
  /\ UNCHANGED <<notify, region, imc, mux, reg, host, stored, past>>

\* piix4_imc_wakeup()
Wake(a) ==
  /\ At(a, "wake")
  /\ \/ imc' = [imc EXCEPT !.cmd = "wake", !.resp = FALSE] /\ Go(a, "awake") /\ UNCHANGED past
     \/ Spend("taken") /\ Go(a, "release") /\ UNCHANGED imc
  /\ UNCHANGED <<notify, region, sem, mux, reg, host, stored>>

Awake(a) ==
  /\ At(a, "awake") /\ Go(a, "release")
  /\ \/ imc.resp /\ UNCHANGED past
     \/ ~imc.resp /\ Spend("late")
  /\ UNCHANGED <<notify, region, sem, imc, mux, reg, host, stored>>

Release(a) ==
  /\ At(a, "release") /\ region' = None /\ Go(a, "idle")
  /\ UNCHANGED <<notify, sem, imc, mux, reg, host, stored, past>>

Access(a) ==
  \/ Semaphore(a) \/ Sleep(a) \/ Asleep(a) \/ Select(a) \/ Setup(a) \/ Ready(a)
  \/ Start(a) \/ Poll(a) \/ Fetch(a) \/ Restore(a) \/ Post(a) \/ Wake(a)
  \/ Awake(a) \/ Release(a)

-----------------------------------------------------------------------------
(* The hardware. *)

\* A transaction ends: the device answers or does not.
Complete ==
  /\ host.busy
  /\ \/ /\ host' = [host EXCEPT !.busy = FALSE, !.sts = "done"]
        /\ IF host.op.rw = "read" THEN reg' = [reg EXCEPT !.dat = Answer(host.op.port)] /\ UNCHANGED stored
           ELSE stored' = [stored EXCEPT ![host.op.port] = host.op.dat] /\ UNCHANGED reg
     \/ /\ \E sts \in {"nak", "error"} : host' = [host EXCEPT !.busy = FALSE, !.sts = sts]
        /\ UNCHANGED <<reg, stored>>
  /\ UNCHANGED <<t, notify, region, sem, imc, mux, past>>

\* The IMC reads its mailbox, ...
Serve ==
  /\ imc.cmd # None
  /\ imc' = [asleep |-> imc.cmd = "sleep", cmd |-> None, resp |-> TRUE]
  /\ UNCHANGED <<t, notify, region, sem, mux, reg, host, stored, past>>

\* ... and uses the bus when it is awake and the semaphore free.
ImcTakes ==
  /\ ~imc.asleep /\ sem = None /\ sem' = "imc"
  /\ UNCHANGED <<t, notify, region, imc, mux, reg, host, stored, past>>
ImcReleases ==
  /\ sem = "imc" /\ sem' = None
  /\ UNCHANGED <<t, notify, region, imc, mux, reg, host, stored, past>>

Hardware == Complete \/ Serve

Next == (\E a \in Adapter : Begin(a) \/ Access(a)) \/ Hardware \/ ImcTakes \/ ImcReleases

Spec == Init /\ [][Next]_vars

-----------------------------------------------------------------------------
(* Properties. *)

\* The variables keep to their types.
TypeOK ==
  /\ t \in [Adapter -> [at : {"idle", "sem", "sleep", "asleep", "select", "setup", "ready",
                              "start", "poll", "fetch", "restore", "post", "wake", "awake",
                              "release"},
                        rw : {"read", "write"}, block : BOOLEAN, tries : 0 .. Retries,
                        prev : Port,
                        res : {"ok", "busy", "invalid", "nak", "error", "timeout", "protocol"},
                        got : Datum]]
  /\ notify \subseteq Adapter /\ region \in Adapter \cup {None}
  /\ sem \in Adapter \cup {None, "imc"}
  /\ imc \in [asleep : BOOLEAN, cmd : {None, "sleep", "wake"}, resp : BOOLEAN]
  /\ mux \in Port /\ reg \in [rw : {"read", "write"}, dat : Datum]
  /\ host \in [busy : BOOLEAN, sts : {"clear", "done", "nak", "error"},
               op : [rw : {"read", "write"}, dat : Datum, port : Port]]
  /\ stored \in [Port -> Datum] /\ past \in [Events -> Nat]

\* Whoever finds the region free finds the port of the firmware selected and
\* the semaphore not left to an adapter, whatever became of the transfers.
Restored == region = None => mux = Boot /\ sem \in {None, "imc"}

\* The host is driven only by the owner of the semaphore, with its port.
Exclusive ==
  \A a \in Adapter :
    t[a].at \in {"setup", "ready", "start", "poll", "fetch", "restore"} =>
      sem = a /\ mux = a /\ \A b \in Adapter \ {a} : t[b].at = "idle"

\* The IMC, in charge of the fans, sleeps during a block transfer that was announced
\* to it, and is woken after it, if it did answer in time and its mailbox was free.
ImcInStep ==
  /\ \A a \in Adapter :
       a \in notify /\ t[a].block /\ t[a].at \in {"setup", "ready", "start", "poll", "fetch", "restore"} =>
         imc.asleep
  /\ past["late"] = 0 /\ past["taken"] = 0 /\ region = None /\ imc.cmd = None => ~imc.asleep

Succeeded(a) == t[a].at = "restore" /\ t[a].res = "ok"

\* A read that succeeds returns the answer of its own device, also after a
\* transfer that was given up ended late; a write that succeeds has stored its own
\* datum, unless a transfer was given up.
ResultMine ==
  \A a \in Adapter :
    Succeeded(a) =>
      IF t[a].rw = "read" THEN t[a].got = Answer(a)
      ELSE past["stall"] = 0 => stored[a] = Own(a)

=============================================================================
