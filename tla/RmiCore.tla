------------------------------ MODULE RmiCore --------------------------------
(***************************************************************************)
(* The core of the RMI4 driver (rmi_driver.c with the functions F01, F03   *)
(* and F12 that this touchpad has) as rmi_smbus.c drives it: which         *)
(* functions' interrupts the device raises, which the driver listens to,   *)
(* and how both are kept through probe, sleep, resets of the device and    *)
(* removal.                                                                *)
(*                                                                         *)
(* Three contexts run at the same time: "M" is probe, suspend, resume or   *)
(* remove, which the driver core runs one after another; "I" the thread of *)
(* the interrupt (a Host Notify of the device); "S" the serio thread that  *)
(* opens and closes the pass-through port of F03.  A function has one      *)
(* interrupt bit, known by the function's name.                            *)
(***************************************************************************)
EXTENDS Naturals, Sequences, SequencesExt

CONSTANTS
  Order,    \* the functions as the PDT lists them
  Default,  \* the interrupt mask of a device that was reset
  Early,    \* the device may have events while the driver probes
  Budgets   \* how often each of Events may happen: any one of these

Fns == {"f01", "f03", "f12"}
Events == {"fail", "reset", "sleep", "remove"}
ASSUME OrderAssumption == Order \in Seq(Fns) /\ ToSet(Order) = Fns /\ Len(Order) = 3
ASSUME DefaultAssumption == Default \subseteq Fns /\ Early \in BOOLEAN
ASSUME BudgetAssumption == Budgets \subseteq [Events -> Nat]

VARIABLES
  dev,      \* the device: interrupt mask and status, sleep mode, unconfigured bit
  attn,     \* a notify of the device waits
  irq,      \* its interrupt: "none" (not requested), "on" or "off"
  current,  \* current_irq_mask
  listen,   \* fn_irq_bits
  buffer,   \* irq_status
  ctrl0,    \* the sleep mode in f01_data.device_control.ctrl0
  port,     \* F03's serio port: "none", "closed" or "open"
  holder,   \* who holds irq_mutex
  ctx,      \* where each context is, and its locals
  life,     \* what M is doing, or has done
  due,      \* interrupts read and listened to that wait for their handler: history
  sound,    \* nothing failed, and the device was not reset, since it was configured: history
  past      \* how often each of Events happened
vars == <<dev, attn, irq, current, listen, buffer, ctrl0, port, holder, ctx, life, due, sound, past>>
driver == <<irq, current, listen, buffer, ctrl0, port, holder, ctx, life, due>>

Contexts == {"M", "I", "S"}
Resting == [at |-> "idle", op |-> "set", bit |-> "f12", new |-> {}, fns |-> <<>>, pos |-> 0, failed |-> FALSE]

Go(c, l) == ctx' = [ctx EXCEPT ![c] = IF l = "idle" THEN Resting ELSE [@ EXCEPT !.at = l]]
At(c, l) == ctx[c].at = l
Idle(c) == At(c, "idle")
Spend(e) ==
  /\ past' = [past EXCEPT ![e] = @ + 1]
  /\ \E b \in Budgets : \A k \in Events : past'[k] <= b[k]
Fail(c) == Spend("fail") /\ sound' = (sound /\ c = "S")

Init ==
  /\ dev \in [mask : SUBSET Fns, status : {{}}, mode : {"normal", "sleep"}, unconf : BOOLEAN]
  /\ attn = FALSE /\ irq = "none" /\ current = {} /\ listen = {} /\ buffer = {}
  /\ ctrl0 = "normal" /\ port = "none" /\ holder = "none"
  /\ ctx = [c \in Contexts |-> Resting] /\ life = "off" /\ due = {} /\ sound = FALSE /\ past = [e \in Events |-> 0]

-----------------------------------------------------------------------------
(* The device. *)

Event ==
  /\ life # "asleep" /\ (Early \/ life # "probing")
  /\ \E b \in {"f03", "f12"} :
       /\ dev' = [dev EXCEPT !.status = @ \cup {b}]
       /\ attn' = (attn \/ b \in dev.mask)
  /\ UNCHANGED <<driver, sound, past>>

\* What a reset by the PS/2 side leaves of a device
Fresh == [mask |-> Default, status |-> {"f01"}, mode |-> "normal", unconf |-> TRUE]
IsReset == dev' = Fresh /\ attn' = (attn \/ "f01" \in Default) /\ sound' = FALSE

DeviceReset == life = "up" /\ Spend("reset") /\ IsReset /\ UNCHANGED driver

-----------------------------------------------------------------------------
(* rmi_driver_set_irq_bits() and rmi_driver_clear_irq_bits(): ctx[c].op of  *)
(* ctx[c].bit.                                                              *)

Change(c, op, b) == ctx' = [ctx EXCEPT ![c].at = "lock", ![c].op = op, ![c].bit = b, ![c].failed = FALSE]

\* Mutant of Lock: no mutex.
LockFree(c) ==
  LET b == ctx[c].bit IN
  /\ At(c, "lock") /\ holder' = c
  /\ ctx' = [ctx EXCEPT ![c].at = "write",
                        ![c].new = IF ctx[c].op = "set" THEN current \cup {b} ELSE current \ {b}]
  /\ listen' = IF ctx[c].op = "set" THEN listen ELSE listen \ {b}
  /\ UNCHANGED <<dev, attn, irq, current, buffer, ctrl0, port, life, due, sound, past>>

Lock(c) ==
  LET b == ctx[c].bit IN
  /\ At(c, "lock") /\ holder = "none" /\ holder' = c
  /\ ctx' = [ctx EXCEPT ![c].at = "write",
                        ![c].new = IF ctx[c].op = "set" THEN current \cup {b} ELSE current \ {b}]
  /\ listen' = IF ctx[c].op = "set" THEN listen ELSE listen \ {b}
  /\ UNCHANGED <<dev, attn, irq, current, buffer, ctrl0, port, life, due, sound, past>>

Write(c) ==
  /\ At(c, "write") /\ Go(c, "store")
  /\ dev' = [dev EXCEPT !.mask = ctx[c].new]
  /\ attn' = (attn \/ dev.status \cap ctx[c].new # {})
  /\ UNCHANGED <<irq, current, listen, buffer, ctrl0, port, holder, life, due, sound, past>>

WriteFails(c) ==
  /\ At(c, "write") /\ Fail(c) /\ holder' = "none"
  /\ ctx' = [ctx EXCEPT ![c].at = "changed", ![c].new = {}, ![c].failed = TRUE]
  /\ UNCHANGED <<dev, attn, irq, current, listen, buffer, ctrl0, port, life, due>>

Store(c) ==
  /\ At(c, "store") /\ holder' = "none"
  /\ ctx' = [ctx EXCEPT ![c].at = "changed", ![c].new = {}]
  /\ current' = ctx[c].new
  /\ listen' = IF ctx[c].op = "set" THEN listen \cup {ctx[c].bit} ELSE listen
  /\ UNCHANGED <<dev, attn, irq, buffer, ctrl0, port, life, due, sound, past>>

ChangeBits(c) == Lock(c) \/ Write(c) \/ WriteFails(c) \/ Store(c)

-----------------------------------------------------------------------------
(* rmi_driver_reset_handler(), which reads the mask without irq_mutex, and  *)
(* the pass over the functions that it shares with rmi_enable_sensor().     *)

\* Where the pass, and the handling of the status, were called from
AfterPass(c) == IF c = "I" THEN "nested" ELSE IF life = "probing" THEN "status" ELSE "enable"
AfterFailure(c) == IF c = "M" /\ life = "probing" THEN "quit" ELSE AfterPass(c)

Pass(c) == ctx' = [ctx EXCEPT ![c].at = "config", ![c].fns = Order, ![c].new = {}]

ReadMask(c) ==
  /\ At(c, "mask")
  /\ ctx' = [ctx EXCEPT ![c].at = "keep", ![c].new = dev.mask]
  /\ UNCHANGED <<dev, attn, irq, current, listen, buffer, ctrl0, port, holder, life, due, sound, past>>

ReadMaskFails(c) ==
  /\ At(c, "mask") /\ Fail(c) /\ Go(c, AfterFailure(c))
  /\ UNCHANGED <<dev, attn, irq, current, listen, buffer, ctrl0, port, holder, life, due>>

KeepMask(c) ==
  /\ At(c, "keep") /\ current' = ctx[c].new /\ Pass(c) /\ sound' = TRUE
  /\ UNCHANGED <<dev, attn, irq, listen, buffer, ctrl0, port, holder, life, due, past>>

Config(c, f) == At(c, "config") /\ ctx[c].fns # <<>> /\ Head(ctx[c].fns) = f

\* rmi_f01_config()
ConfigF01(c) ==
  /\ Config(c, "f01")
  /\ ctx' = [ctx EXCEPT ![c].fns = Tail(@)]
  /\ dev' = [dev EXCEPT !.mode = ctrl0, !.unconf = FALSE]
  /\ UNCHANGED <<attn, irq, current, listen, buffer, ctrl0, port, holder, life, due, sound, past>>

ConfigF01Fails(c) ==
  /\ Config(c, "f01") /\ Fail(c) /\ Go(c, AfterFailure(c))
  /\ UNCHANGED <<dev, attn, irq, current, listen, buffer, ctrl0, port, holder, life, due>>

\* rmi_f12_config(), which does not look whether it worked
ConfigF12(c) ==
  /\ Config(c, "f12") /\ Change(c, "set", "f12")
  /\ UNCHANGED <<dev, attn, irq, current, listen, buffer, ctrl0, port, holder, life, due, sound, past>>

\* Mutant of ConfigF03: nothing to do for a port that is registered.
ConfigF03Once(c) ==
  /\ Config(c, "f03")
  /\ port' = IF port = "none" THEN "closed" ELSE port
  /\ ctx' = [ctx EXCEPT ![c].fns = Tail(@)]
  /\ UNCHANGED <<dev, attn, irq, current, listen, buffer, ctrl0, holder, life, due, sound, past>>

\* rmi_f03_config()
ConfigF03(c) ==
  /\ Config(c, "f03")
  /\ IF port = "none"
     THEN port' = "closed" /\ ctx' = [ctx EXCEPT ![c].fns = Tail(@)]
     ELSE Change(c, "set", "f03") /\ UNCHANGED port
  /\ UNCHANGED <<dev, attn, irq, current, listen, buffer, ctrl0, holder, life, due, sound, past>>

Configured(c) ==
  /\ At(c, "changed") /\ ctx[c].fns # <<>>
  /\ ctx' = [ctx EXCEPT ![c].at = "config", ![c].fns = Tail(@)]
  /\ UNCHANGED <<dev, attn, irq, current, listen, buffer, ctrl0, port, holder, life, due, sound, past>>

PassEnds(c) ==
  /\ At(c, "config") /\ ctx[c].fns = <<>> /\ Go(c, AfterPass(c))
  /\ UNCHANGED <<dev, attn, irq, current, listen, buffer, ctrl0, port, holder, life, due, sound, past>>

ResetHandler(c) ==
  ReadMask(c) \/ ReadMaskFails(c) \/ KeepMask(c) \/ ConfigF01(c) \/ ConfigF01Fails(c)
  \/ ConfigF12(c) \/ ConfigF03(c) \/ Configured(c) \/ PassEnds(c)

-----------------------------------------------------------------------------
(* rmi_process_interrupt_requests(), with irq_status shared by its callers. *)

Done(c) == IF c = "M" THEN life' = "up" ELSE UNCHANGED life

ReadStatus(c) ==
  /\ At(c, "status") /\ Go(c, "and")
  /\ buffer' = dev.status /\ due' = due \cup dev.status
  /\ dev' = [dev EXCEPT !.status = {}]
  /\ UNCHANGED <<attn, irq, current, listen, ctrl0, port, holder, life, sound, past>>

ReadStatusFails(c) ==
  /\ At(c, "status") /\ Fail(c) /\ Go(c, IF c = "M" THEN "quit" ELSE "idle")
  /\ UNCHANGED <<dev, attn, irq, current, listen, buffer, ctrl0, port, holder, life, due>>

AndListened(c) ==
  /\ At(c, "and") /\ holder = "none"
  /\ ctx' = [ctx EXCEPT ![c].at = "nested", ![c].pos = 1]
  /\ buffer' = buffer \cap listen /\ due' = due \cap listen
  /\ UNCHANGED <<dev, attn, irq, current, listen, ctrl0, port, holder, life, sound, past>>

\* The bits of irq_status from the position of c on
Ahead(c) == {i \in ctx[c].pos .. Len(Order) : Order[i] \in buffer}

\* The handlers of F03 and F12 read what there is; rmi_f01_attention() looks for a reset.
Nested(c) ==
  /\ At(c, "nested")
  /\ \E i \in Ahead(c) :
       /\ \A j \in Ahead(c) : i <= j
       /\ due' = due \ {Order[i]}
       /\ ctx' = [ctx EXCEPT ![c].pos = i + 1,
                             ![c].at = IF Order[i] = "f01" /\ dev.unconf THEN "mask" ELSE "nested"]
  /\ UNCHANGED <<dev, attn, irq, current, listen, buffer, ctrl0, port, holder, life, sound, past>>

NestedEnds(c) ==
  /\ At(c, "nested") /\ Ahead(c) = {} /\ Go(c, "idle") /\ Done(c)
  /\ UNCHANGED <<dev, attn, irq, current, listen, buffer, ctrl0, port, holder, due, sound, past>>

Process(c) == ReadStatus(c) \/ ReadStatusFails(c) \/ AndListened(c) \/ Nested(c) \/ NestedEnds(c)

\* The interrupt's thread is woken; while disabled, an interrupt waits.
Interrupt ==
  /\ Idle("I") /\ irq = "on" /\ attn /\ attn' = FALSE /\ Go("I", "status")
  /\ UNCHANGED <<dev, irq, current, listen, buffer, ctrl0, port, holder, life, due, sound, past>>

-----------------------------------------------------------------------------
(* The serio thread. *)

Open ==
  /\ Idle("S") /\ port = "closed" /\ Change("S", "set", "f03")
  /\ UNCHANGED <<dev, attn, irq, current, listen, buffer, ctrl0, port, holder, life, due, sound, past>>

Close ==
  /\ Idle("S") /\ port = "open" /\ Change("S", "clear", "f03")
  /\ UNCHANGED <<dev, attn, irq, current, listen, buffer, ctrl0, port, holder, life, due, sound, past>>

\* A port whose open() failed is closed; close() has no result.
PortChanged ==
  /\ At("S", "changed") /\ Go("S", "idle")
  /\ port' = IF ctx["S"].op = "set" /\ ~ctx["S"].failed THEN "open" ELSE "closed"
  /\ UNCHANGED <<dev, attn, irq, current, listen, buffer, ctrl0, holder, life, due, sound, past>>

-----------------------------------------------------------------------------
(* Probe, suspend, resume, remove. *)

\* rmi_driver_probe() up to the interrupt: nobody else sees the driver's data yet.
\* rmi_f01_probe() ends a sleep the device may be left in and drops its status.
Create ==
  /\ life = "off" /\ Idle("M") /\ life' = "probing" /\ Go("M", "request") /\ sound' = TRUE
  /\ dev' = [dev EXCEPT !.status = {}, !.mode = "normal", !.unconf = FALSE]
  /\ ctrl0' = "normal" /\ current' = dev.mask
  /\ UNCHANGED <<attn, irq, listen, buffer, port, holder, due, past>>

\* rmi_irq_init(); what waits of earlier notifies is not for this handler
Request ==
  /\ At("M", "request") /\ irq' = "on" /\ attn' = FALSE /\ Pass("M")
  /\ UNCHANGED <<dev, current, listen, buffer, ctrl0, port, holder, life, due, sound, past>>

\* rmi_f01_suspend() fails: the core goes on and the sleep is called off
Suspend ==
  /\ life = "up" /\ Idle("M") /\ Spend("sleep") /\ Go("M", "disable") /\ life' = "suspending"
  /\ ctrl0' = "sleep" /\ dev' = [dev EXCEPT !.mode = "sleep"]
  /\ UNCHANGED <<attn, irq, current, listen, buffer, port, holder, due, sound>>

SuspendFails ==
  /\ life = "up" /\ Idle("M") /\ Fail("M")
  /\ Go("M", "disable") /\ life' = "aborting" /\ ctrl0' = "normal"
  /\ UNCHANGED <<dev, attn, irq, current, listen, buffer, port, holder, due>>

Unbind ==
  /\ life = "up" /\ Idle("M") /\ Spend("remove") /\ Go("M", "disable") /\ life' = "removing"
  /\ UNCHANGED <<dev, attn, irq, current, listen, buffer, ctrl0, port, holder, due, sound>>

\* err_disable_irq of probe
Quit ==
  /\ At("M", "quit") /\ Go("M", "disable") /\ life' = "removing"
  /\ UNCHANGED <<dev, attn, irq, current, listen, buffer, ctrl0, port, holder, due, sound, past>>

\* rmi_disable_irq()
Disable ==
  /\ At("M", "disable") /\ irq' = "off" /\ Go("M", "sync")
  /\ UNCHANGED <<dev, attn, current, listen, buffer, ctrl0, port, holder, life, due, sound, past>>

Disabled ==
  /\ life' = CASE life = "suspending" -> "asleep" [] life = "aborting" -> "up" [] OTHER -> life
  /\ Go("M", IF life = "removing" THEN "free" ELSE "idle")
  /\ UNCHANGED <<dev, attn, irq, current, listen, buffer, ctrl0, port, holder, due, sound, past>>

\* Mutant of Sync: disable_irq_nosync().
SyncNot == At("M", "sync") /\ Disabled

Sync == At("M", "sync") /\ Idle("I") /\ Disabled

\* The PS/2 port has resumed, which resets the device, and rmi_smb_resume() has waited.
Wake ==
  /\ life = "asleep" /\ Idle("M") /\ life' = "resuming" /\ Go("M", "mask")
  /\ IsReset \/ UNCHANGED <<dev, attn, sound>>
  /\ UNCHANGED <<irq, current, listen, buffer, ctrl0, port, holder, due, past>>

\* Mutant of Enable: rmi_enable_irq() looks for interrupts itself, as for an edge trigger.
EnableEdge ==
  /\ At("M", "enable") /\ irq' = "on" /\ Go("M", "status")
  /\ ctrl0' = "normal" /\ dev' = [dev EXCEPT !.mode = "normal", !.unconf = FALSE]
  /\ UNCHANGED <<attn, current, listen, buffer, port, holder, life, due, sound, past>>

\* rmi_enable_irq() for an interrupt without a trigger type, as Host Notify's
Enable ==
  /\ At("M", "enable") /\ irq' = "on" /\ Go("M", "wake")
  /\ UNCHANGED <<dev, attn, current, listen, buffer, ctrl0, port, holder, life, due, sound, past>>

\* rmi_f01_resume(), whose failure is logged only
WakeF01 ==
  /\ At("M", "wake") /\ Go("M", "idle") /\ life' = "up" /\ ctrl0' = "normal"
  /\ \/ dev' = [dev EXCEPT !.mode = "normal", !.unconf = FALSE] /\ UNCHANGED <<sound, past>>
     \/ Fail("M") /\ UNCHANGED dev
  /\ UNCHANGED <<attn, irq, current, listen, buffer, port, holder, due>>

\* Mutant of Unregister: an open port is closed with irq_mutex held.
UnregisterLocked ==
  /\ At("M", "free") /\ Idle("S") /\ holder = "none" /\ port' = "none"
  /\ IF port = "open" THEN holder' = "M" /\ Change("M", "clear", "f03")
     ELSE ctx' = [ctx EXCEPT !["M"].at = "changed", !["M"].fns = <<>>] /\ UNCHANGED holder
  /\ UNCHANGED <<dev, attn, irq, current, listen, buffer, ctrl0, life, due, sound, past>>

\* rmi_free_function_list(): serio_unregister_port() waits for the serio thread,
\* closes the port if it is open, and lets nobody open it again.
Unregister ==
  /\ At("M", "free") /\ Idle("S") /\ port' = "none"
  /\ IF port = "open" THEN ctx' = [ctx EXCEPT !["M"].at = "lock", !["M"].op = "clear",
                                              !["M"].bit = "f03", !["M"].fns = <<>>]
     ELSE ctx' = [ctx EXCEPT !["M"].at = "changed", !["M"].fns = <<>>]
  /\ UNCHANGED <<dev, attn, irq, current, listen, buffer, ctrl0, holder, life, due, sound, past>>

\* The rest of rmi_driver_remove(), and what was allocated and requested for the device
Freed ==
  /\ At("M", "changed") /\ life = "removing" /\ ctx["M"].fns = <<>>
  /\ ctx' = [ctx EXCEPT !["M"] = Resting] /\ life' = "off"
  /\ irq' = "none" /\ attn' = FALSE /\ current' = {} /\ listen' = {} /\ buffer' = {} /\ due' = {}
  /\ UNCHANGED <<dev, ctrl0, port, holder, sound, past>>

-----------------------------------------------------------------------------
MNext ==
  \/ ChangeBits("M") \/ ResetHandler("M") \/ Process("M")
  \/ Create \/ Request \/ Suspend \/ SuspendFails \/ Unbind \/ Quit
  \/ Disable \/ Sync \/ Wake \/ Enable \/ WakeF01 \/ Unregister \/ Freed
INext == Interrupt \/ Process("I") \/ ResetHandler("I") \/ ChangeBits("I")
SRun == ChangeBits("S") \/ PortChanged
Next == MNext \/ INext \/ SRun \/ Open \/ Close \/ Event \/ DeviceReset

Spec == Init /\ [][Next]_vars

\* M goes on once it has begun; who waits for a mutex or a thread gets its turn.
MRun == MNext /\ ~Idle("M")
FairSpec == Spec /\ SF_vars(MRun) /\ SF_vars(INext) /\ SF_vars(SRun)

-----------------------------------------------------------------------------
(* Properties *)

\* Types, and the critical section of irq_mutex.
TypeOK ==
  /\ dev \in [mask : SUBSET Fns, status : SUBSET Fns, mode : {"normal", "sleep"}, unconf : BOOLEAN]
  /\ attn \in BOOLEAN /\ irq \in {"none", "on", "off"}
  /\ current \subseteq Fns /\ listen \subseteq Fns /\ buffer \subseteq Fns /\ due \subseteq Fns
  /\ ctrl0 \in {"normal", "sleep"} /\ port \in {"none", "closed", "open"}
  /\ life \in {"off", "probing", "up", "suspending", "aborting", "asleep", "resuming", "removing"}
  /\ holder \in Contexts \cup {"none"} /\ sound \in BOOLEAN /\ past \in [Events -> Nat]
  /\ \A c \in Contexts : ctx[c].at \in {"write", "store"} <=> holder = c

Rest == life = "up" /\ \A c \in Contexts : Idle(c)

\* After every probe and every resume, whatever the serio thread did at the time and
\* whatever the device forgot over the sleep, the touchpad is awake and configured,
\* its interrupt on, and an open pass-through port is heard (rmi_smbus.c:386).  The
\* driver's copy of the mask, which a reset overwrites outside the mutex and from which
\* every change of one bit computes the whole, is the device's (rmi_driver.c:375).
Working ==
  Rest /\ sound =>
    /\ current = dev.mask /\ listen \subseteq dev.mask
    /\ irq = "on" /\ dev.mode = "normal" /\ ~dev.unconf
    /\ {"f12"} \cup (IF port = "open" THEN {"f03"} ELSE {}) \subseteq listen \cap dev.mask

\* What the driver read from the clearing status register and listens to has been
\* handed to its function when nobody handles the status any more: "At this point,
\* irq_status has all bits that are set in the interrupt status register and are
\* enabled." (rmi_driver.c:153)
EventsServed ==
  Idle("I") /\ ctx["M"].at \notin {"and", "nested"} => due = {}

\* What rmi_free_function_list() frees, the interrupt's thread and the serio thread do
\* not use any more (rmi_driver.c:814).
FreedUnused == life = "off" => Idle("I") /\ Idle("S") /\ holder = "none"

\* A device that was reset is configured again: config() is "called when the function
\* container is first initialized, and after a reset is detected" (rmi_bus.h:63).
ResetNoticed == Rest /\ ~attn => ~dev.unconf

\* Probe, suspend, resume and removal come to an end, although they wait for the
\* interrupt's thread and for the serio thread, and all of them for irq_mutex
\* (rmi_driver.c:921).
Settles == (~Idle("M")) ~> Idle("M")
=============================================================================
