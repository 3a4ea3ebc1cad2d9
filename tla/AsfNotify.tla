------------------------------ MODULE AsfNotify ------------------------------
(***************************************************************************)
(* SMBus Host Notify through the ASF block, as patch 0001 adds it to       *)
(* i2c-piix4.  The block is one piece of hardware that is either a slave   *)
(* which receives Host Notify messages into two data banks, or the master  *)
(* of the bus.  Four contexts drive it:                                    *)
(*                                                                         *)
(*   "H"  piix4_asf_irq_handler(), hard interrupt context, takes no lock   *)
(*   "T"  piix4_asf_irq_thread(), its thread; the line is masked until it  *)
(*        returns (IRQF_ONESHOT)                                           *)
(*   "X"  piix4_access_asf(), one transfer of a client (the i2c core's bus *)
(*        lock admits one at a time)                                       *)
(*   "L"  probe, suspend, resume, remove and shutdown, one after another   *)
(*                                                                         *)
(* T, X and L work under piix4_asf_mutex (owner) and hand what they read   *)
(* to the i2c core outside it, under piix4_asf_notify_mutex.               *)
(***************************************************************************)
EXTENDS Integers, Sequences, Functions

CONSTANTS
  Dev,          \* bus addresses that send Host Notify
  Junk,         \* a bank content that does not decode as a Host Notify
  Wire,         \* what other masters send to the host: notifies, and junk
  Boot,         \* configuration bits firmware leaves set in the ASF registers
  Leftover,     \* may firmware leave the slave interrupt latched?
  DrainMax,     \* ASF_DRAIN_MAX
  Retries,      \* ASF_XFER_RETRIES
  Budgets       \* how often each kind of external event may happen: any one of these

\* ASFLISADDR.LISTN; ASFSLVEN.INTR and .RST; FCH PM MSTR and CLK;
\* ASFDATABNKSEL.DATA_EN
Cfg == {"LISTN", "INTR", "RST", "MSTR", "CLK", "DATA_EN"}
SlvEn == {"INTR", "RST"}
\* ASFSTA.SLV_INT, an ASFSLVSTA error bit, SMBHSTSTS.INTR (transfer done)
Status == {"SLV_INT", "ERR", "DONE"}
\* The error bits of SMBHSTSTS a finished transaction may leave (0x10, 8, 4)
HstErr == {"FAILED", "COLLISION", "NORESP"}
Bank == {0, 1}
NotifyMax == 2 * DrainMax
Kinds == {"recv", "error", "stick", "xfer", "busy", "sleep"}

ASSUME DevAssumption == Junk \notin Dev /\ Wire \subseteq Dev \cup {Junk}
ASSUME BootAssumption == Boot \subseteq Cfg \ {"LISTN"}
ASSUME LimitAssumption == DrainMax \in Nat \ {0} /\ Retries \in Nat
ASSUME BudgetAssumption == Budgets \subseteq [Kinds -> Nat] /\ Leftover \in BOOLEAN

VARIABLES
  reg,          \* configuration and status bits that read 1
  banks,        \* the two receive banks: full flags, stuck flags, contents
  asf,          \* the booleans of struct piix4_asf, and of its surroundings
  saved,        \* boot_ctl, boot_lisaddr, boot_slven, boot_bnksel
  owner,        \* holder of piix4_asf_mutex, or "none"
  pc,           \* where each context is
  slven,        \* the handler's copy of ASFSLVEN in its read-modify-write
  dr,           \* locals of the drain in progress, and where its caller resumes
  notes,        \* struct piix4_asf_notifies of T and of X
  xf,           \* locals of the transfer, and the host status register
  goal,         \* the teardown L is on its way to
  left,         \* external events still to come
  owed          \* history: devices acknowledged on the bus, not served since

vars == <<reg, banks, asf, saved, owner, pc, slven, dr, notes, xf, goal, left,
          owed>>

Proc == {"H", "T", "X", "L"}
Flags == {"active", "irq", "want", "listening", "pending",
          "deliver", "adapter", "domain"}

NoDrain == [i |-> 0, sig |-> FALSE, bank |-> 0, addr |-> Junk,
            wedged |-> FALSE, ret |-> "idle"]
NoXfer == [to |-> Junk, try |-> 0, before |-> 0, bus |-> {}, sts |-> {},
           result |-> "ok"]

Go(p, l) == pc' = [pc EXCEPT ![p] = l]
Spend(k) == left[k] > 0 /\ left' = [left EXCEPT ![k] = @ - 1]

\* piix4_sb800_region_request(): the FCH PM region is ours, or it is taken.
RegionOk == UNCHANGED left
RegionBusy == Spend("busy")

\* What ASF_SLV_RST does to the banks; their contents stay readable.
Flushed == [banks EXCEPT !.full = {}, !.stuck = {}]

\* The level interrupt line of the SMB0001 device.
Line == \/ "INTR" \in reg /\ ("SLV_INT" \in reg \/ banks.full # {})
        \/ "DONE" \in reg

Lists == Range(notes["T"]) \cup Range(notes["X"])

\* Drop, by design, the messages still in the banks (history of owed only).
Abandon == owed' = owed \cap Lists'

Init ==
  /\ reg \in {Boot} \cup (IF Leftover THEN {Boot \cup {"SLV_INT"}} ELSE {})
  /\ banks = [full |-> {}, stuck |-> {}, data |-> [b \in Bank |-> Junk]]
  /\ asf = {} /\ saved = {} /\ owner = "none" /\ slven = {}
  /\ pc = [p \in Proc |-> IF p = "L" THEN "probe" ELSE "idle"]
  /\ dr = NoDrain /\ xf = NoXfer /\ goal = "none"
  /\ notes = [p \in {"T", "X"} |-> <<>>]
  /\ left \in Budgets /\ owed = {}

-----------------------------------------------------------------------------
(* The bus and the block. *)

\* Another master addresses the host: the slave acknowledges if it listens and
\* a bank is free, and latches its interrupt, masked or not.
Receive(m) ==
  /\ Spend("recv")
  /\ "LISTN" \in reg /\ "RST" \notin reg
  /\ \E b \in Bank \ banks.full :
       banks' = [banks EXCEPT !.full = @ \cup {b}, !.data[b] = m]
  /\ reg' = reg \cup {"SLV_INT"}
  /\ owed' = owed \cup ({m} \cap Dev)
  /\ UNCHANGED <<asf, saved, owner, pc, slven, dr, notes, xf, goal>>

\* A reception fails; the error stays in ASFSLVSTA until it is written.
ReceiveError ==
  /\ Spend("error")
  /\ "LISTN" \in reg /\ "RST" \notin reg
  /\ reg' = reg \cup {"SLV_INT", "ERR"}
  /\ UNCHANGED <<banks, asf, saved, owner, pc, slven, dr, notes, xf, goal,
                 owed>>

\* The full flag of a bank gets stuck: writing it no longer clears it.
Stick ==
  /\ Spend("stick")
  /\ \E b \in banks.full \ banks.stuck :
       banks' = [banks EXCEPT !.stuck = @ \cup {b}]
  /\ UNCHANGED <<reg, asf, saved, owner, pc, slven, dr, notes, xf, goal, owed>>

-----------------------------------------------------------------------------
(* piix4_asf_irq_handler().  The line is shared, so it may run whenever the *)
(* interrupt is requested and not masked; an IRQ_NONE run changes nothing.  *)

\* Mutant of HClaim: the done bit is acked by writing the status back whole.
HClaimAckAll ==
  /\ pc["H"] = "idle" /\ pc["T"] = "idle" /\ "irq" \in asf
  /\ \/ /\ "SLV_INT" \in reg /\ reg' = reg \ {"SLV_INT"} /\ Go("H", "hCheck")
        /\ UNCHANGED xf
     \/ /\ "SLV_INT" \notin reg /\ "DONE" \in reg
        /\ reg' = reg \ {"DONE"} /\ xf' = [xf EXCEPT !.sts = {}]
        /\ UNCHANGED pc
  /\ UNCHANGED <<banks, asf, saved, owner, slven, dr, notes, goal, left, owed>>

\* Read ASFSTA; ack the slave interrupt, or else the done bit of a transfer.
HClaim ==
  /\ pc["H"] = "idle" /\ pc["T"] = "idle" /\ "irq" \in asf
  /\ \/ "SLV_INT" \in reg /\ reg' = reg \ {"SLV_INT"} /\ Go("H", "hCheck")
     \/ /\ "SLV_INT" \notin reg /\ "DONE" \in reg
        /\ reg' = reg \ {"DONE"} /\ UNCHANGED pc
  /\ UNCHANGED <<banks, asf, saved, owner, slven, dr, notes, xf, goal, left,
                 owed>>

\* Armed, as read without a lock: ...
HArmed ==
  /\ pc["H"] = "hCheck" /\ "listening" \in asf /\ Go("H", "hWake")
  /\ UNCHANGED <<reg, banks, asf, saved, owner, slven, dr, notes, xf, goal,
                 left, owed>>

\* ... note the reception and wake the thread.
HWake ==
  /\ pc["H"] = "hWake"
  /\ asf' = asf \cup {"pending"}
  /\ pc' = [pc EXCEPT !["H"] = "idle", !["T"] = "tLock"]
  /\ UNCHANGED <<reg, banks, saved, owner, slven, dr, notes, xf, goal, left,
                 owed>>

\* Not armed: drop it, and mask the source.  ASFSLVEN is read ...
HRead ==
  /\ pc["H"] = "hCheck" /\ "listening" \notin asf
  /\ slven' = reg \cap SlvEn /\ Go("H", "hWrite")
  /\ UNCHANGED <<reg, banks, asf, saved, owner, dr, notes, xf, goal, left,
                 owed>>

\* ... and written back without SLV_INTR, whatever it has become meanwhile.
HWrite ==
  /\ pc["H"] = "hWrite"
  /\ reg' = (reg \ SlvEn) \cup (slven \ {"INTR"})
  /\ banks' = IF "RST" \in slven THEN Flushed ELSE banks
  /\ slven' = {} /\ Go("H", "idle")
  /\ UNCHANGED <<asf, saved, owner, dr, notes, xf, goal, left, owed>>

HNext == HClaim \/ HArmed \/ HWake \/ HRead \/ HWrite

-----------------------------------------------------------------------------
(* piix4_asf_drain() and piix4_asf_process_bank(), run by p = T or X under  *)
(* the mutex.                                                               *)

BeginDrain(p, l, ret) ==
  dr' = [NoDrain EXCEPT !.ret = ret] /\ Go(p, l)
EndDrain(p, wedged) ==
  dr' = [NoDrain EXCEPT !.wedged = wedged, !.ret = dr.ret] /\ Go(p, dr.ret)

\* ASF_DRAIN_MAX reads are done: a flag still set means a wedged bank.
DrainFull(p) ==
  /\ pc[p] = "dSig" /\ dr.i = DrainMax
  /\ EndDrain(p, banks.full # {})
  /\ UNCHANGED <<reg, banks, asf, saved, owner, slven, notes, xf, goal, left,
                 owed>>

\* Consume the status bit and the pending flag: together they authorize a read.
DrainSignal(p) ==
  /\ pc[p] = "dSig" /\ dr.i < DrainMax
  /\ reg' = reg \ {"SLV_INT"} /\ asf' = asf \ {"pending"}
  /\ dr' = [dr EXCEPT !.sig = "SLV_INT" \in reg \/ "pending" \in asf]
  /\ Go(p, "dBank")
  /\ UNCHANGED <<banks, saved, owner, slven, notes, xf, goal, left, owed>>

DrainDone(p) ==
  /\ pc[p] = "dBank" /\ ~dr.sig /\ banks.full = {}
  /\ EndDrain(p, FALSE)
  /\ UNCHANGED <<reg, banks, asf, saved, owner, slven, notes, xf, goal, left,
                 owed>>

\* A reception error: flush both banks and go round again.
DrainFlush(p) ==
  /\ pc[p] = "dBank" /\ (dr.sig \/ banks.full # {}) /\ "ERR" \in reg
  /\ banks' = [banks EXCEPT !.full = @ \cap banks.stuck]
  /\ dr' = [dr EXCEPT !.i = @ + 1, !.sig = FALSE] /\ Go(p, "dSig")
  /\ UNCHANGED <<reg, asf, saved, owner, slven, notes, xf, goal, left>>
  /\ Abandon

\* With both flags set prefer alternates; with none, bank 0 is the fallback.
ChosenBank(full, prefer) ==
  IF full = Bank THEN prefer % 2 ELSE IF 1 \in full THEN 1 ELSE 0

DrainRead(p) ==
  /\ pc[p] = "dBank" /\ (dr.sig \/ banks.full # {}) /\ "ERR" \notin reg
  /\ LET b == ChosenBank(banks.full, dr.i)
     IN  dr' = [dr EXCEPT !.bank = b, !.addr = banks.data[b], !.sig = FALSE]
  /\ Go(p, "dTake")
  /\ UNCHANGED <<reg, banks, asf, saved, owner, slven, notes, xf, goal, left,
                 owed>>

\* Mark the bank consumed, and collect the address of a valid Host Notify.
DrainTake(p) ==
  /\ pc[p] = "dTake"
  /\ banks' = [banks EXCEPT !.full = @ \ ({dr.bank} \ banks.stuck)]
  /\ notes' = IF dr.addr \in Dev /\ Len(notes[p]) < NotifyMax
              THEN [notes EXCEPT ![p] = Append(@, dr.addr)] ELSE notes
  /\ dr' = [dr EXCEPT !.i = @ + 1, !.bank = 0, !.addr = Junk] /\ Go(p, "dSig")
  /\ UNCHANGED <<reg, asf, saved, owner, slven, xf, goal, left, owed>>

Drain(p) == \/ DrainFull(p) \/ DrainSignal(p) \/ DrainDone(p)
            \/ DrainFlush(p) \/ DrainRead(p) \/ DrainTake(p)

-----------------------------------------------------------------------------
(* Register recipes under the mutex. *)

\* piix4_asf_master_mode(): take the slave offline, become the master.
MasterBits(r) == (r \ {"LISTN", "INTR", "ERR"}) \cup {"RST", "MSTR", "DATA_EN"}

\* piix4_asf_slave_arm() by p, three steps an interrupt may come between:
\* everything up to the reset bit, out of reset, and last the interrupt.
ArmListen(p) ==
  /\ pc[p] = "arm"
  /\ reg' = (reg \ {"ERR", "SLV_INT", "DATA_EN", "MSTR"})
              \cup {"LISTN", "CLK"}
  /\ Go(p, "armRst")
  /\ UNCHANGED <<banks, asf, saved, owner, slven, dr, notes, xf, goal, left,
                 owed>>

ArmRelease(p) ==
  /\ pc[p] = "armRst" /\ reg' = reg \ {"RST"} /\ Go(p, "armIntr")
  /\ UNCHANGED <<banks, asf, saved, owner, slven, dr, notes, xf, goal, left,
                 owed>>

ArmEnable(p) ==
  /\ pc[p] = "armIntr" /\ reg' = reg \cup {"INTR"}
  /\ Go(p, dr.ret) /\ dr' = NoDrain
  /\ UNCHANGED <<banks, asf, saved, owner, slven, notes, xf, goal, left, owed>>

Arm(p) == ArmListen(p) \/ ArmRelease(p) \/ ArmEnable(p)

BeginArm(p, ret) == Go(p, "arm") /\ dr' = [NoDrain EXCEPT !.ret = ret]

-----------------------------------------------------------------------------
(* piix4_asf_deliver() by p, which then returns. *)

Finish(p) ==
  /\ notes' = [notes EXCEPT ![p] = <<>>] /\ Go(p, "idle")
  /\ xf' = IF p = "X" THEN NoXfer ELSE xf

Peer(p) == IF p = "T" THEN "X" ELSE "T"

\* Nothing collected: the notify mutex is not even taken.
DeliverNone(p) ==
  /\ pc[p] = "deliver" /\ notes[p] = <<>> /\ Finish(p)
  /\ UNCHANGED <<reg, banks, asf, saved, owner, slven, dr, goal, left, owed>>

\* Under the notify mutex: deliveries are closed, the list is dropped.
DeliverClosed(p) ==
  /\ pc[p] = "deliver" /\ notes[p] # <<>> /\ pc[Peer(p)] # "calling"
  /\ ~({"deliver", "adapter"} \subseteq asf)
  /\ Finish(p) /\ Abandon
  /\ UNCHANGED <<reg, banks, asf, saved, owner, slven, dr, goal, left>>

\* Under the notify mutex: the i2c core is called, ...
DeliverCall(p) ==
  /\ pc[p] = "deliver" /\ notes[p] # <<>> /\ pc[Peer(p)] # "calling"
  /\ {"deliver", "adapter"} \subseteq asf
  /\ Go(p, "calling")
  /\ UNCHANGED <<reg, banks, asf, saved, owner, slven, dr, notes, xf, goal,
                 left, owed>>

\* ... and has been.
DeliverReturn(p) ==
  /\ pc[p] = "calling" /\ Finish(p)
  /\ owed' = owed \ Range(notes[p])
  /\ UNCHANGED <<reg, banks, asf, saved, owner, slven, dr, goal, left>>

Deliver(p) == \/ DeliverNone(p) \/ DeliverClosed(p)
              \/ DeliverCall(p) \/ DeliverReturn(p)


-----------------------------------------------------------------------------
(* piix4_asf_irq_thread(). *)

\* The slave was stopped meanwhile: return, which unmasks the line.
TStopped ==
  /\ pc["T"] = "tLock" /\ owner = "none" /\ "listening" \notin asf
  /\ Go("T", "idle")
  /\ UNCHANGED <<reg, banks, asf, saved, owner, slven, dr, notes, xf, goal,
                 left, owed>>

\* Mutant of TDrain: listening is not checked again under the mutex.
TDrainUnchecked ==
  /\ pc["T"] = "tLock" /\ owner = "none"
  /\ owner' = "T" /\ BeginDrain("T", "dSig", "tDrained")
  /\ UNCHANGED <<reg, banks, asf, saved, slven, notes, xf, goal, left, owed>>

TDrain ==
  /\ pc["T"] = "tLock" /\ owner = "none" /\ "listening" \in asf
  /\ owner' = "T" /\ BeginDrain("T", "dSig", "tDrained")
  /\ UNCHANGED <<reg, banks, asf, saved, slven, notes, xf, goal, left, owed>>

TSound ==
  /\ pc["T"] = "tDrained" /\ ~dr.wedged
  /\ Go("T", "tUnlock") /\ dr' = NoDrain
  /\ UNCHANGED <<reg, banks, asf, saved, owner, slven, notes, xf, goal, left,
                 owed>>

\* Wedged: stop listening and drain once more ...
TRecover ==
  /\ pc["T"] = "tDrained" /\ dr.wedged /\ RegionOk
  /\ reg' = reg \ {"LISTN"}
  /\ BeginDrain("T", "dSig", "tReset")
  /\ UNCHANGED <<banks, asf, saved, owner, slven, notes, xf, goal, owed>>

\* ... before the reset, and arm again.
TReset ==
  /\ pc["T"] = "tReset"
  /\ reg' = (reg \cup {"RST"}) \ {"ERR"} /\ banks' = Flushed
  /\ BeginArm("T", "tUnlock")
  /\ UNCHANGED <<asf, saved, owner, slven, notes, xf, goal, left, owed>>

\* Wedged and the region is busy: deaf until the next transfer arms again.
TGiveUp ==
  /\ pc["T"] = "tDrained" /\ dr.wedged /\ RegionBusy
  /\ reg' = reg \ {"LISTN"} /\ asf' = asf \ {"listening"}
  /\ Go("T", "tUnlock") /\ dr' = NoDrain
  /\ UNCHANGED <<banks, saved, owner, slven, notes, xf, goal>>
  /\ Abandon

TUnlock ==
  /\ pc["T"] = "tUnlock" /\ owner' = "none" /\ Go("T", "deliver")
  /\ UNCHANGED <<reg, banks, asf, saved, slven, dr, notes, xf, goal, left,
                 owed>>

TNext == \/ TStopped \/ TDrain \/ TSound \/ TRecover \/ TReset \/ TGiveUp
         \/ TUnlock \/ Drain("T") \/ Arm("T") \/ Deliver("T")

-----------------------------------------------------------------------------
(* piix4_access_asf().  Once the block is released (active is clear) it is  *)
(* the stock transfer, which touches nothing of this module.                *)

\* result of piix4_transaction() for the error bits left in SMBHSTSTS
Decode(sts) == IF "COLLISION" \in sts THEN "EAGAIN"
               ELSE IF "NORESP" \in sts THEN "ENXIO"
               ELSE IF "FAILED" \in sts THEN "EIO" ELSE "ok"

\* Mutant of XEnter: the slave is reset without draining it first.
XEnterNoDrain(d) ==
  /\ pc["X"] = "idle" /\ {"adapter", "active"} \subseteq asf
  /\ owner = "none" /\ owner' = "X" /\ Spend("xfer")
  /\ xf' = [NoXfer EXCEPT !.to = d] /\ BeginDrain("X", "xMaster", "idle")
  /\ UNCHANGED <<reg, banks, asf, saved, slven, notes, goal, owed>>

\* Mutant of XEnter: the wrapper stays in effect after the block is released.
XEnterInactive(d) ==
  /\ pc["X"] = "idle" /\ "adapter" \in asf
  /\ owner = "none" /\ owner' = "X" /\ Spend("xfer")
  /\ xf' = [NoXfer EXCEPT !.to = d]
  /\ IF "listening" \in asf THEN BeginDrain("X", "xDeafen", "xMaster")
                            ELSE BeginDrain("X", "xMaster", "idle")
  /\ UNCHANGED <<reg, banks, asf, saved, slven, notes, goal, owed>>

\* A client transfers to device d; with the slave armed, drain it first.
XEnter(d) ==
  /\ pc["X"] = "idle" /\ {"adapter", "active"} \subseteq asf
  /\ owner = "none" /\ owner' = "X" /\ Spend("xfer")
  /\ xf' = [NoXfer EXCEPT !.to = d]
  /\ IF "listening" \in asf THEN BeginDrain("X", "xDeafen", "xMaster")
                            ELSE BeginDrain("X", "xMaster", "idle")
  /\ UNCHANGED <<reg, banks, asf, saved, slven, notes, goal, owed>>

\* Refused with the region's error, before anything was touched.
XRefused ==
  /\ pc["X"] = "idle" /\ {"adapter", "active"} \subseteq asf
  /\ owner = "none" /\ RegionBusy
  /\ UNCHANGED <<reg, banks, asf, saved, owner, pc, slven, dr, notes, xf, goal,
                 owed>>

\* Stop listening, then mask the interrupt ...
XDeafen ==
  /\ pc["X"] = "xDeafen"
  /\ reg' = reg \ {"LISTN", "INTR"} /\ Go("X", "xSync")
  /\ UNCHANGED <<banks, asf, saved, owner, slven, dr, notes, xf, goal, left,
                 owed>>

\* Mutant of XSync: synchronize_irq(), which waits for the thread too.
XSyncThread ==
  /\ pc["X"] = "xSync" /\ pc["H"] = "idle" /\ pc["T"] = "idle"
  /\ Go("X", "dSig")
  /\ UNCHANGED <<reg, banks, asf, saved, owner, slven, dr, notes, xf, goal,
                 left, owed>>

\* ... and wait for a running handler: synchronize_hardirq().
XSync ==
  /\ pc["X"] = "xSync" /\ pc["H"] = "idle" /\ Go("X", "dSig")
  /\ UNCHANGED <<reg, banks, asf, saved, owner, slven, dr, notes, xf, goal,
                 left, owed>>

XMaster ==
  /\ pc["X"] = "xMaster"
  /\ reg' = MasterBits(reg) /\ banks' = Flushed
  /\ Go("X", "xBus") /\ dr' = NoDrain
  /\ UNCHANGED <<asf, saved, owner, slven, notes, xf, goal, left, owed>>

\* The transaction ends on the bus, one way or another.
XBus ==
  /\ pc["X"] = "xBus"
  /\ \E e \in {{}, {"FAILED"}, {"COLLISION"}, {"NORESP"},
               {"COLLISION", "NORESP"}} :
       xf' = [xf EXCEPT !.bus = e, !.sts = e]
  /\ reg' = reg \cup {"DONE"} /\ Go("X", "xPoll")
  /\ UNCHANGED <<banks, asf, saved, owner, slven, dr, notes, goal, left, owed>>

\* piix4_transaction() reads the status after its sleep, and clears it.
XPoll ==
  /\ pc["X"] = "xPoll"
  /\ xf' = [xf EXCEPT !.result = Decode(xf.sts), !.sts = {}]
  /\ reg' = reg \ {"DONE"} /\ Go("X", "xResult")
  /\ UNCHANGED <<banks, asf, saved, owner, slven, dr, notes, goal, left, owed>>

LostBus == xf.result \in {"EAGAIN", "ENXIO"}

\* Mutant of XYield: the number of retries is not limited.
XYieldUnbounded ==
  /\ pc["X"] = "xResult" /\ LostBus /\ "want" \in asf
  /\ xf' = [xf EXCEPT !.before = Len(notes["X"])]
  /\ asf' = asf \cup {"listening"} /\ BeginArm("X", "xListen")
  /\ UNCHANGED <<reg, banks, saved, owner, slven, notes, goal, left, owed>>

\* The bus was lost to another master: listen for a moment.
XYield ==
  /\ pc["X"] = "xResult"
  /\ LostBus /\ "want" \in asf /\ xf.try < Retries
  /\ xf' = [xf EXCEPT !.before = Len(notes["X"])]
  /\ asf' = asf \cup {"listening"} /\ BeginArm("X", "xListen")
  /\ UNCHANGED <<reg, banks, saved, owner, slven, notes, goal, left, owed>>

\* Mutant of XListened: what the window caught is not drained.
XListenedNoDrain ==
  /\ pc["X"] = "xListen"
  /\ reg' = reg \ {"LISTN", "INTR"} /\ BeginDrain("X", "xCaught", "idle")
  /\ UNCHANGED <<banks, asf, saved, owner, slven, notes, xf, goal, left, owed>>

\* The listen window closes, as before a transfer, with a drain.
XListened ==
  /\ pc["X"] = "xListen"
  /\ reg' = reg \ {"LISTN", "INTR"} /\ BeginDrain("X", "xSync", "xCaught")
  /\ UNCHANGED <<banks, asf, saved, owner, slven, notes, xf, goal, left, owed>>

FromTarget == \E i \in xf.before + 1 .. Len(notes["X"]) :
                notes["X"][i] = xf.to

\* Retry; a NAKed address only if that very device was caught notifying.
XRetry ==
  /\ pc["X"] = "xCaught" /\ (xf.result = "EAGAIN" \/ FromTarget)
  /\ xf' = [xf EXCEPT !.try = @ + 1, !.before = 0]
  /\ Go("X", "xMaster") /\ dr' = NoDrain
  /\ UNCHANGED <<reg, banks, asf, saved, owner, slven, notes, goal, left, owed>>

\* Mutant of XStop: listen again whether Host Notify is wanted or not.
XStopRearm(l) ==
  /\ pc["X"] = l
  /\ asf' = asf \cup {"listening"} /\ BeginArm("X", "xUnlock")
  /\ UNCHANGED <<reg, banks, saved, owner, slven, notes, xf, goal, left, owed>>

\* No retry: listen again if Host Notify is wanted.
XStop(l) ==
  /\ pc["X"] = l
  /\ IF "want" \in asf
     THEN asf' = asf \cup {"listening"} /\ BeginArm("X", "xUnlock")
     ELSE Go("X", "xUnlock") /\ dr' = NoDrain /\ UNCHANGED asf
  /\ UNCHANGED <<reg, banks, saved, owner, slven, notes, xf, goal, left, owed>>

XDone == ~(LostBus /\ "want" \in asf /\ xf.try < Retries) /\ XStop("xResult")
XAbsent == xf.result = "ENXIO" /\ ~FromTarget /\ XStop("xCaught")

XUnlock ==
  /\ pc["X"] = "xUnlock" /\ owner' = "none" /\ Go("X", "deliver")
  /\ UNCHANGED <<reg, banks, asf, saved, slven, dr, notes, xf, goal, left,
                 owed>>

XRun == \/ XDeafen \/ XSync \/ XMaster \/ XBus \/ XPoll \/ XYield \/ XListened
        \/ XRetry \/ XDone \/ XAbsent \/ XUnlock
        \/ Drain("X") \/ Arm("X") \/ Deliver("X")
XNext == XRun \/ XRefused \/ \E d \in Dev : XEnter(d)

-----------------------------------------------------------------------------
(* The lifecycle: piix4_probe(), the PM callbacks, remove and shutdown. *)

\* piix4_asf_enable() bails out before it touches the block: the adapter is
\* registered with the stock algorithm.
LUnsupported ==
  /\ pc["L"] = "probe" /\ Go("L", "off")
  /\ UNCHANGED <<reg, banks, asf, saved, owner, slven, dr, notes, xf, goal,
                 left, owed>>

\* Claim the block: remember the firmware state, plain master until start.
LClaim ==
  /\ pc["L"] = "probe"
  /\ saved' = reg \cap Cfg /\ reg' = MasterBits(reg) /\ banks' = Flushed
  /\ asf' = {"active"} /\ Go("L", "request")
  /\ UNCHANGED <<owner, slven, dr, notes, xf, goal, left, owed>>

LIrq ==
  /\ pc["L"] = "request" /\ asf' = asf \cup {"irq"} /\ Go("L", "add")
  /\ UNCHANGED <<reg, banks, saved, owner, slven, dr, notes, xf, goal, left,
                 owed>>

\* piix4_asf_restore_boot_state()
RestoredBits(r) == (r \ (Cfg \cup {"ERR", "SLV_INT"}))
                     \cup saved

\* Give the block back if the region is free, and forget what was claimed.
GiveBack ==
  \/ RegionOk /\ reg' = RestoredBits(reg) /\ banks' = Flushed
  \/ RegionBusy /\ UNCHANGED <<reg, banks>>

LNoIrq ==
  /\ pc["L"] = "request" /\ GiveBack /\ asf' = {} /\ Go("L", "off")
  /\ UNCHANGED <<saved, owner, slven, dr, notes, xf, goal, owed>>

\* i2c_add_adapter() creates the host-notify domain with the adapter.
LAdd ==
  /\ pc["L"] = "add" /\ asf' = asf \cup {"adapter", "domain"}
  /\ Go("L", "start")
  /\ UNCHANGED <<reg, banks, saved, owner, slven, dr, notes, xf, goal, left,
                 owed>>

LNoAdapter ==
  /\ pc["L"] = "add" /\ goal' = "disable" /\ Go("L", "stop")
  /\ UNCHANGED <<reg, banks, asf, saved, owner, slven, dr, notes, xf, left,
                 owed>>

\* piix4_asf_start(): open the deliveries, under the notify mutex, ...
NotifyFree == pc["T"] # "calling" /\ pc["X"] # "calling"

LOpen ==
  /\ pc["L"] = "start" /\ NotifyFree
  /\ asf' = asf \cup {"deliver"} /\ Go("L", "arming")
  /\ UNCHANGED <<reg, banks, saved, owner, slven, dr, notes, xf, goal, left,
                 owed>>

\* ... then arm the slave; with the region busy the next transfer will.
LStart ==
  /\ pc["L"] = "arming" /\ owner = "none" /\ owner' = "L"
  /\ \/ /\ RegionOk /\ asf' = asf \cup {"want", "listening"}
        /\ BeginArm("L", "lUnlock")
     \/ /\ RegionBusy /\ asf' = asf \cup {"want"}
        /\ Go("L", "lUnlock") /\ UNCHANGED dr
  /\ UNCHANGED <<reg, banks, saved, slven, notes, xf, goal, owed>>

LUnlock ==
  /\ pc["L"] = "lUnlock" /\ owner' = "none" /\ Go("L", "up")
  /\ UNCHANGED <<reg, banks, asf, saved, slven, dr, notes, xf, goal, left,
                 owed>>

\* piix4_asf_suspend() and piix4_asf_stop() take the mutex, ...  (Whenever L
\* is up the block is active and want_listen is set: resume_listen is too.)
LSuspend ==
  /\ pc["L"] = "up" /\ Spend("sleep") /\ owner = "none" /\ owner' = "L"
  /\ goal' = "sleep" /\ Go("L", "quiesce")
  /\ UNCHANGED <<reg, banks, asf, saved, slven, dr, notes, xf, owed>>

LTeardown(g) ==
  /\ pc["L"] = "up" /\ goal' = g /\ Go("L", "stop")
  /\ UNCHANGED <<reg, banks, asf, saved, owner, slven, dr, notes, xf, left,
                 owed>>

LStop ==
  /\ pc["L"] = "stop" /\ owner = "none" /\ owner' = "L" /\ Go("L", "quiesce")
  /\ UNCHANGED <<reg, banks, asf, saved, slven, dr, notes, xf, goal, left,
                 owed>>

\* Mutant of LQuiesce: a slave interrupt that is latched stays latched.
LQuiesceNoAck ==
  /\ pc["L"] = "quiesce" /\ Go("L", "sync")
  /\ asf' = asf \ {"want", "listening"}
  /\ reg' = (reg \ {"LISTN", "INTR", "ERR"}) \cup {"RST"}
  /\ banks' = Flushed
  /\ UNCHANGED <<saved, owner, slven, dr, notes, xf, goal, left>>
  /\ Abandon

\* ... then piix4_asf_quiesce(): stop listening, mask, reset, ack, ...
LQuiesce ==
  /\ pc["L"] = "quiesce" /\ Go("L", "sync")
  /\ asf' = asf \ {"want", "listening"}
  /\ reg' = (reg \ {"LISTN", "INTR", "ERR", "SLV_INT"}) \cup {"RST"}
  /\ banks' = Flushed
  /\ UNCHANGED <<saved, owner, slven, dr, notes, xf, goal, left>>
  /\ Abandon

\* ... wait for a running handler, and forget what it left.
LSync ==
  /\ pc["L"] = "sync" /\ pc["H"] = "idle"
  /\ asf' = asf \ {"pending"}
  /\ IF goal = "sleep" THEN Go("L", "asleep") /\ owner' = "none"
                       ELSE Go("L", "master") /\ UNCHANGED owner
  /\ UNCHANGED <<reg, banks, saved, slven, dr, notes, xf, goal, left, owed>>

\* The machine sleeps; firmware keeps the registers or reprograms them.
LSleep ==
  /\ pc["L"] = "asleep" /\ \A p \in {"H", "T", "X"} : pc[p] = "idle"
  /\ \/ UNCHANGED <<reg, banks>>
     \/ /\ reg' \in {Boot} \cup
                    (IF Leftover THEN {Boot \cup {"SLV_INT"}} ELSE {})
        /\ banks' = Flushed
  /\ Go("L", "wake") /\ goal' = "none"
  /\ UNCHANGED <<asf, saved, owner, slven, dr, notes, xf, left, owed>>

\* piix4_asf_resume(): reprogram the block in full; with the region busy the
\* next transfer will.
LResume ==
  /\ pc["L"] = "wake" /\ owner = "none" /\ owner' = "L"
  /\ \/ /\ RegionOk /\ asf' = asf \cup {"want", "listening"}
        /\ reg' = (reg \cup {"RST"}) \ {"ERR"} /\ banks' = Flushed
        /\ BeginArm("L", "lUnlock")
     \/ /\ RegionBusy /\ asf' = asf \cup {"want"}
        /\ Go("L", "lUnlock") /\ UNCHANGED <<reg, banks, dr>>
  /\ UNCHANGED <<saved, slven, notes, xf, goal, owed>>

\* The rest of piix4_asf_stop(): a plain master again if the region is free, ...
LMaster ==
  /\ pc["L"] = "master" /\ owner' = "none" /\ Go("L", "free")
  /\ \/ RegionOk /\ reg' = MasterBits(reg) /\ banks' = Flushed
     \/ RegionBusy /\ UNCHANGED <<reg, banks>>
  /\ UNCHANGED <<asf, saved, slven, dr, notes, xf, goal, owed>>

\* ... free_irq(), which waits for the handler and the thread, ...
LFreeIrq ==
  /\ pc["L"] = "free" /\ pc["H"] = "idle" /\ pc["T"] = "idle"
  /\ asf' = asf \ {"irq"} /\ Go("L", "fence")
  /\ UNCHANGED <<reg, banks, saved, owner, slven, dr, notes, xf, goal, left,
                 owed>>

\* Mutant of LFence: a delivery in flight is not waited for.
LFenceNoWait ==
  /\ pc["L"] = "fence"
  /\ asf' = asf \ {"deliver"}
  /\ Go("L", IF goal = "remove" THEN "del" ELSE "restore")
  /\ UNCHANGED <<reg, banks, saved, owner, slven, dr, notes, xf, goal, left,
                 owed>>

\* ... and deliveries are closed, once the one in flight is over.
LFence ==
  /\ pc["L"] = "fence" /\ NotifyFree
  /\ asf' = asf \ {"deliver"}
  /\ Go("L", IF goal = "remove" THEN "del" ELSE "restore")
  /\ UNCHANGED <<reg, banks, saved, owner, slven, dr, notes, xf, goal, left,
                 owed>>

\* i2c_del_adapter() destroys the host-notify domain, ...
LDelDomain ==
  /\ pc["L"] = "del" /\ asf' = asf \ {"domain"} /\ Go("L", "delWait")
  /\ UNCHANGED <<reg, banks, saved, owner, slven, dr, notes, xf, goal, left,
                 owed>>

\* ... then waits for the last user of the adapter; piix4_asf_disable() follows
\* and stops once more.
LDelAdapter ==
  /\ pc["L"] = "delWait" /\ pc["X"] = "idle"
  /\ asf' = asf \ {"adapter"} /\ goal' = "disable" /\ Go("L", "stop")
  /\ UNCHANGED <<reg, banks, saved, owner, slven, dr, notes, xf, left, owed>>

\* piix4_asf_disable() after its stop.
LRestore ==
  /\ pc["L"] = "restore" /\ owner = "none"
  /\ GiveBack /\ asf' = asf \cap {"adapter", "domain", "deliver"}
  /\ saved' = {} /\ Go("L", "off")
  /\ UNCHANGED <<owner, slven, dr, notes, xf, goal, owed>>

LChoose == LSuspend \/ LTeardown("remove") \/ LTeardown("disable")
LRun == \/ LUnsupported \/ LClaim \/ LIrq \/ LNoIrq \/ LAdd \/ LNoAdapter
        \/ LOpen \/ LStart \/ LUnlock \/ LStop \/ LQuiesce \/ LSync \/ LSleep
        \/ LResume \/ LMaster \/ LFreeIrq \/ LFence \/ LDelDomain
        \/ LDelAdapter \/ LRestore \/ Arm("L")
LNext == LChoose \/ LRun

-----------------------------------------------------------------------------
Environment == (\E m \in Wire : Receive(m)) \/ ReceiveError \/ Stick

Next == Environment \/ HNext \/ TNext \/ XNext \/ LNext

\* A context that has started goes on, an asserted line is serviced, and a
\* mutex that keeps being free is taken.  Nothing obliges the bus, a client or
\* the system to start anything.
Fairness ==
  /\ WF_vars(Line /\ HClaim)
  /\ WF_vars(HArmed \/ HWake \/ HRead \/ HWrite)
  /\ WF_vars(TNext) /\ WF_vars(XRun) /\ WF_vars(LRun)

Spec == Init /\ [][Next]_vars
FairSpec == Spec /\ Fairness

-----------------------------------------------------------------------------
(* Properties. *)

LabelsH == {"idle", "hCheck", "hWake", "hWrite"}
LabelsDrain == {"dSig", "dBank", "dTake"}
LabelsArm == {"arm", "armRst", "armIntr"}
LabelsT == {"idle", "tLock", "tDrained", "tReset", "tUnlock", "deliver",
            "calling"} \cup LabelsDrain \cup LabelsArm
LabelsX == {"idle", "xDeafen", "xSync", "xMaster", "xBus", "xPoll", "xResult",
            "xListen", "xCaught", "xUnlock", "deliver", "calling"}
             \cup LabelsDrain \cup LabelsArm
LabelsL == {"probe", "request", "add", "start", "arming", "lUnlock", "up",
            "stop", "quiesce", "sync", "asleep", "wake", "master", "free",
            "fence", "del", "delWait", "restore", "off"} \cup LabelsArm
Labels == LabelsH \cup LabelsT \cup LabelsX \cup LabelsL
Msg == Dev \cup {Junk}

TypeRegs == /\ reg \subseteq Cfg \cup Status
            /\ saved \subseteq Cfg /\ slven \subseteq SlvEn
BankRegs == [full : SUBSET Bank, stuck : SUBSET Bank, data : [Bank -> Msg]]
TypeBanks == banks \in BankRegs
TypeFlags == /\ asf \subseteq Flags
             /\ owner \in {"none", "T", "X", "L"}
             /\ goal \in {"none", "sleep", "remove", "disable"}
TypePc == /\ pc \in [Proc -> Labels]
          /\ pc["H"] \in LabelsH /\ pc["T"] \in LabelsT
          /\ pc["X"] \in LabelsX /\ pc["L"] \in LabelsL
DrainLocals == [i : 0 .. DrainMax, sig : BOOLEAN, bank : Bank, addr : Msg,
                wedged : BOOLEAN, ret : Labels]
TypeDrain == dr \in DrainLocals
TypeNotes == /\ notes \in [{"T", "X"} -> Seq(Dev)]
             /\ Len(notes["T"]) <= NotifyMax /\ Len(notes["X"]) <= NotifyMax
XferLocals == [to : Msg, try : 0 .. Retries, before : 0 .. NotifyMax,
               bus : SUBSET HstErr, sts : SUBSET HstErr,
               result : {"ok", "EAGAIN", "ENXIO", "EIO"}]
TypeXfer == xf \in XferLocals
TypeHistory == left \in [Kinds -> Nat] /\ owed \subseteq Dev

\* Every variable keeps its type.  The lists of notifies never outgrow the array
\* piix4_asf_notifies.addr[ASF_NOTIFY_MAX], a drain never reads more than
\* ASF_DRAIN_MAX banks, and a transfer is never retried more than
\* ASF_XFER_RETRIES times.
TypeOK == /\ TypeRegs /\ TypeBanks /\ TypeFlags /\ TypePc /\ TypeDrain
          /\ TypeNotes /\ TypeXfer /\ TypeHistory

\* Port 0x07 is ASFINDEX or SMBBLKDAT and the block is slave or master: while a
\* transfer is on the bus it is a master that does not listen, with the window
\* on the host FIFO; while a bank is read the window is on the banks.
WindowRouting ==
  /\ pc["X"] \in {"xBus", "xPoll"} =>
       {"MSTR", "DATA_EN"} \subseteq reg /\ "LISTN" \notin reg
  /\ \A p \in {"T", "X"} : pc[p] \in LabelsDrain =>
       "MSTR" \notin reg /\ "DATA_EN" \notin reg

\* No delivery is under way once the adapter's host-notify domain is gone, and
\* at most one context delivers at a time.
DeliveryFence ==
  /\ \A p \in {"T", "X"} : pc[p] = "calling" => "domain" \in asf
  /\ ~(pc["T"] = "calling" /\ pc["X"] = "calling")

\* Devices of which some context still has, or will read, a message.
Held ==
  {d \in Dev :
     \/ \E b \in banks.full : banks.data[b] = d
     \/ /\ banks.data[0] = d            \* process_bank's fallback will read it
        /\ \/ "SLV_INT" \in reg \/ "pending" \in asf
           \/ pc["H"] \in {"hCheck", "hWake"}
           \/ dr.sig /\ \E p \in {"T", "X"} : pc[p] = "dBank"
     \/ \E p \in {"T", "X"} : pc[p] = "dTake" /\ dr.addr = d
     \/ d \in Lists}

\* "nothing that was ACKed is discarded": no step of a drain, a transfer, a
\* wedge recovery or a racing handler loses the last trace of a notify.
NoLoss == owed \subseteq Held

\* "Every path that arms the slave re-enables the interrupt": between the
\* critical sections a driver that is listening has a slave that receives and
\* interrupts, whatever handler ran meanwhile.
ArmedWhenListening ==
  owner = "none" /\ "listening" \in asf /\ pc["H"] = "idle" =>
    {"LISTN", "INTR"} \subseteq reg /\ "RST" \notin reg

\* "mask the source so a bank nobody will drain cannot keep the level line
\* asserted": with the driver not listening, no full bank holds up a line that
\* the handler, seeing no status bit of its own, would leave asserted.
NoStorm ==
  /\ owner = "none" /\ "irq" \in asf /\ "listening" \notin asf
  /\ pc["H"] = "idle" /\ pc["T"] = "idle"
  => ~("INTR" \in reg /\ banks.full # {} /\ "SLV_INT" \notin reg)

\* "two drains per call at most": the list has room for every notify read.
RoomForNotify ==
  \A p \in {"T", "X"} :
    pc[p] = "dTake" /\ dr.addr \in Dev => Len(notes[p]) < NotifyMax

\* The handler acks the done bit under a polling transfer, but the transfer
\* still reports what happened on the bus.
XferOutcome == pc["X"] = "xResult" => xf.result = Decode(xf.bus)

\* A kexec'd kernel, or the stock driver, finds the firmware's configuration:
\* no transfer, thread or handler undoes the restore.
FirmwareRestored ==
  pc["L"] = "off" /\ (\A b \in Budgets : left["busy"] = b["busy"]) => reg \cap Cfg = Boot

\* "Stop Host Notify delivery but keep the master wrapper in effect": from the
\* moment stop or suspend has quiesced the slave until start or resume, no
\* transfer, thread or handler makes it acknowledge messages again.
QuietAfterStop ==
  pc["L"] \in {"sync", "asleep", "wake", "master", "free", "fence", "del",
               "delWait", "restore"} => "LISTN" \notin reg

\* synchronize_hardirq() under the mutex, free_irq() outside it: a transfer
\* that has begun ends, and a teardown or suspend gets through.
NoneWaitsForever ==
  /\ (pc["X"] # "idle") ~> (pc["X"] = "idle")
  /\ (pc["L"] = "stop") ~> (pc["L"] = "off")
  /\ (pc["L"] = "quiesce" /\ goal = "sleep") ~> (pc["L"] = "up")

\* The promise to the clients of the adapter, see HostNotify.
Calling == UNION {IF pc[p] = "calling" THEN Range(notes[p]) ELSE {} :
                    p \in {"T", "X"}}
Abs == INSTANCE HostNotify WITH
         calling <- Calling,
         on <- {"want", "listening"} \subseteq asf /\ "ERR" \notin reg
Promise == Abs!Spec

=============================================================================
