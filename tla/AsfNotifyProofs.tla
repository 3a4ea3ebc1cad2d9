--------------------------- MODULE AsfNotifyProofs ---------------------------
(***************************************************************************)
(* Proofs about AsfNotify, for every set of devices, every limit and every *)
(* number of external events.                                              *)
(*                                                                         *)
(* Base is the discipline of the four contexts: who holds piix4_asf_mutex  *)
(* where, where a drain or an arm sequence returns to, and the types.      *)
(* Modes says which mode the block is in where, when Host Notify is wanted *)
(* and when deliveries are open.  On these two rest, each inductive        *)
(* together with them:                                                     *)
(*   Outcome   what a polling transfer reads                               *)
(*   Firmware  what is saved at the claim and put back at the release      *)
(*   Opened    Host Notify is wanted only while deliveries are open        *)
(*   Armed     where the slave is armed, and when a handler may mask it    *)
(*   Kept      where the last trace of an owed notify is (with Armed)      *)
(* The safety properties of AsfNotify follow, and that its steps are steps *)
(* of HostNotify.  There is one lemma per context, with one step per       *)
(* action, wherever the context's actions disturb the invariant.           *)
(***************************************************************************)
EXTENDS AsfNotify, TLAPS

\* The labels at which each context holds piix4_asf_mutex.
TCrit == LabelsDrain \cup LabelsArm \cup {"tDrained", "tReset", "tUnlock"}
XCrit == LabelsDrain \cup LabelsArm \cup
           {"xDeafen", "xSync", "xMaster", "xBus", "xPoll", "xResult",
            "xListen", "xCaught", "xUnlock"}
LCrit == LabelsArm \cup {"lUnlock", "quiesce", "sync", "master"}

\* The mutex is held exactly there; the line is masked while the thread runs.
Mutex == /\ pc["T"] \in TCrit <=> owner = "T"
         /\ pc["X"] \in XCrit <=> owner = "X"
         /\ pc["L"] \in LCrit <=> owner = "L"
         /\ pc["H"] # "idle" => pc["T"] = "idle"

\* Where a drain or an arm sequence resumes its caller.
Returns ==
  /\ \A p \in {"T", "X"} : pc[p] \in {"dBank", "dTake"} => dr.i < DrainMax
  /\ pc["T"] \in LabelsDrain => dr.ret \in {"tDrained", "tReset"}
  /\ pc["T"] \in LabelsArm => dr.ret = "tUnlock"
  /\ pc["X"] = "xDeafen" => dr.ret = "xMaster"
  /\ pc["X"] \in LabelsDrain \cup {"xSync"} =>
       dr.ret \in {"xMaster", "xCaught"}
  /\ pc["X"] \in LabelsArm => dr.ret \in {"xListen", "xUnlock"}
  /\ pc["L"] \in LabelsArm => dr.ret = "lUnlock"

\* A transfer yields only while it has retries left.
Tries ==
  \/ pc["X"] \in {"xListen", "xCaught"}
  \/ pc["X"] \in LabelsArm /\ dr.ret = "xListen"
  \/ pc["X"] \in LabelsDrain \cup {"xSync"} /\ dr.ret = "xCaught"
  => xf.try < Retries

Base == TypeOK /\ Mutex /\ Returns /\ Tries

-----------------------------------------------------------------------------
(* The locals of a drain and of a transfer, and the banks, keep their type. *)

\* A drain starts with fresh locals, and ends with its verdict.
LEMMA FreshDrain ==
  ASSUME NEW r \in Labels, NEW w \in BOOLEAN
  PROVE  /\ NoDrain \in DrainLocals
         /\ [NoDrain EXCEPT !.ret = r] \in DrainLocals
         /\ [NoDrain EXCEPT !.wedged = w, !.ret = r] \in DrainLocals
<1>1. NoDrain \in DrainLocals
  BY LimitAssumption DEF NoDrain, DrainLocals, Msg, Bank, Labels, LabelsH
<1>. QED BY <1>1 DEF DrainLocals

\* The round counter of a drain stays within ASF_DRAIN_MAX.
LEMMA NextRead ==
  ASSUME NEW d \in DrainLocals, d.i < DrainMax
  PROVE  /\ [d EXCEPT !.i = @ + 1, !.sig = FALSE] \in DrainLocals
         /\ [d EXCEPT !.i = @ + 1, !.bank = 0, !.addr = Junk] \in DrainLocals
<1>1. d.i + 1 \in 0 .. DrainMax
  BY LimitAssumption DEF DrainLocals
<1>. QED BY <1>1 DEF DrainLocals, Bank, Msg

\* A drain picks a bank that exists, and reads a message from it.
LEMMA ReadBank ==
  ASSUME NEW d \in DrainLocals, NEW c \in BankRegs, NEW n \in Nat
  PROVE  LET b == ChosenBank(c.full, n)
         IN  [d EXCEPT !.bank = b, !.addr = c.data[b], !.sig = FALSE]
               \in DrainLocals
<1>1. ChosenBank(c.full, n) \in Bank
  BY DEF ChosenBank, Bank
<1>2. c.data[ChosenBank(c.full, n)] \in Msg
  BY <1>1 DEF BankRegs
<1>. QED BY <1>1, <1>2 DEF DrainLocals

\* A transfer starts with fresh locals, ...
LEMMA FreshXfer ==
  ASSUME NEW d \in Dev
  PROVE  NoXfer \in XferLocals /\ [NoXfer EXCEPT !.to = d] \in XferLocals
<1>1. NoXfer \in XferLocals
  BY LimitAssumption DEF NoXfer, XferLocals, Msg, NotifyMax
<1>. QED BY <1>1 DEF XferLocals, Msg

\* ... and leaves none behind.
LEMMA FreshXfer0 == NoXfer \in XferLocals
  BY LimitAssumption DEF NoXfer, XferLocals, Msg, NotifyMax

\* The status of a transaction, its result and the mark in the list of
\* notifies keep their type.
LEMMA XferStep ==
  ASSUME NEW x \in XferLocals, NEW e \in SUBSET HstErr,
         NEW n \in 0 .. NotifyMax
  PROVE  /\ [x EXCEPT !.bus = e, !.sts = e] \in XferLocals
         /\ [x EXCEPT !.result = Decode(x.sts), !.sts = {}] \in XferLocals
         /\ [x EXCEPT !.before = n] \in XferLocals
  BY DEF XferLocals, Decode

\* A retry is one of at most ASF_XFER_RETRIES.
LEMMA XferRetry ==
  ASSUME NEW x \in XferLocals, x.try < Retries
  PROVE  [x EXCEPT !.try = @ + 1, !.before = 0] \in XferLocals
<1>1. x.try + 1 \in 0 .. Retries /\ 0 \in 0 .. NotifyMax
  BY LimitAssumption DEF XferLocals, NotifyMax
<1>. QED BY <1>1 DEF XferLocals

\* Setting and clearing the flags of the banks, and receiving into one.
LEMMA BankStep ==
  ASSUME NEW c \in BankRegs, NEW S \in SUBSET Bank, NEW b \in Bank,
         NEW m \in Msg
  PROVE  /\ [c EXCEPT !.full = {}, !.stuck = {}] \in BankRegs
         /\ [c EXCEPT !.full = S] \in BankRegs
         /\ [c EXCEPT !.stuck = S] \in BankRegs
         /\ [c EXCEPT !.full = S, !.data[b] = m] \in BankRegs
  BY DEF BankRegs

\* A reset empties and unsticks both banks.
LEMMA FreshFlush ==
  ASSUME NEW c \in BankRegs
  PROVE  [c EXCEPT !.full = {}, !.stuck = {}] \in BankRegs
  BY DEF BankRegs

\* Spending an event leaves a budget.
LEMMA Counted ==
  ASSUME left \in [Kinds -> Nat], NEW k \in Kinds, Spend(k)
  PROVE  left' \in [Kinds -> Nat]
<1>1. left[k] - 1 \in Nat
  BY DEF Spend
<1>. QED BY <1>1 DEF Spend

\* Restoring the firmware state, or finding the region taken, keeps the types.
LEMMA BlockGivenBack ==
  ASSUME TypeRegs, TypeBanks, TypeHistory, GiveBack
  PROVE  /\ reg' \subseteq Cfg \cup Status /\ banks' \in BankRegs
         /\ left' \in [Kinds -> Nat]
<1>1. CASE RegionOk /\ reg' = RestoredBits(reg) /\ banks' = Flushed
  <2>1. reg' \subseteq Cfg \cup Status
    BY <1>1 DEF RestoredBits, TypeRegs
  <2>2. banks' \in BankRegs
    BY <1>1, FreshFlush DEF TypeBanks, Flushed
  <2>. QED BY <1>1, <2>1, <2>2 DEF RegionOk, TypeHistory
<1>2. CASE RegionBusy /\ UNCHANGED <<reg, banks>>
  BY <1>2, Counted DEF RegionBusy, TypeRegs, TypeBanks, TypeHistory, Kinds
<1>. QED BY <1>1, <1>2 DEF GiveBack

-----------------------------------------------------------------------------
(* Every step of every context keeps Base. *)

\* The bus and the block touch no lock and no local.
LEMMA EnvironmentBase ==
  ASSUME Base, Environment
  PROVE  Base'
<1>. USE DEF Base, TypeOK
<1>1. ASSUME NEW m \in Wire, Receive(m) PROVE Base'
  <2>1. (TypeRegs /\ TypeFlags /\ TypePc /\ TypeDrain
          /\ TypeNotes /\ TypeXfer /\ TypeHistory)'
    BY <1>1 DEF Receive, Spend, TypeRegs, TypeFlags, TypePc, TypeDrain,
       TypeNotes, TypeXfer, TypeHistory, Cfg, Status, Kinds
  <2>2. TypeBanks'
    <3>1. PICK b \in Bank \ banks.full :
             banks' = [banks EXCEPT !.full = @ \cup {b}, !.data[b] = m]
      BY <1>1 DEF Receive
    <3>2. banks.full \cup {b} \in SUBSET Bank /\ m \in Msg
      BY <3>1, DevAssumption DEF TypeBanks, BankRegs, Msg
    <3>3. [banks EXCEPT !.full = banks.full \cup {b}, !.data[b] = m]
            \in BankRegs
      BY <3>2, BankStep DEF TypeBanks
    <3>. QED  BY <3>1, <3>3 DEF TypeBanks
  <2>3. (Mutex /\ Returns /\ Tries)'
    BY <1>1 DEF Receive, Spend, Mutex, Returns, Tries
  <2>. QED  BY <2>1, <2>2, <2>3
<1>2. CASE Stick
  <2>1. (TypeRegs /\ TypeFlags /\ TypePc /\ TypeDrain
          /\ TypeNotes /\ TypeXfer /\ TypeHistory)'
    BY <1>2 DEF Stick, Spend, TypeRegs, TypeFlags, TypePc, TypeDrain,
       TypeNotes, TypeXfer, TypeHistory, Kinds
  <2>2. TypeBanks'
    <3>1. PICK b \in banks.full :
             banks' = [banks EXCEPT !.stuck = @ \cup {b}]
      BY <1>2 DEF Stick
    <3>2. banks.stuck \cup {b} \in SUBSET Bank
      BY <3>1 DEF TypeBanks, BankRegs
    <3>. QED  BY <3>1, <3>2 DEF TypeBanks, BankRegs
  <2>3. (Mutex /\ Returns /\ Tries)'
    BY <1>2 DEF Stick, Spend, Mutex, Returns, Tries
  <2>. QED  BY <2>1, <2>2, <2>3
<1>. USE DEF TypeRegs, TypeBanks, TypeFlags, TypePc, TypeDrain, TypeNotes,
   TypeXfer, TypeHistory, Go, Mutex, Returns, Tries, Proc, TCrit, XCrit,
   LCrit, LabelsDrain, LabelsArm, LabelsT, LabelsX, LabelsL, LabelsH, Labels,
   Flags, Spend
<1>3. CASE ReceiveError
  BY <1>3 DEF ReceiveError, Cfg, Status, Kinds
<1>. QED  BY <1>1, <1>2, <1>3 DEF Environment

\* The handler runs without the lock; it wakes an idle thread only.
LEMMA HandlerBase ==
  ASSUME Base, HNext
  PROVE  Base'
<1>. USE DEF Base, TypeOK
<1>1. CASE HClaim
  <2>1. (TypeRegs /\ TypeBanks /\ TypeFlags /\ TypePc /\ TypeDrain
          /\ TypeNotes /\ TypeXfer /\ TypeHistory)'
    BY <1>1 DEF HClaim, Go, TypeRegs, TypeBanks, TypeFlags, TypePc, TypeDrain,
       TypeNotes, TypeXfer, TypeHistory, Cfg, Status, Proc, Labels, LabelsH
  <2>2. (Mutex /\ Returns /\ Tries)'
    BY <1>1 DEF HClaim, Go, Mutex, Returns, Tries, TypePc, TypeDrain,
       DrainLocals, TCrit, XCrit, LCrit, Proc, LabelsDrain, LabelsArm
  <2>. QED  BY <2>1, <2>2
<1>2. CASE HWake
  <2>1. (TypeRegs /\ TypeBanks /\ TypeFlags /\ TypePc /\ TypeDrain
          /\ TypeNotes /\ TypeXfer /\ TypeHistory)'
    BY <1>2 DEF HWake, TypeRegs, TypeBanks, TypeFlags, TypePc, TypeDrain,
       TypeNotes, TypeXfer, TypeHistory, Flags, Proc, Labels, LabelsH, LabelsT
  <2>2. (Mutex /\ Returns /\ Tries)'
    BY <1>2 DEF HWake, Mutex, Returns, Tries, TypePc, TypeDrain, DrainLocals,
       TCrit, XCrit, LCrit, Proc, LabelsDrain, LabelsArm, LabelsT
  <2>. QED  BY <2>1, <2>2
<1>3. CASE HWrite
  <2>1. (TypeRegs /\ TypeFlags /\ TypePc /\ TypeDrain
          /\ TypeNotes /\ TypeXfer /\ TypeHistory)'
    BY <1>3 DEF HWrite, Go, Flushed, TypeRegs, TypeFlags, TypePc, TypeDrain,
       TypeNotes, TypeXfer, TypeHistory, Cfg, Status, SlvEn, Proc, Labels,
       LabelsH
  <2>2. TypeBanks'
    BY <1>3, BankStep DEF TypeBanks, HWrite, Go, Flushed, Bank, Msg
  <2>3. (Mutex /\ Returns /\ Tries)'
    BY <1>3 DEF HWrite, Go, Flushed, Mutex, Returns, Tries, TypePc, TypeDrain,
       DrainLocals, TCrit, XCrit, LCrit, Proc, LabelsDrain, LabelsArm
  <2>. QED  BY <2>1, <2>2, <2>3
<1>. USE DEF TypeRegs, TypeBanks, TypeFlags, TypePc, TypeDrain, TypeNotes,
   TypeXfer, TypeHistory, Go, Mutex, Returns, Tries, Proc, TCrit, XCrit,
   LCrit, LabelsDrain, LabelsArm, LabelsT, LabelsX, LabelsL, LabelsH, Labels,
   Flags, Spend
<1>4. CASE HArmed
  BY <1>4 DEF HArmed, DrainLocals
<1>5. CASE HRead
  BY <1>5 DEF HRead, Cfg, Status, SlvEn, DrainLocals
<1>. QED  BY <1>1, <1>2, <1>3, <1>4, <1>5 DEF HNext

\* A drain, by the context that holds the lock.
LEMMA DrainBase ==
  ASSUME NEW p \in {"T", "X"}, Base, Drain(p)
  PROVE  Base'
<1>. USE DEF Base, TypeOK
<1>1. CASE DrainFull(p)
  <2>1. (TypeRegs /\ TypeBanks /\ TypeFlags /\ TypePc
          /\ TypeNotes /\ TypeXfer /\ TypeHistory)'
    BY <1>1 DEF DrainFull, EndDrain, Go, TypeRegs, TypeBanks, TypeFlags,
       TypePc, TypeNotes, TypeXfer, TypeHistory, Proc, Labels, LabelsT,
       LabelsX, LabelsDrain, Returns, LabelsArm
  <2>2. TypeDrain'
    BY <1>1, FreshDrain DEF TypeDrain, DrainFull, EndDrain, Go, DrainLocals
  <2>3. (Mutex /\ Returns /\ Tries)'
    BY <1>1, LimitAssumption DEF DrainFull, EndDrain, Go, Mutex, Returns,
       Tries, TypePc, TypeDrain, DrainLocals, TCrit, XCrit, LCrit, Proc,
       LabelsDrain, LabelsArm, NoDrain
  <2>. QED  BY <2>1, <2>2, <2>3
<1>2. CASE DrainSignal(p)
  <2>1. (TypeRegs /\ TypeBanks /\ TypeFlags /\ TypePc
          /\ TypeNotes /\ TypeXfer /\ TypeHistory)'
    BY <1>2 DEF DrainSignal, Go, TypeRegs, TypeBanks, TypeFlags, TypePc,
       TypeNotes, TypeXfer, TypeHistory, Cfg, Status, Flags, Proc, Labels,
       LabelsT, LabelsX, LabelsDrain
  <2>2. TypeDrain'
    BY <1>2 DEF TypeDrain, DrainSignal, Go, DrainLocals
  <2>3. (Mutex /\ Returns /\ Tries)'
    BY <1>2, LimitAssumption DEF DrainSignal, Go, Mutex, Returns, Tries,
       TypePc, TypeDrain, DrainLocals, TCrit, XCrit, LCrit, Proc, LabelsDrain,
       LabelsArm
  <2>. QED  BY <2>1, <2>2, <2>3
<1>3. CASE DrainDone(p)
  <2>1. (TypeRegs /\ TypeBanks /\ TypeFlags /\ TypePc
          /\ TypeNotes /\ TypeXfer /\ TypeHistory)'
    BY <1>3 DEF DrainDone, EndDrain, Go, TypeRegs, TypeBanks, TypeFlags,
       TypePc, TypeNotes, TypeXfer, TypeHistory, Proc, Labels, LabelsT,
       LabelsX, LabelsDrain, Returns, LabelsArm
  <2>2. TypeDrain'
    BY <1>3, FreshDrain DEF TypeDrain, DrainDone, EndDrain, Go, DrainLocals
  <2>3. (Mutex /\ Returns /\ Tries)'
    BY <1>3, LimitAssumption DEF DrainDone, EndDrain, Go, Mutex, Returns,
       Tries, TypePc, TypeDrain, DrainLocals, TCrit, XCrit, LCrit, Proc,
       LabelsDrain, LabelsArm, NoDrain
  <2>. QED  BY <2>1, <2>2, <2>3
<1>4. CASE DrainFlush(p)
  <2>1. (TypeRegs /\ TypeFlags /\ TypePc /\ TypeNotes
          /\ TypeXfer /\ TypeHistory)'
    BY <1>4 DEF DrainFlush, Go, Abandon, Lists, TypeRegs, TypeFlags, TypePc,
       TypeNotes, TypeXfer, TypeHistory, Proc, Labels, LabelsT, LabelsX,
       LabelsDrain, Kinds
  <2>2. TypeBanks'
    BY <1>4, BankStep DEF TypeBanks, DrainFlush, Go, Abandon, Lists, BankRegs,
       Msg, Bank
  <2>3. TypeDrain'
    BY <1>4, NextRead DEF TypeDrain, DrainFlush, Go, Abandon, Lists, Returns
  <2>4. (Mutex /\ Returns /\ Tries)'
    BY <1>4, LimitAssumption DEF DrainFlush, Go, Abandon, Lists, Mutex,
       Returns, Tries, TypePc, TypeDrain, DrainLocals, TCrit, XCrit, LCrit,
       Proc, LabelsDrain, LabelsArm
  <2>. QED  BY <2>1, <2>2, <2>3, <2>4
<1>5. CASE DrainRead(p)
  <2>1. (TypeRegs /\ TypeBanks /\ TypeFlags /\ TypePc
          /\ TypeNotes /\ TypeXfer /\ TypeHistory)'
    BY <1>5 DEF DrainRead, Go, TypeRegs, TypeBanks, TypeFlags, TypePc,
       TypeNotes, TypeXfer, TypeHistory, Proc, Labels, LabelsT, LabelsX,
       LabelsDrain
  <2>2. TypeDrain'
    <3>1. dr.i \in Nat /\ dr \in DrainLocals /\ banks \in BankRegs
      BY LimitAssumption DEF TypeDrain, DrainLocals, TypeBanks
    <3>2. LET b == ChosenBank(banks.full, dr.i)
          IN  [dr EXCEPT !.bank = b, !.addr = banks.data[b], !.sig = FALSE]
                \in DrainLocals
      BY <3>1, ReadBank
    <3>. QED  BY <1>5, <3>2 DEF DrainRead, TypeDrain
  <2>3. (Mutex /\ Returns /\ Tries)'
    BY <1>5, LimitAssumption DEF DrainRead, Go, Mutex, Returns, Tries, TypePc,
       TypeDrain, DrainLocals, TCrit, XCrit, LCrit, Proc, LabelsDrain,
       LabelsArm
  <2>. QED  BY <2>1, <2>2, <2>3
<1>6. CASE DrainTake(p)
  <2>1. (TypeRegs /\ TypeFlags /\ TypePc /\ TypeXfer /\ TypeHistory)'
    BY <1>6 DEF DrainTake, Go, TypeRegs, TypeFlags, TypePc, TypeXfer,
       TypeHistory, Proc, Labels, LabelsT, LabelsX, LabelsDrain
  <2>2. TypeBanks'
    BY <1>6, BankStep DEF TypeBanks, DrainTake, Go, BankRegs, Msg, Bank
  <2>3. TypeDrain'
    BY <1>6, NextRead DEF TypeDrain, DrainTake, Go, Returns
  <2>4. TypeNotes'
    BY <1>6, LimitAssumption DEF TypeNotes, DrainTake, Go, NotifyMax,
       TypeDrain, DrainLocals
  <2>5. (Mutex /\ Returns /\ Tries)'
    BY <1>6, LimitAssumption DEF DrainTake, Go, Mutex, Returns, Tries, TypePc,
       TypeDrain, DrainLocals, TCrit, XCrit, LCrit, Proc, LabelsDrain,
       LabelsArm
  <2>. QED  BY <2>1, <2>2, <2>3, <2>4, <2>5
<1>. QED  BY <1>1, <1>2, <1>3, <1>4, <1>5, <1>6 DEF Drain

\* An arm sequence, by the context that holds the lock.
LEMMA ArmBase ==
  ASSUME NEW p \in {"T", "X", "L"}, Base, Arm(p)
  PROVE  Base'
<1>. USE DEF Base, TypeOK
<1>1. CASE ArmEnable(p)
  <2>1. (TypeRegs /\ TypeBanks /\ TypeFlags /\ TypePc
          /\ TypeNotes /\ TypeXfer /\ TypeHistory)'
    BY <1>1 DEF ArmEnable, Go, TypeRegs, TypeBanks, TypeFlags, TypePc,
       TypeNotes, TypeXfer, TypeHistory, Cfg, Status, Proc, Labels, LabelsT,
       LabelsX, LabelsL, LabelsArm, Returns
  <2>2. TypeDrain'
    BY <1>1, FreshDrain DEF TypeDrain, ArmEnable, Go, DrainLocals
  <2>3. (Mutex /\ Returns /\ Tries)'
    BY <1>1, LimitAssumption DEF ArmEnable, Go, Mutex, Returns, Tries, TypePc,
       TypeDrain, DrainLocals, TCrit, XCrit, LCrit, Proc, LabelsDrain,
       LabelsArm, NoDrain
  <2>. QED  BY <2>1, <2>2, <2>3
<1>. USE DEF TypeRegs, TypeBanks, TypeFlags, TypePc, TypeDrain, TypeNotes,
   TypeXfer, TypeHistory, Go, Mutex, Returns, Tries, Proc, TCrit, XCrit,
   LCrit, LabelsDrain, LabelsArm, LabelsT, LabelsX, LabelsL, LabelsH, Labels,
   Flags, Spend
<1>2. CASE ArmListen(p)
  BY <1>2 DEF ArmListen, Cfg, Status, DrainLocals
<1>3. CASE ArmRelease(p)
  BY <1>3 DEF ArmRelease, Cfg, Status, DrainLocals
<1>. QED  BY <1>1, <1>2, <1>3 DEF Arm

\* A delivery, by a context that has let go of the lock.
LEMMA DeliverBase ==
  ASSUME NEW p \in {"T", "X"}, Base, Deliver(p)
  PROVE  Base'
<1>. USE DEF Base, TypeOK
<1>. USE DEF TypeRegs, TypeBanks, TypeFlags, TypePc, TypeDrain, TypeNotes,
   TypeXfer, TypeHistory, Go, Mutex, Returns, Tries, Proc, TCrit, XCrit,
   LCrit, LabelsDrain, LabelsArm, LabelsT, LabelsX, LabelsL, LabelsH, Labels,
   Flags, Spend
<1>1. CASE DeliverNone(p)
  BY <1>1, LimitAssumption, FreshXfer0 DEF DeliverNone, Finish, NotifyMax,
     DrainLocals, XferLocals
<1>2. CASE DeliverClosed(p)
  BY <1>2, LimitAssumption, FreshXfer0 DEF DeliverClosed, Finish, Peer,
     Abandon, Lists, Kinds, NotifyMax, DrainLocals, XferLocals
<1>3. CASE DeliverCall(p)
  BY <1>3 DEF DeliverCall, Peer, DrainLocals
<1>4. CASE DeliverReturn(p)
  BY <1>4, LimitAssumption, FreshXfer0 DEF DeliverReturn, Finish, Kinds,
     NotifyMax, DrainLocals, XferLocals
<1>. QED  BY <1>1, <1>2, <1>3, <1>4 DEF Deliver

\* The interrupt thread.
LEMMA ThreadBase ==
  ASSUME Base, TNext
  PROVE  Base'
<1>. USE DEF Base, TypeOK
<1>1. CASE TDrain
  <2>1. (TypeRegs /\ TypeBanks /\ TypeFlags /\ TypePc
          /\ TypeNotes /\ TypeXfer /\ TypeHistory)'
    BY <1>1 DEF TDrain, BeginDrain, Go, TypeRegs, TypeBanks, TypeFlags,
       TypePc, TypeNotes, TypeXfer, TypeHistory, Flags, Proc, Labels, LabelsT,
       LabelsDrain
  <2>2. TypeDrain'
    BY <1>1, FreshDrain DEF TypeDrain, TDrain, BeginDrain, Go, Labels, LabelsT
  <2>3. (Mutex /\ Returns /\ Tries)'
    BY <1>1, LimitAssumption DEF TDrain, BeginDrain, Go, Mutex, Returns,
       Tries, TypePc, TypeDrain, DrainLocals, TCrit, XCrit, LCrit, Proc,
       LabelsDrain, LabelsArm, NoDrain
  <2>. QED  BY <2>1, <2>2, <2>3
<1>2. CASE TSound
  <2>1. (TypeRegs /\ TypeBanks /\ TypeFlags /\ TypePc
          /\ TypeNotes /\ TypeXfer /\ TypeHistory)'
    BY <1>2 DEF TSound, Go, TypeRegs, TypeBanks, TypeFlags, TypePc, TypeNotes,
       TypeXfer, TypeHistory, Proc, Labels, LabelsT
  <2>2. TypeDrain'
    BY <1>2, FreshDrain DEF TypeDrain, TSound, Go, Labels, LabelsT
  <2>3. (Mutex /\ Returns /\ Tries)'
    BY <1>2, LimitAssumption DEF TSound, Go, Mutex, Returns, Tries, TypePc,
       TypeDrain, DrainLocals, TCrit, XCrit, LCrit, Proc, LabelsDrain,
       LabelsArm, NoDrain
  <2>. QED  BY <2>1, <2>2, <2>3
<1>3. CASE TRecover
  <2>1. (TypeRegs /\ TypeBanks /\ TypeFlags /\ TypePc
          /\ TypeNotes /\ TypeXfer /\ TypeHistory)'
    BY <1>3 DEF TRecover, RegionOk, BeginDrain, Go, TypeRegs, TypeBanks,
       TypeFlags, TypePc, TypeNotes, TypeXfer, TypeHistory, Cfg, Status, Proc,
       Labels, LabelsT, LabelsDrain, Kinds
  <2>2. TypeDrain'
    BY <1>3, FreshDrain DEF TypeDrain, TRecover, RegionOk, BeginDrain, Go,
       Labels, LabelsT
  <2>3. (Mutex /\ Returns /\ Tries)'
    BY <1>3, LimitAssumption DEF TRecover, RegionOk, BeginDrain, Go, Mutex,
       Returns, Tries, TypePc, TypeDrain, DrainLocals, TCrit, XCrit, LCrit,
       Proc, LabelsDrain, LabelsArm, NoDrain
  <2>. QED  BY <2>1, <2>2, <2>3
<1>4. CASE TReset
  <2>1. (TypeRegs /\ TypeFlags /\ TypePc /\ TypeNotes
          /\ TypeXfer /\ TypeHistory)'
    BY <1>4 DEF TReset, Flushed, BeginArm, Go, TypeRegs, TypeFlags, TypePc,
       TypeNotes, TypeXfer, TypeHistory, Cfg, Status, Proc, Labels, LabelsT,
       LabelsArm
  <2>2. TypeBanks'
    BY <1>4, BankStep DEF TypeBanks, TReset, Flushed, BeginArm, Go, Msg, Bank
  <2>3. TypeDrain'
    BY <1>4, FreshDrain DEF TypeDrain, TReset, Flushed, BeginArm, Go, Labels,
       LabelsT
  <2>4. (Mutex /\ Returns /\ Tries)'
    BY <1>4, LimitAssumption DEF TReset, Flushed, BeginArm, Go, Mutex,
       Returns, Tries, TypePc, TypeDrain, DrainLocals, TCrit, XCrit, LCrit,
       Proc, LabelsDrain, LabelsArm, NoDrain
  <2>. QED  BY <2>1, <2>2, <2>3, <2>4
<1>5. CASE TGiveUp
  <2>1. (TypeRegs /\ TypeBanks /\ TypeFlags /\ TypePc
          /\ TypeNotes /\ TypeXfer /\ TypeHistory)'
    BY <1>5 DEF TGiveUp, Go, RegionBusy, Spend, Abandon, Lists, TypeRegs,
       TypeBanks, TypeFlags, TypePc, TypeNotes, TypeXfer, TypeHistory, Cfg,
       Status, Flags, Proc, Labels, LabelsT, Kinds
  <2>2. TypeDrain'
    BY <1>5, FreshDrain DEF TypeDrain, TGiveUp, Go, RegionBusy, Spend,
       Abandon, Lists, Labels, LabelsT
  <2>3. (Mutex /\ Returns /\ Tries)'
    BY <1>5, LimitAssumption DEF TGiveUp, Go, RegionBusy, Spend, Abandon,
       Lists, Mutex, Returns, Tries, TypePc, TypeDrain, DrainLocals, TCrit,
       XCrit, LCrit, Proc, LabelsDrain, LabelsArm, NoDrain
  <2>. QED  BY <2>1, <2>2, <2>3
<1>. USE DEF TypeRegs, TypeBanks, TypeFlags, TypePc, TypeDrain, TypeNotes,
   TypeXfer, TypeHistory, Go, Mutex, Returns, Tries, Proc, TCrit, XCrit,
   LCrit, LabelsDrain, LabelsArm, LabelsT, LabelsX, LabelsL, LabelsH, Labels,
   Flags, Spend
<1>6. CASE TStopped
  BY <1>6 DEF TStopped, DrainLocals
<1>7. CASE TUnlock
  BY <1>7 DEF TUnlock, DrainLocals
<1>. QED  BY <1>1, <1>2, <1>3, <1>4, <1>5, <1>6, <1>7, DrainBase, ArmBase,
   DeliverBase DEF TNext

\* A transfer.
LEMMA TransferBase ==
  ASSUME Base, XNext
  PROVE  Base'
<1>. USE DEF Base, TypeOK
<1>1. ASSUME NEW d \in Dev, XEnter(d) PROVE Base'
  <2>1. (TypeRegs /\ TypeBanks /\ TypeFlags /\ TypePc
          /\ TypeNotes /\ TypeHistory)'
    <3>1. left' \in [Kinds -> Nat]
      BY <1>1, Counted DEF XEnter, TypeHistory, Kinds
    <3>2. TypePc'
      BY <1>1 DEF XEnter, BeginDrain, Go, TypePc, Proc, Labels, LabelsX
    <3>. QED  BY <1>1, <3>1, <3>2 DEF XEnter, TypeRegs, TypeBanks, TypeFlags,
         TypeNotes, TypeHistory
  <2>2. TypeDrain'
    BY <1>1, FreshDrain DEF TypeDrain, XEnter, Spend, BeginDrain, Go, Labels,
       LabelsX
  <2>3. TypeXfer'
    BY <1>1, FreshXfer DEF TypeXfer, XEnter, Spend, BeginDrain, Go
  <2>4. (Mutex /\ Returns /\ Tries)'
    BY <1>1, LimitAssumption DEF XEnter, Spend, BeginDrain, Go, Mutex,
       Returns, Tries, TypePc, TypeDrain, DrainLocals, TCrit, XCrit, LCrit,
       Proc, LabelsDrain, LabelsArm, TypeXfer, XferLocals, NoDrain
  <2>. QED  BY <2>1, <2>2, <2>3, <2>4
<1>2. CASE XMaster
  <2>1. (TypeRegs /\ TypeFlags /\ TypePc /\ TypeNotes
          /\ TypeXfer /\ TypeHistory)'
    BY <1>2 DEF XMaster, Go, Flushed, MasterBits, TypeRegs, TypeFlags, TypePc,
       TypeNotes, TypeXfer, TypeHistory, Cfg, Status, Proc, Labels, LabelsX
  <2>2. TypeBanks'
    BY <1>2, BankStep DEF TypeBanks, XMaster, Go, Flushed, MasterBits, Msg,
       Bank
  <2>3. TypeDrain'
    BY <1>2, FreshDrain DEF TypeDrain, XMaster, Go, Flushed, MasterBits,
       Labels, LabelsX
  <2>4. (Mutex /\ Returns /\ Tries)'
    BY <1>2, LimitAssumption DEF XMaster, Go, Flushed, MasterBits, Mutex,
       Returns, Tries, TypePc, TypeDrain, DrainLocals, TCrit, XCrit, LCrit,
       Proc, LabelsDrain, LabelsArm, NoDrain
  <2>. QED  BY <2>1, <2>2, <2>3, <2>4
<1>3. CASE XBus
  <2>1. (TypeRegs /\ TypeBanks /\ TypeFlags /\ TypePc
          /\ TypeDrain /\ TypeNotes /\ TypeHistory)'
    BY <1>3 DEF XBus, Go, TypeRegs, TypeBanks, TypeFlags, TypePc, TypeDrain,
       TypeNotes, TypeHistory, Cfg, Status, Proc, Labels, LabelsX
  <2>2. TypeXfer'
    <3>1. PICK e \in {{}, {"FAILED"}, {"COLLISION"}, {"NORESP"},
                    {"COLLISION", "NORESP"}} :
             xf' = [xf EXCEPT !.bus = e, !.sts = e]
      BY <1>3 DEF XBus
    <3>2. e \in SUBSET HstErr
      BY <3>1 DEF HstErr
    <3>. QED  BY <3>1, <3>2 DEF TypeXfer, XferLocals
  <2>3. (Mutex /\ Returns /\ Tries)'
    BY <1>3, LimitAssumption DEF XBus, Go, Mutex, Returns, Tries, TypePc,
       TypeDrain, DrainLocals, TCrit, XCrit, LCrit, Proc, LabelsDrain,
       LabelsArm, TypeXfer, XferLocals
  <2>. QED  BY <2>1, <2>2, <2>3
<1>4. CASE XPoll
  <2>1. (TypeRegs /\ TypeBanks /\ TypeFlags /\ TypePc
          /\ TypeDrain /\ TypeNotes /\ TypeHistory)'
    BY <1>4 DEF XPoll, Go, TypeRegs, TypeBanks, TypeFlags, TypePc, TypeDrain,
       TypeNotes, TypeHistory, Cfg, Status, Proc, Labels, LabelsX
  <2>2. TypeXfer'
    BY <1>4, XferStep, LimitAssumption DEF TypeXfer, XPoll, Go, HstErr,
       XferLocals, NotifyMax, TypeNotes
  <2>3. (Mutex /\ Returns /\ Tries)'
    BY <1>4, LimitAssumption DEF XPoll, Go, Mutex, Returns, Tries, TypePc,
       TypeDrain, DrainLocals, TCrit, XCrit, LCrit, Proc, LabelsDrain,
       LabelsArm, TypeXfer, XferLocals
  <2>. QED  BY <2>1, <2>2, <2>3
<1>5. CASE XYield
  <2>1. (TypeRegs /\ TypeBanks /\ TypeFlags /\ TypePc
          /\ TypeNotes /\ TypeHistory)'
    BY <1>5 DEF XYield, BeginArm, Go, LostBus, TypeRegs, TypeBanks, TypeFlags,
       TypePc, TypeNotes, TypeHistory, Flags, Proc, Labels, LabelsX, LabelsArm
  <2>2. TypeDrain'
    BY <1>5, FreshDrain DEF TypeDrain, XYield, BeginArm, Go, LostBus, Labels,
       LabelsX
  <2>3. TypeXfer'
    <3>1. Len(notes["X"]) \in 0 .. NotifyMax
      BY LimitAssumption DEF TypeNotes, NotifyMax
    <3>. QED  BY <1>5, <3>1 DEF XYield, TypeXfer, XferLocals
  <2>4. (Mutex /\ Returns /\ Tries)'
    BY <1>5, LimitAssumption DEF XYield, BeginArm, Go, LostBus, Mutex,
       Returns, Tries, TypePc, TypeDrain, DrainLocals, TCrit, XCrit, LCrit,
       Proc, LabelsDrain, LabelsArm, TypeXfer, XferLocals, NoDrain
  <2>. QED  BY <2>1, <2>2, <2>3, <2>4
<1>6. CASE XListened
  <2>1. (TypeRegs /\ TypeBanks /\ TypeFlags /\ TypePc
          /\ TypeNotes /\ TypeXfer /\ TypeHistory)'
    BY <1>6 DEF XListened, BeginDrain, Go, TypeRegs, TypeBanks, TypeFlags,
       TypePc, TypeNotes, TypeXfer, TypeHistory, Cfg, Status, Proc, Labels,
       LabelsX, LabelsDrain
  <2>2. TypeDrain'
    BY <1>6, FreshDrain DEF TypeDrain, XListened, BeginDrain, Go, Labels,
       LabelsX
  <2>3. (Mutex /\ Returns /\ Tries)'
    BY <1>6, LimitAssumption DEF XListened, BeginDrain, Go, Mutex, Returns,
       Tries, TypePc, TypeDrain, DrainLocals, TCrit, XCrit, LCrit, Proc,
       LabelsDrain, LabelsArm, NoDrain
  <2>. QED  BY <2>1, <2>2, <2>3
<1>7. CASE XRetry
  <2>1. (TypeRegs /\ TypeBanks /\ TypeFlags /\ TypePc
          /\ TypeNotes /\ TypeHistory)'
    BY <1>7 DEF XRetry, Go, FromTarget, TypeRegs, TypeBanks, TypeFlags,
       TypePc, TypeNotes, TypeHistory, Proc, Labels, LabelsX
  <2>2. TypeDrain'
    BY <1>7, FreshDrain DEF TypeDrain, XRetry, Go, FromTarget, Labels, LabelsX
  <2>3. TypeXfer'
    BY <1>7, XferRetry DEF TypeXfer, XRetry, Go, FromTarget, Tries
  <2>4. (Mutex /\ Returns /\ Tries)'
    BY <1>7, LimitAssumption DEF XRetry, Go, FromTarget, Mutex, Returns,
       Tries, TypePc, TypeDrain, DrainLocals, TCrit, XCrit, LCrit, Proc,
       LabelsDrain, LabelsArm, TypeXfer, XferLocals, NoDrain
  <2>. QED  BY <2>1, <2>2, <2>3, <2>4
<1>8. CASE XDone
  <2>1. (TypeRegs /\ TypeBanks /\ TypeFlags /\ TypePc
          /\ TypeNotes /\ TypeXfer /\ TypeHistory)'
    BY <1>8 DEF XDone, XStop, Go, BeginArm, LostBus, TypeRegs, TypeBanks,
       TypeFlags, TypePc, TypeNotes, TypeXfer, TypeHistory, Flags, Proc,
       Labels, LabelsX, LabelsArm
  <2>2. TypeDrain'
    BY <1>8, FreshDrain DEF TypeDrain, XDone, XStop, Go, BeginArm, LostBus,
       Labels, LabelsX
  <2>3. (Mutex /\ Returns /\ Tries)'
    BY <1>8, LimitAssumption DEF XDone, XStop, Go, BeginArm, LostBus, Mutex,
       Returns, Tries, TypePc, TypeDrain, DrainLocals, TCrit, XCrit, LCrit,
       Proc, LabelsDrain, LabelsArm, NoDrain
  <2>. QED  BY <2>1, <2>2, <2>3
<1>9. CASE XAbsent
  <2>1. (TypeRegs /\ TypeBanks /\ TypeFlags /\ TypePc
          /\ TypeNotes /\ TypeXfer /\ TypeHistory)'
    BY <1>9 DEF XAbsent, XStop, Go, BeginArm, FromTarget, TypeRegs, TypeBanks,
       TypeFlags, TypePc, TypeNotes, TypeXfer, TypeHistory, Flags, Proc,
       Labels, LabelsX, LabelsArm
  <2>2. TypeDrain'
    BY <1>9, FreshDrain DEF TypeDrain, XAbsent, XStop, Go, BeginArm,
       FromTarget, Labels, LabelsX
  <2>3. (Mutex /\ Returns /\ Tries)'
    BY <1>9, LimitAssumption DEF XAbsent, XStop, Go, BeginArm, FromTarget,
       Mutex, Returns, Tries, TypePc, TypeDrain, DrainLocals, TCrit, XCrit,
       LCrit, Proc, LabelsDrain, LabelsArm, NoDrain
  <2>. QED  BY <2>1, <2>2, <2>3
<1>. USE DEF TypeRegs, TypeBanks, TypeFlags, TypePc, TypeDrain, TypeNotes,
   TypeXfer, TypeHistory, Go, Mutex, Returns, Tries, Proc, TCrit, XCrit,
   LCrit, LabelsDrain, LabelsArm, LabelsT, LabelsX, LabelsL, LabelsH, Labels,
   Flags, Spend
<1>10. CASE XRefused
  BY <1>10 DEF XRefused, RegionBusy, Kinds
<1>11. CASE XDeafen
  BY <1>11 DEF XDeafen, Cfg, Status, DrainLocals
<1>12. CASE XSync
  BY <1>12 DEF XSync, DrainLocals
<1>13. CASE XUnlock
  BY <1>13 DEF XUnlock, DrainLocals
<1>. QED  BY <1>1, <1>2, <1>3, <1>4, <1>5, <1>6, <1>7, <1>8, <1>9, <1>10,
   <1>11, <1>12, <1>13, DrainBase, ArmBase, DeliverBase DEF XNext, XRun

\* Probe, suspend, resume, remove and shutdown.
LEMMA LifecycleBase ==
  ASSUME Base, LNext
  PROVE  Base'
<1>. USE DEF Base, TypeOK
<1>1. CASE LClaim
  <2>1. (TypeRegs /\ TypeFlags /\ TypePc /\ TypeDrain
          /\ TypeNotes /\ TypeXfer /\ TypeHistory)'
    BY <1>1 DEF LClaim, Go, Flushed, MasterBits, TypeRegs, TypeFlags, TypePc,
       TypeDrain, TypeNotes, TypeXfer, TypeHistory, Cfg, Status, Flags, Proc,
       Labels, LabelsL
  <2>2. TypeBanks'
    BY <1>1, BankStep DEF TypeBanks, LClaim, Go, Flushed, MasterBits, Msg,
       Bank
  <2>3. (Mutex /\ Returns /\ Tries)'
    BY <1>1 DEF LClaim, Go, Flushed, MasterBits, Mutex, Returns, Tries,
       TypePc, TypeDrain, DrainLocals, TCrit, XCrit, LCrit, Proc, LabelsDrain,
       LabelsArm
  <2>. QED  BY <2>1, <2>2, <2>3
<1>2. CASE LNoIrq
  <2>1. (TypeRegs /\ TypeFlags /\ TypePc /\ TypeDrain
          /\ TypeNotes /\ TypeXfer /\ TypeHistory)'
    <3>1. TypePc'
      BY <1>2 DEF LNoIrq, Go, TypePc, Proc, Labels, LabelsL
    <3>. QED  BY <1>2, <3>1, BlockGivenBack DEF LNoIrq, TypeRegs, TypeFlags,
         TypeDrain, TypeNotes, TypeXfer, TypeHistory
  <2>2. TypeBanks'
    BY <1>2, BlockGivenBack DEF LNoIrq, TypeBanks
  <2>3. (Mutex /\ Returns /\ Tries)'
    BY <1>2 DEF LNoIrq, Go, GiveBack, RegionOk, RegionBusy, Spend, Flushed,
       RestoredBits, Mutex, Returns, Tries, TypePc, TypeDrain, DrainLocals,
       TCrit, XCrit, LCrit, Proc, LabelsDrain, LabelsArm
  <2>. QED  BY <2>1, <2>2, <2>3
<1>3. CASE LStart
  <2>1. (TypeRegs /\ TypeBanks /\ TypeFlags /\ TypePc
          /\ TypeNotes /\ TypeXfer /\ TypeHistory)'
    BY <1>3 DEF LStart, Go, RegionOk, RegionBusy, Spend, BeginArm, TypeRegs,
       TypeBanks, TypeFlags, TypePc, TypeNotes, TypeXfer, TypeHistory, Flags,
       Proc, Labels, LabelsL, LabelsArm, Kinds
  <2>2. TypeDrain'
    <3>1. [NoDrain EXCEPT !.ret = "lUnlock"] \in DrainLocals
      BY FreshDrain DEF Labels, LabelsL
    <3>. QED  BY <1>3, <3>1 DEF TypeDrain, LStart, BeginArm
  <2>3. (Mutex /\ Returns /\ Tries)'
    BY <1>3, LimitAssumption DEF LStart, Go, RegionOk, RegionBusy, Spend,
       BeginArm, Mutex, Returns, Tries, TypePc, TypeDrain, DrainLocals, TCrit,
       XCrit, LCrit, Proc, LabelsDrain, LabelsArm, NoDrain
  <2>. QED  BY <2>1, <2>2, <2>3
<1>4. CASE LQuiesce
  <2>1. (TypeRegs /\ TypeFlags /\ TypePc /\ TypeDrain
          /\ TypeNotes /\ TypeXfer /\ TypeHistory)'
    BY <1>4 DEF LQuiesce, Go, Flushed, Abandon, Lists, TypeRegs, TypeFlags,
       TypePc, TypeDrain, TypeNotes, TypeXfer, TypeHistory, Cfg, Status,
       Flags, Proc, Labels, LabelsL, Kinds
  <2>2. TypeBanks'
    BY <1>4, BankStep DEF TypeBanks, LQuiesce, Go, Flushed, Abandon, Lists,
       Msg, Bank
  <2>3. (Mutex /\ Returns /\ Tries)'
    BY <1>4 DEF LQuiesce, Go, Flushed, Abandon, Lists, Mutex, Returns, Tries,
       TypePc, TypeDrain, DrainLocals, TCrit, XCrit, LCrit, Proc, LabelsDrain,
       LabelsArm
  <2>. QED  BY <2>1, <2>2, <2>3
<1>5. CASE LSleep
  <2>1. (TypeRegs /\ TypeFlags /\ TypePc /\ TypeDrain
          /\ TypeNotes /\ TypeXfer /\ TypeHistory)'
    BY <1>5, BootAssumption DEF LSleep, Go, Flushed, TypeRegs, TypeFlags,
       TypePc, TypeDrain, TypeNotes, TypeXfer, TypeHistory, Cfg, Status,
       Flags, Proc, Labels, LabelsL
  <2>2. TypeBanks'
    BY <1>5, BankStep DEF TypeBanks, LSleep, Go, Flushed, Msg, Bank
  <2>3. (Mutex /\ Returns /\ Tries)'
    BY <1>5 DEF LSleep, Go, Flushed, Mutex, Returns, Tries, TypePc, TypeDrain,
       DrainLocals, TCrit, XCrit, LCrit, Proc, LabelsDrain, LabelsArm
  <2>. QED  BY <2>1, <2>2, <2>3
<1>6. CASE LResume
  <2>1. (TypeRegs /\ TypeFlags /\ TypePc /\ TypeNotes
          /\ TypeXfer /\ TypeHistory)'
    <3>1. left' \in [Kinds -> Nat]
      BY <1>6, Counted DEF LResume, RegionOk, RegionBusy, TypeHistory, Kinds
    <3>2. TypePc'
      BY <1>6 DEF LResume, BeginArm, Go, TypePc, Proc, Labels, LabelsL,
         LabelsArm
    <3>3. TypeRegs' /\ TypeFlags'
      BY <1>6 DEF LResume, TypeRegs, TypeFlags, Cfg, Flags
    <3>. QED  BY <1>6, <3>1, <3>2, <3>3 DEF LResume, TypeNotes, TypeXfer,
         TypeHistory
  <2>2. TypeBanks'
    BY <1>6, BankStep DEF TypeBanks, LResume, Go, RegionOk, RegionBusy, Spend,
       Flushed, BeginArm, Msg, Bank
  <2>3. TypeDrain'
    <3>1. [NoDrain EXCEPT !.ret = "lUnlock"] \in DrainLocals
      BY FreshDrain DEF Labels, LabelsL
    <3>. QED  BY <1>6, <3>1 DEF TypeDrain, LResume, BeginArm
  <2>4. (Mutex /\ Returns /\ Tries)'
    BY <1>6, LimitAssumption DEF LResume, Go, RegionOk, RegionBusy, Spend,
       Flushed, BeginArm, Mutex, Returns, Tries, TypePc, TypeDrain,
       DrainLocals, TCrit, XCrit, LCrit, Proc, LabelsDrain, LabelsArm, NoDrain
  <2>. QED  BY <2>1, <2>2, <2>3, <2>4
<1>7. CASE LMaster
  <2>1. (TypeRegs /\ TypeFlags /\ TypePc /\ TypeDrain
          /\ TypeNotes /\ TypeXfer /\ TypeHistory)'
    BY <1>7 DEF LMaster, Go, RegionOk, RegionBusy, Spend, Flushed, MasterBits,
       TypeRegs, TypeFlags, TypePc, TypeDrain, TypeNotes, TypeXfer,
       TypeHistory, Cfg, Status, Flags, Proc, Labels, LabelsL, Kinds
  <2>2. TypeBanks'
    BY <1>7, BankStep DEF TypeBanks, LMaster, Go, RegionOk, RegionBusy, Spend,
       Flushed, MasterBits, Msg, Bank
  <2>3. (Mutex /\ Returns /\ Tries)'
    BY <1>7 DEF LMaster, Go, RegionOk, RegionBusy, Spend, Flushed, MasterBits,
       Mutex, Returns, Tries, TypePc, TypeDrain, DrainLocals, TCrit, XCrit,
       LCrit, Proc, LabelsDrain, LabelsArm
  <2>. QED  BY <2>1, <2>2, <2>3
<1>8. CASE LRestore
  <2>1. (TypeRegs /\ TypeFlags /\ TypePc /\ TypeDrain
          /\ TypeNotes /\ TypeXfer /\ TypeHistory)'
    <3>1. TypePc'
      BY <1>8 DEF LRestore, Go, TypePc, Proc, Labels, LabelsL
    <3>. QED  BY <1>8, <3>1, BlockGivenBack DEF LRestore, TypeRegs, TypeFlags,
         TypeDrain, TypeNotes, TypeXfer, TypeHistory
  <2>2. TypeBanks'
    BY <1>8, BlockGivenBack DEF LRestore, TypeBanks
  <2>3. (Mutex /\ Returns /\ Tries)'
    BY <1>8 DEF LRestore, Go, GiveBack, RegionOk, RegionBusy, Spend, Flushed,
       RestoredBits, Mutex, Returns, Tries, TypePc, TypeDrain, DrainLocals,
       TCrit, XCrit, LCrit, Proc, LabelsDrain, LabelsArm
  <2>. QED  BY <2>1, <2>2, <2>3
<1>. USE DEF TypeRegs, TypeBanks, TypeFlags, TypePc, TypeDrain, TypeNotes,
   TypeXfer, TypeHistory, Go, Mutex, Returns, Tries, Proc, TCrit, XCrit,
   LCrit, LabelsDrain, LabelsArm, LabelsT, LabelsX, LabelsL, LabelsH, Labels,
   Flags, Spend
<1>9. ASSUME NEW g \in {"remove", "disable"}, LTeardown(g) PROVE Base'
  BY <1>9 DEF LTeardown, DrainLocals
<1>10. CASE LUnsupported
  BY <1>10 DEF LUnsupported, DrainLocals
<1>11. CASE LIrq
  BY <1>11 DEF LIrq, DrainLocals
<1>12. CASE LAdd
  BY <1>12 DEF LAdd, DrainLocals
<1>13. CASE LNoAdapter
  BY <1>13 DEF LNoAdapter, DrainLocals
<1>14. CASE LOpen
  BY <1>14 DEF LOpen, NotifyFree, DrainLocals
<1>15. CASE LUnlock
  BY <1>15 DEF LUnlock, DrainLocals
<1>16. CASE LSuspend
  BY <1>16 DEF LSuspend, Kinds, DrainLocals
<1>17. CASE LStop
  BY <1>17 DEF LStop, DrainLocals
<1>18. CASE LSync
  BY <1>18 DEF LSync, DrainLocals
<1>19. CASE LFreeIrq
  BY <1>19 DEF LFreeIrq, DrainLocals
<1>20. CASE LFence
  BY <1>20 DEF LFence, NotifyFree, DrainLocals
<1>21. CASE LDelDomain
  BY <1>21 DEF LDelDomain, DrainLocals
<1>22. CASE LDelAdapter
  BY <1>22 DEF LDelAdapter, DrainLocals
<1>. QED  BY <1>1, <1>2, <1>3, <1>4, <1>5, <1>6, <1>7, <1>8, <1>9, <1>10,
   <1>11, <1>12, <1>13, <1>14, <1>15, <1>16, <1>17, <1>18, <1>19, <1>20,
   <1>21, <1>22, ArmBase DEF LNext, LRun, LChoose

(* Base is inductive. *)

\* At boot nobody holds the lock and no context has started.
LEMMA InitBase == Init => Base
<1>. SUFFICES ASSUME Init PROVE Base
  OBVIOUS
<1>1. TypeRegs /\ TypeFlags /\ TypePc /\ TypeHistory
  BY BootAssumption, BudgetAssumption
  DEF Init, TypeRegs, TypeFlags, TypePc, TypeHistory, Cfg, Status, Proc,
      Labels, LabelsH, LabelsT, LabelsX, LabelsL
<1>2. TypeBanks
  BY DEF Init, TypeBanks, BankRegs, Msg
<1>3. TypeDrain /\ TypeXfer
  BY FreshDrain, FreshXfer0 DEF Init, TypeDrain, TypeXfer, Labels, LabelsH
<1>4. TypeNotes
  BY LimitAssumption DEF Init, TypeNotes, NotifyMax
<1>5. Mutex /\ Returns /\ Tries
  BY DEF Init, Mutex, Returns, Tries, Proc, TCrit, XCrit, LCrit, LabelsDrain,
         LabelsArm
<1>. QED BY <1>1, <1>2, <1>3, <1>4, <1>5 DEF Base, TypeOK

\* No step of the system, and no stuttering, breaks the discipline.
LEMMA NextBase == Base /\ [Next]_vars => Base'
<1>. SUFFICES ASSUME Base, [Next]_vars PROVE Base'
  OBVIOUS
<1>1. CASE Next
  BY <1>1, EnvironmentBase, HandlerBase, ThreadBase, TransferBase,
     LifecycleBase DEF Next
<1>2. CASE UNCHANGED vars
  BY <1>2 DEF vars, Base, TypeOK, TypeRegs, TypeBanks, TypeFlags, TypePc,
     TypeDrain, TypeNotes, TypeXfer, TypeHistory, Mutex, Returns, Tries
<1>. QED BY <1>1, <1>2

\* piix4_asf_mutex is held exactly where the code is between mutex_lock() and
\* mutex_unlock(), by one context at most; a drain or an arm sequence goes back
\* to where it was called from; a transfer yields only with retries left.
THEOREM Discipline == Spec => []Base
  BY InitBase, NextBase, PTL DEF Spec

\* Type correctness, with the bounds the code relies on for memory safety of its
\* arrays and loops: piix4_asf_notifies.addr never holds more than
\* ASF_NOTIFY_MAX addresses, a drain stops after ASF_DRAIN_MAX reads, a transfer
\* after ASF_XFER_RETRIES retries.
THEOREM TypeCorrect == Spec => []TypeOK
<1>1. Base => TypeOK
  BY DEF Base
<1>. QED BY <1>1, Discipline, PTL

-----------------------------------------------------------------------------
(* What the block is configured as, and what the flags mean, where. *)

IsSlave == "MSTR" \notin reg /\ "DATA_EN" \notin reg
IsMaster == {"MSTR", "DATA_EN"} \subseteq reg /\ "LISTN" \notin reg

\* Between the critical sections a listening driver has a slave; inside, the
\* block is a slave from the arm sequence to the next transfer's master mode.
Mode ==
  /\ owner = "none" /\ "listening" \in asf => IsSlave
  /\ pc["T"] \in TCrit => IsSlave
  /\ pc["X"] \in LabelsDrain \cup {"xDeafen", "xSync", "armRst", "armIntr",
                                   "xListen", "xCaught"} => IsSlave
  /\ pc["X"] \in {"xBus", "xPoll", "xResult"} => IsMaster
  /\ pc["X"] = "xUnlock" /\ "listening" \in asf => IsSlave
  /\ pc["L"] \in {"armRst", "armIntr"} => IsSlave
  /\ pc["L"] = "lUnlock" /\ "listening" \in asf => IsSlave

\* A driver listens only while Host Notify is wanted, and that it is not from
\* quiesce to the next start or resume.
Wanted ==
  /\ "listening" \in asf => "want" \in asf
  /\ pc["T"] \in TCrit => "want" \in asf
  /\ pc["X"] \in LabelsArm => "want" \in asf
  /\ pc["L"] \in {"probe", "request", "add", "start", "arming", "sync",
                  "asleep", "wake", "master", "free", "fence", "del",
                  "delWait", "restore", "off"} => "want" \notin asf

\* No client transfers before the adapter exists.
Early == pc["L"] \in {"probe", "request", "add"} =>
           pc["X"] = "idle" /\ "adapter" \notin asf

\* Deliveries are open only between start and the fence of the teardown.
Fence ==
  /\ "deliver" \in asf => "domain" \in asf
  /\ \A p \in {"T", "X"} : pc[p] = "calling" => "deliver" \in asf
  /\ ~(pc["T"] = "calling" /\ pc["X"] = "calling")
  /\ pc["L"] \in {"probe", "request", "add", "start", "del", "delWait",
                  "restore", "off"} => "deliver" \notin asf
  /\ pc["L"] = "start" => "domain" \in asf

Modes == Mode /\ Wanted /\ Early /\ Fence /\ QuietAfterStop

(* Every step of every context keeps Modes. *)

\* A message sets a status bit, never a mode.
LEMMA EnvironmentModes ==
  ASSUME TypePc, Mutex, Returns, Modes, Environment
  PROVE  Modes'
<1>. USE DEF Modes, Mode, IsSlave, IsMaster, Wanted, Early, Fence,
   QuietAfterStop, TypePc, Mutex, Returns, Proc, TCrit, XCrit, LCrit,
   LabelsDrain, LabelsArm, Go
<1>1. ASSUME NEW m \in Wire, Receive(m) PROVE Modes'
  BY <1>1 DEF Receive
<1>2. CASE ReceiveError
  BY <1>2 DEF ReceiveError
<1>3. CASE Stick
  BY <1>3 DEF Stick
<1>. QED  BY <1>1, <1>2, <1>3 DEF Environment

\* The handler masks its source, and touches no other mode bit.
LEMMA HandlerModes ==
  ASSUME TypePc, TypeRegs, Mutex, Returns, Modes, HNext
  PROVE  Modes'
<1>. USE DEF Modes, Mode, IsSlave, IsMaster, Wanted, Early, Fence,
   QuietAfterStop, TypePc, Mutex, Returns, Proc, TCrit, XCrit, LCrit,
   LabelsDrain, LabelsArm, Go
<1>1. CASE HClaim
  BY <1>1 DEF HClaim
<1>2. CASE HArmed
  BY <1>2 DEF HArmed
<1>3. CASE HWake
  BY <1>3 DEF HWake
<1>4. CASE HRead
  BY <1>4 DEF HRead
<1>5. CASE HWrite
  BY <1>5 DEF HWrite, SlvEn, TypeRegs
<1>. QED  BY <1>1, <1>2, <1>3, <1>4, <1>5 DEF HNext

\* A drain leaves the configuration of the block alone.
LEMMA DrainModes ==
  ASSUME NEW p \in {"T", "X"}, TypePc, Mutex, Returns, Modes, Drain(p)
  PROVE  Modes'
<1>. USE DEF Modes, Mode, IsSlave, IsMaster, Wanted, Early, Fence,
   QuietAfterStop, TypePc, Mutex, Returns, Proc, TCrit, XCrit, LCrit,
   LabelsDrain, LabelsArm, Go
<1>1. CASE DrainFull(p)
  BY <1>1 DEF DrainFull, EndDrain
<1>2. CASE DrainSignal(p)
  BY <1>2 DEF DrainSignal
<1>3. CASE DrainDone(p)
  BY <1>3 DEF DrainDone, EndDrain
<1>4. CASE DrainFlush(p)
  BY <1>4 DEF DrainFlush
<1>5. CASE DrainRead(p)
  BY <1>5 DEF DrainRead
<1>6. CASE DrainTake(p)
  BY <1>6 DEF DrainTake
<1>. QED  BY <1>1, <1>2, <1>3, <1>4, <1>5, <1>6 DEF Drain

\* An arm sequence makes the block a slave, and only where that is wanted.
LEMMA ArmModes ==
  ASSUME NEW p \in {"T", "X", "L"}, TypePc, Mutex, Returns, Modes, Arm(p)
  PROVE  Modes'
<1>. USE DEF Modes, Mode, IsSlave, IsMaster, Wanted, Early, Fence,
   QuietAfterStop, TypePc, Mutex, Returns, Proc, TCrit, XCrit, LCrit,
   LabelsDrain, LabelsArm, Go
<1>1. CASE ArmListen(p)
  BY <1>1 DEF ArmListen
<1>2. CASE ArmRelease(p)
  BY <1>2 DEF ArmRelease
<1>3. CASE ArmEnable(p)
  BY <1>3 DEF ArmEnable
<1>. QED  BY <1>1, <1>2, <1>3 DEF Arm

\* A delivery takes the place of no other, and needs deliver set.
LEMMA DeliverModes ==
  ASSUME NEW p \in {"T", "X"}, TypePc, Mutex, Returns, Modes, Deliver(p)
  PROVE  Modes'
<1>. USE DEF Modes, Mode, IsSlave, IsMaster, Wanted, Early, Fence,
   QuietAfterStop, TypePc, Mutex, Returns, Proc, TCrit, XCrit, LCrit,
   LabelsDrain, LabelsArm, Go
<1>1. CASE DeliverNone(p)
  BY <1>1 DEF DeliverNone, Finish
<1>2. CASE DeliverClosed(p)
  BY <1>2 DEF DeliverClosed, Finish, Peer
<1>3. CASE DeliverCall(p)
  BY <1>3 DEF DeliverCall, Peer
<1>4. CASE DeliverReturn(p)
  BY <1>4 DEF DeliverReturn, Finish
<1>. QED  BY <1>1, <1>2, <1>3, <1>4 DEF Deliver

\* The thread finds a slave under the mutex or does nothing.
LEMMA ThreadModes ==
  ASSUME TypePc, Mutex, Returns, Modes, TNext
  PROVE  Modes'
<1>. USE DEF Modes, Mode, IsSlave, IsMaster, Wanted, Early, Fence,
   QuietAfterStop, TypePc, Mutex, Returns, Proc, TCrit, XCrit, LCrit,
   LabelsDrain, LabelsArm, Go
<1>1. CASE TStopped
  BY <1>1 DEF TStopped
<1>2. CASE TDrain
  BY <1>2 DEF TDrain, BeginDrain
<1>3. CASE TSound
  BY <1>3 DEF TSound
<1>4. CASE TRecover
  BY <1>4 DEF TRecover, BeginDrain
<1>5. CASE TReset
  BY <1>5 DEF TReset, BeginArm
<1>6. CASE TGiveUp
  BY <1>6 DEF TGiveUp
<1>7. CASE TUnlock
  BY <1>7 DEF TUnlock
<1>. QED  BY <1>1, <1>2, <1>3, <1>4, <1>5, <1>6, <1>7, DrainModes, ArmModes,
   DeliverModes DEF TNext

\* A transfer goes master only when deaf, and arms only when wanted.
LEMMA TransferModes ==
  ASSUME TypePc, Mutex, Returns, Modes, XNext
  PROVE  Modes'
<1>. USE DEF Modes, Mode, IsSlave, IsMaster, Wanted, Early, Fence,
   QuietAfterStop, TypePc, Mutex, Returns, Proc, TCrit, XCrit, LCrit,
   LabelsDrain, LabelsArm, Go
<1>1. ASSUME NEW d \in Dev, XEnter(d) PROVE Modes'
  BY <1>1 DEF XEnter, BeginDrain
<1>2. CASE XRefused
  BY <1>2 DEF XRefused
<1>3. CASE XDeafen
  BY <1>3 DEF XDeafen
<1>4. CASE XSync
  BY <1>4 DEF XSync
<1>5. CASE XMaster
  BY <1>5 DEF XMaster, MasterBits
<1>6. CASE XBus
  BY <1>6 DEF XBus
<1>7. CASE XPoll
  BY <1>7 DEF XPoll
<1>8. CASE XYield
  BY <1>8 DEF XYield, BeginArm
<1>9. CASE XListened
  BY <1>9 DEF XListened, BeginDrain
<1>10. CASE XRetry
  BY <1>10 DEF XRetry
<1>11. CASE XDone
  BY <1>11 DEF XDone, XStop, BeginArm
<1>12. CASE XAbsent
  BY <1>12 DEF XAbsent, XStop, BeginArm
<1>13. CASE XUnlock
  BY <1>13 DEF XUnlock
<1>. QED  BY <1>1, <1>2, <1>3, <1>4, <1>5, <1>6, <1>7, <1>8, <1>9, <1>10,
   <1>11, <1>12, <1>13, DrainModes, ArmModes, DeliverModes DEF XNext, XRun

\* The lifecycle opens deliveries after the domain, closes them before.
LEMMA LifecycleModes ==
  ASSUME TypePc, Mutex, Returns, Modes, LNext
  PROVE  Modes'
<1>. USE DEF Modes, Mode, IsSlave, IsMaster, Wanted, Early, Fence,
   QuietAfterStop, TypePc, Mutex, Returns, Proc, TCrit, XCrit, LCrit,
   LabelsDrain, LabelsArm, Go
<1>1. ASSUME NEW g \in {"remove", "disable"}, LTeardown(g) PROVE Modes'
  BY <1>1 DEF LTeardown
<1>2. CASE LUnsupported
  BY <1>2 DEF LUnsupported
<1>3. CASE LClaim
  BY <1>3 DEF LClaim, MasterBits
<1>4. CASE LIrq
  BY <1>4 DEF LIrq
<1>5. CASE LNoIrq
  BY <1>5 DEF LNoIrq, GiveBack, RestoredBits
<1>6. CASE LAdd
  BY <1>6 DEF LAdd
<1>7. CASE LNoAdapter
  BY <1>7 DEF LNoAdapter
<1>8. CASE LOpen
  BY <1>8 DEF LOpen, NotifyFree
<1>9. CASE LStart
  BY <1>9 DEF LStart, BeginArm
<1>10. CASE LUnlock
  BY <1>10 DEF LUnlock
<1>11. CASE LSuspend
  BY <1>11 DEF LSuspend
<1>12. CASE LStop
  BY <1>12 DEF LStop
<1>13. CASE LQuiesce
  BY <1>13 DEF LQuiesce
<1>14. CASE LSync
  BY <1>14 DEF LSync
<1>15. CASE LSleep
  BY <1>15, BootAssumption DEF LSleep
<1>16. CASE LResume
  BY <1>16 DEF LResume, BeginArm
<1>17. CASE LMaster
  BY <1>17 DEF LMaster, MasterBits
<1>18. CASE LFreeIrq
  BY <1>18 DEF LFreeIrq
<1>19. CASE LFence
  BY <1>19 DEF LFence, NotifyFree
<1>20. CASE LDelDomain
  BY <1>20 DEF LDelDomain
<1>21. CASE LDelAdapter
  BY <1>21 DEF LDelAdapter
<1>22. CASE LRestore
  BY <1>22 DEF LRestore, GiveBack, RestoredBits
<1>. QED  BY <1>1, <1>2, <1>3, <1>4, <1>5, <1>6, <1>7, <1>8, <1>9, <1>10,
   <1>11, <1>12, <1>13, <1>14, <1>15, <1>16, <1>17, <1>18, <1>19, <1>20,
   <1>21, <1>22, ArmModes DEF LNext, LRun, LChoose

(* Modes is inductive together with Base. *)

\* At boot nothing listens, nothing is wanted and no delivery is open.
LEMMA InitModes == Init => Modes
  BY DEF Init, Modes, Mode, IsSlave, IsMaster, Wanted, Early, Fence,
         QuietAfterStop, Proc, TCrit, LabelsDrain, LabelsArm

\* No step of the system, and no stuttering, breaks the modes.
LEMMA NextModes == Base /\ Modes /\ [Next]_vars => Modes'
<1>. SUFFICES ASSUME Base, Modes, [Next]_vars PROVE Modes'
  OBVIOUS
<1>1. TypePc /\ TypeRegs /\ Mutex /\ Returns
  BY DEF Base, TypeOK
<1>2. CASE Next
  BY <1>1, <1>2, EnvironmentModes, HandlerModes, ThreadModes, TransferModes,
     LifecycleModes DEF Next
<1>3. CASE UNCHANGED vars
  BY <1>3 DEF vars, Modes, Mode, IsSlave, IsMaster, Wanted, Early, Fence,
     QuietAfterStop
<1>. QED BY <1>2, <1>3

\* The flags listening, want_listen and deliver mean what they say in every
\* context, and the block is a slave or a master where the code needs it to be.
THEOREM Modal == Spec => []Modes
  BY InitModes, NextModes, Discipline, PTL DEF Spec

\* Port 0x07 never shows the host FIFO to a drain of the receive banks, nor the
\* banks to a transaction: slave_arm(), master_mode() and access_asf() switch
\* DATA_EN and MSTR only under the mutex, and in this order.
THEOREM WindowRouted == Spec => []WindowRouting
<1>1. Base /\ Modes => WindowRouting
  BY DEF Base, TypeOK, TypePc, Modes, Mode, IsSlave, IsMaster, WindowRouting,
         TCrit
<1>. QED BY <1>1, Discipline, Modal, PTL

\* piix4_asf_deliver() never calls i2c_handle_smbus_host_notify() once
\* i2c_del_adapter() has destroyed the host-notify domain, and never from two
\* contexts at a time.
THEOREM DeliveryFenced == Spec => []DeliveryFence
<1>1. Modes => DeliveryFence
  BY DEF Modes, Fence, DeliveryFence
<1>. QED BY <1>1, Modal, PTL

\* After piix4_asf_quiesce() nothing arms the slave again until the next start or
\* resume: not a transfer under way, not the interrupt thread, not the handler
\* writing ASFSLVEN back, not firmware over a sleep.
THEOREM QuietOnceStopped == Spec => []QuietAfterStop
<1>1. Modes => QuietAfterStop
  BY DEF Modes
<1>. QED BY <1>1, Modal, PTL

-----------------------------------------------------------------------------
(* What a transfer reports. *)

\* The status a polling transfer reads is what its transaction left, even if the
\* handler acked the done bit first.
Outcome == /\ pc["X"] = "xPoll" => xf.sts = xf.bus
           /\ XferOutcome

\* Only the transfer itself moves to the poll, or touches the status.
LEMMA NextOutcome == Base /\ Outcome /\ [Next]_vars => Outcome'
<1>. SUFFICES ASSUME Base, Outcome, [Next]_vars PROVE Outcome'
  OBVIOUS
<1>. USE DEF Outcome, XferOutcome
<1>1. pc \in [Proc -> Labels] /\ xf \in XferLocals
  BY DEF Base, TypeOK, TypePc, TypeXfer
<1>2. CASE Environment \/ UNCHANGED vars
  BY <1>2 DEF Environment, Receive, ReceiveError, Stick, vars
<1>3. CASE HNext
  BY <1>1, <1>3 DEF HNext, HClaim, HArmed, HWake, HRead, HWrite, Go, Proc
<1>4. ASSUME NEW p \in {"T", "X"}, Drain(p) PROVE Outcome'
  <2>1. xf' = xf /\ (p = "X" \/ pc'["X"] = pc["X"])
    BY <1>1, <1>4 DEF Drain, DrainFull, DrainSignal, DrainDone, DrainFlush,
       DrainRead, DrainTake, EndDrain, Go, Proc
  <2>2. p = "X" => pc'["X"] \in LabelsDrain \cup {"xMaster", "xCaught"}
    BY <1>1, <1>4 DEF Base, Returns, Drain, DrainFull, DrainSignal, DrainDone,
       DrainFlush, DrainRead, DrainTake, EndDrain, Go, Proc, LabelsDrain
  <2>. QED  BY <2>1, <2>2 DEF LabelsDrain
<1>5. ASSUME NEW p \in {"T", "X", "L"}, Arm(p) PROVE Outcome'
  BY <1>1, <1>5 DEF Arm, ArmListen, ArmRelease, ArmEnable, Go, Proc, Base,
     Returns, LabelsArm
<1>6. ASSUME NEW p \in {"T", "X"}, Deliver(p) PROVE Outcome'
  BY <1>1, <1>6 DEF Deliver, DeliverNone, DeliverClosed, DeliverCall,
     DeliverReturn, Finish, Go, Proc
<1>7. CASE TNext
  BY <1>1, <1>4, <1>5, <1>6, <1>7 DEF TNext, TStopped, TDrain, TSound, TRecover,
     TReset, TGiveUp, TUnlock, BeginDrain, BeginArm, Go, Proc
<1>8. CASE XNext
  <2>1. CASE XPoll
    BY <1>1, <2>1 DEF XPoll, Go, Proc, XferLocals
  <2>2. CASE XBus
    BY <1>1, <2>2 DEF XBus, Go, Proc, XferLocals
  <2>. QED  BY <1>1, <1>4, <1>5, <1>6, <1>8, <2>1, <2>2 DEF XNext, XRun, XEnter,
       XRefused, XDeafen, XSync, XMaster, XYield, XListened, XRetry, XDone,
       XAbsent, XStop, XUnlock, BeginDrain, BeginArm, Go, Proc
<1>9. CASE LNext
  <2>1. xf' = xf /\ pc'["X"] = pc["X"]
    BY <1>1, <1>9 DEF LNext, LRun, LChoose, LSuspend, LTeardown, LUnsupported,
       LClaim, LIrq, LNoIrq, LAdd, LNoAdapter, LOpen, LStart, LUnlock, LStop,
       LQuiesce, LSync, LSleep, LResume, LMaster, LFreeIrq, LFence, LDelDomain,
       LDelAdapter, LRestore, Arm, ArmListen, ArmRelease, ArmEnable,
       BeginArm, Go, Proc
  <2>. QED  BY <2>1
<1>. QED  BY <1>2, <1>3, <1>7, <1>8, <1>9 DEF Next

\* A transfer reports what happened on the bus, although the handler may ack the
\* done bit under its poll: the poll goes by SMBHSTSTS, which the handler leaves.
THEOREM OutcomeTrue == Spec => []XferOutcome
<1>1. Init => Outcome
  BY DEF Init, Outcome, XferOutcome, Proc
<1>2. Outcome => XferOutcome
  BY DEF Outcome
<1>. QED  BY <1>1, <1>2, NextOutcome, Discipline, PTL DEF Spec

-----------------------------------------------------------------------------
(* The firmware's configuration. *)

\* The FCH PM region has never been busy.
Undisturbed == \A b \in Budgets : left["busy"] = b["busy"]

\* The firmware state is saved from the claim of the block to its release; the
\* handler and the thread run only while the interrupt is requested, and a
\* transfer takes the block only while it is active.
Firmware ==
  /\ \E b \in Budgets : left["busy"] <= b["busy"]
  /\ pc["L"] \notin {"probe", "off"} => saved = Boot
  /\ pc["L"] = "probe" => reg \cap Cfg = Boot /\ asf = {}
  /\ "irq" \notin asf => pc["H"] = "idle" /\ pc["T"] = "idle"
  /\ pc["L"] \in {"probe", "request", "fence", "del", "delWait", "restore",
                  "off"} => "irq" \notin asf
  /\ pc["L"] = "off" => "active" \notin asf /\ owner = "none"
  /\ FirmwareRestored

\* A region that has been busy keeps Undisturbed false.
LEMMA RegionTaken ==
  ASSUME TypeHistory, \E b \in Budgets : left["busy"] <= b["busy"], RegionBusy
  PROVE  (\E b \in Budgets : left'["busy"] <= b["busy"]) /\ ~Undisturbed'
<1>1. PICK b \in Budgets : left["busy"] <= b["busy"]
  OBVIOUS
<1>2. /\ left["busy"] \in Nat /\ b["busy"] \in Nat
      /\ left'["busy"] = left["busy"] - 1
  BY BudgetAssumption DEF TypeHistory, RegionBusy, Spend, Kinds
<1>3. left'["busy"] <= b["busy"] /\ left'["busy"] # b["busy"]
  BY <1>1, <1>2
<1>. QED  BY <1>3 DEF Undisturbed

\* Restoring puts back the configuration bits, and no others.
LEMMA RestoredExactly ==
  ASSUME saved \subseteq Cfg
  PROVE  RestoredBits(reg) \cap Cfg = saved
  BY DEF RestoredBits, Cfg

\* Giving the block back restores what was saved, or shows in the budget.
LEMMA BlockRestored ==
  ASSUME TypeHistory, TypeRegs, \E b \in Budgets : left["busy"] <= b["busy"], GiveBack
  PROVE  /\ \E b \in Budgets : left'["busy"] <= b["busy"]
         /\ Undisturbed' => reg' \cap Cfg = saved
<1>1. CASE RegionOk /\ reg' = RestoredBits(reg) /\ banks' = Flushed
  BY <1>1, RestoredExactly DEF RegionOk, TypeRegs
<1>2. CASE RegionBusy /\ UNCHANGED <<reg, banks>>
  BY <1>2, RegionTaken
<1>. QED  BY <1>1, <1>2 DEF GiveBack

\* The bus only latches status bits.
LEMMA EnvironmentFirmware ==
  ASSUME Base, Early, Firmware, Environment
  PROVE  Firmware'
<1>. USE DEF Firmware, FirmwareRestored, Undisturbed, Base, TypeOK, TypePc,
   TypeHistory, TypeRegs, TypeFlags, Mutex, Early, Proc, TCrit, XCrit, LCrit,
   LabelsDrain, LabelsArm, Go, Cfg, Status, SlvEn, Kinds
<1>1. ASSUME NEW m \in Wire, Receive(m) PROVE Firmware'
  BY <1>1 DEF Receive, Spend
<1>2. CASE ReceiveError
  BY <1>2 DEF ReceiveError, Spend
<1>3. CASE Stick
  BY <1>3 DEF Stick, Spend
<1>. QED  BY <1>1, <1>2, <1>3 DEF Environment

\* The handler writes ASFSLVEN only while its interrupt is requested.
LEMMA HandlerFirmware ==
  ASSUME Base, Early, Firmware, HNext
  PROVE  Firmware'
<1>. USE DEF Firmware, FirmwareRestored, Undisturbed, Base, TypeOK, TypePc,
   TypeHistory, TypeRegs, TypeFlags, Mutex, Early, Proc, TCrit, XCrit, LCrit,
   LabelsDrain, LabelsArm, Go, Cfg, Status, SlvEn, Kinds
<1>1. CASE HClaim
  BY <1>1 DEF HClaim
<1>2. CASE HArmed
  BY <1>2 DEF HArmed
<1>3. CASE HWake
  BY <1>3 DEF HWake
<1>4. CASE HRead
  BY <1>4 DEF HRead
<1>5. CASE HWrite
  BY <1>5 DEF HWrite
<1>. QED  BY <1>1, <1>2, <1>3, <1>4, <1>5 DEF HNext

\* A drain touches no configuration, and runs under the mutex.
LEMMA DrainFirmware ==
  ASSUME NEW p \in {"T", "X"}, Base, Early, Firmware, Drain(p)
  PROVE  Firmware'
<1>. USE DEF Firmware, FirmwareRestored, Undisturbed, Base, TypeOK, TypePc,
   TypeHistory, TypeRegs, TypeFlags, Mutex, Early, Proc, TCrit, XCrit, LCrit,
   LabelsDrain, LabelsArm, Go, Cfg, Status, SlvEn, Kinds
<1>1. CASE DrainFull(p)
  BY <1>1 DEF DrainFull, EndDrain
<1>2. CASE DrainSignal(p)
  BY <1>2 DEF DrainSignal
<1>3. CASE DrainDone(p)
  BY <1>3 DEF DrainDone, EndDrain
<1>4. CASE DrainFlush(p)
  BY <1>4 DEF DrainFlush
<1>5. CASE DrainRead(p)
  BY <1>5 DEF DrainRead
<1>6. CASE DrainTake(p)
  BY <1>6 DEF DrainTake
<1>. QED  BY <1>1, <1>2, <1>3, <1>4, <1>5, <1>6 DEF Drain

\* An arm sequence runs under the mutex, which nobody holds once L is off.
LEMMA ArmFirmware ==
  ASSUME NEW p \in {"T", "X", "L"}, Base, Early, Firmware, Arm(p)
  PROVE  Firmware'
<1>. USE DEF Firmware, FirmwareRestored, Undisturbed, Base, TypeOK, TypePc,
   TypeHistory, TypeRegs, TypeFlags, Mutex, Early, Proc, TCrit, XCrit, LCrit,
   LabelsDrain, LabelsArm, Go, Cfg, Status, SlvEn, Kinds
<1>1. CASE ArmListen(p)
  BY <1>1 DEF ArmListen
<1>2. CASE ArmRelease(p)
  BY <1>2 DEF ArmRelease
<1>3. CASE ArmEnable(p)
  BY <1>3 DEF ArmEnable, Returns
<1>. QED  BY <1>1, <1>2, <1>3 DEF Arm

\* A delivery touches no register.
LEMMA DeliverFirmware ==
  ASSUME NEW p \in {"T", "X"}, Base, Early, Firmware, Deliver(p)
  PROVE  Firmware'
<1>. USE DEF Firmware, FirmwareRestored, Undisturbed, Base, TypeOK, TypePc,
   TypeHistory, TypeRegs, TypeFlags, Mutex, Early, Proc, TCrit, XCrit, LCrit,
   LabelsDrain, LabelsArm, Go, Cfg, Status, SlvEn, Kinds
<1>1. CASE DeliverNone(p)
  BY <1>1 DEF DeliverNone, Finish
<1>2. CASE DeliverClosed(p)
  BY <1>2 DEF DeliverClosed, Finish
<1>3. CASE DeliverCall(p)
  BY <1>3 DEF DeliverCall
<1>4. CASE DeliverReturn(p)
  BY <1>4 DEF DeliverReturn, Finish
<1>. QED  BY <1>1, <1>2, <1>3, <1>4 DEF Deliver

\* The thread runs only while its interrupt is requested.
LEMMA ThreadFirmware ==
  ASSUME Base, Early, Firmware, TNext
  PROVE  Firmware'
<1>. USE DEF Firmware, FirmwareRestored, Undisturbed, Base, TypeOK, TypePc,
   TypeHistory, TypeRegs, TypeFlags, Mutex, Early, Proc, TCrit, XCrit, LCrit,
   LabelsDrain, LabelsArm, Go, Cfg, Status, SlvEn, Kinds
<1>1. CASE TStopped
  BY <1>1 DEF TStopped
<1>2. CASE TDrain
  BY <1>2 DEF TDrain, BeginDrain
<1>3. CASE TSound
  BY <1>3 DEF TSound
<1>4. CASE TRecover
  BY <1>4 DEF TRecover, RegionOk, BeginDrain
<1>5. CASE TReset
  BY <1>5 DEF TReset, BeginArm
<1>6. CASE TGiveUp
  <2>1. (\E b \in Budgets : left'["busy"] <= b["busy"]) /\ ~Undisturbed'
    BY <1>6, RegionTaken DEF TGiveUp
  <2>. QED  BY <1>6, <2>1 DEF TGiveUp
<1>7. CASE TUnlock
  BY <1>7 DEF TUnlock
<1>. QED  BY <1>1, <1>2, <1>3, <1>4, <1>5, <1>6, <1>7, DrainFirmware,
   ArmFirmware, DeliverFirmware DEF TNext

\* A transfer touches the block only while it is active.
LEMMA TransferFirmware ==
  ASSUME Base, Early, Firmware, XNext
  PROVE  Firmware'
<1>. USE DEF Firmware, FirmwareRestored, Undisturbed, Base, TypeOK, TypePc,
   TypeHistory, TypeRegs, TypeFlags, Mutex, Early, Proc, TCrit, XCrit, LCrit,
   LabelsDrain, LabelsArm, Go, Cfg, Status, SlvEn, Kinds
<1>1. ASSUME NEW d \in Dev, XEnter(d) PROVE Firmware'
  BY <1>1 DEF XEnter, Spend, BeginDrain
<1>2. CASE XRefused
  <2>1. (\E b \in Budgets : left'["busy"] <= b["busy"]) /\ ~Undisturbed'
    BY <1>2, RegionTaken DEF XRefused
  <2>. QED  BY <1>2, <2>1 DEF XRefused
<1>3. CASE XDeafen
  BY <1>3 DEF XDeafen
<1>4. CASE XSync
  BY <1>4 DEF XSync
<1>5. CASE XMaster
  BY <1>5 DEF XMaster, MasterBits
<1>6. CASE XBus
  BY <1>6 DEF XBus
<1>7. CASE XPoll
  BY <1>7 DEF XPoll
<1>8. CASE XYield
  BY <1>8 DEF XYield, BeginArm
<1>9. CASE XListened
  BY <1>9 DEF XListened, BeginDrain
<1>10. CASE XRetry
  BY <1>10 DEF XRetry
<1>11. CASE XDone
  BY <1>11 DEF XDone, XStop, BeginArm
<1>12. CASE XAbsent
  BY <1>12 DEF XAbsent, XStop, BeginArm
<1>13. CASE XUnlock
  BY <1>13 DEF XUnlock
<1>. QED  BY <1>1, <1>2, <1>3, <1>4, <1>5, <1>6, <1>7, <1>8, <1>9, <1>10,
   <1>11, <1>12, <1>13, DrainFirmware, ArmFirmware, DeliverFirmware DEF XNext, XRun

\* What the claim has saved is what the release restores, unless the region is
\* busy then, and that shows in the budget.
LEMMA LifecycleFirmware ==
  ASSUME Base, Early, Firmware, LNext
  PROVE  Firmware'
<1>. USE DEF Firmware, FirmwareRestored, Undisturbed, Base, TypeOK, TypePc,
   TypeHistory, TypeRegs, TypeFlags, Mutex, Early, Proc, TCrit, XCrit, LCrit,
   LabelsDrain, LabelsArm, Go, Cfg, Status, SlvEn, Kinds
<1>1. ASSUME NEW g \in {"remove", "disable"}, LTeardown(g) PROVE Firmware'
  BY <1>1 DEF LTeardown
<1>2. CASE LUnsupported
  BY <1>2 DEF LUnsupported
<1>3. CASE LClaim
  BY <1>3 DEF LClaim, MasterBits
<1>4. CASE LIrq
  BY <1>4 DEF LIrq
<1>5. CASE LNoIrq
  <2>1. /\ \E b \in Budgets : left'["busy"] <= b["busy"]
        /\ Undisturbed' => reg' \cap Cfg = saved
    BY <1>5, BlockRestored DEF LNoIrq
  <2>2. pc["L"] = "request" /\ pc'["L"] = "off" /\ owner' = "none"
    BY <1>5 DEF LNoIrq
  <2>. QED  BY <1>5, <2>1, <2>2 DEF LNoIrq
<1>6. CASE LAdd
  BY <1>6 DEF LAdd
<1>7. CASE LNoAdapter
  BY <1>7 DEF LNoAdapter
<1>8. CASE LOpen
  BY <1>8 DEF LOpen, NotifyFree
<1>9. CASE LStart
  <2>1. CASE RegionOk
    BY <1>9, <2>1 DEF LStart, RegionOk, BeginArm
  <2>2. CASE RegionBusy
    <3>1. (\E b \in Budgets : left'["busy"] <= b["busy"]) /\ ~Undisturbed'
      BY <2>2, RegionTaken
    <3>. QED  BY <1>9, <3>1 DEF LStart, BeginArm
  <2>. QED  BY <1>9, <2>1, <2>2 DEF LStart
<1>10. CASE LUnlock
  BY <1>10 DEF LUnlock
<1>11. CASE LSuspend
  BY <1>11 DEF LSuspend, Spend
<1>12. CASE LStop
  BY <1>12 DEF LStop
<1>13. CASE LQuiesce
  BY <1>13 DEF LQuiesce
<1>14. CASE LSync
  BY <1>14 DEF LSync
<1>15. CASE LSleep
  BY <1>15 DEF LSleep
<1>16. CASE LResume
  <2>1. CASE RegionOk
    BY <1>16, <2>1 DEF LResume, RegionOk, BeginArm
  <2>2. CASE RegionBusy
    <3>1. (\E b \in Budgets : left'["busy"] <= b["busy"]) /\ ~Undisturbed'
      BY <2>2, RegionTaken
    <3>. QED  BY <1>16, <3>1 DEF LResume, BeginArm
  <2>. QED  BY <1>16, <2>1, <2>2 DEF LResume
<1>17. CASE LMaster
  <2>1. CASE RegionOk
    BY <1>17, <2>1 DEF LMaster, RegionOk, MasterBits
  <2>2. CASE RegionBusy
    <3>1. (\E b \in Budgets : left'["busy"] <= b["busy"]) /\ ~Undisturbed'
      BY <2>2, RegionTaken
    <3>. QED  BY <1>17, <3>1 DEF LMaster, MasterBits
  <2>. QED  BY <1>17, <2>1, <2>2 DEF LMaster
<1>18. CASE LFreeIrq
  BY <1>18 DEF LFreeIrq
<1>19. CASE LFence
  BY <1>19 DEF LFence, NotifyFree
<1>20. CASE LDelDomain
  BY <1>20 DEF LDelDomain
<1>21. CASE LDelAdapter
  BY <1>21 DEF LDelAdapter
<1>22. CASE LRestore
  <2>1. /\ \E b \in Budgets : left'["busy"] <= b["busy"]
        /\ Undisturbed' => reg' \cap Cfg = saved
    BY <1>22, BlockRestored DEF LRestore
  <2>2. pc["L"] = "restore" /\ pc'["L"] = "off" /\ owner' = "none"
    BY <1>22 DEF LRestore
  <2>. QED  BY <1>22, <2>1, <2>2 DEF LRestore
<1>. QED  BY <1>1, <1>2, <1>3, <1>4, <1>5, <1>6, <1>7, <1>8, <1>9, <1>10,
   <1>11, <1>12, <1>13, <1>14, <1>15, <1>16, <1>17, <1>18, <1>19, <1>20,
   <1>21, <1>22, ArmFirmware DEF LNext, LRun, LChoose

\* A kernel that takes over finds the firmware's configuration: the block is
\* released with the bits that were saved at the claim, whatever sleep,
\* transfer, drain or handler came in between, unless the PM region was busy.
THEOREM RestoredOnRelease == Spec => []FirmwareRestored
<1>1. Init => Firmware
  <2>. SUFFICES ASSUME Init PROVE Firmware
    OBVIOUS
  <2>1. left \in Budgets /\ left["busy"] \in Nat
    BY BudgetAssumption DEF Init, Kinds
  <2>2. \E b \in Budgets : left["busy"] <= b["busy"]
    BY <2>1
  <2>3. reg \cap Cfg = Boot
    BY BootAssumption DEF Init, Cfg
  <2>. QED  BY <2>2, <2>3 DEF Init, Firmware, FirmwareRestored, Proc
<1>2. Base /\ Modes /\ Firmware /\ [Next]_vars => Firmware'
  <2>. SUFFICES ASSUME Base, Modes, Firmware, [Next]_vars PROVE Firmware'
    OBVIOUS
  <2>1. Early
    BY DEF Modes
  <2>2. CASE Next
    BY <2>1, <2>2, EnvironmentFirmware, HandlerFirmware, ThreadFirmware,
       TransferFirmware, LifecycleFirmware DEF Next
  <2>3. CASE UNCHANGED vars
    BY <2>3 DEF vars, Firmware, FirmwareRestored
  <2>. QED  BY <2>2, <2>3
<1>3. Firmware => FirmwareRestored
  BY DEF Firmware
<1>. QED  BY <1>1, <1>2, <1>3, Discipline, Modal, PTL DEF Spec

-----------------------------------------------------------------------------
(* The promise to the clients, see HostNotify. *)

\* Host Notify is wanted only of an adapter whose deliveries are open.
Opened ==
  /\ "want" \in asf => {"deliver", "adapter"} \subseteq asf
  /\ pc["L"] = "start" => "adapter" \in asf
  /\ pc["L"] = "stop" => goal # "sleep"
  /\ pc["L"] \in LabelsArm \cup {"arming", "lUnlock", "up", "asleep", "wake"}
       => {"deliver", "adapter"} \subseteq asf
  /\ pc["L"] \in {"quiesce", "sync"} /\ goal = "sleep"
       => {"deliver", "adapter"} \subseteq asf

\* Nobody but L opens or closes deliveries, or says whether they are wanted.
LEMMA OthersOpened ==
  ASSUME TypePc, Opened, Environment \/ HNext \/ TNext \/ XNext
  PROVE  Opened'
<1>1. /\ asf' \cap {"want", "deliver", "adapter"}
           = asf \cap {"want", "deliver", "adapter"}
      /\ goal' = goal /\ pc'["L"] = pc["L"]
  <2>. USE DEF TypePc, Proc, Go
  <2>1. CASE Environment \/ HNext
    BY <2>1 DEF Environment, Receive, ReceiveError, Stick, HNext, HClaim, HArmed,
       HWake, HRead, HWrite
  <2>2. ASSUME NEW p \in {"T", "X"}, Drain(p) \/ Arm(p) \/ Deliver(p)
        PROVE  /\ asf' \cap {"want", "deliver", "adapter"}
                    = asf \cap {"want", "deliver", "adapter"}
               /\ goal' = goal /\ pc'["L"] = pc["L"]
    BY <2>2 DEF Drain, DrainFull, DrainSignal, DrainDone, DrainFlush, DrainRead,
       DrainTake, EndDrain, Arm, ArmListen, ArmRelease, ArmEnable, Deliver,
       DeliverNone, DeliverClosed, DeliverCall, DeliverReturn, Finish
  <2>3. CASE TNext
    BY <2>2, <2>3 DEF TNext, TStopped, TDrain, TSound, TRecover, TReset, TGiveUp,
       TUnlock, BeginDrain, BeginArm
  <2>4. CASE XNext
    BY <2>2, <2>4 DEF XNext, XRun, XEnter, XRefused, XDeafen, XSync, XMaster,
       XBus, XPoll, XYield, XListened, XRetry, XDone, XAbsent, XStop, XUnlock,
       BeginDrain, BeginArm
  <2>. QED  BY <2>1, <2>2, <2>3, <2>4
<1>. QED  BY <1>1 DEF Opened

\* Start opens the deliveries before it wants them, stop closes them after.
LEMMA LifecycleOpened ==
  ASSUME TypePc, Mutex, Returns, Modes, Opened, LNext
  PROVE  Opened'
<1>. USE DEF Opened, TypePc, Mutex, Returns, Modes, Wanted, Proc, TCrit,
   XCrit, LCrit, LabelsDrain, LabelsArm, Go
<1>1. ASSUME NEW g \in {"remove", "disable"}, LTeardown(g) PROVE Opened'
  BY <1>1 DEF LTeardown
<1>2. CASE LUnsupported
  BY <1>2 DEF LUnsupported
<1>3. CASE LClaim
  BY <1>3 DEF LClaim
<1>4. CASE LIrq
  BY <1>4 DEF LIrq
<1>5. CASE LNoIrq
  BY <1>5 DEF LNoIrq
<1>6. CASE LAdd
  BY <1>6 DEF LAdd
<1>7. CASE LNoAdapter
  BY <1>7 DEF LNoAdapter
<1>8. CASE LOpen
  BY <1>8 DEF LOpen, NotifyFree
<1>9. CASE LStart
  BY <1>9 DEF LStart, BeginArm
<1>10. CASE LUnlock
  BY <1>10 DEF LUnlock
<1>11. CASE LSuspend
  BY <1>11 DEF LSuspend
<1>12. CASE LStop
  BY <1>12 DEF LStop
<1>13. CASE LQuiesce
  BY <1>13 DEF LQuiesce
<1>14. CASE LSync
  BY <1>14 DEF LSync
<1>15. CASE LSleep
  BY <1>15 DEF LSleep
<1>16. CASE LResume
  BY <1>16 DEF LResume, BeginArm
<1>17. CASE LMaster
  BY <1>17 DEF LMaster
<1>18. CASE LFreeIrq
  BY <1>18 DEF LFreeIrq
<1>19. CASE LFence
  BY <1>19 DEF LFence, NotifyFree
<1>20. CASE LDelDomain
  BY <1>20 DEF LDelDomain
<1>21. CASE LDelAdapter
  BY <1>21 DEF LDelAdapter
<1>22. CASE LRestore
  BY <1>22 DEF LRestore
<1>23. CASE Arm("L")
  BY <1>23 DEF Arm, ArmListen, ArmRelease, ArmEnable
<1>. QED  BY <1>1, <1>2, <1>3, <1>4, <1>5, <1>6, <1>7, <1>8, <1>9, <1>10,
   <1>11, <1>12, <1>13, <1>14, <1>15, <1>16, <1>17, <1>18, <1>19, <1>20,
   <1>21, <1>22, <1>23 DEF LNext, LRun, LChoose
\* The driver stands by its promise.
On == {"want", "listening"} \subseteq asf /\ "ERR" \notin reg

\* A step that neither owes, serves nor forgets at most switches the promise.
LEMMA MapsToSwitch ==
  ASSUME owed' = owed, Calling' = Calling
  PROVE  [Abs!Next]_(Abs!vars)
<1>1. CASE On' <=> On
  BY <1>1 DEF On, Abs!vars
<1>2. CASE ~(On' <=> On)
  BY <1>2 DEF On, Abs!Next, Abs!Switch
<1>. QED  BY <1>1, <1>2

\* A step that drops what only the banks hold, with the promise off.
LEMMA MapsToDiscard ==
  ASSUME TypeHistory, Abandon, Calling' = Calling, ~On'
  PROVE  [Abs!Next]_(Abs!vars)
<1>1. owed' = owed \ (owed \ Lists') /\ owed \ Lists' \in SUBSET Dev
  BY DEF Abandon, TypeHistory
<1>2. Abs!Discard(owed \ Lists')
  BY <1>1 DEF Abs!Discard, On
<1>. QED  BY <1>1, <1>2 DEF Abs!Next

\* The clients being called are those of the contexts at the call.
LEMMA CallingKept ==
  ASSUME \A p \in {"T", "X"} :
           (pc'[p] = "calling" <=> pc[p] = "calling")
             /\ (pc[p] = "calling" => notes'[p] = notes[p])
  PROVE  Calling' = Calling
<1>1. \A p \in {"T", "X"} :
         (IF pc'[p] = "calling" THEN Range(notes'[p]) ELSE {})
           = (IF pc[p] = "calling" THEN Range(notes[p]) ELSE {})
  OBVIOUS
<1>. QED  BY <1>1 DEF Calling

\* A message is owed to its device, junk to nobody.
LEMMA EnvironmentMaps ==
  ASSUME Base, Environment
  PROVE  [Abs!Next]_(Abs!vars)
<1>1. pc' = pc /\ notes' = notes
  BY DEF Environment, Receive, ReceiveError, Stick
<1>2. Calling' = Calling
  BY <1>1, CallingKept
<1>3. ASSUME NEW m \in Wire, Receive(m) PROVE [Abs!Next]_(Abs!vars)
  <2>1. CASE m \in Dev
    <3>1. owed' = owed \cup {m} /\ (On' <=> On)
      BY <1>3, <2>1 DEF Receive, On
    <3>2. Abs!Accept(m)
      BY <1>2, <3>1 DEF Abs!Accept, On
    <3>. QED  BY <2>1, <3>2 DEF Abs!Next
  <2>2. CASE m \notin Dev
    <3>1. owed' = owed
      BY <1>3, <2>2 DEF Receive
    <3>. QED  BY <1>2, <3>1, MapsToSwitch
  <2>. QED  BY <2>1, <2>2
<1>4. CASE ReceiveError \/ Stick
  BY <1>2, <1>4, MapsToSwitch DEF ReceiveError, Stick
<1>. QED  BY <1>3, <1>4 DEF Environment

\* The handler calls nobody.
LEMMA HandlerMaps ==
  ASSUME Base, HNext
  PROVE  [Abs!Next]_(Abs!vars)
<1>1. pc \in [Proc -> Labels]
  BY DEF Base, TypeOK, TypePc
<1>2. notes' = notes /\ owed' = owed
  BY DEF HNext, HClaim, HArmed, HWake, HRead, HWrite
<1>3. \A p \in {"T", "X"} : pc'[p] = "calling" <=> pc[p] = "calling"
  BY <1>1 DEF Base, Mutex, HNext, HClaim, HArmed, HWake, HRead, HWrite, Go, Proc
<1>4. Calling' = Calling
  BY <1>2, <1>3, CallingKept
<1>. QED  BY <1>2, <1>4, MapsToSwitch

\* A drain drops messages only after a reception error.
LEMMA DrainMaps ==
  ASSUME NEW p \in {"T", "X"}, Base, Drain(p)
  PROVE  [Abs!Next]_(Abs!vars)
<1>1. /\ pc \in [Proc -> Labels] /\ notes \in [{"T", "X"} -> Seq(Dev)]
      /\ TypeHistory
  BY DEF Base, TypeOK, TypePc, TypeNotes
<1>2. pc[p] \in LabelsDrain
  BY DEF Drain, DrainFull, DrainSignal, DrainDone, DrainFlush, DrainRead,
     DrainTake, LabelsDrain
<1>3. pc' = [pc EXCEPT ![p] = pc'[p]] /\ pc'[p] # "calling"
  BY <1>1, <1>2 DEF Base, Returns, Drain, DrainFull, DrainSignal, DrainDone,
     DrainFlush, DrainRead, DrainTake, EndDrain, Go, Proc
<1>4. \A q \in {"T", "X"} \ {p} : notes'[q] = notes[q]
  BY <1>1 DEF Drain, DrainFull, DrainSignal, DrainDone, DrainFlush, DrainRead,
     DrainTake
<1>5. Calling' = Calling
  BY <1>1, <1>2, <1>3, <1>4, CallingKept DEF Proc, LabelsDrain
<1>6. CASE DrainFlush(p)
  BY <1>1, <1>5, <1>6, MapsToDiscard DEF DrainFlush, On
<1>7. CASE ~DrainFlush(p)
  BY <1>5, <1>7, MapsToSwitch DEF Drain, DrainFull, DrainSignal, DrainDone,
     DrainRead, DrainTake
<1>. QED  BY <1>6, <1>7

\* An arm sequence calls nobody.
LEMMA ArmMaps ==
  ASSUME NEW p \in {"T", "X", "L"}, Base, Arm(p)
  PROVE  [Abs!Next]_(Abs!vars)
<1>1. pc \in [Proc -> Labels]
  BY DEF Base, TypeOK, TypePc
<1>2. notes' = notes /\ owed' = owed
  BY DEF Arm, ArmListen, ArmRelease, ArmEnable
<1>3. \A q \in {"T", "X"} : pc'[q] = "calling" <=> pc[q] = "calling"
  BY <1>1 DEF Base, Returns, LabelsArm, Arm, ArmListen, ArmRelease, ArmEnable,
     Go, Proc
<1>4. Calling' = Calling
  BY <1>2, <1>3, CallingKept
<1>. QED  BY <1>2, <1>4, MapsToSwitch

\* A delivery serves the devices of its list; it drops the list only when
\* deliveries are closed, and then Host Notify is not wanted.
LEMMA DeliverMaps ==
  ASSUME NEW p \in {"T", "X"}, Base, Modes, Opened, Deliver(p)
  PROVE  [Abs!Next]_(Abs!vars)
<1>1. /\ pc \in [Proc -> Labels] /\ notes \in [{"T", "X"} -> Seq(Dev)]
      /\ TypeHistory
  BY DEF Base, TypeOK, TypePc, TypeNotes
<1>2. CASE DeliverNone(p) \/ DeliverClosed(p)
  <2>1. \A q \in {"T", "X"} :
           (pc'[q] = "calling" <=> pc[q] = "calling")
             /\ (pc[q] = "calling" => notes'[q] = notes[q])
    BY <1>1, <1>2 DEF DeliverNone, DeliverClosed, Finish, Go, Proc
  <2>2. Calling' = Calling
    BY <2>1, CallingKept
  <2>3. CASE DeliverNone(p)
    BY <2>2, <2>3, MapsToSwitch DEF DeliverNone
  <2>4. CASE DeliverClosed(p)
    <3>1. ~On'
      BY <2>4 DEF DeliverClosed, On, Opened
    <3>. QED  BY <1>1, <2>2, <2>4, <3>1, MapsToDiscard DEF DeliverClosed
  <2>. QED  BY <1>2, <2>3, <2>4
<1>3. CASE DeliverCall(p)
  <2>1. pc["T"] # "calling" /\ pc["X"] # "calling"
    BY <1>3 DEF DeliverCall, Peer
  <2>2. Calling = {}
    BY <2>1 DEF Calling
  <2>3. /\ pc'[p] = "calling" /\ notes' = notes
        /\ \A q \in {"T", "X"} \ {p} : pc'[q] # "calling"
    BY <1>1, <1>3, <2>1 DEF DeliverCall, Go, Proc
  <2>4. Calling' = Range(notes[p]) /\ Range(notes[p]) \in SUBSET Dev
    BY <1>1, <2>3 DEF Calling, Range
  <2>5. owed' = owed /\ (On' <=> On)
    BY <1>3 DEF DeliverCall, On
  <2>6. Abs!Call(Range(notes[p]))
    BY <2>2, <2>4, <2>5 DEF Abs!Call, On
  <2>. QED  BY <2>4, <2>6 DEF Abs!Next
<1>4. CASE DeliverReturn(p)
  <2>1. \A q \in {"T", "X"} \ {p} : pc[q] # "calling" /\ pc'[q] # "calling"
    BY <1>1, <1>4 DEF Modes, Fence, DeliverReturn, Finish, Go, Proc
  <2>2. pc[p] = "calling" /\ pc'[p] # "calling"
    BY <1>1, <1>4 DEF DeliverReturn, Finish, Go, Proc
  <2>3. Calling = Range(notes[p]) /\ Calling' = {}
    BY <2>1, <2>2 DEF Calling
  <2>4. owed' = owed \ Range(notes[p]) /\ (On' <=> On)
    BY <1>4 DEF DeliverReturn, On
  <2>5. Abs!Served
    BY <2>3, <2>4 DEF Abs!Served, On
  <2>. QED  BY <2>5 DEF Abs!Next
<1>. QED  BY <1>2, <1>3, <1>4 DEF Deliver

\* The thread forgets only when it gives up listening.
LEMMA ThreadMaps ==
  ASSUME Base, Modes, Opened, TNext
  PROVE  [Abs!Next]_(Abs!vars)
<1>1. pc \in [Proc -> Labels] /\ TypeHistory
  BY DEF Base, TypeOK, TypePc
<1>2. CASE TStopped \/ TDrain \/ TSound \/ TRecover \/ TReset \/ TGiveUp \/ TUnlock
  <2>1. notes' = notes /\ pc' = [pc EXCEPT !["T"] = pc'["T"]]
        /\ pc["T"] # "calling" /\ pc'["T"] # "calling"
    BY <1>1, <1>2 DEF TStopped, TDrain, TSound, TRecover, TReset, TGiveUp,
       TUnlock, BeginDrain, BeginArm, Go, Proc
  <2>2. Calling' = Calling
    BY <1>1, <2>1, CallingKept DEF Proc
  <2>3. CASE TGiveUp
    BY <1>1, <2>2, <2>3, MapsToDiscard DEF TGiveUp, On
  <2>4. CASE ~TGiveUp
    BY <1>2, <2>2, <2>4, MapsToSwitch DEF TStopped, TDrain, TSound, TRecover,
       TReset, TUnlock
  <2>. QED  BY <2>3, <2>4
<1>. QED  BY <1>2, DrainMaps, ArmMaps, DeliverMaps DEF TNext

\* A transfer forgets nothing.
LEMMA TransferMaps ==
  ASSUME Base, Modes, Opened, XNext
  PROVE  [Abs!Next]_(Abs!vars)
<1>1. pc \in [Proc -> Labels]
  BY DEF Base, TypeOK, TypePc
<1>2. ASSUME \/ \E d \in Dev : XEnter(d)
             \/ XRefused \/ XDeafen \/ XSync \/ XMaster \/ XBus \/ XPoll
             \/ XYield \/ XListened \/ XRetry \/ XDone \/ XAbsent \/ XUnlock
      PROVE  [Abs!Next]_(Abs!vars)
  <2>1. notes' = notes /\ owed' = owed /\ pc' = [pc EXCEPT !["X"] = pc'["X"]]
        /\ pc["X"] # "calling" /\ pc'["X"] # "calling"
    BY <1>1, <1>2 DEF XEnter, XRefused, XDeafen, XSync, XMaster, XBus, XPoll,
       XYield, XListened, XRetry, XDone, XAbsent, XStop, XUnlock, BeginDrain,
       BeginArm, Go, Proc
  <2>2. Calling' = Calling
    BY <1>1, <2>1, CallingKept DEF Proc
  <2>. QED  BY <2>1, <2>2, MapsToSwitch
<1>. QED  BY <1>2, DrainMaps, ArmMaps, DeliverMaps DEF XNext, XRun

\* Stopping forgets what is in the banks, and no longer wants Host Notify.
LEMMA LifecycleMaps ==
  ASSUME Base, LNext
  PROVE  [Abs!Next]_(Abs!vars)
<1>1. pc \in [Proc -> Labels] /\ TypeHistory
  BY DEF Base, TypeOK, TypePc
<1>2. ASSUME LNext, ~Arm("L") PROVE [Abs!Next]_(Abs!vars)
  <2>1. notes' = notes /\ pc' = [pc EXCEPT !["L"] = pc'["L"]]
    BY <1>1, <1>2 DEF LNext, LRun, LChoose, LSuspend, LTeardown, LUnsupported,
       LClaim, LIrq, LNoIrq, LAdd, LNoAdapter, LOpen, LStart, LUnlock, LStop,
       LQuiesce, LSync, LSleep, LResume, LMaster, LFreeIrq, LFence, LDelDomain,
       LDelAdapter, LRestore, BeginArm, Go, Proc
  <2>2. Calling' = Calling
    BY <1>1, <2>1, CallingKept DEF Proc
  <2>3. CASE LQuiesce
    BY <1>1, <2>2, <2>3, MapsToDiscard DEF LQuiesce, On
  <2>4. CASE ~LQuiesce
    BY <1>2, <2>2, <2>4, MapsToSwitch DEF LNext, LRun, LChoose, LSuspend,
       LTeardown, LUnsupported, LClaim, LIrq, LNoIrq, LAdd, LNoAdapter, LOpen,
       LStart, LUnlock, LStop, LSync, LSleep, LResume, LMaster, LFreeIrq,
       LFence, LDelDomain, LDelAdapter, LRestore
  <2>. QED  BY <2>3, <2>4
<1>. QED  BY <1>2, ArmMaps

\* Start opens the deliveries before it listens; stop closes them after.
LEMMA Wide == Spec => []Opened
<1>1. Init => Opened
  BY DEF Init, Opened, Proc, LabelsArm
<1>2. Base /\ Modes /\ Opened /\ [Next]_vars => Opened'
  <2>. SUFFICES ASSUME Base, Modes, Opened, [Next]_vars PROVE Opened'
    OBVIOUS
  <2>1. TypePc /\ Mutex /\ Returns
    BY DEF Base, TypeOK
  <2>2. CASE Next
    BY <2>1, <2>2, OthersOpened, LifecycleOpened DEF Next
  <2>3. CASE UNCHANGED vars
    BY <2>3 DEF vars, Opened
  <2>. QED  BY <2>2, <2>3
<1>. QED  BY <1>1, <1>2, Discipline, Modal, PTL DEF Spec

\* Every step of the system is a step of the promise, or changes nothing in it.
LEMMA NextMaps == Base /\ Modes /\ Opened /\ [Next]_vars => [Abs!Next]_(Abs!vars)
<1>. SUFFICES ASSUME Base, Modes, Opened, [Next]_vars
              PROVE  [Abs!Next]_(Abs!vars)
  OBVIOUS
<1>1. CASE Next
  BY <1>1, EnvironmentMaps, HandlerMaps, ThreadMaps, TransferMaps,
     LifecycleMaps DEF Next
<1>2. CASE UNCHANGED vars
  BY <1>2 DEF vars, Calling, Abs!vars
<1>. QED BY <1>1, <1>2

\* Host Notify as the clients of the adapter see it: an acknowledged notify is
\* forgotten only once its clients have been called, or while the driver does not
\* want to listen, has given up, or sees a reception error; one context calls
\* at a time.  (That it is not kept waiting for ever is the part of Promise
\* that fairness gives, and that is model-checked.)
THEOREM PromiseKept == Spec => Abs!Init /\ [][Abs!Next]_(Abs!vars)
<1>1. Init => Abs!Init
  BY DEF Init, Abs!Init, Calling, Proc
<1>. QED  BY <1>1, NextMaps, Discipline, Modal, Wide, PTL DEF Spec

-----------------------------------------------------------------------------
(* The slave is armed whenever the driver listens. *)

\* The slave receives, and interrupts for what it has received.
FullyArmed == {"LISTN", "INTR"} \subseteq reg /\ "RST" \notin reg

Armed ==
  /\ left["busy"] = 0 /\ "LISTN" \notin saved
  /\ "listening" \notin asf => {"LISTN", "SLV_INT"} \cap reg = {}
  /\ pc["H"] # "idle" => "listening" \in asf \/ pc["L"] = "sync"
  /\ pc["H"] = "hWrite" => pc["L"] = "sync"
  /\ \A p \in {"T", "X", "L"} :
       /\ pc[p] \in LabelsArm => "listening" \in asf
       /\ pc[p] \in {"armRst", "armIntr"} => "LISTN" \in reg
       /\ pc[p] = "armIntr" => "RST" \notin reg
  /\ pc["T"] \in TCrit => "listening" \in asf
  /\ pc["T"] \in LabelsDrain /\ dr.ret = "tDrained" => FullyArmed
  /\ pc["T"] \in {"tDrained", "tUnlock"} => FullyArmed
  /\ pc["X"] \in {"xDeafen", "xListen"} => "listening" \in asf
  /\ pc["X"] = "xUnlock" /\ "listening" \in asf => FullyArmed
  /\ pc["L"] = "lUnlock" /\ "listening" \in asf => FullyArmed
  /\ owner = "none" /\ "listening" \in asf => FullyArmed

\* With no event left to spend, the region is free.
LEMMA RegionFree ==
  ASSUME left["busy"] = 0
  PROVE  ~RegionBusy
  BY DEF RegionBusy, Spend

(* Every step of every context keeps Armed. *)

\* A message is received only by a slave that listens.
LEMMA EnvironmentArmed ==
  ASSUME Leftover = FALSE, Base, Modes, Armed, Environment
  PROVE  Armed'
<1>. USE DEF Armed, FullyArmed, Base, TypeOK, TypePc, TypeRegs, TypeFlags,
   Mutex, Returns, Modes, Wanted, Proc, TCrit, XCrit, LCrit, LabelsDrain,
   LabelsArm, Go
<1>1. ASSUME NEW m \in Wire, Receive(m) PROVE Armed'
  BY <1>1 DEF Receive, Spend
<1>2. CASE ReceiveError
  BY <1>2 DEF ReceiveError, Spend
<1>3. CASE Stick
  BY <1>3 DEF Stick, Spend
<1>. QED  BY <1>1, <1>2, <1>3 DEF Environment

\* A handler that is not armed finds the teardown waiting for it.
LEMMA HandlerArmed ==
  ASSUME Leftover = FALSE, Base, Modes, Armed, HNext
  PROVE  Armed'
<1>. USE DEF Armed, FullyArmed, Base, TypeOK, TypePc, TypeRegs, TypeFlags,
   Mutex, Returns, Modes, Wanted, Proc, TCrit, XCrit, LCrit, LabelsDrain,
   LabelsArm, Go
<1>1. CASE HClaim
  BY <1>1 DEF HClaim
<1>2. CASE HArmed
  BY <1>2 DEF HArmed
<1>3. CASE HWake
  BY <1>3 DEF HWake
<1>4. CASE HRead
  BY <1>4 DEF HRead
<1>5. CASE HWrite
  BY <1>5 DEF HWrite, SlvEn
<1>. QED  BY <1>1, <1>2, <1>3, <1>4, <1>5 DEF HNext

\* A drain leaves the configuration of the block alone.
LEMMA DrainArmed ==
  ASSUME NEW p \in {"T", "X"}, Leftover = FALSE, Base, Modes, Armed, Drain(p)
  PROVE  Armed'
<1>. USE DEF Armed, FullyArmed, Base, TypeOK, TypePc, TypeRegs, TypeFlags,
   Mutex, Returns, Modes, Wanted, Proc, TCrit, XCrit, LCrit, LabelsDrain,
   LabelsArm, Go
<1>1. CASE DrainFull(p)
  BY <1>1 DEF DrainFull, EndDrain
<1>2. CASE DrainSignal(p)
  BY <1>2 DEF DrainSignal
<1>3. CASE DrainDone(p)
  BY <1>3 DEF DrainDone, EndDrain
<1>4. CASE DrainFlush(p)
  BY <1>4 DEF DrainFlush
<1>5. CASE DrainRead(p)
  BY <1>5 DEF DrainRead
<1>6. CASE DrainTake(p)
  BY <1>6 DEF DrainTake
<1>. QED  BY <1>1, <1>2, <1>3, <1>4, <1>5, <1>6 DEF Drain

\* An arm sequence ends with the slave fully armed.
LEMMA ArmArmed ==
  ASSUME NEW p \in {"T", "X", "L"}, Leftover = FALSE, Base, Modes, Armed, Arm(p)
  PROVE  Armed'
<1>. USE DEF Armed, FullyArmed, Base, TypeOK, TypePc, TypeRegs, TypeFlags,
   Mutex, Returns, Modes, Wanted, Proc, TCrit, XCrit, LCrit, LabelsDrain,
   LabelsArm, Go
<1>1. CASE ArmListen(p)
  BY <1>1 DEF ArmListen
<1>2. CASE ArmRelease(p)
  BY <1>2 DEF ArmRelease
<1>3. CASE ArmEnable(p)
  BY <1>3 DEF ArmEnable
<1>. QED  BY <1>1, <1>2, <1>3 DEF Arm

\* A delivery touches no register.
LEMMA DeliverArmed ==
  ASSUME NEW p \in {"T", "X"}, Leftover = FALSE, Base, Modes, Armed, Deliver(p)
  PROVE  Armed'
<1>. USE DEF Armed, FullyArmed, Base, TypeOK, TypePc, TypeRegs, TypeFlags,
   Mutex, Returns, Modes, Wanted, Proc, TCrit, XCrit, LCrit, LabelsDrain,
   LabelsArm, Go
<1>1. CASE DeliverNone(p)
  BY <1>1 DEF DeliverNone, Finish
<1>2. CASE DeliverClosed(p)
  BY <1>2 DEF DeliverClosed, Finish
<1>3. CASE DeliverCall(p)
  BY <1>3 DEF DeliverCall
<1>4. CASE DeliverReturn(p)
  BY <1>4 DEF DeliverReturn, Finish
<1>. QED  BY <1>1, <1>2, <1>3, <1>4 DEF Deliver

\* The thread finds the slave armed, and leaves it armed.
LEMMA ThreadArmed ==
  ASSUME Leftover = FALSE, Base, Modes, Armed, TNext
  PROVE  Armed'
<1>. USE DEF Armed, FullyArmed, Base, TypeOK, TypePc, TypeRegs, TypeFlags,
   Mutex, Returns, Modes, Wanted, Proc, TCrit, XCrit, LCrit, LabelsDrain,
   LabelsArm, Go
<1>1. CASE TStopped
  BY <1>1 DEF TStopped
<1>2. CASE TDrain
  BY <1>2 DEF TDrain, BeginDrain
<1>3. CASE TSound
  BY <1>3 DEF TSound
<1>4. CASE TRecover
  BY <1>4 DEF TRecover, RegionOk, BeginDrain
<1>5. CASE TReset
  BY <1>5 DEF TReset, BeginArm
<1>6. CASE TGiveUp
  BY <1>6, RegionFree DEF TGiveUp
<1>7. CASE TUnlock
  BY <1>7 DEF TUnlock
<1>. QED  BY <1>1, <1>2, <1>3, <1>4, <1>5, <1>6, <1>7, DrainArmed, ArmArmed,
   DeliverArmed DEF TNext

\* A transfer arms the slave again whenever it is to listen.
LEMMA TransferArmed ==
  ASSUME Leftover = FALSE, Base, Modes, Armed, XNext
  PROVE  Armed'
<1>. USE DEF Armed, FullyArmed, Base, TypeOK, TypePc, TypeRegs, TypeFlags,
   Mutex, Returns, Modes, Wanted, Proc, TCrit, XCrit, LCrit, LabelsDrain,
   LabelsArm, Go
<1>1. ASSUME NEW d \in Dev, XEnter(d) PROVE Armed'
  BY <1>1 DEF XEnter, Spend, BeginDrain
<1>2. CASE XRefused
  BY <1>2, RegionFree DEF XRefused
<1>3. CASE XDeafen
  BY <1>3 DEF XDeafen
<1>4. CASE XSync
  BY <1>4 DEF XSync
<1>5. CASE XMaster
  BY <1>5 DEF XMaster, MasterBits
<1>6. CASE XBus
  BY <1>6 DEF XBus
<1>7. CASE XPoll
  BY <1>7 DEF XPoll
<1>8. CASE XYield
  BY <1>8 DEF XYield, BeginArm
<1>9. CASE XListened
  BY <1>9 DEF XListened, BeginDrain
<1>10. CASE XRetry
  BY <1>10 DEF XRetry
<1>11. CASE XDone
  BY <1>11 DEF XDone, XStop, BeginArm
<1>12. CASE XAbsent
  BY <1>12 DEF XAbsent, XStop, BeginArm
<1>13. CASE XUnlock
  BY <1>13 DEF XUnlock
<1>. QED  BY <1>1, <1>2, <1>3, <1>4, <1>5, <1>6, <1>7, <1>8, <1>9, <1>10,
   <1>11, <1>12, <1>13, DrainArmed, ArmArmed, DeliverArmed DEF XNext, XRun

\* Stopping acks the interrupt, and waits for a handler under way.
LEMMA LifecycleArmed ==
  ASSUME Leftover = FALSE, Base, Modes, Armed, LNext
  PROVE  Armed'
<1>. USE DEF Armed, FullyArmed, Base, TypeOK, TypePc, TypeRegs, TypeFlags,
   Mutex, Returns, Modes, Wanted, Proc, TCrit, XCrit, LCrit, LabelsDrain,
   LabelsArm, Go
<1>1. ASSUME NEW g \in {"remove", "disable"}, LTeardown(g) PROVE Armed'
  BY <1>1 DEF LTeardown
<1>2. CASE LUnsupported
  BY <1>2 DEF LUnsupported
<1>3. CASE LClaim
  BY <1>3 DEF LClaim, MasterBits
<1>4. CASE LIrq
  BY <1>4 DEF LIrq
<1>5. CASE LNoIrq
  BY <1>5, RegionFree DEF LNoIrq, RegionOk, GiveBack, RestoredBits, Cfg
<1>6. CASE LAdd
  BY <1>6 DEF LAdd
<1>7. CASE LNoAdapter
  BY <1>7 DEF LNoAdapter
<1>8. CASE LOpen
  BY <1>8 DEF LOpen, NotifyFree
<1>9. CASE LStart
  BY <1>9, RegionFree DEF LStart, RegionOk, BeginArm
<1>10. CASE LUnlock
  BY <1>10 DEF LUnlock
<1>11. CASE LSuspend
  BY <1>11 DEF LSuspend, Spend
<1>12. CASE LStop
  BY <1>12 DEF LStop
<1>13. CASE LQuiesce
  BY <1>13 DEF LQuiesce
<1>14. CASE LSync
  BY <1>14 DEF LSync
<1>15. CASE LSleep
  BY <1>15, BootAssumption DEF LSleep, Cfg
<1>16. CASE LResume
  BY <1>16, RegionFree DEF LResume, RegionOk, BeginArm
<1>17. CASE LMaster
  BY <1>17, RegionFree DEF LMaster, RegionOk, MasterBits
<1>18. CASE LFreeIrq
  BY <1>18 DEF LFreeIrq
<1>19. CASE LFence
  BY <1>19 DEF LFence, NotifyFree
<1>20. CASE LDelDomain
  BY <1>20 DEF LDelDomain
<1>21. CASE LDelAdapter
  BY <1>21 DEF LDelAdapter
<1>22. CASE LRestore
  BY <1>22, RegionFree DEF LRestore, RegionOk, GiveBack, RestoredBits, Cfg
<1>. QED  BY <1>1, <1>2, <1>3, <1>4, <1>5, <1>6, <1>7, <1>8, <1>9, <1>10,
   <1>11, <1>12, <1>13, <1>14, <1>15, <1>16, <1>17, <1>18, <1>19, <1>20,
   <1>21, <1>22, ArmArmed DEF LNext, LRun, LChoose

(* Armed is inductive together with Base and Modes, if firmware leaves no slave *)
(* interrupt latched and the PM region is never busy.                           *)

\* At boot nothing listens.
LEMMA InitArmed ==
  ASSUME Leftover = FALSE, \A b \in Budgets : b["busy"] = 0
  PROVE  Init => Armed
  BY BootAssumption DEF Init, Armed, FullyArmed, Cfg, Proc, TCrit, LabelsDrain, LabelsArm

\* No step of the system, and no stuttering, disarms a slave that listens.
LEMMA NextArmed ==
  ASSUME Leftover = FALSE
  PROVE  Base /\ Modes /\ Armed /\ [Next]_vars => Armed'
<1>. SUFFICES ASSUME Base, Modes, Armed, [Next]_vars PROVE Armed'
  OBVIOUS
<1>1. CASE Next
  BY <1>1, EnvironmentArmed, HandlerArmed, ThreadArmed, TransferArmed,
     LifecycleArmed DEF Next
<1>2. CASE UNCHANGED vars
  BY <1>2 DEF vars, Armed, FullyArmed
<1>. QED BY <1>1, <1>2

\* "Every path that arms the slave re-enables the interrupt": between the critical
\* sections a driver that listens has a slave that receives and interrupts.
\* The hypotheses are needed: run armed_race shows what an interrupt that firmware
\* leaves latched does, and a region that is busy while a bank is wedged lets the
\* handler write ASFSLVEN back over a transfer in the same way.
THEOREM ListenerArmed ==
  ASSUME Leftover = FALSE, \A b \in Budgets : b["busy"] = 0
  PROVE  Spec => []ArmedWhenListening
<1>1. Armed => ArmedWhenListening
  BY DEF Armed, FullyArmed, ArmedWhenListening
<1>. QED  BY <1>1, InitArmed, NextArmed, Discipline, Modal, PTL DEF Spec

-----------------------------------------------------------------------------
(* No notify is lost. *)

\* A reception the handler has acked, and no drain has consumed.
Raised == "pending" \in asf \/ pc["H"] \in {"hCheck", "hWake"}

\* A notify of d, if owed, has been read, ...
Listed(d) == d \in owed => d \in Lists

\* ... or is what the fallback will read of bank 0.
Spared(d) == d \in owed => d \in Lists \/ (banks.data[0] = d /\ Raised)

\* A drain with the slave offline: before a reset, or before a transfer.
Offline(p) == p = "X" \/ dr.ret = "tReset"

\* While d is owed some trace of it is left, ...
Traced(d) ==
  \/ \E b \in banks.full : banks.data[b] = d
  \/ banks.data[0] = d /\ ("SLV_INT" \in reg \/ Raised)
  \/ banks.data[0] = d /\ dr.sig /\ (pc["T"] = "dBank" \/ pc["X"] = "dBank")
  \/ dr.addr = d /\ (pc["T"] = "dTake" \/ pc["X"] = "dTake")
  \/ d \in Lists

\* ... and a list has it, or the fallback will, before the banks are reset, the
\* status is cleared or listening ends.
Resets(d) ==
  /\ "listening" \notin asf => Listed(d)
  /\ pc["L"] = "arm" => Listed(d) /\ "LISTN" \notin reg
  /\ pc["T"] \in {"tReset", "arm"} => Listed(d)
  /\ pc["T"] = "tReset" => "LISTN" \notin reg
  /\ pc["T"] = "arm" => "RST" \in reg
  /\ pc["X"] \in {"xMaster", "xBus", "xPoll", "xResult", "xCaught", "arm"} =>
       Spared(d) /\ "LISTN" \notin reg
  /\ pc["X"] = "xSync" => "LISTN" \notin reg
  /\ pc["X"] \in {"xDeafen", "xSync"} => dr.i = 0

\* The last drain before that finds d in the first round, if at all; the thread
\* has consumed pending then, and no handler runs.
Rounds(d) ==
  /\ pc["T"] \in {"dBank", "dTake"} \/ (pc["T"] = "dSig" /\ dr.i > 0) =>
       "pending" \notin asf
  /\ \A p \in {"T", "X"} :
       /\ pc[p] \in LabelsDrain /\ Offline(p) => "LISTN" \notin reg
       /\ pc[p] = "dBank" /\ Offline(p) => "SLV_INT" \notin reg
       /\ pc[p] \in {"dSig", "dBank"} /\ Offline(p) /\ dr.i > 0 => Listed(d)
       /\ pc[p] = "dTake" /\ Offline(p) /\ dr.addr # d => Listed(d)
       /\ pc[p] = "dTake" /\ dr.addr # d =>
            dr.bank = 0 /\ (0 \in banks.full => "SLV_INT" \in reg \/ Raised)

Kept(d) ==
  /\ d \in owed => Traced(d)
  /\ \A b \in banks.full : banks.data[b] = d
  /\ Resets(d) /\ Rounds(d)

\* A list that changes no more keeps what it has.
LEMMA ListsKept ==
  ASSUME notes' = notes
  PROVE  Lists' = Lists
  BY DEF Lists

\* What a drain has read stays in the lists; once d is read it is in them, for a
\* list without room is full of messages of the one device there is.
LEMMA ListsGrow ==
  ASSUME NEW d, Dev = {d}, TypeNotes, NEW p \in {"T", "X"}, DrainTake(p)
  PROVE  (d \in Lists => d \in Lists') /\ (dr.addr = d => d \in Lists')
<1>1. notes \in [{"T", "X"} -> Seq(Dev)] /\ Len(notes[p]) <= NotifyMax
  BY DEF TypeNotes
<1>2. CASE notes' = [notes EXCEPT ![p] = Append(notes[p], dr.addr)] /\ dr.addr = d
  <2>1. /\ notes'[p] = Append(notes[p], d) /\ notes[p] \in Seq({d})
        /\ \A q \in {"T", "X"} \ {p} : notes'[q] = notes[q]
    BY <1>1, <1>2
  <2>2. d \in Range(notes'[p])
    BY <2>1 DEF Range
  <2>. QED  BY <2>2 DEF Lists
<1>3. CASE notes' = notes /\ ~(dr.addr \in Dev /\ Len(notes[p]) < NotifyMax)
  <2>1. dr.addr = d => notes[p] \in Seq({d}) /\ Len(notes[p]) > 0
    BY <1>1, <1>3, LimitAssumption DEF NotifyMax
  <2>2. dr.addr = d => d \in Range(notes[p])
    <3>. SUFFICES ASSUME dr.addr = d PROVE d \in Range(notes[p])
      OBVIOUS
    <3>1. 1 \in DOMAIN notes[p] /\ notes[p][1] = d
      BY <2>1
    <3>. QED  BY <3>1 DEF Range
  <2>. QED  BY <1>3, <2>2 DEF Lists
<1>. QED  BY <1>2, <1>3 DEF DrainTake

\* A list that is dropped or served only forgets what is no longer owed.
LEMMA ListsShrink ==
  ASSUME NEW d, TypeNotes, NEW p \in {"T", "X"}, Deliver(p), d \in owed'
  PROVE  d \in owed /\ (d \in Lists => d \in Lists')
<1>1. notes \in [{"T", "X"} -> Seq(Dev)]
  BY DEF TypeNotes
<1>2. CASE DeliverNone(p)
  <2>1. notes' = notes
    BY <1>1, <1>2 DEF DeliverNone, Finish
  <2>. QED  BY <1>2, <2>1, ListsKept DEF DeliverNone
<1>3. CASE DeliverClosed(p)
  BY <1>3 DEF DeliverClosed, Abandon
<1>4. CASE DeliverCall(p)
  BY <1>4, ListsKept DEF DeliverCall
<1>5. CASE DeliverReturn(p)
  <2>1. \A q \in {"T", "X"} \ {p} : notes'[q] = notes[q]
    BY <1>1, <1>5 DEF DeliverReturn, Finish
  <2>2. d \in owed /\ d \notin Range(notes[p])
    BY <1>5 DEF DeliverReturn
  <2>. QED  BY <2>1, <2>2 DEF Lists
<1>. QED  BY <1>2, <1>3, <1>4, <1>5 DEF Deliver

(* Every step of every context keeps Kept. *)

\* A message fills an empty bank and raises the status.
LEMMA EnvironmentKept ==
  ASSUME NEW d, Dev = {d}, Wire = {d}, Base, Modes, Armed, Kept(d), Environment
  PROVE  Kept(d)'
<1>. USE DEF Kept, Traced, Listed, Spared, Raised, Offline, Resets, Rounds, Armed,
   Base, TypeOK, TypePc, TypeBanks, BankRegs, TypeDrain, DrainLocals, Bank,
   Mutex, Returns, Modes, Wanted, Proc, TCrit, XCrit, LCrit, LabelsDrain,
   LabelsArm, Go, NoDrain
<1>1. ASSUME NEW m \in Wire, Receive(m) PROVE Kept(d)'
  BY <1>1, ListsKept DEF Receive
<1>2. CASE ReceiveError
  BY <1>2, ListsKept DEF ReceiveError
<1>3. CASE Stick
  BY <1>3, ListsKept DEF Stick
<1>. QED  BY <1>1, <1>2, <1>3 DEF Environment

\* The handler turns the status into pending; it drops nothing unless L waits
\* for it, with nothing in the banks.
LEMMA HandlerKept ==
  ASSUME NEW d, Dev = {d}, Wire = {d}, Base, Modes, Armed, Kept(d), HNext
  PROVE  Kept(d)'
<1>. USE DEF Kept, Traced, Listed, Spared, Raised, Offline, Resets, Rounds, Armed,
   Base, TypeOK, TypePc, TypeBanks, BankRegs, TypeDrain, DrainLocals, Bank,
   Mutex, Returns, Modes, Wanted, Proc, TCrit, XCrit, LCrit, LabelsDrain,
   LabelsArm, Go, NoDrain
<1>1. CASE HClaim
  BY <1>1, ListsKept DEF HClaim
<1>2. CASE HArmed
  BY <1>2, ListsKept DEF HArmed
<1>3. CASE HWake
  BY <1>3, ListsKept DEF HWake
<1>4. CASE HRead
  BY <1>4, ListsKept DEF HRead
<1>5. CASE HWrite
  BY <1>5, ListsKept DEF HWrite, Flushed
<1>. QED  BY <1>1, <1>2, <1>3, <1>4, <1>5 DEF HNext

\* A drain reads what the signal stands for.
LEMMA DrainKept ==
  ASSUME NEW p \in {"T", "X"}, NEW d, Dev = {d}, Wire = {d},
         Base, Modes, Armed, Kept(d), Drain(p)
  PROVE  Kept(d)'
<1>. USE DEF Kept, Traced, Listed, Spared, Raised, Offline, Resets, Rounds, Armed,
   Base, TypeOK, TypePc, TypeBanks, BankRegs, TypeDrain, DrainLocals, Bank,
   Mutex, Returns, Modes, Wanted, Proc, TCrit, XCrit, LCrit, LabelsDrain,
   LabelsArm, Go, NoDrain
<1>1. CASE DrainFull(p)
  <2>1. (d \in owed => Traced(d))'
    BY <1>1, ListsKept, LimitAssumption DEF DrainFull, EndDrain
  <2>2. (\A b \in banks.full : banks.data[b] = d)'
    BY <1>1, ListsKept DEF DrainFull, EndDrain
  <2>3. Resets(d)'
    BY <1>1, ListsKept, LimitAssumption DEF DrainFull, EndDrain
  <2>4. Rounds(d)'
    BY <1>1, ListsKept, LimitAssumption DEF DrainFull, EndDrain
  <2>. QED  BY <2>1, <2>2, <2>3, <2>4
<1>2. CASE DrainSignal(p)
  <2>1. (d \in owed => Traced(d))'
    BY <1>2, ListsKept, LimitAssumption DEF DrainSignal
  <2>2. (\A b \in banks.full : banks.data[b] = d)'
    BY <1>2, ListsKept DEF DrainSignal
  <2>3. Resets(d)'
    BY <1>2, ListsKept, LimitAssumption DEF DrainSignal
  <2>4. Rounds(d)'
    BY <1>2, ListsKept, LimitAssumption DEF DrainSignal
  <2>. QED  BY <2>1, <2>2, <2>3, <2>4
<1>3. CASE DrainDone(p)
  <2>1. (d \in owed => Traced(d))'
    BY <1>3, ListsKept DEF DrainDone, EndDrain
  <2>2. (\A b \in banks.full : banks.data[b] = d)'
    BY <1>3, ListsKept DEF DrainDone
  <2>3. Resets(d)'
    <3>1. /\ pc[p] = "dBank" /\ ~dr.sig /\ banks.full = {}
          /\ pc'["H"] = pc["H"] /\ banks' = banks /\ asf' = asf
          /\ owed' = owed /\ (d \in Lists => d \in Lists')
      BY <1>3, ListsKept DEF DrainDone, EndDrain
    <3>2. Offline(p) => Spared(d)
      BY <3>1
    <3>3. (Offline(p) => Spared(d)') /\ (p = "T" /\ Offline("T") => Listed(d)')
      BY <3>1, <3>2
    <3>. QED  BY <1>3, <3>3, ListsKept DEF DrainDone, EndDrain
  <2>4. Rounds(d)'
    BY <1>3, ListsKept DEF DrainDone, EndDrain
  <2>. QED  BY <2>1, <2>2, <2>3, <2>4
<1>4. CASE DrainFlush(p)
  <2>1. Listed(d)'
    BY <1>4, ListsKept DEF DrainFlush, Abandon
  <2>2. (\A b \in banks.full : banks.data[b] = d)'
    BY <1>4, ListsKept DEF DrainFlush
  <2>3. /\ pc'[p] = "dSig" /\ \A q \in Proc \ {p} : pc'[q] = pc[q]
        /\ dr'.ret = dr.ret /\ reg' = reg /\ asf' = asf
        /\ pc[p] = "dBank" /\ ~(pc["T"] \in TCrit /\ pc["X"] \in XCrit)
    BY <1>4, ListsKept DEF DrainFlush
  <2>4. Resets(d)'
    BY <2>1, <2>3
  <2>5. Rounds(d)'
    <3>1. pc'["T"] = "dSig" => "pending" \notin asf'
      BY <2>1, <2>3
    <3>2. Offline(p)' <=> Offline(p)
      BY <2>1, <2>3
    <3>3. (pc[p] \in LabelsDrain /\ Offline(p) => "LISTN" \notin reg)'
      BY <2>1, <2>3, <3>2
    <3>4. Offline(p) => Listed(d)'
      BY <2>1, <2>3
    <3>5. \A q \in {"T", "X"} \ {p} : pc'[q] \notin LabelsDrain
      BY <2>1, <2>3
    <3>. QED  BY <2>1, <2>3, <3>1, <3>2, <3>3, <3>4, <3>5
  <2>. QED  BY <2>1, <2>2, <2>4, <2>5
<1>5. CASE DrainRead(p)
  <2>1. (d \in owed => Traced(d))'
    BY <1>5, ListsKept, LimitAssumption DEF DrainRead, ChosenBank
  <2>2. (\A b \in banks.full : banks.data[b] = d)'
    BY <1>5, ListsKept DEF DrainRead, ChosenBank
  <2>3. Resets(d)'
    BY <1>5, ListsKept, LimitAssumption DEF DrainRead, ChosenBank
  <2>4. Rounds(d)'
    BY <1>5, ListsKept, LimitAssumption DEF DrainRead, ChosenBank
  <2>. QED  BY <2>1, <2>2, <2>3, <2>4
<1>6. CASE DrainTake(p)
  <2>1. /\ pc'[p] = "dSig" /\ \A q \in Proc \ {p} : pc'[q] = pc[q]
        /\ dr'.ret = dr.ret /\ reg' = reg /\ asf' = asf /\ owed' = owed
        /\ pc[p] = "dTake" /\ ~(pc["T"] \in TCrit /\ pc["X"] \in XCrit)
    BY <1>6, ListsGrow DEF DrainTake
  <2>2. /\ banks'.data = banks.data
        /\ banks'.full \subseteq banks.full
        /\ banks.full \ {dr.bank} \subseteq banks'.full
    BY <1>6, ListsGrow DEF DrainTake
  <2>3. d \in Lists => d \in Lists'
    BY <1>6, ListsGrow
  <2>4. dr.addr = d => d \in Lists'
    BY <1>6, ListsGrow
  <2>5. (d \in owed => Traced(d))'
    BY <2>1, <2>2, <2>3, <2>4
  <2>6. Resets(d)'
    BY <2>1, <2>2, <2>3
  <2>7. Rounds(d)'
    <3>1. pc'["T"] = "dSig" => "pending" \notin asf'
      BY <2>1, <2>3, <2>4
    <3>2. Offline(p)' <=> Offline(p)
      BY <2>1
    <3>3. (pc[p] \in LabelsDrain /\ Offline(p) => "LISTN" \notin reg)'
      BY <2>1, <2>3, <2>4, <3>2
    <3>4. Offline(p) => Listed(d)'
      BY <2>1, <2>3, <2>4
    <3>5. \A q \in {"T", "X"} \ {p} : pc'[q] \notin LabelsDrain
      BY <2>1, <2>3, <2>4
    <3>. QED  BY <2>1, <2>3, <2>4, <3>1, <3>2, <3>3, <3>4, <3>5
  <2>8. (\A b \in banks.full : banks.data[b] = d)'
    BY <2>2
  <2>. QED  BY <2>5, <2>6, <2>7, <2>8
<1>. QED  BY <1>1, <1>2, <1>3, <1>4, <1>5, <1>6 DEF Drain

\* An arm sequence clears the status when a drain has served it.
LEMMA ArmKept ==
  ASSUME NEW p \in {"T", "X", "L"}, NEW d, Dev = {d}, Wire = {d},
         Base, Modes, Armed, Kept(d), Arm(p)
  PROVE  Kept(d)'
<1>. USE DEF Kept, Traced, Listed, Spared, Raised, Offline, Resets, Rounds, Armed,
   Base, TypeOK, TypePc, TypeBanks, BankRegs, TypeDrain, DrainLocals, Bank,
   Mutex, Returns, Modes, Wanted, Proc, TCrit, XCrit, LCrit, LabelsDrain,
   LabelsArm, Go, NoDrain
<1>1. CASE ArmListen(p)
  BY <1>1, ListsKept DEF ArmListen
<1>2. CASE ArmRelease(p)
  BY <1>2, ListsKept DEF ArmRelease
<1>3. CASE ArmEnable(p)
  BY <1>3, ListsKept DEF ArmEnable
<1>. QED  BY <1>1, <1>2, <1>3 DEF Arm

\* A delivery only forgets what it has served, or what is dropped.
LEMMA DeliverKept ==
  ASSUME NEW p \in {"T", "X"}, NEW d, Dev = {d}, Wire = {d},
         Base, Modes, Armed, Kept(d), Deliver(p)
  PROVE  Kept(d)'
<1>. USE DEF Kept, Traced, Listed, Spared, Raised, Offline, Resets, Rounds, Armed,
   Base, TypeOK, TypePc, TypeBanks, BankRegs, TypeDrain, DrainLocals, Bank,
   Mutex, Returns, Modes, Wanted, Proc, TCrit, XCrit, LCrit, LabelsDrain,
   LabelsArm, Go, NoDrain
<1>1. CASE DeliverNone(p)
  <2>1. /\ pc[p] \in {"deliver", "calling"} /\ pc'[p] \in {"idle", "calling"}
        /\ \A q \in Proc \ {p} : pc'[q] = pc[q]
        /\ reg' = reg /\ banks' = banks /\ asf' = asf /\ dr' = dr
    BY <1>1, ListsShrink DEF Deliver, DeliverNone, Finish
  <2>2. d \in owed' => d \in owed /\ (d \in Lists => d \in Lists')
    BY <1>1, ListsShrink DEF Deliver
  <2>3. (d \in owed => Traced(d))'
    BY <2>1, <2>2
  <2>4. Resets(d)'
    BY <2>1, <2>2
  <2>5. Rounds(d)'
    BY <2>1, <2>2
  <2>. QED  BY <2>1, <2>3, <2>4, <2>5
<1>2. CASE DeliverClosed(p)
  <2>1. /\ pc[p] \in {"deliver", "calling"} /\ pc'[p] \in {"idle", "calling"}
        /\ \A q \in Proc \ {p} : pc'[q] = pc[q]
        /\ reg' = reg /\ banks' = banks /\ asf' = asf /\ dr' = dr
    BY <1>2, ListsShrink DEF Deliver, DeliverClosed, Finish
  <2>2. d \in owed' => d \in owed /\ (d \in Lists => d \in Lists')
    BY <1>2, ListsShrink DEF Deliver
  <2>3. (d \in owed => Traced(d))'
    BY <2>1, <2>2
  <2>4. Resets(d)'
    BY <2>1, <2>2
  <2>5. Rounds(d)'
    BY <2>1, <2>2
  <2>. QED  BY <2>1, <2>3, <2>4, <2>5
<1>3. CASE DeliverCall(p)
  <2>1. /\ pc[p] \in {"deliver", "calling"} /\ pc'[p] \in {"idle", "calling"}
        /\ \A q \in Proc \ {p} : pc'[q] = pc[q]
        /\ reg' = reg /\ banks' = banks /\ asf' = asf /\ dr' = dr
    BY <1>3, ListsShrink DEF Deliver, DeliverCall
  <2>2. d \in owed' => d \in owed /\ (d \in Lists => d \in Lists')
    BY <1>3, ListsShrink DEF Deliver
  <2>3. (d \in owed => Traced(d))'
    BY <2>1, <2>2
  <2>4. Resets(d)'
    BY <2>1, <2>2
  <2>5. Rounds(d)'
    BY <2>1, <2>2
  <2>. QED  BY <2>1, <2>3, <2>4, <2>5
<1>4. CASE DeliverReturn(p)
  <2>1. /\ pc[p] \in {"deliver", "calling"} /\ pc'[p] \in {"idle", "calling"}
        /\ \A q \in Proc \ {p} : pc'[q] = pc[q]
        /\ reg' = reg /\ banks' = banks /\ asf' = asf /\ dr' = dr
    BY <1>4, ListsShrink DEF Deliver, DeliverReturn, Finish
  <2>2. d \in owed' => d \in owed /\ (d \in Lists => d \in Lists')
    BY <1>4, ListsShrink DEF Deliver
  <2>3. (d \in owed => Traced(d))'
    BY <2>1, <2>2
  <2>4. Resets(d)'
    BY <2>1, <2>2
  <2>5. Rounds(d)'
    BY <2>1, <2>2
  <2>. QED  BY <2>1, <2>3, <2>4, <2>5
<1>. QED  BY <1>1, <1>2, <1>3, <1>4 DEF Deliver

\* The thread resets the banks after a drain with the slave offline.
LEMMA ThreadKept ==
  ASSUME NEW d, Dev = {d}, Wire = {d}, Base, Modes, Armed, Kept(d), TNext
  PROVE  Kept(d)'
<1>. USE DEF Kept, Traced, Listed, Spared, Raised, Offline, Resets, Rounds, Armed,
   Base, TypeOK, TypePc, TypeBanks, BankRegs, TypeDrain, DrainLocals, Bank,
   Mutex, Returns, Modes, Wanted, Proc, TCrit, XCrit, LCrit, LabelsDrain,
   LabelsArm, Go, NoDrain
<1>1. CASE TStopped
  BY <1>1, ListsKept DEF TStopped
<1>2. CASE TDrain
  BY <1>2, ListsKept DEF TDrain, BeginDrain
<1>3. CASE TSound
  BY <1>3, ListsKept DEF TSound
<1>4. CASE TRecover
  BY <1>4, ListsKept DEF TRecover, RegionOk, BeginDrain
<1>5. CASE TReset
  BY <1>5, ListsKept DEF TReset, Flushed, BeginArm
<1>6. CASE TGiveUp
  BY <1>6, ListsKept DEF TGiveUp, Abandon
<1>7. CASE TUnlock
  BY <1>7, ListsKept DEF TUnlock
<1>. QED  BY <1>1, <1>2, <1>3, <1>4, <1>5, <1>6, <1>7, DrainKept, ArmKept,
   DeliverKept DEF TNext

\* A transfer resets the banks after a drain with the slave offline.
LEMMA TransferKept ==
  ASSUME NEW d, Dev = {d}, Wire = {d}, Base, Modes, Armed, Kept(d), XNext
  PROVE  Kept(d)'
<1>. USE DEF Kept, Traced, Listed, Spared, Raised, Offline, Resets, Rounds, Armed,
   Base, TypeOK, TypePc, TypeBanks, BankRegs, TypeDrain, DrainLocals, Bank,
   Mutex, Returns, Modes, Wanted, Proc, TCrit, XCrit, LCrit, LabelsDrain,
   LabelsArm, Go, NoDrain
<1>1. ASSUME NEW e \in Dev, XEnter(e) PROVE Kept(d)'
  BY <1>1, ListsKept DEF XEnter, BeginDrain
<1>2. CASE XRefused
  BY <1>2, ListsKept DEF XRefused
<1>3. CASE XDeafen
  BY <1>3, ListsKept DEF XDeafen
<1>4. CASE XSync
  BY <1>4, ListsKept DEF XSync
<1>5. CASE XMaster
  BY <1>5, ListsKept DEF XMaster, MasterBits, Flushed
<1>6. CASE XBus
  BY <1>6, ListsKept DEF XBus
<1>7. CASE XPoll
  BY <1>7, ListsKept DEF XPoll
<1>8. CASE XYield
  BY <1>8, ListsKept DEF XYield, BeginArm
<1>9. CASE XListened
  BY <1>9, ListsKept DEF XListened, BeginDrain
<1>10. CASE XRetry
  BY <1>10, ListsKept DEF XRetry
<1>11. CASE XDone
  BY <1>11, ListsKept DEF XDone, XStop, BeginArm
<1>12. CASE XAbsent
  BY <1>12, ListsKept DEF XAbsent, XStop, BeginArm
<1>13. CASE XUnlock
  BY <1>13, ListsKept DEF XUnlock
<1>. QED  BY <1>1, <1>2, <1>3, <1>4, <1>5, <1>6, <1>7, <1>8, <1>9, <1>10,
   <1>11, <1>12, <1>13, DrainKept, ArmKept, DeliverKept DEF XNext, XRun

\* Whatever stops the slave gives up what is in the banks.
LEMMA LifecycleKept ==
  ASSUME NEW d, Dev = {d}, Wire = {d}, Base, Modes, Armed, Kept(d), LNext
  PROVE  Kept(d)'
<1>. USE DEF Kept, Traced, Listed, Spared, Raised, Offline, Resets, Rounds, Armed,
   Base, TypeOK, TypePc, TypeBanks, BankRegs, TypeDrain, DrainLocals, Bank,
   Mutex, Returns, Modes, Wanted, Proc, TCrit, XCrit, LCrit, LabelsDrain,
   LabelsArm, Go, NoDrain
<1>1. ASSUME NEW g \in {"remove", "disable"}, LTeardown(g) PROVE Kept(d)'
  BY <1>1, ListsKept DEF LTeardown
<1>2. CASE LUnsupported
  BY <1>2, ListsKept DEF LUnsupported
<1>3. CASE LClaim
  BY <1>3, ListsKept DEF LClaim, MasterBits, Flushed
<1>4. CASE LIrq
  BY <1>4, ListsKept DEF LIrq
<1>5. CASE LNoIrq
  <2>1. Listed(d)' /\ ~RegionBusy
    BY <1>5, ListsKept, RegionFree DEF LNoIrq
  <2>2. banks'.full = {}
    BY <1>5, <2>1 DEF LNoIrq, GiveBack, Flushed
  <2>3. /\ pc'["T"] = pc["T"] /\ pc'["X"] = pc["X"] /\ pc'["L"] = "off"
        /\ dr' = dr /\ asf' = {} /\ pc["T"] \notin TCrit
        /\ "LISTN" \notin reg'
    BY <1>5, <2>1 DEF LNoIrq, GiveBack, RestoredBits, Cfg
  <2>. QED  BY <2>1, <2>2, <2>3, <1>5 DEF Early, LNoIrq
<1>6. CASE LAdd
  BY <1>6, ListsKept DEF LAdd
<1>7. CASE LNoAdapter
  BY <1>7, ListsKept DEF LNoAdapter
<1>8. CASE LOpen
  BY <1>8, ListsKept DEF LOpen, NotifyFree
<1>9. CASE LStart
  BY <1>9, ListsKept DEF LStart, RegionOk, BeginArm
<1>10. CASE LUnlock
  BY <1>10, ListsKept DEF LUnlock
<1>11. CASE LSuspend
  BY <1>11, ListsKept DEF LSuspend
<1>12. CASE LStop
  BY <1>12, ListsKept DEF LStop
<1>13. CASE LQuiesce
  BY <1>13, ListsKept DEF LQuiesce, Flushed, Abandon
<1>14. CASE LSync
  BY <1>14, ListsKept DEF LSync
<1>15. CASE LSleep
  BY <1>15, ListsKept DEF LSleep, Flushed
<1>16. CASE LResume
  BY <1>16, ListsKept, RegionFree DEF LResume, RegionOk, Flushed, BeginArm
<1>17. CASE LMaster
  BY <1>17, ListsKept DEF LMaster, RegionOk, MasterBits, Flushed
<1>18. CASE LFreeIrq
  BY <1>18, ListsKept DEF LFreeIrq
<1>19. CASE LFence
  BY <1>19, ListsKept DEF LFence, NotifyFree
<1>20. CASE LDelDomain
  BY <1>20, ListsKept DEF LDelDomain
<1>21. CASE LDelAdapter
  BY <1>21, ListsKept DEF LDelAdapter
<1>22. CASE LRestore
  BY <1>22, ListsKept DEF LRestore, GiveBack, RegionOk, RestoredBits, Flushed
<1>. QED  BY <1>1, <1>2, <1>3, <1>4, <1>5, <1>6, <1>7, <1>8, <1>9, <1>10,
   <1>11, <1>12, <1>13, <1>14, <1>15, <1>16, <1>17, <1>18, <1>19, <1>20,
   <1>21, <1>22, ArmKept DEF LNext, LRun, LChoose

(* Kept is inductive together with Base, Modes and Armed, for one device. *)

\* At boot nothing is owed and the banks are empty.
LEMMA InitKept ==
  ASSUME NEW d
  PROVE  Init => Kept(d)
  BY DEF Init, Kept, Resets, Rounds, Listed, Spared, Proc, LabelsDrain

\* No step of the system, and no stuttering, loses the last trace of a notify.
LEMMA NextKept ==
  ASSUME NEW d, Dev = {d}, Wire = {d}
  PROVE  Base /\ Modes /\ Armed /\ Kept(d) /\ [Next]_vars => Kept(d)'
<1>. SUFFICES ASSUME Base, Modes, Armed, Kept(d), [Next]_vars PROVE Kept(d)'
  OBVIOUS
<1>1. CASE Next
  BY <1>1, EnvironmentKept, HandlerKept, ThreadKept, TransferKept,
     LifecycleKept DEF Next
<1>2. CASE UNCHANGED vars
  <2>1. Lists' = Lists
    BY <1>2, ListsKept DEF vars
  <2>. QED  BY <1>2, <2>1 DEF vars, Kept, Traced, Resets, Rounds, Listed, Spared,
       Offline, Raised
<1>. QED BY <1>1, <1>2

\* "Nothing that was ACKed is discarded", on a machine with one device that
\* notifies: whatever the banks, drains, transfers, recoveries and handlers do,
\* a notify that is owed is in a bank that will be read, or in a list that will
\* be delivered.  For every ASF_DRAIN_MAX, every number of retries and any
\* number of receptions, errors, stuck banks, transfers and sleeps; a second
\* device, a latched interrupt or a busy region break it (see README).
THEOREM NothingLost ==
  ASSUME NEW d, Dev = {d}, Wire = {d},
         Leftover = FALSE, \A b \in Budgets : b["busy"] = 0
  PROVE  Spec => []NoLoss
<1>1. Base /\ Kept(d) => NoLoss
  <2>. SUFFICES ASSUME Base, Kept(d), d \in owed PROVE d \in Held
    BY DEF Base, TypeOK, TypeHistory, NoLoss
  <2>1. Traced(d)
    BY DEF Kept
  <2>. QED  BY <2>1 DEF Traced, Held, Raised
<1>. QED  BY <1>1, InitArmed, NextArmed, InitKept, NextKept, Discipline, Modal, PTL DEF Spec

=============================================================================
