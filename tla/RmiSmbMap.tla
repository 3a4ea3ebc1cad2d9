------------------------------ MODULE RmiSmbMap ------------------------------
(***************************************************************************)
(* The RMI4 transport over SMBus, drivers/input/rmi4/rmi_smbus.c with the  *)
(* settle time of patch 0002.  A block transfer of SMBus carries a command *)
(* code, not a register address: the device has a table of MapSize         *)
(* mappings from codes to registers, the driver keeps a copy of it, and    *)
(* every chunk of a read or write looks its code up in the copy, replacing *)
(* a mapping in turn where it finds none.  The copy and the table must     *)
(* agree through transfers that fail, with or without effect, and resets   *)
(* of the device that its PS/2 side brings about.                          *)
(*                                                                         *)
(* page_mutex lets one block operation run at a time, so one is modelled.  *)
(* A byte is a member of Val, a buffer a function from offsets to bytes.   *)
(***************************************************************************)
EXTENDS Integers, FiniteSetsExt

CONSTANTS
  MapSize,    \* RMI_SMB2_MAP_SIZE
  MaxCount,   \* SMB_MAX_COUNT
  Size,       \* registers 0 .. Size - 1 of the device
  Val,        \* bytes
  MaxLen,     \* longest operation of a client
  Budget      \* how many failures, resets and sleeps may happen

ASSUME SizesAssumption ==
  MapSize \in Nat \ {0} /\ MaxCount \in Nat \ {0} /\ Size \in Nat /\ MaxLen \in Nat
ASSUME ValAssumption == 0 \in Val
Events == {"fail", "reset", "sleep"}
ASSUME BudgetAssumption == Budget \in [Events -> Nat]

VARIABLES
  table,    \* rmi_smb_xport.mapping_table
  index,    \* rmi_smb_xport.table_index
  devtab,   \* the mappings the device has
  regs,     \* the registers of the device
  active,   \* the device has been activated by a read of its version
  op,       \* locals of the block operation in progress
  life,     \* the companion: "off", "up", "asleep" or "settling"
  serio,    \* the PS/2 port is not suspended
  settled,  \* no reset of the device since the settle time began
  left      \* the events that may still happen

vars == <<table, index, devtab, regs, active, op, life, serio, settled, left>>

Slot == 0 .. MapSize - 1
Addr == 0 .. Size - 1

\* struct mapping_table_entry
Unmapped == [addr |-> 0, count |-> 0, we |-> FALSE]
NoTable == [i \in Slot |-> Unmapped]
Cleared(n) == [k \in 0 .. n - 1 |-> 0]

NoOp == [kind |-> "none", pc |-> "idle", addr |-> 0, len |-> 0, at |-> 0,
         left |-> 0, code |-> 0, data |-> Cleared(0), ret |-> 0,
         over |-> FALSE]

Spend(e) == left[e] > 0 /\ left' = [left EXCEPT ![e] = @ - 1]

\* A transfer may fail; on a device that is not active it always does.
Fails == Spend("fail") \/ (~active /\ UNCHANGED left)

Init ==
  /\ table = NoTable /\ index = 0 /\ devtab = NoTable
  /\ regs = [a \in Addr |-> 0] /\ active = FALSE /\ op = NoOp
  /\ life = "off" /\ serio = TRUE /\ settled = TRUE /\ left = Budget

-----------------------------------------------------------------------------
(* rmi_smb_read_block() and rmi_smb_write_block(). *)

\* Where a loop over the chunks goes with l bytes left.
Loop(l) == IF l > 0 THEN "code" ELSE "done"

\* A client calls; registers that an operation spans exist.
ReadBlock(a, n) ==
  /\ life = "up" /\ op.pc = "idle" /\ a + n <= Size
  /\ op' = [NoOp EXCEPT !.kind = "read", !.pc = Loop(n), !.addr = a, !.at = a,
                        !.len = n, !.left = n, !.data = Cleared(n)]
  /\ UNCHANGED <<table, index, devtab, regs, active, life, serio, settled,
                 left>>

WriteBlock(a, n, d) ==
  /\ life = "up" /\ op.pc = "idle" /\ a + n <= Size
  /\ op' = [NoOp EXCEPT !.kind = "write", !.pc = Loop(n), !.addr = a, !.at = a,
                        !.len = n, !.left = n, !.data = d]
  /\ UNCHANGED <<table, index, devtab, regs, active, life, serio, settled,
                 left>>

\* size of the chunk in hand
Block == IF op.left < MaxCount THEN op.left ELSE MaxCount
\* offset of the chunk in the buffer
Off == op.at - op.addr

\* Mutant of Serves: a read takes any mapping of its address.
ServesAnyCount(e) ==
  e.addr = op.at /\ (op.kind = "write" => e.we)

\* Entry e of the driver's table serves the chunk.
Serves(e) ==
  /\ e.addr = op.at
  /\ op.kind = "read" => e.count = Block
  /\ op.kind = "write" => e.we

\* rmi_smb_get_command_code(): the first entry that serves, ...
CodeKnown ==
  /\ op.pc = "code"
  /\ \E i \in Slot :
       /\ Serves(table[i]) /\ \A j \in Slot : Serves(table[j]) => i <= j
       /\ op' = [op EXCEPT !.code = i, !.pc = "xfer"]
  /\ UNCHANGED <<table, index, devtab, regs, active, life, serio, settled,
                 left>>

\* ... or else the next one in turn is replaced, in the device first, ...
NewMap == [addr |-> op.at, count |-> Block, we |-> op.kind = "write"]
Unknown == op.pc = "code" /\ \A i \in Slot : ~Serves(table[i])
NextIndex == (index + 1) % MapSize

\* Mutant of CodeMapped: the index is not wrapped.
CodeMappedNoWrap ==
  /\ Unknown /\ active
  /\ devtab' = [devtab EXCEPT ![index] = NewMap]
  /\ table' = [table EXCEPT ![index] = NewMap]
  /\ index' = index + 1
  /\ op' = [op EXCEPT !.code = index, !.pc = "xfer"]
  /\ UNCHANGED <<regs, active, life, serio, settled, left>>

CodeMapped ==
  /\ Unknown /\ active
  /\ devtab' = [devtab EXCEPT ![index] = NewMap]
  /\ table' = [table EXCEPT ![index] = NewMap]
  /\ index' = NextIndex
  /\ op' = [op EXCEPT !.code = index, !.pc = "xfer"]
  /\ UNCHANGED <<regs, active, life, serio, settled, left>>

Failed == op' = [op EXCEPT !.pc = "done", !.ret = -1]

\* Mutant of CodeLost: the driver keeps the entry it had.
CodeLostKept ==
  /\ Unknown /\ Fails
  /\ \/ UNCHANGED devtab
     \/ active /\ devtab' = [devtab EXCEPT ![index] = NewMap]
  /\ index' = NextIndex /\ Failed
  /\ UNCHANGED <<table, regs, active, life, serio, settled>>

\* ... and cleared in the driver if that fails; the device may have it anyway.
CodeLost ==
  /\ Unknown /\ Fails
  /\ \/ UNCHANGED devtab
     \/ active /\ devtab' = [devtab EXCEPT ![index] = NewMap]
  /\ table' = [table EXCEPT ![index] = Unmapped]
  /\ index' = NextIndex /\ Failed
  /\ UNCHANGED <<regs, active, life, serio, settled>>

\* What the device sends for a code: the registers of its own mapping, ...
Sent(e, k) == IF e.addr + k \in Addr THEN regs[e.addr + k] ELSE 0
\* ... and what a block written to a code makes of its registers.
Stored(e) ==
  [a \in Addr |-> IF e.we /\ a \in e.addr .. e.addr + Block - 1
                  THEN op.data[Off + (a - e.addr)] ELSE regs[a]]

\* The device says how many bytes come; none is checked against the buffer.
ReadChunk ==
  /\ op.kind = "read" /\ op.pc = "xfer" /\ active
  /\ LET e == devtab[op.code]
     IN  op' = [op EXCEPT
           !.data = [k \in 0 .. op.len - 1 |->
                       IF k \in Off .. Off + e.count - 1
                       THEN Sent(e, k - Off) ELSE op.data[k]],
           !.over = @ \/ Off + e.count > op.len,
           !.at = @ + MaxCount, !.left = @ - MaxCount,
           !.pc = Loop(op.left - MaxCount)]
  /\ UNCHANGED <<table, index, devtab, regs, active, life, serio, settled,
                 left>>

ReadChunkFails ==
  /\ op.kind = "read" /\ op.pc = "xfer" /\ Fails /\ Failed
  /\ UNCHANGED <<table, index, devtab, regs, active, life, serio, settled>>

WriteChunk ==
  /\ op.kind = "write" /\ op.pc = "xfer" /\ active
  /\ regs' = Stored(devtab[op.code])
  /\ op' = [op EXCEPT !.at = @ + Block, !.left = @ - Block,
                      !.pc = Loop(op.left - Block)]
  /\ UNCHANGED <<table, index, devtab, active, life, serio, settled, left>>

\* The host sees an error, whether or not the device took the block.
WriteChunkFails ==
  /\ op.kind = "write" /\ op.pc = "xfer" /\ Fails /\ Failed
  /\ UNCHANGED regs \/ (active /\ regs' = Stored(devtab[op.code]))
  /\ UNCHANGED <<table, index, devtab, active, life, serio, settled>>

\* page_mutex is released and op.ret returned.
Return ==
  /\ op.pc = "done" /\ op' = NoOp
  /\ UNCHANGED <<table, index, devtab, regs, active, life, serio, settled,
                 left>>

Client ==
  \E a \in Addr, n \in 0 .. MaxLen :
    \/ ReadBlock(a, n)
    \/ \E d \in [0 .. n - 1 -> Val] : WriteBlock(a, n, d)

Transfer == \/ CodeKnown \/ CodeMapped \/ CodeLost \/ ReadChunk
            \/ ReadChunkFails \/ WriteChunk \/ WriteChunkFails \/ Return

-----------------------------------------------------------------------------
(* Probe, reset and sleep. *)

\* rmi_smb_enable_smbus_mode(): reading the version activates the touchpad.
Activate == \/ active' = TRUE /\ UNCHANGED left
            \/ UNCHANGED active /\ Spend("fail")

\* rmi_smb_probe() up to the registration of the transport.
Probe ==
  /\ life = "off" /\ Activate
  /\ life' = IF active' THEN "up" ELSE "off"
  /\ UNCHANGED <<table, index, devtab, regs, op, serio, settled>>

\* rmi_smb_reset() as an operation of the transport: the driver's table is
\* cleared and the version read; the device itself is not reset.
Reset ==
  /\ life = "up" /\ op.pc = "idle" /\ left["reset"] > 0
  /\ table' = NoTable
  /\ \/ active' = TRUE /\ left' = [left EXCEPT !["reset"] = @ - 1]
     \/ /\ UNCHANGED active /\ left["fail"] > 0
        /\ left' = [left EXCEPT !["reset"] = @ - 1, !["fail"] = @ - 1]
  /\ UNCHANGED <<index, devtab, regs, op, life, serio, settled>>

\* rmi_smb_suspend() disables the interrupt and stops the functions, then the
\* PS/2 port is suspended.
Suspend ==
  /\ life = "up" /\ op.pc = "idle" /\ Spend("sleep")
  /\ life' = "asleep" /\ serio' = FALSE
  /\ UNCHANGED <<table, index, devtab, regs, active, op, settled>>

\* The PS/2 port resumes: psmouse_smbus_reconnect() deactivates the PS/2 side,
\* which resets the device.
SerioResume ==
  /\ ~serio /\ serio' = TRUE
  /\ devtab' = NoTable /\ regs' = [a \in Addr |-> 0] /\ active' = FALSE
  /\ settled' = FALSE
  /\ UNCHANGED <<table, index, op, life, left>>

\* Mutant of Resume: it does not wait for the PS/2 port.
ResumeUnordered ==
  /\ life = "asleep"
  /\ table' = NoTable /\ Activate
  /\ settled' = TRUE /\ life' = "settling"
  /\ UNCHANGED <<index, devtab, regs, op, serio>>

\* Mutant of Resume: the driver's table is not cleared.
ResumeNoClear ==
  /\ life = "asleep" /\ serio
  /\ Activate
  /\ settled' = TRUE /\ life' = "settling"
  /\ UNCHANGED <<table, index, devtab, regs, op, serio>>

\* rmi_smb_resume() after the resume of the port it is linked to: reset the
\* transport, whatever comes of it, and sleep the settle time; ...
Resume ==
  /\ life = "asleep" /\ serio
  /\ table' = NoTable /\ Activate
  /\ settled' = TRUE /\ life' = "settling"
  /\ UNCHANGED <<index, devtab, regs, op, serio>>

\* ... then rmi_reset() and rmi_driver_resume() use the transport again.
Configure ==
  /\ life = "settling" /\ life' = "up"
  /\ UNCHANGED <<table, index, devtab, regs, active, op, serio, settled, left>>

\* rmi_smb_remove(): the functions are gone, the next probe starts from zeroes;
\* the device is not told.
Remove ==
  /\ life = "up" /\ op.pc = "idle"
  /\ life' = "off" /\ table' = NoTable /\ index' = 0
  /\ UNCHANGED <<devtab, regs, active, op, serio, settled, left>>

Lifecycle == \/ Probe \/ Remove \/ Reset \/ Suspend \/ SerioResume \/ Resume
             \/ Configure

Next == Client \/ Transfer \/ Lifecycle
Spec == Init /\ [][Next]_vars

-----------------------------------------------------------------------------
(* Properties. *)

Entry == [addr : Addr \cup {0}, count : 0 .. MaxCount, we : BOOLEAN]
TypeTables == /\ table \in [Slot -> Entry] /\ devtab \in [Slot -> Entry]
              /\ index \in Slot
TypeDevice == regs \in [Addr -> Val] /\ active \in BOOLEAN
TypeLife == /\ life \in {"off", "up", "asleep", "settling"}
            /\ serio \in BOOLEAN /\ settled \in BOOLEAN
            /\ left \in [Events -> Nat]
Buffer == UNION {[0 .. n - 1 -> Val] : n \in 0 .. MaxLen}
Call == [kind : {"none", "read", "write"}, pc : {"idle", "code", "xfer", "done"},
         addr : Addr \cup {0}, len : 0 .. MaxLen, at : Nat, left : Int,
         code : Slot, data : Buffer, ret : {0, -1}, over : BOOLEAN]
TypeOp == op \in Call /\ op.data \in [0 .. op.len - 1 -> Val]

\* Every variable keeps its type; the index of the next mapping to replace
\* never leaves mapping_table[RMI_SMB2_MAP_SIZE].
TypeOK == TypeTables /\ TypeDevice /\ TypeLife /\ TypeOp

\* "keeps records to the driver mapping table": while the transport is in use,
\* a mapping the driver has is one the device has, through failed writes of the
\* table, replaced mappings, resets of the transport and sleep.
Coherent ==
  life = "up" =>
    \A i \in Slot : table[i] # Unmapped => devtab[i] = table[i]

\* "It returns 0 on success": a read that succeeds has filled its buffer with the
\* registers it was asked for, and no byte went past the buffer; a write that
\* succeeds, in however many chunks, has reached every register it was for.
Exact ==
  op.pc = "done" /\ op.kind # "none" /\ op.ret = 0 =>
    /\ ~op.over
    /\ \A k \in 0 .. op.len - 1 : op.data[k] = regs[op.addr + k]

\* A transfer changes a register only to what a write in progress has for it,
\* even if it fails half-way or a mapping was lost before.
WriteConfined ==
  [][active' /\ op.kind # "none" =>
       \A a \in Addr : regs'[a] # regs[a] =>
         /\ op.kind = "write" /\ a \in op.addr .. op.addr + op.len - 1
         /\ regs'[a] = op.data[a - op.addr]]_vars

\* "It needs a few hundred milliseconds": from resume on, no operation reaches
\* a device whose reset is more recent than the settle time.
ConfiguredSettled == op.kind # "none" => settled

\* "It returns the amount of bytes written or a negative error code."
ReturnsAmount ==
  op.pc = "done" /\ op.kind = "write" => op.ret = op.len \/ op.ret < 0
=============================================================================
