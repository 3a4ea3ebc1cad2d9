--------------------------- MODULE RmiSmbMapProofs ---------------------------
(***************************************************************************)
(* What rmi_smbus.c guarantees for tables, chunks, registers and buffers   *)
(* of every size, and any number of failures, resets and sleeps.           *)
(***************************************************************************)
EXTENDS RmiSmbMap, TLAPS

-----------------------------------------------------------------------------
(* The chunk in hand lies within the operation, the operation within the    *)
(* registers.                                                               *)

Shape ==
  /\ op.kind = "none" <=> op.pc = "idle"
  /\ op.at >= op.addr /\ Off + op.left = op.len
  /\ op.kind # "none" => op.addr + op.len <= Size
  /\ op.pc \in {"code", "xfer"} => op.left > 0
  /\ op.pc = "done" /\ op.ret = 0 => op.left <= 0

Base == TypeOK /\ Shape

\* The locals of an operation are numbers.
LEMMA Numbers ==
  ASSUME Base
  PROVE  /\ op.addr \in Nat /\ op.len \in Nat /\ op.at \in Nat
         /\ op.left \in Int /\ op.over \in BOOLEAN
         /\ op.at >= op.addr /\ (op.at - op.addr) + op.left = op.len
         /\ op.kind # "none" => op.addr + op.len <= Size
  BY SizesAssumption DEF Base, TypeOK, TypeOp, Call, Shape, Off, Addr

\* The chunk that a loop has got to is not empty, and is at a register.
LEMMA ChunkInside ==
  ASSUME Base, op.left > 0, op.kind # "none"
  PROVE  /\ Block \in 1 .. MaxCount /\ Block <= op.left
         /\ Off \in Nat /\ Off + Block <= op.len
         /\ op.at \in Addr /\ op.at + Block <= Size
<1>1. Block \in 1 .. MaxCount /\ Block <= op.left
  BY Numbers, SizesAssumption DEF Block
<1> QED
  BY <1>1, Numbers, SizesAssumption DEF Off, Addr

\* What the device stores has the type of registers, whatever the mapping.
LEMMA StoredType ==
  ASSUME Base, op.left > 0, op.kind # "none", NEW e \in Entry
  PROVE  Stored(e) \in [Addr -> Val]
<1>1. /\ Off \in Nat /\ Off + Block <= op.len /\ Block \in Nat
  BY ChunkInside
<1>2. ASSUME NEW a \in Addr, a \in e.addr .. e.addr + Block - 1
      PROVE  op.data[Off + (a - e.addr)] \in Val
  <2>1. Off + (a - e.addr) \in 0 .. op.len - 1
    BY <1>1, <1>2 DEF Entry, Addr, Base, TypeOK, TypeOp, Call
  <2> QED
    BY <2>1 DEF Base, TypeOK, TypeOp
<1>3. \A a \in Addr : regs[a] \in Val
  BY DEF Base, TypeOK, TypeDevice
<1> QED
  BY <1>2, <1>3 DEF Stored

\* A buffer of zeroes is a buffer.
LEMMA ClearedType ==
  ASSUME NEW n \in 0 .. MaxLen
  PROVE  Cleared(n) \in [0 .. n - 1 -> Val] /\ Cleared(n) \in Buffer
<1>1. Cleared(n) \in [0 .. n - 1 -> Val]
  BY ValAssumption DEF Cleared
<1> QED
  BY <1>1 DEF Buffer

\* Tables with nothing mapped, and an operation that is none, are well typed.
LEMMA EmptyType ==
  /\ NoTable \in [Slot -> Entry] /\ 0 \in Slot
  /\ NoOp \in Call /\ NoOp.data \in [0 .. NoOp.len - 1 -> Val]
<1>1. NoTable \in [Slot -> Entry] /\ 0 \in Slot
  BY SizesAssumption DEF NoTable, Unmapped, Slot, Entry
<1>2. 0 \in 0 .. MaxLen
  BY SizesAssumption
<1>3. Cleared(0) \in Buffer /\ Cleared(0) \in [0 .. 0 - 1 -> Val]
  BY <1>2, ClearedType
<1> QED
  BY <1>1, <1>2, <1>3 DEF NoOp, Call

LEMMA BaseInit == Init => Base
<1> SUFFICES ASSUME Init PROVE Base
  OBVIOUS
<1>1. TypeOp
  BY EmptyType DEF Init, TypeOp
<1>2. TypeTables
  BY EmptyType DEF Init, TypeTables
<1>3. TypeDevice
  BY ValAssumption DEF Init, TypeDevice
<1>4. TypeLife
  BY BudgetAssumption DEF Init, TypeLife
<1>5. Shape
  BY DEF Init, Shape, NoOp, Off
<1> QED
  BY <1>1, <1>2, <1>3, <1>4, <1>5 DEF Base, TypeOK

\* Starting an operation: a call of ReadBlock or WriteBlock.
LEMMA BaseClient == Base /\ Client => Base'
<1> SUFFICES ASSUME Base, NEW a \in Addr, NEW n \in 0 .. MaxLen,
                    ReadBlock(a, n)
                      \/ \E d \in [0 .. n - 1 -> Val] : WriteBlock(a, n, d)
             PROVE  Base'
  BY DEF Client
<1>1. PICK kind \in {"read", "write"}, d \in [0 .. n - 1 -> Val] :
        /\ op' = [NoOp EXCEPT !.kind = kind, !.pc = Loop(n), !.addr = a,
                    !.at = a, !.len = n, !.left = n, !.data = d]
        /\ a + n <= Size
  BY ClearedType DEF ReadBlock, WriteBlock
<1>2. UNCHANGED <<table, index, devtab, regs, active, life, serio, settled,
                  left>>
  BY DEF ReadBlock, WriteBlock
<1>3. d \in Buffer
  BY DEF Buffer
<1>4. op' = [kind |-> kind, pc |-> Loop(n), addr |-> a, len |-> n, at |-> a,
             left |-> n, code |-> 0, data |-> d, ret |-> 0, over |-> FALSE]
  BY <1>1 DEF NoOp
<1>5. TypeOp'
  BY <1>3, <1>4, EmptyType, SizesAssumption
  DEF TypeOp, Call, Loop, Addr
<1>6. Shape'
  BY <1>1, <1>4, SizesAssumption DEF Shape, Off, Loop, Addr
<1> QED
  BY <1>2, <1>5, <1>6 DEF Base, TypeOK, TypeTables, TypeDevice, TypeLife

\* What is left to happen stays a count of each event.
LEMMA LeftType ==
  ASSUME Base, NEW e \in Events, Spend(e)
  PROVE  left' \in [Events -> Nat]
  BY DEF Base, TypeOK, TypeLife, Spend

LEMMA FailsType ==
  ASSUME Base, Fails
  PROVE  left' \in [Events -> Nat]
<1>1. "fail" \in Events
  BY DEF Events
<1> QED
  BY <1>1, LeftType DEF Fails, Base, TypeOK, TypeLife

\* An operation that ends with an error keeps its shape.
LEMMA FailedBase ==
  ASSUME Base, Failed, op.kind # "none"
  PROVE  TypeOp' /\ Shape'
<1>1. TypeOp'
  BY DEF Base, TypeOK, TypeOp, Call, Failed
<1>2. Shape'
  BY DEF Base, TypeOK, TypeOp, Call, Shape, Off, Failed
<1> QED
  BY <1>1, <1>2

\* A mapping entered for the chunk in hand, and the turn that passes on.
LEMMA MappingType ==
  ASSUME Base, op.pc = "code"
  PROVE  NewMap \in Entry /\ NextIndex \in Slot /\ Unmapped \in Entry
<1>1. NewMap \in Entry
  <2>1. op.at \in Addr /\ Block \in 1 .. MaxCount
    BY ChunkInside DEF Base, Shape
  <2> QED
    BY <2>1, SizesAssumption DEF NewMap, Entry
<1>2. NextIndex \in Slot
  BY SizesAssumption DEF NextIndex, Slot, Base, TypeOK, TypeTables
<1> QED
  BY <1>1, <1>2, SizesAssumption DEF Unmapped, Entry

LEMMA BaseTransfer == Base /\ Transfer => Base'
<1> SUFFICES ASSUME Base, Transfer PROVE Base'
  OBVIOUS
<1> USE DEF Base, TypeOK
<1>1. CASE CodeKnown
  <2>1. TypeOp' /\ Shape'
    BY <1>1 DEF CodeKnown, TypeOp, Call, Shape, Off
  <2> QED
    BY <1>1, <2>1 DEF CodeKnown, TypeTables, TypeDevice, TypeLife
<1>2. CASE CodeMapped
  <2>1. op.pc = "code" /\ op' = [op EXCEPT !.code = index, !.pc = "xfer"]
    BY <1>2 DEF CodeMapped, Unknown
  <2>2. TypeOp' /\ Shape'
    BY <2>1 DEF TypeOp, TypeTables, Call, Shape, Off
  <2>3. TypeTables'
    BY <1>2, <2>1, MappingType DEF CodeMapped, TypeTables
  <2> QED
    BY <1>2, <2>2, <2>3 DEF CodeMapped, TypeDevice, TypeLife
<1>3. CASE CodeLost
  <2>1. op.pc = "code" /\ op.kind # "none" /\ Failed /\ Fails
    BY <1>3 DEF CodeLost, Unknown, Shape
  <2>2. TypeOp' /\ Shape' /\ left' \in [Events -> Nat]
    BY <2>1, FailedBase, FailsType
  <2>3. TypeTables'
    BY <1>3, <2>1, MappingType DEF CodeLost, TypeTables
  <2> QED
    BY <1>3, <2>2, <2>3 DEF CodeLost, TypeDevice, TypeLife
<1>4. CASE ReadChunk
  <2> DEFINE e == devtab[op.code]
             d == [k \in 0 .. op.len - 1 |->
                     IF k \in Off .. Off + e.count - 1
                     THEN Sent(e, k - Off) ELSE op.data[k]]
  <2>1. d \in [0 .. op.len - 1 -> Val]
    <3>1. \A x : Sent(e, x) \in Val
      BY ValAssumption DEF Sent, TypeDevice
    <3>2. \A k \in 0 .. op.len - 1 : op.data[k] \in Val
      BY DEF TypeOp
    <3> QED
      BY <3>1, <3>2
  <2>2. d \in Buffer
    BY <2>1 DEF Buffer, TypeOp, Call
  <2> HIDE DEF d
  <2>3. op' = [op EXCEPT !.data = d, !.over = @ \/ Off + e.count > op.len,
                         !.at = @ + MaxCount, !.left = @ - MaxCount,
                         !.pc = Loop(op.left - MaxCount)]
    BY <1>4 DEF ReadChunk, d
  <2> DEFINE o == op.over \/ Off + e.count > op.len
  <2>4. o \in BOOLEAN
    BY Numbers
  <2> HIDE DEF e, o
  <2>5. /\ op.at + MaxCount \in Nat /\ op.left - MaxCount \in Int
        /\ Loop(op.left - MaxCount) \in {"code", "done"}
    BY Numbers, SizesAssumption DEF Loop
  <2>6. op' = [op EXCEPT !.data = d, !.over = o, !.at = op.at + MaxCount,
                         !.left = op.left - MaxCount,
                         !.pc = Loop(op.left - MaxCount)]
    BY <2>3 DEF o, e, TypeOp, Call
  <2>7. TypeOp'
    BY <2>1, <2>2, <2>6, <2>4, <2>5 DEF TypeOp, Call
  <2>8. /\ op'.kind = op.kind /\ op'.pc = Loop(op.left - MaxCount)
        /\ op'.addr = op.addr /\ op'.len = op.len
        /\ op'.at = op.at + MaxCount /\ op'.left = op.left - MaxCount
    BY <2>6 DEF TypeOp, Call
  <2>9. Shape'
    BY <1>4, <2>8, Numbers, SizesAssumption DEF ReadChunk, Shape, Off, Loop
  <2> QED
    BY <1>4, <2>7, <2>9 DEF ReadChunk, TypeTables, TypeDevice, TypeLife
<1>5. CASE ReadChunkFails
  <2>1. TypeOp' /\ Shape' /\ left' \in [Events -> Nat]
    BY <1>5, FailedBase, FailsType DEF ReadChunkFails
  <2> QED
    BY <1>5, <2>1 DEF ReadChunkFails, TypeTables, TypeDevice, TypeLife
<1>6. CASE WriteChunk
  <2>1. op.left > 0 /\ op.kind # "none" /\ devtab[op.code] \in Entry
    BY <1>6 DEF WriteChunk, Shape, TypeTables, TypeOp, Call
  <2>2. regs' \in [Addr -> Val]
    BY <1>6, <2>1, StoredType DEF WriteChunk
  <2>3. Block \in 1 .. MaxCount /\ Block <= op.left
    BY <2>1, ChunkInside
  <2>4. op' = [op EXCEPT !.at = @ + Block, !.left = @ - Block,
                         !.pc = Loop(op.left - Block)]
    BY <1>6 DEF WriteChunk
  <2>5. /\ op.at + Block \in Nat /\ op.left - Block \in Int
        /\ Loop(op.left - Block) \in {"code", "done"}
    BY <2>3, Numbers, SizesAssumption DEF Loop
  <2>6. op' = [op EXCEPT !.at = op.at + Block, !.left = op.left - Block,
                         !.pc = Loop(op.left - Block)]
    BY <2>4 DEF TypeOp, Call
  <2>7. TypeOp'
    BY <2>5, <2>6 DEF TypeOp, Call
  <2>8. /\ op'.kind = op.kind /\ op'.pc = Loop(op.left - Block)
        /\ op'.addr = op.addr /\ op'.len = op.len
        /\ op'.at = op.at + Block /\ op'.left = op.left - Block
    BY <2>6 DEF TypeOp, Call
  <2>9. Shape'
    BY <1>6, <2>3, <2>8, Numbers, SizesAssumption
    DEF WriteChunk, Shape, Off, Loop
  <2> QED
    BY <1>6, <2>2, <2>7, <2>9 DEF WriteChunk, TypeTables, TypeDevice, TypeLife
<1>7. CASE WriteChunkFails
  <2>1. TypeOp' /\ Shape' /\ left' \in [Events -> Nat]
    BY <1>7, FailedBase, FailsType DEF WriteChunkFails
  <2>2. op.left > 0 /\ op.kind # "none" /\ devtab[op.code] \in Entry
    BY <1>7 DEF WriteChunkFails, Shape, TypeTables, TypeOp, Call
  <2>3. regs' \in [Addr -> Val]
    BY <1>7, <2>2, StoredType DEF WriteChunkFails, TypeDevice
  <2> QED
    BY <1>7, <2>1, <2>3 DEF WriteChunkFails, TypeTables, TypeDevice, TypeLife
<1>8. CASE Return
  <2>1. TypeOp'
    BY <1>8, EmptyType DEF Return, TypeOp
  <2>2. Shape'
    BY <1>8 DEF Return, NoOp, Shape, Off
  <2> QED
    BY <1>8, <2>1, <2>2 DEF Return, TypeTables, TypeDevice, TypeLife
<1> QED
  BY <1>1, <1>2, <1>3, <1>4, <1>5, <1>6, <1>7, <1>8 DEF Transfer

LEMMA BaseLifecycle == Base /\ Lifecycle => Base'
<1> SUFFICES ASSUME Base, Lifecycle PROVE Base'
  OBVIOUS
<1>1. UNCHANGED op
  BY DEF Lifecycle, Probe, Remove, Reset, Suspend, SerioResume, Resume,
         Configure
<1>2. TypeOp' /\ Shape'
  BY <1>1 DEF Base, TypeOK, TypeOp, Shape, Off
<1>3. TypeTables'
  BY EmptyType DEF Base, TypeOK, TypeTables, Lifecycle, Probe, Remove, Reset,
         Suspend, SerioResume, Resume, Configure
<1>4. TypeDevice'
  BY ValAssumption DEF Base, TypeOK, TypeDevice, Lifecycle, Probe, Remove,
         Reset, Suspend, SerioResume, Resume, Configure, Activate
<1>5. TypeLife'
  <2>1. left' \in [Events -> Nat]
    BY DEF Base, TypeOK, TypeLife, Lifecycle, Probe, Remove, Reset, Suspend,
           SerioResume, Resume, Configure, Activate, Spend, Events
  <2>2. /\ life' \in {"off", "up", "asleep", "settling"}
        /\ serio' \in BOOLEAN /\ settled' \in BOOLEAN
    BY DEF Base, TypeOK, TypeLife, Lifecycle, Probe, Remove, Reset, Suspend,
           SerioResume, Resume, Configure
  <2> QED
    BY <2>1, <2>2 DEF TypeLife
<1> QED
  BY <1>2, <1>3, <1>4, <1>5 DEF Base, TypeOK

LEMMA BaseNext == Base /\ [Next]_vars => Base'
<1>1. Base /\ UNCHANGED vars => Base'
  BY DEF vars, Base, TypeOK, TypeTables, TypeDevice, TypeLife, TypeOp, Shape,
         Off
<1> QED
  BY <1>1, BaseClient, BaseTransfer, BaseLifecycle DEF Next

\* Every variable keeps its type, for tables and registers of every size; the
\* chunk of an operation stays within what the client asked for.
THEOREM ChunksInside == Spec => []Base
  BY BaseInit, BaseNext, PTL DEF Spec

\* Every variable keeps its type; the index stays within the mapping table.
THEOREM RmiTypeCorrect == Spec => []TypeOK
<1>1. Base => TypeOK
  BY DEF Base
<1> QED
  BY <1>1, ChunksInside, PTL

-----------------------------------------------------------------------------
(* The driver's table is the device's, and what has been moved so far is    *)
(* the same in the buffer and in the registers.                             *)

Resting ==
  /\ life # "asleep" => serio /\ settled
  /\ life # "up" => op.pc = "idle"
  /\ life \in {"off", "settling"} => table = NoTable

Mapped ==
  /\ op.kind = "read" => devtab[op.code].count = Block
  /\ op.kind = "write" => devtab[op.code].we
  /\ devtab[op.code].addr = op.at

Moved ==
  /\ ~op.over
  /\ \A k \in 0 .. op.len - 1 : k < Off => op.data[k] = regs[op.addr + k]

IInv == /\ Base /\ Resting /\ Coherent
        /\ op.pc = "xfer" => Mapped
        /\ op.kind # "none" /\ op.ret = 0 => Moved

LEMMA IInvInit == Init => IInv
  BY BaseInit DEF Init, IInv, Resting, Coherent, NoOp

\* An operation in progress has the transport to itself.
LEMMA InUse ==
  ASSUME IInv, op.kind # "none"
  PROVE  life = "up" /\ serio /\ settled
  BY DEF IInv, Resting, Base, Shape

LEMMA IInvClient == IInv /\ Client => IInv'
<1> SUFFICES ASSUME IInv, NEW a \in Addr, NEW n \in 0 .. MaxLen,
                    ReadBlock(a, n)
                      \/ \E d \in [0 .. n - 1 -> Val] : WriteBlock(a, n, d)
             PROVE  IInv'
  BY DEF Client
<1>1. Base'
  BY BaseClient DEF IInv, Client
<1>2. PICK kind \in {"read", "write"}, d \in [0 .. n - 1 -> Val] :
        op' = [NoOp EXCEPT !.kind = kind, !.pc = Loop(n), !.addr = a,
                  !.at = a, !.len = n, !.left = n, !.data = d]
  BY ClearedType DEF ReadBlock, WriteBlock
<1>3. /\ life = "up"
      /\ UNCHANGED <<table, index, devtab, regs, active, life, serio, settled,
                     left>>
  BY DEF ReadBlock, WriteBlock
<1>4. /\ op'.over = FALSE /\ op'.at = a /\ op'.addr = a /\ op'.len = n
      /\ op'.pc \in {"code", "done"}
  BY <1>2 DEF NoOp, Loop
<1>5. Resting' /\ Coherent'
  BY <1>3 DEF IInv, Resting, Coherent
<1>6. Moved'
  BY <1>4 DEF Moved, Off, Addr
<1> QED
  BY <1>1, <1>4, <1>5, <1>6 DEF IInv

\* A step of an operation that fails ends it, and claims nothing of it.
LEMMA IInvFailed ==
  ASSUME IInv, Base', Failed, Coherent', op.kind # "none",
         UNCHANGED <<life, serio, settled>>
  PROVE  IInv'
<1>1. op'.pc = "done" /\ op'.ret = -1
  BY DEF Failed, IInv, Base, TypeOK, TypeOp, Call
<1>2. Resting'
  BY InUse DEF Resting
<1> QED
  BY <1>1, <1>2 DEF IInv

LEMMA IInvTransfer == IInv /\ Transfer => IInv'
<1> SUFFICES ASSUME IInv, Transfer PROVE IInv'
  OBVIOUS
<1>1. Base'
  BY BaseTransfer DEF IInv
<1>2. CASE CodeKnown
  <2>1. PICK i \in Slot : /\ Serves(table[i])
                          /\ op' = [op EXCEPT !.code = i, !.pc = "xfer"]
    BY <1>2 DEF CodeKnown
  <2>2. op.pc = "code" /\ op.kind # "none" /\ op.left > 0
    BY <1>2 DEF CodeKnown, IInv, Base, Shape
  <2>3. /\ op'.code = i /\ op'.pc = "xfer" /\ op'.kind = op.kind
        /\ op'.at = op.at /\ op'.left = op.left /\ op'.addr = op.addr
        /\ op'.len = op.len /\ op'.data = op.data /\ op'.over = op.over
        /\ op'.ret = op.ret
    BY <2>1 DEF IInv, Base, TypeOK, TypeOp, Call
  <2>4. table[i] # Unmapped
    <3>1. Block # 0 /\ op.kind \in {"read", "write"}
      BY <2>2, ChunkInside DEF IInv, Base, TypeOK, TypeOp, Call
    <3> QED
      BY <2>1, <3>1 DEF Serves, Unmapped
  <2>5. devtab[i] = table[i]
    BY <2>2, <2>4, InUse DEF IInv, Coherent
  <2>6. UNCHANGED <<table, index, devtab, regs, active, life, serio, settled>>
    BY <1>2 DEF CodeKnown
  <2>7. Mapped'
    BY <2>1, <2>3, <2>5, <2>6 DEF Mapped, Serves, Block
  <2>8. Resting' /\ Coherent'
    BY <2>2, <2>6, InUse DEF IInv, Resting, Coherent
  <2>9. Moved => Moved'
    BY <2>3, <2>6 DEF Moved, Off
  <2> QED
    BY <1>1, <2>3, <2>7, <2>8, <2>9 DEF IInv
<1>3. CASE CodeMapped
  <2>1. op.pc = "code" /\ op.kind # "none" /\ op.left > 0 /\ index \in Slot
    BY <1>3 DEF CodeMapped, Unknown, IInv, Base, Shape, TypeOK, TypeTables
  <2>2. /\ op'.code = index /\ op'.pc = "xfer" /\ op'.kind = op.kind
        /\ op'.at = op.at /\ op'.left = op.left /\ op'.addr = op.addr
        /\ op'.len = op.len /\ op'.data = op.data /\ op'.over = op.over
        /\ op'.ret = op.ret
    BY <1>3 DEF CodeMapped, IInv, Base, TypeOK, TypeOp, Call
  <2>3. /\ devtab' = [devtab EXCEPT ![index] = NewMap]
        /\ table' = [table EXCEPT ![index] = NewMap]
        /\ UNCHANGED <<regs, life, serio, settled>>
    BY <1>3 DEF CodeMapped
  <2>4. devtab'[index] = NewMap
    BY <2>1, <2>3 DEF IInv, Base, TypeOK, TypeTables
  <2>5. Mapped'
    <3>1. /\ devtab'[index].addr = op.at /\ devtab'[index].count = Block
          /\ op.kind = "write" => devtab'[index].we
      <4>1. NewMap.addr = op.at /\ NewMap.count = Block
        BY DEF NewMap
      <4>2. ASSUME op.kind = "write" PROVE NewMap.we
        <5>1. NewMap.we = (op.kind = "write")
          BY Zenon DEF NewMap
        <5> QED
          BY <4>2, <5>1
      <4> QED
        BY <2>4, <4>1, <4>2
    <3>2. Block' = Block
      BY <2>2 DEF Block
    <3> QED
      BY <2>2, <3>1, <3>2 DEF Mapped
  <2>6. Coherent'
    BY <2>1, <2>3, InUse DEF IInv, Base, TypeOK, TypeTables, Coherent
  <2>7. Resting'
    BY <2>1, <2>3, InUse DEF Resting
  <2>8. Moved => Moved'
    BY <2>2, <2>3 DEF Moved, Off
  <2> QED
    BY <1>1, <2>2, <2>5, <2>6, <2>7, <2>8 DEF IInv
<1>4. CASE CodeLost
  <2>1. /\ op.pc = "code" /\ op.kind # "none" /\ index \in Slot /\ Failed
        /\ UNCHANGED <<life, serio, settled>>
    BY <1>4 DEF CodeLost, Unknown, IInv, Base, Shape, TypeOK, TypeTables
  <2>2. /\ table' = [table EXCEPT ![index] = Unmapped]
        /\ \A i \in Slot : i # index => devtab'[i] = devtab[i]
    BY <1>4 DEF CodeLost, IInv, Base, TypeOK, TypeTables
  <2>3. Coherent'
    BY <2>1, <2>2, InUse DEF IInv, Base, TypeOK, TypeTables, Coherent
  <2> QED
    BY <1>1, <2>1, <2>3, IInvFailed
<1>5. CASE ReadChunk
  <2> DEFINE e == devtab[op.code]
  <2>1. /\ op.pc = "xfer" /\ op.kind = "read" /\ op.left > 0
        /\ UNCHANGED <<table, index, devtab, regs, active, life, serio, settled>>
    BY <1>5 DEF ReadChunk, IInv, Base, Shape
  <2>2. e.addr = op.at /\ e.count = Block
    BY <2>1 DEF IInv, Mapped
  <2>3. op' = [op EXCEPT
           !.data = [k \in 0 .. op.len - 1 |->
                       IF k \in Off .. Off + e.count - 1
                       THEN Sent(e, k - Off) ELSE op.data[k]],
           !.over = @ \/ Off + e.count > op.len,
           !.at = @ + MaxCount, !.left = @ - MaxCount,
           !.pc = Loop(op.left - MaxCount)]
    BY <1>5 DEF ReadChunk
  <2>4. /\ op'.data = [k \in 0 .. op.len - 1 |->
                         IF k \in Off .. Off + Block - 1
                         THEN Sent(e, k - Off) ELSE op.data[k]]
        /\ op'.over = (op.over \/ Off + Block > op.len)
        /\ op'.at = op.at + MaxCount /\ op'.addr = op.addr
        /\ op'.len = op.len /\ op'.ret = op.ret
        /\ op'.pc = Loop(op.left - MaxCount)
    BY <2>2, <2>3 DEF IInv, Base, TypeOK, TypeOp, Call
  <2>5. /\ Off \in Nat /\ Off + Block <= op.len /\ Block \in 1 .. MaxCount
        /\ Block <= op.left
    BY <2>1, ChunkInside DEF IInv
  <2>6. ASSUME Moved PROVE Moved'
    <3>1. ~op'.over
      BY <2>4, <2>5, <2>6, Numbers DEF Moved, IInv
    <3>2. ASSUME NEW k \in 0 .. op.len - 1, k < Off + MaxCount
          PROVE  op'.data[k] = regs[op.addr + k]
      <4>1. CASE k < Off
        <5>1. op'.data[k] = op.data[k]
          BY <2>4, <2>5, <4>1
        <5> QED
          BY <2>6, <4>1, <5>1 DEF Moved
      <4>2. CASE k >= Off
        <5>1. k \in Off .. Off + Block - 1
          BY <2>5, <3>2, <4>2, Numbers, SizesAssumption DEF Block, Off, IInv
        <5>2. op'.data[k] = Sent(e, k - Off)
          BY <2>4, <5>1
        <5>3. op.at + (k - Off) = op.addr + k /\ op.addr + k \in Addr
          BY <2>1, <2>5, <5>1, Numbers, SizesAssumption DEF IInv, Off, Addr
        <5> QED
          BY <2>2, <5>2, <5>3 DEF Sent
      <4> QED
        BY <2>5, <4>1, <4>2
    <3>3. Off' = Off + MaxCount
      BY <2>4, Numbers, SizesAssumption DEF Off, IInv
    <3> QED
      BY <2>1, <2>4, <3>1, <3>2, <3>3 DEF Moved
  <2>7. Resting' /\ Coherent'
    BY <2>1, InUse DEF IInv, Resting, Coherent
  <2>8. op'.pc # "xfer" /\ op.kind # "none"
    BY <2>1, <2>4 DEF Loop
  <2> QED
    BY <1>1, <2>4, <2>6, <2>7, <2>8 DEF IInv
<1>6. CASE ReadChunkFails
  <2>1. Coherent'
    BY <1>6 DEF ReadChunkFails, IInv, Coherent
  <2> QED
    BY <1>1, <1>6, <2>1, IInvFailed DEF ReadChunkFails
<1>7. CASE WriteChunk
  <2> DEFINE e == devtab[op.code]
  <2>1. /\ op.pc = "xfer" /\ op.kind = "write" /\ op.left > 0
        /\ UNCHANGED <<table, index, devtab, active, life, serio, settled>>
        /\ regs' = Stored(e)
    BY <1>7 DEF WriteChunk, IInv, Base, Shape
  <2>2. e.addr = op.at /\ e.we
    BY <2>1 DEF IInv, Mapped
  <2>3. /\ op'.at = op.at + Block /\ op'.addr = op.addr /\ op'.len = op.len
        /\ op'.data = op.data /\ op'.over = op.over /\ op'.ret = op.ret
        /\ op'.pc = Loop(op.left - Block)
    BY <1>7 DEF WriteChunk, IInv, Base, TypeOK, TypeOp, Call
  <2>4. /\ Off \in Nat /\ Off + Block <= op.len /\ Block \in 1 .. MaxCount
        /\ Block <= op.left
    BY <2>1, ChunkInside DEF IInv
  <2>5. ASSUME Moved PROVE Moved'
    <3>1. ASSUME NEW k \in 0 .. op.len - 1, k < Off + Block
          PROVE  op.data[k] = regs'[op.addr + k]
      <4>1. op.addr + k \in Addr
        BY <2>1, Numbers, SizesAssumption DEF IInv, Addr
      <4>2. CASE k < Off
        <5>1. op.addr + k \notin op.at .. op.at + Block - 1
          BY <2>4, <4>2, Numbers, SizesAssumption DEF IInv, Off
        <5>2. regs'[op.addr + k] = regs[op.addr + k]
          BY <2>1, <2>2, <4>1, <5>1 DEF Stored
        <5> QED
          BY <2>5, <4>2, <5>2 DEF Moved
      <4>3. CASE k >= Off
        <5>1. /\ op.addr + k \in op.at .. op.at + Block - 1
              /\ Off + ((op.addr + k) - op.at) = k
          BY <2>4, <3>1, <4>3, Numbers, SizesAssumption DEF IInv, Off
        <5> QED
          BY <2>1, <2>2, <4>1, <5>1 DEF Stored
      <4> QED
        BY <2>4, <4>2, <4>3
    <3>2. Off' = Off + Block
      BY <2>3, <2>4, Numbers, SizesAssumption DEF Off, IInv
    <3> QED
      BY <2>3, <2>5, <3>1, <3>2 DEF Moved
  <2>6. Resting' /\ Coherent'
    BY <2>1, InUse DEF IInv, Resting, Coherent
  <2>7. op'.pc # "xfer" /\ op.kind # "none"
    BY <2>1, <2>3 DEF Loop
  <2> QED
    BY <1>1, <2>3, <2>5, <2>6, <2>7 DEF IInv
<1>8. CASE WriteChunkFails
  <2>1. Coherent'
    BY <1>8 DEF WriteChunkFails, IInv, Coherent
  <2> QED
    BY <1>1, <1>8, <2>1, IInvFailed DEF WriteChunkFails
<1>9. CASE Return
  <2>1. op' = NoOp
        /\ UNCHANGED <<table, index, devtab, regs, active, life, serio, settled>>
    BY <1>9 DEF Return
  <2>2. op'.pc = "idle" /\ op'.kind = "none"
    BY <2>1 DEF NoOp
  <2>3. Resting' /\ Coherent'
    BY <2>1, <2>2 DEF IInv, Resting, Coherent
  <2> QED
    BY <1>1, <2>2, <2>3 DEF IInv
<1> QED
  BY <1>2, <1>3, <1>4, <1>5, <1>6, <1>7, <1>8, <1>9 DEF Transfer

LEMMA IInvLifecycle == IInv /\ Lifecycle => IInv'
<1> SUFFICES ASSUME IInv, Lifecycle PROVE IInv'
  OBVIOUS
<1>1. Base'
  BY BaseLifecycle DEF IInv
<1>2. UNCHANGED op
  BY DEF Lifecycle, Probe, Remove, Reset, Suspend, SerioResume, Resume,
         Configure
<1>3. op.pc = "idle" /\ op.kind = "none"
  <2>1. op.pc = "idle"
    BY DEF IInv, Resting, Lifecycle, Probe, Remove, Reset, Suspend,
           SerioResume, Resume, Configure
  <2> QED
    BY <2>1 DEF IInv, Base, Shape
<1>4. Resting'
  BY <1>2, <1>3 DEF IInv, Resting, Lifecycle, Probe, Remove, Reset, Suspend,
         SerioResume, Resume, Configure
<1>5. Coherent'
  <2>1. CASE Probe \/ Reset \/ Configure
    BY <2>1 DEF IInv, Resting, Coherent, Probe, Reset, Configure, NoTable
  <2>2. CASE Remove \/ Suspend \/ Resume
    BY <2>2 DEF Coherent, Remove, Suspend, Resume
  <2>3. CASE SerioResume
    BY <2>3 DEF IInv, Resting, Coherent, SerioResume
  <2> QED
    BY <2>1, <2>2, <2>3 DEF Lifecycle
<1> QED
  BY <1>1, <1>2, <1>3, <1>4, <1>5 DEF IInv

LEMMA IInvNext == IInv /\ [Next]_vars => IInv'
<1>1. IInv /\ UNCHANGED vars => IInv'
  <2> SUFFICES ASSUME IInv, UNCHANGED vars PROVE IInv'
    OBVIOUS
  <2>1. Base'
    BY BaseNext DEF IInv
  <2> QED
    BY <2>1 DEF vars, IInv, Resting, Coherent, Mapped, Moved, Off, Block
<1> QED
  BY <1>1, IInvClient, IInvTransfer, IInvLifecycle DEF Next

\* The invariant from which the properties follow.
THEOREM MapsAgree == Spec => []IInv
  BY IInvInit, IInvNext, PTL DEF Spec

\* A mapping the driver knows of is one the device has, whenever the transport
\* is in use: after failed table writes, resets and sleep.
THEOREM MappingsCoherent == Spec => []Coherent
<1>1. IInv => Coherent
  BY DEF IInv
<1> QED
  BY <1>1, MapsAgree, PTL

\* A block read or write that returns success has moved exactly the bytes it
\* was called for, whatever the chunks and however mappings were replaced.
THEOREM TransfersExact == Spec => []Exact
<1>1. ASSUME IInv, op.pc = "done", op.kind # "none", op.ret = 0
      PROVE  /\ ~op.over
             /\ \A k \in 0 .. op.len - 1 : op.data[k] = regs[op.addr + k]
  <2>1. Moved /\ op.left <= 0
    BY <1>1 DEF IInv, Base, Shape
  <2>2. Off >= op.len
    BY <1>1, <2>1, Numbers DEF IInv, Off
  <2>3. \A k \in 0 .. op.len - 1 : k < Off
    BY <1>1, <2>2, Numbers DEF IInv, Off
  <2> QED
    BY <2>1, <2>3 DEF Moved
<1>2. IInv => Exact
  BY <1>1 DEF Exact
<1> QED
  BY <1>2, MapsAgree, PTL

\* No operation reaches a device that was reset after the settle time began.
THEOREM SettledFirst == Spec => []ConfiguredSettled
<1>1. IInv => ConfiguredSettled
  BY InUse DEF ConfiguredSettled
<1> QED
  BY <1>1, MapsAgree, PTL

\* A transfer, failed or not, changes only registers it was called to write,
\* and gives them only what it was called to write.
THEOREM WritesConfined == Spec => WriteConfined
<1> DEFINE Confined ==
      active' /\ op.kind # "none" =>
        \A a \in Addr : regs'[a] # regs[a] =>
          /\ op.kind = "write" /\ a \in op.addr .. op.addr + op.len - 1
          /\ regs'[a] = op.data[a - op.addr]
<1>1. ASSUME IInv, Next, UNCHANGED regs PROVE Confined
  BY <1>1
<1>2. ASSUME IInv, op.kind = "write", op.pc = "xfer",
             regs' = Stored(devtab[op.code])
      PROVE  Confined
  <2>1. op.left > 0 /\ devtab[op.code].addr = op.at
    BY <1>2 DEF IInv, Base, Shape, Mapped
  <2>2. Off \in Nat /\ Off + Block <= op.len /\ Block \in Nat
    BY <1>2, <2>1, ChunkInside DEF IInv
  <2>3. ASSUME NEW a \in Addr, regs'[a] # regs[a]
        PROVE  /\ a \in op.addr .. op.addr + op.len - 1
               /\ regs'[a] = op.data[a - op.addr]
    <3>1. /\ a \in op.at .. op.at + Block - 1
          /\ regs'[a] = op.data[Off + (a - op.at)]
      BY <1>2, <2>1, <2>3 DEF Stored
    <3>2. Off + (a - op.at) = a - op.addr
      BY <1>2, Numbers DEF IInv, Off, Addr
    <3>3. a \in op.addr .. op.addr + op.len - 1
      BY <1>2, <2>2, <3>1, Numbers DEF IInv, Off, Addr
    <3> QED
      BY <3>1, <3>2, <3>3
  <2> QED
    BY <1>2, <2>3
<1> HIDE DEF Confined
<1>3. ASSUME IInv, Next PROVE Confined \/ UNCHANGED regs
  <2>1. CASE Client
    BY <2>1 DEF Client, ReadBlock, WriteBlock
  <2>2. CASE Transfer
    <3>1. CASE WriteChunk \/ WriteChunkFails
      <4>1. /\ op.kind = "write" /\ op.pc = "xfer"
            /\ regs' = Stored(devtab[op.code]) \/ UNCHANGED regs
        BY <3>1 DEF WriteChunk, WriteChunkFails
      <4> QED
        BY <1>2, <1>3, <4>1
    <3>2. CASE ~(WriteChunk \/ WriteChunkFails)
      BY <2>2, <3>2 DEF Transfer, CodeKnown, CodeMapped, CodeLost, ReadChunk,
             ReadChunkFails, Return
    <3> QED
      BY <3>1, <3>2
  <2>3. CASE Lifecycle
    <3>1. CASE SerioResume
      BY <3>1 DEF SerioResume, Confined
    <3>2. CASE ~SerioResume
      BY <2>3, <3>2 DEF Lifecycle, Probe, Remove, Reset, Suspend, Resume,
             Configure
    <3> QED
      BY <3>1, <3>2
  <2> QED
    BY <1>3, <2>1, <2>2, <2>3 DEF Next
<1>4. IInv /\ [Next]_vars => [Confined]_vars
  BY <1>1, <1>3
<1>5. [][Confined]_vars => WriteConfined
  BY PTL DEF WriteConfined, Confined
<1> QED
  BY <1>4, <1>5, MapsAgree, PTL DEF Spec

=============================================================================
