# Verification of thinkpad-t14-amd-touchpad

TLA+ models of the kernel modules this repository patches and rebuilds, checked
with TLC and proved about with TLAPS. All paths below are relative to the
repository; "0001" is
`patches/0001-i2c-piix4-add-SMBus-Host-Notify-through-the-ASF-target-block-on-SMB0001-platforms.patch`
and "0001:N" its line N.

## 1. The system

The package rebuilds three kernel modules from pristine sources in `drivers/`
plus `patches/*.patch` and `patches/backports/*.patch`, so that a Synaptics
touchpad runs over RMI4/SMBus instead of PS/2. The RMI4 core, which is not
rebuilt, is present as an unmodified copy in `research/rmi4`.

| Component | State it keeps | Operations | What must hold |
|---|---|---|---|
| Host Notify through the ASF block (0001, in `i2c-piix4`) | the block's registers and banks, `struct piix4_asf`, two mutexes, lists of collected addresses | hard handler, thread, transfer wrapper, enable/start/stop/disable, suspend/resume | no acknowledged notify is lost; a transfer sees the right side of port 0x07; stop is final; nothing is delivered into a dead adapter; nobody waits for ever |
| SMBus transaction engine (`piix4_transaction`, `piix4_access`) | host registers | one transaction | every end of a transaction is reported, and what is reported belongs to it |
| SB800 multiplexer and IMC (`piix4_access_sb800`, `piix4_imc_*`) | muxed region, SMBus semaphore, port selection, `notify_imc` | a transfer on one of the ports | port and semaphore are given back however a transfer ends, the IMC is woken whenever it was put to sleep |
| RMI4 over SMBus (`rmi_smbus.c`, patch 0002) | driver and device mapping table, `table_index` | read/write block, reset, suspend/resume | a command code always stands for the address and length it was used for |
| RMI4 core and functions (`rmi_driver.c`, F01, F03, F12) | interrupt masks, shared status buffer, the sleep mode, the F03 port | probe, interrupt thread, reset handler, open/close of the port, suspend/resume, remove | the driver's mask is the device's, no interrupt read is dropped, the device is configured after a resume, nothing freed is used |
| psmouse byte stream (`psmouse-base.c`) | state, packet, counters | byte received, resync work, reconnect | no byte past the array; the port never stays deaf for good |
| psmouse lifecycle (`psmouse-base.c`, backport 0101) | protocol, `private`, parent and child | connect, reconnect, disconnect, attribute writes, protocol switch | nothing runs on freed data, parent and child are both in use afterwards |
| psmouse SMBus companion (`psmouse-smbus.c`) | list of companions, `dead`, client | init, notifier, disconnect, removal work | every record is freed once, by whichever side comes second; no adapter is missed |
| Synaptics (`synaptics.c`, patches 0003 to 0005) | capabilities, pass-through port, packet size of the child | detect, init, process byte, reconnect | the child is never touched when freed, and its bytes are packed as it sends them |
| Interleaved ALPS stream (`alps.c`) | packet, flush timer | process byte, flush | packets inside packets are taken apart whole |
| The other PS/2 protocols | per-protocol state | detect, init, process byte | not a subject of these models |
| Packaging, DKMS, tools, research | none at run time | build scripts, captures | not a subject of these models |

How they interact. psmouse finds a pad that supports RMI4 and creates an i2c
companion on an adapter that advertises Host Notify; `rmi_smbus` binds to it,
the RMI core reads its interrupt status and F03 registers a serio port for the
trackstick; all of it transfers through `piix4_access_asf()`; the pad, a second
master of the same bus, sends Host Notify messages, which the ASF block receives
into one of two banks and `i2c-piix4` turns into calls of
`i2c_handle_smbus_host_notify()`, the interrupt of the RMI core. The PS/2 side
resets the pad over a sleep. Without an adapter the pad stays on PS/2, with the
trackstick on the pass-through port of its protocol.

What is hard. All of it is about order. In `i2c-piix4` the block is either
receiver or master and is switched around every transfer; the hard handler takes
no lock; two contexts drain the same banks under a mutex and deliver outside it;
firmware may reset the block over a sleep; teardown waits for contexts that wait
for the mutex it holds. In psmouse the interrupt handler is kept out by another
lock than the threads, the resync work and the disconnect wait for each other,
the change of a protocol drops its mutex half way, and the companion's record is
shared by three paths that each may free it. In the RMI core one mask is kept
twice and changed by three contexts. `PROJECT.json` lists each hazard at its
line.

## 2. Modules

| Module | What it is | Reads with |
|---|---|---|
| `HostNotify` | the promise to the clients of the adapter: at-least-once per device, with the times at which it is suspended | the comments at 0001:537 and 0001:774 |
| `AsfNotify` | the driver of 0001 over a model of the block | 0001:112-191, 0001:332-1188 |
| `AsfNotifyProofs` | theorems about `AsfNotify` | |
| `PiixSb800` | a transfer on a shared host: semaphore, IMC, port selection, transaction, for any number of adapters | `drivers/i2c/busses/i2c-piix4.c` |
| `PiixSb800Proofs` | theorems about `PiixSb800` | |
| `RmiSmbMap` | block reads and writes of the RMI4 transport through a table of mappings that driver and device each have, over failures, resets and sleep | `drivers/input/rmi4/rmi_smbus.c`, patch 0002 |
| `RmiSmbMapProofs` | theorems about `RmiSmbMap` | |
| `RmiCore` | the core above that transport: masks, status, configuration, the F03 port, sleep and removal | `research/rmi4/src/rmi_driver.c`, `rmi_f01.c`, `rmi_f03.c`, `rmi_f12.c` |
| `RmiCoreProofs` | theorems about `RmiCore` | |
| `PsmousePort` | one PS/2 port: bytes, resync work, serio thread, attribute writer | `drivers/input/mouse/psmouse-base.c`, backport 0101 |
| `PsmousePortProofs` | theorems about `PsmousePort` | |
| `PassThrough` | a touchpad and the trackstick behind it: two psmouse, the serio thread, a user, a resync | `psmouse-base.c`, `synaptics.c` |
| `PassThroughProofs` | theorems about `PassThrough` | |
| `PsmouseSmbus` | companion records, the i2c notifier, the removal work and the port that owns them | `psmouse-smbus.c`, `synaptics.c` |
| `PsmouseSmbusProofs` | theorems about `PsmouseSmbus` | |
| `AlpsStream` | a device that interleaves packets and the driver that takes them apart | `alps.c` |
| `AlpsStreamProofs` | theorems about `AlpsStream` | |
| `...MC` | how often each external event may happen in a run | |

The models do not share state; what lies between two of them is an assumption
of one about the other. `RmiSmbMap` takes from `AsfNotify` that a transfer ends,
and assumes no more than that it may fail with or without effect; so does
`RmiCore` of `RmiSmbMap`. `AsfNotify` and `PiixSb800` are the two transfer paths
of `i2c-piix4` (a machine has one or the other). `PassThrough` takes the byte
stream of `PsmousePort` as one event (a loss of synchronisation), and
`PsmousePort` leaves parent and child to `PassThrough` and the companion to
`PsmouseSmbus`.

### AsfNotify and the code

`reg` is the set of register bits that read one; `banks` the full flags, the
stuck flags and the contents of the two banks; `asf` the set of booleans that
are true (`active`, `irq_requested` as "irq", `want_listen` as "want",
`listening`, `pending`, `piix4_asf_deliver_ok` as "deliver", the aux adapter and
its host-notify domain); `saved` the `boot_*` fields; `owner` the holder of
`piix4_asf_mutex`; `notes` the two `struct piix4_asf_notifies`; `dr` and `xf`
the locals of the drain and the transfer in progress.

There is one program counter per context. "H" is the hard handler, which takes
no lock; "T" its thread; "X" a transfer; "L" the lifecycle (probe, suspend,
resume, remove, shutdown, which the driver core runs one after another). The
notify mutex is modelled by the label "calling", which at most one of T and X
can be at. A context's label is where it may be interrupted; every action is
what happens between two such places.

* The handler is five actions: `HClaim` (read and ack), `HArmed`/`HWake` (note
  and wake), `HRead`/`HWrite` (the read-modify-write of ASFSLVEN, split, since
  no lock protects it).
* A drain (`Drain(p)`) takes one step for the status and pending flag, one for
  reading a bank and one for consuming it, so messages and handlers may come
  between any two register accesses that matter.
* `Arm(p)` is `piix4_asf_slave_arm()`: all up to the reset bit, the reset bit,
  the interrupt.
* `Deliver(p)` takes the notify mutex, tests, calls, returns.
* `T...`, `X...` and `L...` are the thread, the transfer wrapper and the
  lifecycle; each `UNCHANGED` says what the code leaves alone.
* `Receive`, `ReceiveError` and `Stick` are the bus and the block.

Merged steps. A locked section of L that runs while the slave is off
(`LQuiesce`, `LMaster`, `LClaim`, `LRestore`) is one action: the accesses other
contexts could see between its parts commute with it, since LISTN goes off
first, T and X wait for the mutex, and the handler's only write is the one of
ASFSLVEN, which is kept apart. The reads and writes of one register inside a
locked section are one step, but for the handler's.

#### Its assumptions about the hardware

The repository's comments say what the block was seen to do; what they leave
open is resolved so that more can go wrong. SLV_INT latches on every acceptance,
enabled or not. Any free bank may take a message; with none free the message is
not acknowledged. The reset bit clears full and stuck flags but not the bytes
(`process_bank` reads an unflagged bank 0 as a fallback). A reception error
stays in ASFSLVSTA until it is written. A full flag may stick; writing it does
not clear it, a reset does. The line is up while the interrupt is enabled and
either SLV_INT or a full flag is set, or a finished transaction has not been
acked. It may be shared: the handler may run at any time it is requested and
not masked. A bank is read in one step. Firmware leaves any configuration
except LISTN (`Boot`), perhaps with SLV_INT latched (`Leftover`).

Left out: the bytes of messages (a message is its sender, or `Junk` that does
not decode), PEC, the port numbers, the `_CRS` walk and GSI registration (they
fail before the block is touched, `LUnsupported`), and the stock transfer after
the block is given back, which touches nothing modelled. One transfer runs at a
time: the i2c core holds the adapter's bus lock around it.

### RmiSmbMap and the code

`table` and `index` are `mapping_table` and `table_index`; `devtab`, `regs` and
`active` are the device: its own table, its registers, and whether the read of
its version has activated it; `op` holds the locals of `rmi_smb_read_block()` or
`rmi_smb_write_block()`; `life` and `serio` say whether the companion and the
PS/2 port are in use, asleep or resuming. `page_mutex` admits one block
operation at a time, so there is one `op`.

A chunk is two steps. `CodeKnown`, `CodeMapped` and `CodeLost` are the three ways
out of `rmi_smb_get_command_code()`, each a step of its own since
`mappingtable_mutex` is held throughout: an entry serves, a new mapping is
written, or writing it fails and the driver's entry is cleared.
`ReadChunk`, `WriteChunk` and their failing forms are the transfer under the
code that was found. `Probe`, `Remove`, `Reset`, `Suspend`, `Resume` and
`Configure` (the end of the settle time of patch 0002) are the lifecycle;
`SerioResume` is `psmouse_smbus_reconnect()`, whose deactivation resets the
device.

Assumptions: a device sends as many bytes as its own mapping says, from the
address its own mapping says, and ignores a block written to a mapping that is
not write-enabled; a reset empties its table and its registers; it answers
nothing before it is activated; registers do not change by themselves. The
device link that `psmouse-smbus.c` adds makes the companion resume after the
port (`Resume` waits for `serio`). Suspend finds no operation in progress:
`rmi_driver_suspend()` has disabled the interrupt and stopped the functions by
then. Both are code outside this repository's drivers. `settled` is time in one
bit: no reset since the settle time began.

### PiixSb800 and the code

`t` holds per adapter the step of `piix4_access_sb800()` it is at, its arguments
and its result; `notify` the adapters whose `notify_imc` is set; `region` the
owner of the muxed region, `sem` of the semaphore in SMBSLVCNT; `mux` the port
selection; `reg` direction and datum in the host registers. `host`, `imc` and
the device behind a port run on their own and are external: `Complete` ends a
transaction whenever it likes, also one the driver gave up; `Serve` lets the IMC
read its mailbox; `ImcTakes` uses the semaphore for itself. `Semaphore` to
`Release` are the driver's steps in the order of the code; the ways back
(`Restore`, `Post`, `Wake`, `Release`) are its gotos. A datum stands for the
bytes of a transfer, a read is answered with the name of the port, and a block
length is either right or refused. `region` is a lock: what the resource tree
may refuse is in `AsfNotify`.

### RmiCore and the code

A function has one interrupt bit, named like it. `current` is
`current_irq_mask`, `listen` is `fn_irq_bits`, `buffer` is `irq_status`, and
`dev` is the device's own mask, status, sleep mode and unconfigured bit. The
contexts are "M" (probe, suspend, resume, remove, which the driver core runs one
after another), "I" (the thread of the interrupt) and "S" (the serio thread that
opens and closes the F03 port). `Lock`, `Write`, `Store` are
`rmi_driver_set_irq_bits()` and `rmi_driver_clear_irq_bits()` under `irq_mutex`;
`ReadMask` and `KeepMask` are `rmi_driver_reset_handler()`, which takes no
mutex; `ConfigF01`, `ConfigF12`, `ConfigF03` the pass over the functions in the
order of the PDT; `ReadStatus`, `AndListened`, `Nested` are
`rmi_process_interrupt_requests()` and the nested handlers. Reading the status
clears it in the device.

Merged: `Create` is the probe up to the request of the interrupt, during which
nobody else has the driver's data; `Freed` is the end of the removal, after which
nobody has. Assumptions: an interrupt that comes while it is disabled waits; a
Host Notify interrupt has no trigger type, so `rmi_enable_irq()` does not look
for one itself; `disable_irq()` waits for the thread, `serio_unregister_port()`
for the serio thread. `Default` is the mask of a device that was reset. `Early`
lets the device have events while the driver probes; the run does not, see the
observations. A suspend whose functions fail leaves the interrupt disabled, as
the code does, and is covered by the ghost `sound`, which says that nothing
failed and the device was not reset since it was configured.

### PsmousePort and the code

`st`, `cnt`, `oos`, `head` and `age` are `state`, `pktcnt`, `out_of_sync_cnt`,
whether `packet[0]` is 0xAA, and the time since `last` in three classes. `Receive`
is the interrupt handler: `psmouse_pre_receive_byte()`, `psmouse_receive_byte()`
and `psmouse_handle_byte()` in one action, since they run under the port's
interrupt lock; the verdict of the protocol is arbitrary except that a packet is
full from `PktSize` bytes on. The resync work (`W...`) is a step for each
command, and its unlocked `pktcnt++` is a load and a store, because the handler
runs between them. The serio thread has `psmouse_reconnect()` (`R...`, `S...`),
`psmouse_disconnect()` of backport 0101 (`D...`) and `psmouse_connect()`
(`C...`); the writer of an attribute is `A...`. A command that fails may have
reached the mouse or not.

Assumptions and omissions: the serio core serves every request it is given and
removes the attributes, waiting for their writers, before it disconnects a port.
There is one port, without parent or child, out-of-band bytes or a companion.

### PassThrough and the code

`par` and `kid` are the two psmouse: state, whether the mouse reports, and what
the other needs of it; `pt` is `pt_port`, `pt_port_open` and the bit of four-byte
clients in `mode`; `port` the serio port of the child and `todo` the events of
the serio core. A thread has an activity ("connect", "reconnect", ... of the child; "p_..."
of the parent) and a step in it. `Lock` to `Unlock` are the child's side,
which always ends in `psmouse_activate(parent)`; `PLock` to `PUnlock` the
parent's; `Children`, `Unregister`, `Relock` the loop of
`psmouse_attr_set_protocol()` that drops `psmouse_mutex` and takes the serio
mutex through `serio_unregister_child_port()`.

Assumptions and omissions: a port whose reconnect fails is disconnected, its
children first, and connected anew, as the serio core does. Commands to a mouse
that is there succeed (`PsmousePort` has those that fail); a probe, a
registration or a resync may fail. `psmouse_cleanup()`, the fast reconnect and
the retry loop of a child's reconnect are left out. `Hasty` allows a change of
protocol while the child port is still to be registered, see the observations.

### PsmouseSmbus and the code

`rec` is `struct psmouse_smbus_dev` (psmouse, client, dead), `list` the list and
`live` what is allocated; `port` the psmouse that owns one of them, with the step
of its connect or disconnect; `client`, `pdata` and `jobs` the i2c clients, their
platform data and the queued removals; `bus`, `adding`, `leaving` the adapters
and the calls of the notifier still to come. `psmouse_mutex` makes the port one
process and `psmouse_smbus_mutex` each walk of the list a step, so what
interleaves is what the code lets interleave: the walk over the adapters
(`WalkMiss`, `WalkHit`), the assignment of the client after it was made
(`Assign`), the notifier (`CheckAdapter`, `Detach`) and the work (`RunJob`). A
freed record or psmouse may be handed out again under its old name.

Assumptions and omissions: the i2c core lets the removal of an adapter wait for
a walk; the memory of a client that was freed with its adapter is not used for
another while a job has it, a race the source declares at `psmouse-smbus.c:137`;
what the companion does with the device is in the other modules. `tried` is
history: on which adapters a record's touchpad was looked for.

### AlpsStream and the code

The device (`Begin`) sends touchpad packets of six bytes, bare packets of three,
and bare packets in the middle of touchpad packets; a byte is known by the bits
the driver looks at, and carries its origin for the properties. `Receive` is
`alps_process_byte()` under `psmouse_handle_byte()`: `Process` chooses between a bare
packet, `alps_handle_interleaved_ps2()` (`Stuffed`, `Seventh`) and the ordinary
case; `Expire` and `Flush` are the timer and `alps_flush_packet()`. `Lose` loses
a byte.

Assumptions: ALPS protocol V2 in interleaved mode on an activated port; pauses of
20 ms occur only between packets; an expired callback is overtaken by at most
`Lag` bytes. 0xAA is left out, the reconnect after `ResetAfter` bad packets is
that the count starts again, and the half-second time-out never meets a packet
that is not empty. `Recovers` is asked of ordinary bytes that cannot pass for the
start of a bare packet; see the observations for those that can.

## 3. Runs

| Run | Instance | Properties | Shows |
|---|---|---|---|
| `traffic` | 3 notifies, 1 stuck flag, 1 transfer; or 2 notifies, 1 error, 1 transfer, 1 sleep | `TypeOK`, `NoLoss`, `XferOutcome`, `ArmedWhenListening`, `DeliveryFence` | no interleaving of handler, thread, transfer and wedge recovery loses the last trace of an acknowledged notify; the handler's ack does not change a transfer's result; whoever armed last, a listening driver has an armed slave with its interrupt enabled; no delivery outlives the domain |
| `upheaval` | 2 notifies or junk, 2 transfers, 2 busy regions, 1 sleep, latched boot state | `WindowRouting`, `FirmwareRestored`, `QuietAfterStop` | mode, window and stop discipline under every teardown |
| `promise` | 2 notifies, 1 transfer; or 1 notify, 1 stuck flag, 1 transfer, 1 sleep; fairness | `Promise`, `NoneWaitsForever` | `AsfNotify` implements `HostNotify`; no deadlock between the mutex, `synchronize_hardirq()` and `free_irq()` |
| `sb800` | 2 adapters, 2 tries; 2 stalled transactions, or an IMC late twice and its mailbox taken twice | `Restored`, `Exclusive`, `ImcInStep`, `ResultMine` | port and semaphore come back however a transfer ends; a transfer that was given up and ends inside another's does not pass for its read |
| `rmi` | table of 2, chunks of 2, 3 registers, calls of up to 3 bytes; 2 failures, 1 reset, 1 sleep | `TypeOK`, `Exact`, `Coherent`, `ConfiguredSettled`, `WriteConfined` | what a call that succeeds has moved is exact; one that fails touches nothing it was not called for; the driver's table is the device's whenever it is used |
| `core` | 3 functions; 1 failure and 1 sleep, or 1 reset and 1 unbind; fairness | `TypeOK`, `Working`, `EventsServed`, `FreedUnused`, `Settles` | the masks of driver and device agree, no interrupt that was read is dropped, the device works after a resume, removal frees nothing in use and ends |
| `port` | packets of 2 in an array of 3, reconnect after 1 bad packet, an idle mouse is polled; 1 failure and 1 unbind, or 1 reset of the mouse; fairness | `PacketInArray`, `NoUseAfterFree`, `NeverStranded`, `ActiveIsStreaming`, `BackInService` | the handler, the work and the disconnect in every order: nothing is stored past the array, nothing freed is called, no port stays deaf |
| `guest` | 2 writes, 2 losses of either, 2 failures of the child, 1 of the parent; or with 2 protocol switches and fewer failures; fairness | `GuestAlive`, `QuietTalk`, `BothInUse`, `SwitchEnds` | the child is never touched when freed, the parent is silent while one talks to it, both are in use afterwards, a protocol switch ends |
| `companion` | 2 records, 1 psmouse, 2 clients, 2 adapters; a switch with an unbind and a removal, an adapter that appears and one that goes, or a failing allocation; fairness | `RecordsValid`, `Exclusive`, `NoAdapterMissed`, `DeadRecordsGo` | three paths free one record, and each exactly when the other has left it |
| `alps` | one byte lost, a callback overtaken by 2 bytes | `Whole`, `NothingOwed`, `Recovers` | packets inside packets are reported whole and once; after a loss the rest of a touchpad packet and a whole one suffice |
| `armed_race` | latched boot state, 1 sleep | `ArmedWhenListening` | violated, finding 1 |
| `core_reset` | 1 reset | `ResetNoticed` | violated, finding 2 |

Bounds. `Budgets` is a set of allowances, each a number per kind of event; a
behaviour keeps within one of them. `AsfNotify` and `RmiSmbMap` count the chosen
one down in `left`; the others count up in `past`, which the properties may read
("unless a command failed"), and a step is possible while some allowance covers
it. Two allowances in one run are two questions with one set of properties: the
expensive combination of both is left out where the parts do not meet. Each
allowance is the smallest with which its question has a case that is not trivial:
three notifies fill both banks and leave one to be refused or to arrive during
the drain; two transfers follow each other through a sleep; two stalls let a
transaction end in the transfer after the next; two clients and two records let
one companion go while the next comes. Whatever is not an external event (bytes,
polls, opens and closes, requests of other threads) is not bounded.

`DrainMax` is 2 and `Retries` 1 (the code has 8 and 3): with two banks and one
stuck flag, two reads already declare a wedge, and one retry takes the loop
round. One device is enough where loss is per device. Calls of three bytes in
chunks of two give a full and a short chunk, and a table of two is refilled
within one call; the tables do not depend on what bytes say. Packets of two bytes
are the shortest that can be incomplete and carry the two-byte announcement; the
array has one byte more, as it has at least with every protocol but two
(observation 14). Two
tries of the semaphore have a first and a last. In `sb800` the adapters are
symmetric: nothing in the module tells one from another.

Two preconditions of `traffic` are bounds in disguise and are listed as what they
are: one device and no junk (observation 3), no latched boot state
(finding 1). `alps`, `core` and `port` have one each: `Ambiguous` and `Early` are
FALSE (observations 9 and 10), and `PktSize < ArraySize` (observation 14).

Deadlock is checked in `rmi`, `core`, `sb800` and `alps`, where a client may always call
or the device always send. The others come to rest once their events are spent and
say so in their configuration.

Fairness. `AsfNotify` has weak fairness of one action per context: a context that
can go on does; a level line that is asserted is serviced (`Line /\ HClaim`); a
mutex that keeps being free is taken. In `PsmouseSmbus` each of the port, the
bus and the work goes on while it can, the mutexes being inside the steps. In
`PsmousePort`, `PassThrough` and `RmiCore` the mutex is held over several steps
by threads that come back for it, and weak fairness would let a waiter be passed
over for ever; Linux hands a mutex to a waiter that has been passed over
(`MUTEX_FLAG_HANDOFF`), which is strong fairness of each thread. No fairness is
assumed of the bus, the mouse, clients, users, or the lifecycle's decisions.

Every property of a passing run has a mutant: a version of one action, defined
next to it, with a bug of the kind that is easy to write there (no drain before
the reset, `synchronize_irq()` for `synchronize_hardirq()`, the handler kept over
a disconnect as before backport 0101, the mutex kept while a work is waited for,
...), under which the same run fails.

## 4. Findings and observations

Findings, each with a run that shows it:

1. `armed_race`: the handler's mask is a read-modify-write from a `listening`
   read earlier (0001:752). If a handler run is under way when resume (or
   start) arms the slave, the handler's write takes SLV_INTR away again, against
   "every path that arms the slave re-enables the interrupt" (0001:750). The
   next transfer repairs it. `piix4_asf_quiesce()` avoids it with
   `synchronize_hardirq()`; the arming paths have nothing of the kind. A busy PM
   region opens the same hole: with `{Events(3, 0, 1, 1, 1, 0)}` in the instance
   of `traffic`, the thread gives up listening on a wedged bank, a handler run
   reads ASFSLVEN while the recovery holds the slave in reset, a transfer arms and
   a notify is received, and the handler's write resets the slave again. That
   refutes `ArmedWhenListening`, and `NoLoss` with it, so both are proved for
   an undisturbed region and no latched interrupt (section 5).
2. `core_reset`: `config()` is called "after a reset is detected"
   (`research/rmi4/src/rmi_bus.h:63`), and F01's attention handler detects it
   (`rmi_f01.c:700`); but nobody ever enables F01's bit in `fn_irq_bits`, so
   `rmi_process_interrupt_requests()` drops it. A device that is reset at run time
   stays unconfigured. `research/doze/WAKE-JUMP.md:188` has seen the handler "never
   fired in 7 days of logs".

Observations: statements the code does not meet, seen while modelling. Their
definitions stay in the modules; TLC refutes each with the constants given, in
an instance otherwise like the run named.

1. `NoStorm` (`promise` with `{Events(3, 0, 1, 0, 1, 0)}`): when the bank is
   wedged and the PM region busy, the thread stops listening but leaves SLV_INTR
   enabled with a full bank (0001:807). The line stays up, the handler finds no
   status bit and returns IRQ_NONE.
2. `RoomForNotify` (`DrainMax` 8, `Retries` 3, `{Events(3, 0, 3, 1, 0, 0)}`):
   `ASF_NOTIFY_MAX` is sized for "two drains per call at most" (0001:146); a
   transfer that loses the bus drains up to four times. Notifies beyond 16 are
   dropped, usually of devices that are in the list already.
3. `NoLoss` with two devices (`Dev` and `Wire` `{d1, d2}`, `DrainMax` 8,
   `Retries` 3, `{Events(4, 0, 0, 0, 0, 0)}`): the fallback read of an unflagged
   bank 0 is followed by a write that clears that bank's full flag (0001:509). A
   message of another device that arrives between the two is lost, against "nothing
   that was ACKed is discarded" (0001:779). With one device, as on the supported
   machines, the delivery that follows serves both.
4. `ReturnsAmount` (instance of `rmi`): `rmi_write_block()` is documented to
   return "the amount of bytes written" (`drivers/input/rmi4/rmi_bus.h:179`);
   this transport returns zero (`rmi_smbus.c:158`).
5. `HandlerNullOnDisconnect` (instance of `port`): backport 0101 says
   `protocol_handler` is NULL while a device is being disconnected; the
   disconnects of a change of protocol (`psmouse-base.c:1909`) and of a failed
   registration leave it set, and bytes that arrive meanwhile are still handed to
   the protocol, in command mode, or in use if the deactivation before failed.
6. `PlatformDataFreed` (`companion` with `{Times(1, 1, 0, 0, 0)}`): a disconnect
   that cleans up "breadcrumbs" also drops records whose client is still to be
   removed; the notifier then does not find the record and the platform data of
   the client is never freed (`psmouse-smbus.c:219`, `synaptics.c:1445`).
7. `ChildNeedsParent` (`guest` with `Hasty` TRUE and one switch): a protocol that
   is changed while the child port is still queued for registration leaves the
   port without its protocol (`psmouse-base.c:1879`, `synaptics.c:767`).
8. `StaysDeactivated` (`guest` with one switch): after the child ports were taken
   away with the mutex dropped, the parent is active again, since the child's
   disconnect activates it, and the old protocol is torn down over a reporting
   mouse (`psmouse-base.c:1893`).
9. `InSync` (`alps` with `Ambiguous` TRUE, `MaxLoss` 0): a bare packet right after
   a touchpad packet with all buttons pressed makes the driver drop bytes of a
   device that kept to its protocol (`alps.c:1566`). Related: after a lost byte,
   while `out_of_sync_cnt` is still 0, ordinary bytes that look like the start of
   a bare packet are taken for one (`alps.c:1616`).
10. `EventsServed` with `Early` TRUE (`core`, no events): probe and the interrupt's
    thread share `irq_status` without a lock between reading and using it, and
    an interrupt that was read by one is overwritten by the other
    (`rmi_driver.c:153`).
11. `ImcInStep` without its condition on `past`: an IMC that falls asleep after
    the driver stopped waiting for it is never woken, as the time-out cleared
    `notify_imc` (`i2c-piix4.c:844`).
12. `ResultMine` without its condition on `past`: a stalled transaction that ends
    inside the next write makes that write report success for a datum that was
    not stored (`i2c-piix4.c:559`).
13. With one reconnect of the parent that fails beside a change of protocol,
    `SwitchEnds` fails: the writer waits for the serio mutex, whose holder waits
    for the writer to leave the attribute. Both waits are in the serio and driver
    cores, which are not part of the repository (hazard at `psmouse-base.c:1893`).
14. `PacketInArray` (instance of `port` with `ArraySize` 2): with packets as long
    as the array, a byte that arrives while the resync work parses the last byte it
    polled is counted on top of a full packet and stored behind the array, in the
    next field of the structure (`psmouse-base.c:1356`). ALPS V4 and Cypress have
    packets of eight bytes (`alps.c:3156`, `cypress_ps2.c:632`) in an array of eight
    (`psmouse.h:97`); the mouse is disabled at the time, so the byte must have been
    under way. With shorter packets there is room for it.

## 5. Proofs

Every safety property that a passing run checks has a theorem. A run shows it on a small instance; the theorem shows it for every value of the
constants: any number of adapters, records, clients, registers or packet bytes,
any limits, and any set of allowances, so any number of external events. The
assumptions on constants are named in the modules and evaluated by every run;
a theorem that needs more says so in its statement. Each invariant was an
INVARIANT of the module's run before it was proved.

The modules are built alike: an inductive invariant as a conjunction of named
parts, lemmas on what the helpers do, one lemma per context or group of actions
with a step per action, one lemma that joins them, and the theorems.

### AsfNotifyProofs

| Theorem | Statement | Hypotheses |
|---|---|---|
| `Discipline` | `Spec => []Base` | |
| `TypeCorrect` | `Spec => []TypeOK` | |
| `Modal` | `Spec => []Modes` | |
| `WindowRouted` | `Spec => []WindowRouting` | |
| `DeliveryFenced` | `Spec => []DeliveryFence` | |
| `QuietOnceStopped` | `Spec => []QuietAfterStop` | |
| `OutcomeTrue` | `Spec => []XferOutcome` | |
| `RestoredOnRelease` | `Spec => []FirmwareRestored` | |
| `PromiseKept` | `Spec => Abs!Init /\ [][Abs!Next]_(Abs!vars)` | |
| `ListenerArmed` | `Spec => []ArmedWhenListening` | nothing latched by firmware, PM region not busy |
| `NothingLost` | `Spec => []NoLoss` | the same, and one device on the bus that notifies, without junk |

They rest on the four named assumptions of `AsfNotify` (`Junk` is no device and
`Wire` no more than the devices and junk; firmware does not leave LISTN set; the
limits are naturals, `DrainMax` positive; budgets are naturals). The hypotheses
of the last two are needed: finding 1 and observation 3 are what happens without
them.

* `TypeOK` is not inductive: where a drain returns to is data (`dr.ret`), whether
  a retry fits in `Retries` depends on a test made several steps earlier, and who
  may take a step depends on the mutex. `Base` adds `Mutex` (the mutex is held
  exactly at the labels of the critical sections), `Returns` and `Tries`.
* `WindowRouting` needs `Mode`: which mode the block is in at every label, and
  that a listening driver outside the critical sections has a slave; `Mode` in
  turn needs `Wanted` (listening implies want, and nothing is wanted from quiesce
  to start), without which a transfer could arm behind a stop. `DeliveryFence`
  needs `Fence`.
* `XferOutcome` needs only that the status a poll has yet to read is the one its
  transaction left (`Outcome`), although the handler may ack it first.
* `FirmwareRestored` needs `Firmware`: what is saved is what firmware left, from
  the claim to the release; no handler or thread runs while the interrupt is not
  requested, so nobody writes a register behind the release.
* `PromiseKept` is the refinement, step by step: each action of the driver is a
  step of `HostNotify` under the mapping in `AsfNotify`, or a stutter. It needs,
  beside `Base` and `Modes`, `Opened`: what is wanted can be delivered. The
  other half of `Promise`, that nobody waits for ever, is fairness and stays
  with `promise`.
* `ArmedWhenListening` needs `Armed`: how much of the arming sequence is done
  at each label of the three contexts, and that no handler is about to write
  ASFSLVEN back, except into `synchronize_hardirq()`.
* `NoLoss` needs `Kept`: while a notify is owed there is a trace of it (`Traced`:
  in a full bank; in bank 0 with a status or a pending flag that will send a
  drain there; in the hands of a drain; in a list), and the trace is in a list,
  or will be found by the fallback read, before anything that could destroy it:
  a reset, a cleared status, the end of listening (`Resets`). `Rounds` says how
  far the drain before such a point has come. That each handler run leaves
  pending set where it clears the status (`Raised`) is what carries the argument
  over the interrupt.

### PiixSb800Proofs

`Sb800Base`, `Sb800Types`, `Sb800Restored`, `Sb800Exclusive`, `Sb800ImcInStep` and
`Sb800ResultMine`, for any number of adapters and tries; `NameAssumption` keeps
the names of the other owners of the semaphore apart from adapters. `Held` says
that a transfer is under way exactly where the region is, and has the semaphore
and the port exactly at the steps that should; with it the port to restore is
known to be firmware's, whichever goto leads there. `Mailbox` follows the
dialogue with the IMC through the block transfer, `Outcome` what the controller
does and with which registers. The conditions of the two last properties on
`past` (observations 11 and 12) are in the invariants too: they are facts about
dialogues that were answered in time, and controllers that were not abandoned.

### RmiSmbMapProofs

| Theorem | Statement |
|---|---|
| `ChunksInside` | `Spec => []Base` |
| `RmiTypeCorrect` | `Spec => []TypeOK` |
| `MapsAgree` | `Spec => []IInv` |
| `MappingsCoherent` | `Spec => []Coherent` |
| `TransfersExact` | `Spec => []Exact` |
| `SettledFirst` | `Spec => []ConfiguredSettled` |
| `WritesConfined` | `Spec => WriteConfined` |

For tables, chunks, register files and calls of every size. `Base` adds to the
types that the chunk in hand lies within the call. `IInv` adds `Resting` (no
operation while the companion is not up; an empty table while it is off or
settling), `Coherent` itself, `Mapped` (a code that was found stands for the
chunk's address, length and direction in the device) and `Moved` (what has been
transferred so far is the same in buffer and registers), which is what makes
exactness of a finished call an invariant of an unfinished one. An empty entry
never serves a chunk because a chunk is never empty.

### RmiCoreProofs

`CoreInv`, `CoreTypes`, `CoreWorking`, `CoreEventsServed` and `CoreFreedUnused`,
for any order of the functions and any mask that a reset leaves, under
`Early = FALSE` (observation 10). One mask is kept twice and changed by three
contexts, one bit at a time, and a resume overwrites the device's. `Masks` says
which of `current` and the `new` of a context between its two writes the device
has, except while a resume has yet to go over the functions (`Stale`), and that
a function that is listened to is unmasked, or is still to be set by the pass
under way (`Todo`). It is asked only while nothing failed (`sound`). `Pending`
keeps the bit that is being changed and `fn_irq_bits` in step, `Places` and
`Lives` say which contexts can be where, `Probing` that nothing is noticed before
the probe is over; `Handed` follows an interrupt from the status register, which
forgets it, to its function.

### PsmousePortProofs

| Theorem | Statement | Hypotheses |
|---|---|---|
| `PortBase`, `PortTypes` | the invariant, `Spec => []TypeOK` | |
| `PortPacketInArray` | `Spec => []PacketInArray` | `PktSize < ArraySize` |
| `PortNoUseAfterFree` | `Spec => []NoUseAfterFree` | |
| `PortNeverStranded` | `Spec => []NeverStranded` | |
| `PortActiveIsStreaming` | `Spec => []ActiveIsStreaming` | at most one command fails |

The first hypothesis is observation 14. The second is how far the driver makes
good: two failing commands in a row can leave a port in use over a mouse that was
silenced. `Counting` is the argument for the unlocked `pktcnt++`: the handler
always leaves less than a packet, the work may store one more than it loaded.
`Lifecycle` says what a disconnect has waited for, `Pending` who will take a port
out of a state in which it ignores bytes, `Owners` and `Places` at which steps the
mutex is held and the state known. `Streaming` is inductive over them.

### PassThroughProofs

`GuestInv`, `GuestTypes`, `GuestStaysAlive`, `GuestQuietTalk` and `GuestBothInUse`,
for any allowances, and with `Hasty` as without. `Quiet` (who talks to the child
has silenced the parent) rests on `Mutexes` alone. `GuestAlive` needs `Place` with
`Joins` and `Parts`: what the thread that connects or disconnects a child finds at
each step, in particular that the serio thread, a user's disconnect and the
resync cannot have one child between them. For `BothInUse` the invariant is
a list of who will set things right: `Parent` and `Packets` say that where the
parent is not in use, or packs other bytes than its child sends, some thread is
before the step that mends it, or an event that brings one is queued. Once all
rest, nobody is left and it must be right.

### PsmouseSmbusProofs

`SmbusBase`, `SmbusTypes`, `SmbusRecordsValid`, `SmbusExclusive` and
`SmbusNoAdapterMissed`, for any records, ports, clients and adapters. `Records` is
the argument of the three paths that may free one record: a record that is not
dead is the port's, in use or as a breadcrumb; a dead one waits for its client
to go, or, when the client is gone, for the port that still has it, never both.
`Clients` and `Adapters` are inductive on top of it.

### AlpsStreamProofs

| Theorem | Statement | Hypotheses |
|---|---|---|
| `StreamInv` | `Spec => []Inv` | no ambiguity |
| `StreamWhole` | `Spec => []Whole` | the same |
| `StreamNothingOwed` | `Spec => []NothingOwed` | the same |
| `StreamTypes` | `Spec => []TypeOK` | |
| `StreamRecovers` | `Spec => []Recovers` | no ordinary byte can begin a bare packet |

For any kinds of bytes, any limit of bad packets and any delay of the callback
up to four bytes. The first three are about a device of which no byte was lost
(`Clean`), under `Ambiguous = FALSE`. `InStep` says where
the driver is in what the device sends: between packets, in a touchpad packet, in
a bare one, in a touchpad packet with a bare one in it, or with a whole touchpad
packet held back; `packet` is then the beginning of that packet and `line` the
rest. The delicate part is the timer (`Overtaken`): its callback meets at most
four bytes of the next packet, too few to be taken for one that is held back.
With `Ambiguous` the seventh byte may belong to either of two packets, and TLC
refutes both properties (observation 9).

The last two are about any stream, with any number of bytes lost and with
`Ambiguous`. `Shape` is all the driver can hold: nothing, up to two bytes of a bare
packet while nothing was out of step, or up to six that begin like a touchpad
packet, six only with a fourth byte that may begin a bare packet. `TypeOK`
follows, and with it that `packet` is never written past its eight bytes.
`Calmed` is the argument for `Recovers`: when a touchpad packet begins after the
end of another, the driver may hold any `Shape`. Byte by byte (`Chase`) it either
follows the new packet (`Along`), or has dropped what it held, or holds a bare
packet that began with the fourth byte (`AsBare`) or a packet begun before
(`AsPad`), both of which are full by the sixth byte, even if the seventh byte of
such a packet takes the place of its fourth. So by the end it expects a first byte,
or holds exactly the packet that has ended, and it stays so. The hypothesis is
needed: what is taken for a bare packet shifts the driver by three bytes
(observation 9), and this can go on (TLC finds it for six packets).

### Only model-checked

* Everything under fairness, liveness being out of the prover's reach: `Promise`
  (its safety half is `PromiseKept`), `NoneWaitsForever`, `Settles`,
  `BackInService`, `SwitchEnds`, `DeadRecordsGo`.
* The counterexamples of the two runs that expect one, and those of section 4.

## 6. Plan

Everything planned to be modelled is, and every safety property that a run checks
is proved. What would add most next is to weaken what the theorems assume of the
constants: `ArmedWhenListening` and `NoLoss` after a claim with something latched,
up to the first arming that follows; `ActiveIsStreaming` with more failing
commands, up to the next reconnect.

## 7. Not modelled

The map names about four percent of the repository's C. The rest is mostly of four
kinds, none of which these models could say much about:

* the second copies. `research/psmouse`, `research/module` and
  `research/rmi4` hold further copies of the same drivers; only `rmi_driver.c` and
  the functions of the pad, which exist nowhere else, are modelled from there;
* the decoders of hardware this package does not serve (Elantech, Cypress,
  Sentelic, Focaltech, cyapa, the other ALPS protocols, ...), carried because psmouse
  is one module: sequential arithmetic on one packet, with no state between
  packets that two actors touch. The interleaved ALPS stream is the exception and
  is modelled;
* detection and set-up that runs once before anything else: the `_CRS` walk and
  GSI registration of 0001, PCI set-up of `i2c-piix4`, the PDT scan and register
  descriptors of the RMI core, the device queries and quirk tables of
  `synaptics.c` (all that patches 0003 to 0005 change);
* RMI functions the pad does not have or that only run on request (F30, F34,
  F54, F55), build scripts, packaging, and recorded traces.

Within the modelled parts, what each module leaves out is said in its section
above.
