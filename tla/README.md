# A verification project for FastRMT

FastRMT adds a programmable match-action pipeline (RMT) to the Corundum NIC.
These TLA+ modules model three parts of it:

- the 512-bit pipeline under `fpga/lib_rmt/rmtv2`, cycle by cycle: one step is
  one rising edge of the clock;
- the mqnic driver `fpga/common/tb/mqnic.py` on the queues of
  `fpga/common/rtl`: one step is what a coroutine does between two yields, or
  one operation of an engine;
- the PCI Express model of `fpga/lib/pcie/tb` (`pcie.py`, `pcie_us.py`,
  `pcie_usp.py`), on which the driver and the core's testbenches run: one step
  is one configuration request, one packet, one edge of a stream.

Paths below are relative to `src/`; `.v` files without a directory are in
`fpga/lib_rmt/rmtv2/`, `.py` files in `fpga/lib/pcie/tb/` or `fpga/common/tb/`.

## 1. Inventory

| part | state | operations | interacts by |
|---|---|---|---|
| `pkt_filter.v` | `state`, the latch `c_switch`, output registers `m_axis`, `c_m_axis`, `s_axis_tready` | classify the first beat of a packet, then pass, divert or drop the rest | AXI-Stream from the MAC, AXI-Stream to parser and FIFO, control channel |
| packet FIFO, PHV FIFOs (`rmt_wrapper.v`, FIFO Generator IP) | queued words | write, read (first word falls through) | filter and stage 0 write, deparser reads |
| `parser.v`, 10 x `sub_parser.v` | segment counter, 1024-bit header, FSM, containers, action RAM | collect two beats, look up the VLAN's actions, extract containers, emit a PHV | filter's `m_axis`; PHV wires to stage 0 |
| `key_extract_2.v` | PHV delay line, container registers, key, two RAMs | select the key's containers, evaluate the comparator | PHV in, PHV and key out |
| `lookup_engine.v` | FSM, `phv_reg`, CAM, action RAM | match, fetch the action | key in, PHV and action out |
| `action_engine.v`, `crossbar.v`, `alu_1/2/3.v` | operand registers, ALU FSMs, key-value RAM | route operands, compute, reassemble the PHV | PHV out to FIFO and next stage |
| `deparser.v`, 10 x `sub_deparser.v` | FSM, two stored beats, stored PHV, output register | pair a packet with a PHV, write the containers back, stream out | reads both FIFOs, AXI-Stream out |
| control path (in each of parser, key_extract, lookup_engine, deparser) | FSM, write enables, index registers, `c_m_axis` | recognise an addressed packet, write its payload into table rows, else pass the beat on | a chain of registers without back-pressure |
| 256-bit pipeline (`fpga/lib_rmt/rmtv2_256b`) | its own FSMs and FIFOs | as above | as above |
| queue managers (`fpga/common/rtl/queue_manager.v`, `cpl_queue_manager.v`) | queue RAM: pointers, active, armed; operation table | dequeue, enqueue, commit, register writes, arm | engines ask for entries and commit them; events |
| descriptor, completion, transmit and receive engines, event mux | descriptor and packet tables | fetch, move data, write completion, write event | queue managers, DMA, MAC |
| mqnic driver (`mqnic.py`) | rings, completion and event queues, `allocated_packets`, `free_packets` | `open`, `start_xmit`, `interrupt` with the processing of events and completions, `refill_buffers` | posted register writes, register reads, DMA memory, message interrupts |
| root complex (`pcie.py`) | tree of what was found, address limits, regions, message numbers, tags, completion queues | `enumerate`, `alloc_region`, `configure_msi`, memory, IO and configuration accesses, completer | ports with their own delay |
| bridges, switches, devices, functions (`pcie.py`) | configuration registers, capability list, tags | route, decode BARs, register capabilities, master memory and IO, interrupt | as above |
| UltraScale(+) cores (`pcie_us.py`, `pcie_usp.py`) | queues, credits, sequence numbers, the four streams | pack and unpack descriptors, requests and completions of both directions | AXI-Stream to the user's logic, port to the link |
| checksum, hash, TDMA units; kernel driver and tools (`modules/mqnic`, `utils`); AXI and Ethernet libraries | | | |

What makes the pipeline hard: there is no lock-step handshake anywhere between filter,
parser, stage, FIFOs and deparser.  A PHV is paired with a packet only by its
place in a queue; a register is right only if it is sampled in the one cycle
that belongs to the packet; back-pressure reaches some registers and not others;
payload beats are looked at as if they were headers.  In the driver, interrupts,
completions and posted writes cross each other, and one buffer is named by a
ring, a descriptor and a completion at once.  Enumeration depends on registers
that it is changing itself: every request is routed by what was written so far.
Transfers are split at three boundaries, answered in parts, held back without
credit, passed by posted writes and paused anywhere.  What must hold:

- filter: data, control and other packets go to the right place, whatever a
  payload looks like; no beat is lost, repeated or reordered; a control packet
  that is taken gets through;
- parser, stage: each packet gets one PHV, of its own beats and parse
  instructions, in order; the key is taken from the PHV it belongs to;
- deparser: the beats of a packet leave once, in order, rewritten by their own PHV;
- control path: the tables hold what the packets asked for, and no other row is touched;
- driver: frames leave and arrive in order with their own data, a buffer is in
  one place, no completion or event is lost, every entry comes back;
- enumeration: every function found once, its id, BARs and capabilities lead to
  it then and later, regions and message numbers are nobody else's;
- transfers: a read returns its bytes once and in order whatever happens around
  it, a message is seen after the data it announces, everything is answered.

## 2. Modules

| module | models | state and actions |
|---|---|---|
| `Steering` | what the front end promises | a queue for the data path, a slot for the control channel; a beat taken goes to one of them by the kind of its packet |
| `PktFilter` | the AXI-Stream source, `pkt_filter.v`, the packet FIFO | `state`, `cSwitch`, `sReady`, `m`, `c` are the registers; one action per branch of the combinational block (`WaitFirstData`, ..., `DropPkt`), each through `Route`, the clocked block; `PktFifo`, `CtlChannel` are what follows. `Tick` is one edge |
| `Parser` | `parser.v`, `sub_parser.v`, data path | `pstate`; one action per FSM state; `rows` is the pipeline of the action RAM |
| `Stage` | `key_extract_2.v`, `lookup_engine.v`, `action_engine.v` | a register per pipeline register; `LookupHit`/`LookupMiss` leave the CAM's answer open; the ALUs move together |
| `Deparser` | `deparser.v`, `sub_deparser.v` | `dstate`; one action per FSM state |
| `RmtPipeline` | `rmt_wrapper.v`, data path | composes the above on one clock and adds the PHV FIFO |
| `CtrlPath` | the control FSMs of all modules and the chain between them | `node[n]` are the registers of module n; `Select`, `PassOn`, `Write`, `ActWait`, `ActTmp` are the branches of the FSMs; `table` the tables |
| `MqnicQueues` | the queue managers | a queue is a record with its operations in flight; `Dequeue`, `Enqueue`, their commits, `Arm`, `Activate` |
| `MqnicDriver` | `mqnic.py` and the engines around the queues | `ring`, `cq`, `eq`, `pool` are the driver's objects, `posted` its register writes on their way; `Open`, `StartXmit`, `Interrupt`, `ReadEvents`, `ReadCompletions`, `ReadRing`, `FinishInterrupt` run from one yield to the next, `WriteRegister`, `TxFetch`, ..., `SendMsi` are the device |
| `PcieEnum` | `enumerate`, the bridges' and devices' routing, capability lists, regions | `stack` holds the activations of `enumerate_segment`; one action per stage of it; `CfgDown`, `MemUp`, `CplUp`, ... route a request by `regs` as they are |
| `PcieTlp` | requests, completions, byte enables, splitting, regions' reads and writes | operators |
| `UsStream` | the four AXI-Stream interfaces of the cores | `Edge` is one clock of one; `Pack*`, `Unpack*` the descriptors |
| `PcieXfer` | accesses of both ends, completers, MSI, the cores | `proc` are the callers, `down` and `up` the link; one action per method and per packet handler; `UsLogic`, `UspLogic` an edge of the core, `CqTick`, ... of a stream |
| `PktFilter_proof`, `RmtPipeline_proof`, `Rebuilt_proof`, `CtrlPath_proof`, `MqnicDriver_proof`, `MqnicEvents_proof`, `PcieEnum_proof`, `PcieBuses_proof` | theorems about the module each is named for; `Rebuilt_proof` extends `RmtPipeline_proof`, `MqnicEvents_proof` extends `MqnicDriver_proof`, `PcieBuses_proof` extends `PcieEnum_proof` | |
| `MCPktFilter`, `MCRmtPipeline`, `MCCtrlPath`, `MCMqnicDriver`, `MCPcieEnum`, `MCPcieXfer` | instances for TLC | |

Abstractions, pipeline.  A 512-bit beat is its number, its place in the packet, and what
the fields that are inspected would say (`looks`: any kind, for payload).  The
contents of a PHV are where they come from: the beats of the two header halves
and the beat whose VLAN addressed the instructions; a key is the containers it
was taken from.  All ten parse actions are taken as valid.  The block RAMs
answer after two cycles, as generated with the output register.  A FIFO that is
empty shows any `tlast` (`EmptyWords`).  The sources of both channels drive
zeros in idle cycles: an idle beat has `tlast` low, and in `CtrlPath` a module
whose write enable is still up writes zeros (`Quiet`), where the hardware writes
what the source leaves on `tdata`; either is overwritten when the entry comes.  The latch `c_switch` keeps its value
where the combinational block does not assign it.  Only stage 0 is on the data
path: `rmt_wrapper.v:158-182` feeds the PHV FIFOs from it, and what stages 1 to
4 compute is not used.  Reset is the initial state and does not recur.

`written`, `steered`, `phvs`, `delivered`, `wanted`, `aim` and the source's
counters are history variables; no action of the hardware reads them.

Abstractions, driver.  One interface with one ring in each direction.  A frame
is its direction and number, a packet buffer its number.  An operation of a
queue manager is one step: its pipeline starts none on a queue that another
operation in it is about.  A queue is activated by the last of the writes that
`activate_*` makes, the queue being inactive until then.  A read of a register
returns when the posted writes before it have arrived.  The scheduler always
lets the queue transmit; DMA requests of one engine end in order.  The
interrupt callback is not entered twice: a message that finds it running is
counted (`interrupt_pending`), as in the code.

Abstractions, PCI Express.  In `PcieEnum` addresses are numbers in units of the
smallest BAR and the registers of a capability are counted in dwords; a request
and its answer are one step, since enumeration waits for each.  In `PcieXfer`
words are sequences of bytes, lowest first; a configuration register is in the
lowest byte of its dword; limits on sizes are scaled (a dword is 4 bytes, the
read completion boundary 8, a page 32).  `Quiet`: a packet takes time on the
link and on the streams, so a caller whose completion is there runs before
anything else arrives.  A packet is validated where it is sent (`Invalid`), completions included; as
packets do not change on the link, that stands for the receiver's validation
too, and one that fails it raises, as does a port that is not connected.  In
`UsStream` a descriptor is the record of its fields and a beat the words it
carries: how the fields are laid out in bits, parity and the discontinue flag
are abstracted, and the byte enables of a frame, which packing computes from
fields that travel along and unpacking computes again to compare, are not
claimed to agree.  The user's logic of the cores is external: it answers
requests as `MemoryEndpoint` does and, before it interrupts, waits for the
sequence number of its last request.  It is the place where the repository has
a design under test; what it does is taken from how the testbenches drive it.

## 3. Runs

| run | bounds | shows |
|---|---|---|
| `filter` | 3 packets of 2-3 beats, all kinds, any payload, pauses, FIFO of 7 | `TypeOK`, `Separation`, `ExactlyOnce`, `Steers` (refinement of `Steering`), `CtlTravels` |
| `filter_fifo_full` | FIFO of 2 that may be full, data and control packets | **violation** of `CtlTaken`: `s_axis_tready` freezes low in the control branch |
| `filter_one_beat` | packets of 1-2 beats | **violation** of `OnlyUdpPasses`: the packet after a one-beat packet is not inspected |
| `pipeline_close` | 3 packets of 2-3 beats, 3 idle cycles apart, any back-pressure | `PipeTypeOK`, `PhvOfOnePacket`, `PhvInOrder`, `EveryPacketHasPhv` |
| `pipeline_far` | 4 packets of 2-4 beats, 22 idle cycles apart, sink always ready | `Rebuilt`, `AllDelivered` |
| `pipeline_near` | 2 packets 10 idle cycles apart | **violation** of `Rebuilt`: the read enable that `FLUSH_PKT` leaves up eats a beat of the next packet |
| `pipeline_key` | 2 packets 24 cycles apart | **violation** of `KeyOfItsPhv`: the key is read from containers already cleared |
| `control` | 2 packets of up to 4 payload beats, 2 stages, 2-row tables, index modulo 4, pauses | `CtlTypeOK`, `OnlyNamedRows`, `TablesAsAsked`, `AllWritten` |
| `control_alias` | 1 packet for the deparser, payload that reads like a header for the parser | **violation** of `PayloadNotObeyed` |
| `nic_rings` | rings and queues of 4, pointers modulo 16, 2 operations in flight, 2 frames each way, refill at 2 | `NicTypeOK`, `BuffersApart`, `WireInOrder`, `GotAsArrived`, `NoCompletionLost`, `NeverRaises`, `TxReturned`, `RxReturned` |
| `pcie_enum` | 3 shapes of tree (two-function device behind a port; switch with two devices, one of two functions, beside a second port; switch behind a switch), 3 BAR sets of sizes 1-8 for every function, 5 lists of capabilities, regions of 1, 3 and 6 asked for before and after; and one function that registers its own two capabilities and up to three times more one of 4 of 2-15 registers, at one of 3 offsets or none, as long as all fit | `EnumTypeOK`, `IdsKeepTheirFunction`, `OwnersAnswer`, `CompletionsReturn`, `FoundOnce`, `MessagesApart`, `RegionsApart`, `CapabilitiesReached`, `AllFound` |
| `pcie_xfer` | plans of 1-3 callers on a memory endpoint and both cores, streams 2 words wide, 4 tags, 2 credits, 1 time-out | `XferTypeOK`, `ReadsRight`, `FramesWhole`, `DataBeforeMsi`, `XferNeverRaises`, `AllAnswered` |

Why the bounds are enough.  The filter keeps nothing of a packet but its kind,
so a third packet meets every state two can leave behind, and three beats give a
first, a middle and a last one.  The FIFO of 7 holds one packet and the next
one's beats while the first is read at any pace.  In the pipeline three packets
put one each in parser, stage and deparser; four beats reach the `FLUSH_PKT`
loop twice.  In the control path, two packets give the second every table state
the first leaves; 2 rows and an index register of 4 values keep the wrap of the
16-row tables inside the 256-value register; 4 beats are two action entries; two
stages make packets pass both kinds of module of a stage that is not theirs.

In `nic_rings` two frames each way give an operation behind one that is not
committed, a completion while another is processed, and an interrupt while the
callback runs; a refill happens at opening and, being worth two entries, after
two frames.  The bound on frames is below the ring's size on purpose, see the
end of section 5.  In `pcie_enum` the trees have a bridge that is closed while
another is opened, on the same bus and further down, and devices behind one, three
and five bridges; windows are 4 units, so BARs of 1, 2, 3, 6 and 8 end inside
one, at its end and beyond it; regions of 1 and 3 are the ones that can begin
on the last address of another.  There are 4369 lists of registrations: three
calls move a capability, move what is in its way, and name or leave open again
the registers of one that was moved; in 226 of them two capabilities meet, the
overlap of section 5.  In `pcie_xfer` the plans start and end reads at
every offset of a dword that matters, cross the read completion boundary, the
payload limit and the page, and have two callers of the root complex share its
tags; four tags wrap after a time-out.  Two plans write a function's device
control, as enumeration does, while it and the host are in the middle of
accesses that are split by the old limits.  Messages are configured with 32-bit
and with 64-bit capabilities, and one is asked for beyond those the function has.

The gaps are part of what the runs say.  `EveryPacketHasPhv` needs 3 idle cycles
between packets (with 2 the parser's FSM is still busy) and `Rebuilt` needs 22
for packets of any length (section 4; with 21 TLC finds a counterexample).  The
repository's testbenches leave more.  "Calm traffic" below is packets of two
beats or more, an idle cycle between packets and a FIFO with room.

Deadlock is checked in the runs on the pipeline, where a clock always ticks.
The other runs stop when enumeration is done, or when the bounded traffic is
(`CHECK_DEADLOCK FALSE`); that they do not stop earlier is what `AllFound`,
`TxReturned`, `RxReturned` and `AllAnswered` say.

Fairness.  `Spec` and `PipeSpec` have weak fairness of the next-state relation:
the clock runs.  `PktFilter` alone also has weak fairness of `Tick(TRUE)`, that
is, of the deparser reading: in `RmtPipeline`, where the deparser is there, it
is dropped.  `AllDelivered` is checked for a sink that is always ready.  The
source is not fair: it may stop at any time, and the liveness properties are
about beats already offered.  `filter_fifo_full` is checked under the same
fairness: its counterexample ends with an empty FIFO, the header on the bus and
`s_axis_tready` low for ever, so the source's wait is the filter's doing.  What
arrives on the control channel would not show it, since the header is put on
`c_m_axis` again in every cycle; `CtlTaken` therefore says that the beat is
taken, and `CtlTravels` that it is taken and arrives.

`NicSpec` is weakly fair to every coroutine of the driver and every engine: the
simulator resumes what can go on, and the device is clocked; nobody has to send
a frame.  `EnumSpec` is weakly fair to the one coroutine there is.  `XferSpec`
is weakly fair to each caller, to the arrival of packets, to the user's logic,
to an edge of a stream with neither end paused and to an edge of the core with
`pcie_cq_np_req` up, that is: pauses do not last for ever, and the user's logic
keeps asking for requests, as the testbenches do.

Each property of a passing run has a variant of the code (operators commented
"Bug variant") that breaks it.

## 4. Proofs

### The filter

`PktFilter_proof`, for every value of the constants that satisfies
`FilterAssumption` (any number and length of packets, any FIFO depth):

| theorem | assumes | says |
|---|---|---|
| `TypeCorrect` | nothing more | `Spec => []TypeOK`, also when the FIFO fills |
| `Separates` | `Calm` | `Spec => []Separation` |
| `PassesExactlyOnce` | `Calm` | `Spec => []ExactlyOnce` |
| `Implements` | `Calm` | `Spec => Steers`: the front end implements `Steering` |

`TypeOK` is inductive.  The others are not: that a beat in `m` belongs to a data
packet depends on the filter's state agreeing with the packet the source is
sending.  The invariant `IInv` says so:

- `InStep`: the filter waits for a header exactly when no packet is in progress
  or its first beat is on the bus; in the other states the packet in progress
  has the kind the state stands for;
- `Switched`: `c_switch` is up exactly where the packet is a control packet;
- `Pure`: the registers and the FIFO hold beats of the right kind;
- `Budget`: the words that can still arrive fit in the FIFO, so `mReady` is up;
- `Counted`: the history counters account for every beat taken.

The proof has one step per pair of a source action and a filter action that the
invariant allows.  `Implements` maps the queue to the FIFO's content and the
beat in `m`, the control slot to `c`; every edge is a step of `Steering` or a
stutter.

`Calm` is needed: the two runs on the filter that end in a violation drop one
conjunct of it each.

### The data path

`RmtPipeline_proof` extends `PktFilter_proof`.  `Steady` is `Calm` and a source
that does not pause inside a packet:

| theorem | assumes | says |
|---|---|---|
| `PipeTypeCorrect` | nothing more | `PipeSpec => []PipeTypeOK`; the PHV FIFO, whose `full` is not connected, stays within its depth |
| `PhvsOfOnePacket` | `Steady` | `PipeSpec => []PhvOfOnePacket` |
| `PhvsInOrder` | `Steady` | `PipeSpec => []PhvInOrder` |
| `RebuildsFarApart` (`Rebuilt_proof`) | `Spaced`: `Steady`, `AlwaysReady`, `MinGap >= 22` | `PipeSpec => []Rebuilt` |

`PhvsOfOnePacket` and `PhvsInOrder` hold for every gap from one idle cycle on, also where PHVs are lost because
they follow too close (`EveryPacketHasPhv` needs three), for every depth of the
FIFOs and whatever the CAM answers and the reader does.  `PipeInv` is the
filter's `IInv` and

- `Front`: the beats of a packet follow each other on `s_axis` and behind the
  filter, so the second one is there in the cycle after the first;
- `ParserAt`: which beats the header register, the RAM's pipeline and the
  sub-parsers hold in each state of the parser: the parser counts cycles, not
  beats, and this is what makes the count right;
- `StageAt`: every valid register of the stage holds a PHV of one packet, and a
  PHV that is being looked up or computed on is nowhere else valid;
- `Chain`: from the FIFO back to the parser, each register that holds a PHV
  holds a younger one than all ahead of it.  `AtFifo`, `AtOut`, ..., `AtHdr` are
  the youngest packet at or ahead of each register; an edge moves no more than
  one of them up to the next, which is why a stalled unit that drops what it is
  offered, or one that is overwritten, cannot let two PHVs pass each other.

`RebuildsFarApart` is about the deparser, which pairs beats and PHVs by nothing
but their places in two FIFOs and leaves its read enable up at the end of a
packet: with 21 idle cycles the beat that is read too many is one of the next
packet.  From 22 on it never is, for packets of any length, whatever the CAM
answers.  The invariant, `OneAtATime`, is a timetable.  Between packets the
pipeline is `Vacant`; otherwise one packet of `len` beats, the first of them
number `base + 1`, is in flight, and every register, and what is in the two
FIFOs, is a function of its `age`, the cycles since its first beat was behind
the filter (`BeatsAt`, `ParsedAt`, `LookedUpAt`, `ActedAt`, `QueuedAt`,
`StoredAt`, `DeparsedAt`, `EmittedAt`).  Two numbers in the timetable are not
known from the start: `len`, decided by the source beat by beat, and `hit`, when
the lookup is over, decided by the CAM in cycle 8.  `LengthOpen` and
`AnswerOpen` say that until then the timetables for all choices agree.  The
deparser is done in cycle `Over(len, hit)`, at most `len + 22`; that is the
cycle in which the next packet can be behind the filter.

### The control path

`CtrlPath_proof`, for any number of stages, rows, packets and headers.  `Plain`
is: at least one idle cycle between packets, and no payload beat reads like the
header of a module:

| theorem | assumes | says |
|---|---|---|
| `CtlTypeCorrect` | nothing more | `CtlSpec => []CtlTypeOK` |
| `ControlPathSound` | `Plain` | `CtlSpec => []OnlyNamedRows`: a payload in a table was sent for that module, table and row |
| `TablesFaithful` | `Plain` | `CtlSpec => []TablesAsAsked`: when all is quiet the tables hold what was asked for |

The constants of run `control` satisfy `Plain`; those of `control_alias`, which
ends in a violation, do not.  A module sees a beat as many cycles late as it is
from the source and knows nothing of the packet but the few registers it set at
the header.  The proof therefore carries a witness that is no variable of the
model: `d[n]` is the entry that the next payload beat at module `n` is for, as
the source meant it.  `Sound(d)` says that

- `Spaced`: while a packet is sent, or its last beat is on the channel, the idle
  count is zero, so an idle cycle comes before the next header;
- `Linked(d)`: a header, a payload beat or a bubble in front of module `n` makes
  of `d[n]` what `d[n-1]` is, so what a beat is for does not change on its way;
- `Matched(d)`: a module that `d[n]` names is in the state and has the indices to
  write that entry, every other one is idle, and one that sees a header has
  nothing left to write or to pass on;
- `Halves`, `Buffered`: the two halves of an action entry, on the channel and in
  the buffer of a lookup engine, were sent for the same row;
- `RowNamed`: what is in a row was sent for it.

`TablesFaithful` needs in addition the number of payload beats that have passed
each module (`s[n]`, a second witness): a row and the buffer before it hold the
last entry for this row among those beats (`HoldsLast`), those that have not
passed are on their way (`Coming`), and `wanted` has the last of all
(`WantsLast`).  When all is quiet every beat has passed, and the two are equal.

### The driver

`MqnicDriver_proof`, for rings, completion queues, event queues and operation
tables of every size, every refill limit and every number of frames:

| theorem | assumes | says |
|---|---|---|
| `NicTypeCorrect` | nothing more | `NicSpec => []NicTypeOK` |
| `BuffersStayApart` | nothing more | `NicSpec => []BuffersApart`: a packet buffer is in one place, and the device works on the one its entry holds |
| `WireFaithful` | nothing more | `NicSpec => []WireInOrder` |
| `ReceiveFaithful` | nothing more | `NicSpec => []GotAsArrived` |
| `FewNeverRaise` | `Few`: `MaxTx <= Size`, `MaxRx <= Size` | `NicSpec => []NeverRaises` |
| `EventsNotLost` (`MqnicEvents_proof`) | `EvSize >= 4` | `NicSpec => []NoCompletionLost`: every completion and every event finds its queue active and an entry free |

`Few` is needed: with one frame more a completion names an entry outside the
ring (section 5), and the callback raises.  The other theorems hold for any
number of frames, since nothing moves any more once it has.

A frame takes an entry, its descriptor is asked for and read, its data is moved,
its completion written, and its entry freed.  How far each direction has come in
each of these is a number, and the pointers that driver and device keep, each of
its own and none up to date with the other's, are these numbers: `Filled`,
`Asked`, `Fetched`, `Moved`, `Completed`, `Freed`.  `NicInv` says

- `Order(d)`: the six follow one another, and no entry is filled again before the
  *device* has been told that its completion was taken.  This is what the driver
  does not check anywhere: it reads the tail of the ring long after it wrote the
  tail of the completion queue;
- `Ops(d)`, `Jobs(d)`: the operations in flight of the two queue managers and the
  frames in the engine are the entries between two of the numbers, in their
  order; `Entry(d)`: those between `Freed` and `Filled` have a buffer, the same in
  the driver and in the descriptor, all others none;
- `PoolOK`: every buffer made is free or held by one entry, and they are counted:
  there are never more than two rings of them;
- `TxData`, `RxOK`: what is in the buffers, on the wire and with the program.
  `RxOK` has a witness that is no variable of the model: `fr[p]` is the frame
  that took entry `p` of the receive ring;
- `WritesOK`: register writes on their way move a head pointer on, up to what is
  filled, and there is one tail write for a completion queue until the device
  has it;
- `Activation`: `open` has activated, or has yet to, each queue once, a ring after
  its completion queue; nothing happens in a queue before.

There is one lemma for each of the sixteen actions.  TLC checked `NicInv` on
small instances before it was proved.

`EventsNotLost` needs more.  That a completion finds an entry is in `Order`; for
events nothing in the driver or the device limits how many come, and a full
event queue refuses without telling anybody.  `EventInv`, on top of `NicInv`, has
two witnesses that are no variables: `C`, how many events were ever written, and
`t`, where the tail of the event queue is in the device; the pointers are these
modulo `PtrMod`, and here they do wrap.  Its core is a count, `Armings(C)`: the
armings `open` has yet to write, arm writes on their way, completion queues that
are armed, events before the event queue, and events in it that the driver has
not handled.  It is two at most, one for each completion queue: `ReadRing` arms
a queue when one event of the count is handled, a write that arms turns into an
armed queue or an event, a commit turns the armed queue into an event.  The
tail pointer that the device has may be two behind the driver's, since the driver
writes it at the end of `EqRing.process` only, so three events can be in the
queue when another comes.  With `EvSize` 1, 2 or 3 TLC finds a lost event; the
code has queues of 1024 entries (`mqnic.py:733`).

### Enumeration

`PcieEnum_proof` and `PcieBuses_proof`, for every set of trees, any numbers of
buses, devices and functions, and any sizes that satisfy the assumptions of
`PcieEnum`:

| theorem | says |
|---|---|
| `RegionsStayApart` | `EnumSpec => []RegionsApart`: every address of a region that was handed out leads back to it, but for a first address that is the last of the region before, which needs that one's size to be odd or its own to be 1 |
| `MessagesStayApart` | `EnumSpec => []MessagesApart`: no two functions share a message number |
| `EnumTypes` | `EnumSpec => []EnumTypeOK`: registers, limits and activations are well formed, bus numbers fit their registers |
| `IdsStay` | `EnumSpec => []IdsKeepTheirFunction`: an id that was found leads to the function that answered it, at every moment |
| `CompletionsGoBack` | `EnumSpec => []CompletionsReturn`: after enumeration a completion gets to its requester from the root complex and from every other function |
| `FindsAll` | `EnumSpec => []FoundOnce`: a walk that ends has found every function once, by the id it still has, and no two by the same |

`RegionsApart` is not inductive: nothing in it says where the next region goes.
`RegionInv` does, and has three parts.  `RegionOrder`: regions of one space lie
one behind the other, the last address of each being at most the first of any
later one, and `rlimit` is the *last* address of the last region.
`RegionParity`: a region of more than one address starts on an even one, and not
on the last address of the region before it if that has an even size.
`RegionType` is their type.  From the order it follows that only neighbours share
an address, and one at most; the parity says which.  The sizes are any positive
numbers: `SizeAssumption` says only what is arithmetic, that the power of two a
size is rounded up to is positive, and even for a size above 1; TLC evaluates
it, since facts about `2^k` are beyond the provers.

`MessageInv` says that the messages of every function end below `msiLimit` and
that of two functions one has all its messages below the other's.  It holds
however a request is routed, also if enumeration met a function twice.

The other four depend on the tree.  `TreeAssumption`, which TLC evaluates for the
trees of the run, says of every tree what the calls that build one guarantee
(`WellBuilt`): a function is numbered behind the bridge above it, has a place of
its own there and is not device 0 of bus 0, which is the host bridge; a device
has a function 0 (`HasFunctionZero`).  It also says that there are no more
bridges than bus numbers, which nothing in `pcie.py` checks.

None of the four is inductive.  The invariant of the first two, `EnumInv(ch)`,
has a witness that is no variable: `ch`, the chain of open bridges from the one being
enumerated up to the host bridge, one for each activation on the stack.

- `BusesInv`: the numbers of a bridge that is open lie inside those of the bridge
  above it and behind its secondary bus; bridges beside each other have numbers
  apart from each other; a bridge that is not open has none;
- `ChainInv`: the bridges of the chain, and for the time being they alone, reach
  up to the last bus number;
- `StackInv`: each activation works on the bus of its bridge and stands at the
  next bridge of the chain; the other open bridges beside that one come before it;
- `NumbersInv`: the next number is behind every number in use, those of the chain
  aside, and the last one used is how many bridges are open: from there, and from
  the number of bridges, it follows that a number fits its register;
- `FoundInv`: an id that was found is the place of its function behind a bridge
  that is open.

`OpenBridge` makes the chain longer by the bridge, `CloseBridge` shorter, and
every other step keeps it.  That a request then finds its function (`CfgRouted`)
is by induction down the tree: of the bridges beside each other exactly one
takes a bus number (`OneTakes`).  The routing operators are recursive functions
over the tree; that they are well defined is `RecursionExists`, from the
library's theorem that every non-empty set of numbers has a least one: the
induction that is possible here is the one that takes a set, not an operator.

The other two hold only if the walk leaves nobody out: a function that was
skipped would keep bus 0, a bridge that was skipped would have no range, and
nothing in `EnumInv` says that there are none when `phase` becomes "done".
`ScanInv(ch)` does, with the same witness.  A function is *finished* when it was
found, its `bus` is that of its segment and, if it is a bridge, it is open.

- `Passed`: on every bus of the chain the functions before the position of its
  activation are finished;
- `OnChain`, `OffChain`: so are the bridges of the chain, and the functions right
  behind an open bridge off the chain;
- `LoopsInv`: a device is looked at from its function 0 on, and further only if
  that says it has others, which is what `HasFunctionZero` is for; all
  activations but the innermost wait;
- `Taken`: the function that is being set up was found and has the bus of its
  segment.

When the walk is over, a function that is not finished is right behind a bridge
that is not open, so that one is not finished either: there is no least such
function, hence none, which is `FindsAll`.  Ids are then apart, because bridges
beside each other have numbers apart (`BusesInv`); a completion climbs until a
range holds the number of its requester and goes down from there as a
configuration request does.  `Walk` is `\E ch : EnumInv(ch) /\ ScanInv(ch)`, the inductive invariant of all four.

### What is only model-checked

Liveness (`CtlTravels`, `EveryPacketHasPhv`, `AllDelivered`, `AllWritten`,
`TxReturned`, `RxReturned`, `AllFound`, `AllAnswered`), which is beyond the
prover here; all of `PcieXfer`, whose invariants are about the data itself:
`Completions` is recursive, and `FramesWhole`, `ReadsRight` and `DataBeforeMsi`
join and cut sequences with the folds of the community modules, so that even the
shape of a packet on a stream is an induction over data;
of `PcieEnum` the address windows (`OwnersAnswer`) and the lists of capabilities
(`CapabilitiesReached`; they are built by folds: induction over data).
`OwnersAnswer` is not true for every value of the constants: a 32-bit BAR is
compared modulo `Word` (`pcie.py:1766`), so it needs that all regions of a tree
fit below `Word`, which depends on how they are aligned in the order of the walk
and which nothing in the code checks.
Of `MqnicDriver` every safety property that the run checks is proved.

## 5. Where the code and its documents differ

1. `pkt_filter.v:161` does not update `s_axis_tready`; a control packet whose
   header comes when the FIFO was full stops for ever, also when the FIFO has
   been emptied (`README.md:172`: it "will travel all the way through the
   pipeline").  Its header is repeated on the control channel meanwhile.
2. `pkt_filter.v:87` ignores `tlast` of the first beat; the next packet passes
   uninspected (`rmt_wrapper.v:93`: "to filter out packets other than UDP/IP").
3. `deparser.v:404` leaves `pkt_fifo_rd_en` up (`README.md:157`).
4. `extract/key_extract_2.v:211` takes the key from containers that follow the
   input by one cycle for a PHV that follows by two (`README.md:57`).
5. `parser.v:446` and its like recognise a header on any valid beat
   (`README.md:174`).

`pkt_filter.v:79` looks at a header only if the FIFO has room *now*, while the
source hands it over if the FIFO had room one cycle ago: a header that is taken
as the FIFO fills passes uninspected.  The model does this too, as
`OnlyUdpPasses` shows with the bounds of `filter_fifo_full` and other packets in
place of control packets; it is the second thing that `Calm` excludes by a FIFO
with room.

Met while reading the pipeline, not modelled: 90 bits of the PHV are lost on the
way into `phv_fifo_2` (`rmt_wrapper.v:174`); the immediate of 2-byte `addi`
comes from another container's sub-action (`action/crossbar.v:198`); the action
engine has no control path (`README.md:185` lists a key-value table); the cookie
of `README.md:231` is not in the code.

Met in the PCI Express model, modelled as it is, and said by the properties:

- the placement of a capability without registers of its own compares with `<`
  where a last register may be equal (`pcie.py:302`), so the capability can end
  on the first register of another.  `CapabilitiesReached` lets two capabilities
  have that register in common and no other, and says that every one is reached
  where it does not happen; `AllFound` excepts it, since the walk of the
  capabilities may then miss the one whose registers it is to write;
- `alloc_region` keeps the last address used as its limit (`pcie.py:3287`), so a
  region can begin on the last address of the one before if that has an odd
  size, or if it has a single address itself.  `RegionsApart` says that this is
  the only way; the callers in the repository ask for even sizes.

Met while reading the driver and the PCI Express model, and kept out of the
runs by their bounds, so that a "pass" says nothing of them:

- `mqnic.py:845` and `:888` index the ring with a completion's 16-bit pointer
  without masking it, which raises an exception once more frames than the ring
  has entries were sent (`modules/mqnic/mqnic_tx.c:244`, `mqnic_rx.c:299` mask
  it).  `MaxTx` and `MaxRx` are at most `Size`.
- `CqRing.deactivate` uses a name that does not exist; closing is not modelled.
- `Port.send` of `pcie.py` marks the port as busy only in the coroutine it
  forks; two packets sent in the same instant are taken to be queued in order.
- `get_free_tag` skips tags with queued completions and not tags of outstanding
  requests; the plans have fewer requests outstanding than tags. A requester that
  finds no tag raises in the model, as it does in the code (`None` names no queue).
- `Function.mem_read` (`pcie.py:1999`) gives the whole access to its first
  request; plans of a memory endpoint keep its reads to one request.
- the root complex looks for memory regions where it is asked for IO
  (`io_read`, `io_write`); IO addresses are kept apart from memory.
- `io_read_words` and its like mix bytes and integers; they are not called.
- `pcie_us.py:1841` reads `tlp.error` where the object has `error_code`.
- `TLP.pack` and `unpack` are wrong and unused.

## 6. Plan

Done: the filter with its abstract specification and proofs, the data path of
`rmt_wrapper`, the control path; the driver with its queues and engines;
enumeration, with proofs, and transfers.  To come, in this order:

1. Proofs: the windows of bridges, nested as the bus numbers are, for trees whose
   regions fit below `Word`.
2. `ActionOps`, pure operators for `crossbar.v` and the ALUs (`% 2^w`), the
   comparator of `key_extract_2.v` and the layout of the PHV through the FIFOs;
   `sub_parser` with invalid actions.
3. `RmtPipeline` with pauses and back-pressure together; data lookups against
   control writes.
4. `PktFilter256`, the 256-bit filter, as another implementation of `Steering`;
   the 256-bit deparser.
5. The kernel driver's queue stop and wake-up (`mqnic_tx.c:511`), on
   `MqnicQueues`; closing of queues with operations in flight.

## 7. Not modelled

- Vendored AXI and Ethernet libraries and their examples; the Xilinx CAM (its
  answer is left open in `Stage`); checksum, hash and TDMA units; flashing
  tools and device set-up.
- Of the PCI Express cores: the configuration management, flow control, status,
  MSI-X and per-function ports, parity, discontinue; of the PCIe capability all
  but the payload and read request limits; reset while streams run.
- Of `pcie.py`: link speed and width (a packet takes some time), messages other
  than interrupts, `MemoryEndpoint.write_region` with callbacks.
- Of the driver: several ports and interfaces, time stamps, I2C and flash.
- The contents of PHVs, see the plan.
