------------------------------ MODULE MqnicDriver ------------------------------
(***************************************************************************)
(* The driver of fpga/common/tb/mqnic.py on one interface with one transmit  *)
(* and one receive ring, their completion queues and an event queue, with    *)
(* the hardware that works the rings.                                       *)
(*                                                                         *)
(* open, start_xmit and the interrupt callback are generators: one runs      *)
(* until it yields in an access to the device.  Register writes are posted   *)
(* and reach the device later, in order; a read returns after the writes     *)
(* before it.  DMA is ordered as the engines order it: descriptor, data,     *)
(* completion, event, interrupt.                                            *)
(***************************************************************************)
EXTENDS MqnicQueues, FiniteSets, FiniteSetsExt

CONSTANTS
  RefillAt, \* empty receive entries that are worth a refill (8)
  MaxTx,    \* bound: frames handed to start_xmit
  MaxRx,    \* bound: frames that arrive on the port
  NoBuf     \* an entry without a packet buffer

ASSUME DriverAssumption ==
  RefillAt \in 1..Size /\ MaxTx \in Nat /\ MaxRx \in Nat /\ NoBuf \notin Nat

Dirs == {"tx", "rx"}
Queues == {"eq", "txcq", "rxcq", "txq", "rxq"}
CqOf == [tx |-> "txcq", rx |-> "rxcq"]
RingQ == [tx |-> "txq", rx |-> "rxq"]
DirOf(queue) == IF queue = "txcq" THEN "tx" ELSE "rx"
Slots == 0..(Size - 1)

VARIABLES
  ring,    \* TxRing, RxRing: head_ptr, clean_tail_ptr, tx_info or rx_info
  cq,      \* pointers of the CqRings
  eq,      \* pointers of the EqRing
  pool,    \* Driver: allocated_packets (their number) and free_packets
  main,    \* what open has yet to do
  intr,    \* the interrupt callback: where it is, its event, interrupt_pending
  portUp,  \* Interface.port_up
  raised,  \* an exception has ended the simulation
  mem,     \* host memory: descriptors, completions, events, packet buffers
  posted,  \* register writes on their way
  q,       \* the queue managers
  work,    \* frames in the transmit and receive engines, the oldest first
  events,  \* events in the FIFOs before the event queue
  msi,     \* interrupt requested, and messages on their way
  net,     \* frames: handed to start_xmit, on the wire, arrived, received, dropped
  lost     \* completions and events refused by a full or inactive queue
drvVars == <<ring, cq, eq, pool, main, intr, portUp, raised, posted>>
nicVars == <<drvVars, mem, q, work, events, msi, net, lost>>

\* Bug variant of ToDo: the rings before their completion queues.
ToDoRingsFirst == <<"eq", "arm eq", "rxq", "rxcq", "arm rxcq", "txq", "txcq", "arm txcq">>
ToDo == <<"eq", "arm eq", "rxcq", "arm rxcq", "rxq", "txcq", "arm txcq", "txq">>
Active == ~raised

(***************************************************************************)
(* Packet buffers.                                                          *)
(***************************************************************************)
\* Bug variant of Alloc: the buffers stay on the free list.
AllocKeepsFree(n) ==
  LET old == Reverse(pool.free)
      k == Len(old)
  IN [bufs |-> [i \in 1..n |-> IF i <= k THEN old[i] ELSE pool.made + (i - k)],
      pool |-> [made |-> pool.made + (IF n > k THEN n - k ELSE 0), free |-> pool.free]]
\* The buffers that n calls of alloc_pkt return, and the pool after them: the
\* buffers last freed first, then new ones.
Alloc(n) ==
  LET old == Reverse(pool.free)
      k == Len(old)
  IN [bufs |-> [i \in 1..n |-> IF i <= k THEN old[i] ELSE pool.made + (i - k)],
      pool |-> [made |-> pool.made + (IF n > k THEN n - k ELSE 0),
                free |-> IF n >= k THEN <<>> ELSE SubSeq(pool.free, 1, k - n)]]

\* The rings as they are created, their queues inactive.
NewEq == [head |-> 0, tail |-> 0]
NewCq == [head |-> 0, tail |-> 0]
NewRing == [head |-> 0, tail |-> 0, clean |-> 0, info |-> [s \in Slots |-> NoBuf]]

\* n buffers put in the entries from head on: the ring, its descriptors, the pool.
Fill(d, r, n) ==
  LET got == Alloc(n)
      slot(i) == (r.head + i - 1) % Size
      buf(s, old) == IF \E i \in 1..n : slot(i) = s
                     THEN got.bufs[CHOOSE i \in 1..n : slot(i) = s] ELSE old
  IN [ring |-> [r EXCEPT !.head = @ + n, !.info = [s \in Slots |-> buf(s, @[s])]],
      desc |-> [s \in Slots |-> buf(s, mem.desc[d][s])],
      pool |-> got.pool, bufs |-> got.bufs]

Ptr(n) == n % PtrMod
SetHead(queue, n) == [op |-> "head", q |-> queue, val |-> Ptr(n)]
SetTail(queue, n) == [op |-> "tail", q |-> queue, val |-> Ptr(n)]
ArmQ(queue) == [op |-> "arm", q |-> queue, val |-> 0]
ActivateQ(queue) == [op |-> "activate", q |-> queue, val |-> 0]

Missing(r) == Size - (r.head - r.clean)
\* Bug variant of RefillCount: the whole ring is filled.
RefillCountWhole(r) == IF Missing(r) < RefillAt THEN 0 ELSE Size
\* refill_buffers: with fewer than RefillAt entries missing it does nothing.
RefillCount(r) == IF Missing(r) < RefillAt THEN 0 ELSE Missing(r)
Refill(r) ==
  LET n == RefillCount(r)
      f == Fill("rx", r, n)
  IN /\ ring' = [ring EXCEPT !["rx"] = f.ring]
     /\ mem' = [mem EXCEPT !.desc["rx"] = f.desc]
     /\ pool' = f.pool
HeadWrite(r) ==
  IF RefillCount(r) = 0 THEN <<>> ELSE <<SetHead("rxq", r.head + RefillCount(r))>>

(***************************************************************************)
(* open and start_xmit.  A queue is inactive while activate writes its       *)
(* registers, and has them with the last write.                             *)
(***************************************************************************)
ActivateEq == <<ActivateQ("eq")>>
ActivateCq(queue) == <<ActivateQ(queue)>>
ActivateTx == <<ActivateQ("txq")>>
ActivateRx == <<ActivateQ("rxq")>> \o HeadWrite(ring["rx"])
Open ==
  /\ Active /\ main # <<>>
  /\ LET step == Head(main) IN
     /\ posted' = posted \o
          (CASE step = "arm eq" -> <<ArmQ("eq")>>
             [] step = "arm rxcq" -> <<ArmQ("rxcq")>>
             [] step = "arm txcq" -> <<ArmQ("txcq")>>
             [] step = "eq" -> ActivateEq
             [] step = "rxq" -> ActivateRx
             [] step = "txq" -> ActivateTx
             [] OTHER -> ActivateCq(step))
     /\ IF step = "rxq" THEN Refill(ring["rx"]) ELSE UNCHANGED <<ring, mem, pool>>
     /\ portUp' = (Len(main) = 1)
  /\ main' = Tail(main)
  /\ UNCHANGED <<cq, eq, intr, raised, q, work, events, msi, net, lost>>

\* There is no test for a full ring: the caller keeps the frames outstanding
\* below its size.
StartXmit ==
  /\ Active /\ portUp
  /\ net.sent < MaxTx /\ ring["tx"].head - ring["tx"].clean < Size
  /\ LET f == Fill("tx", ring["tx"], 1)
         frame == net.sent + 1
     IN /\ ring' = [ring EXCEPT !["tx"] = f.ring]
        /\ pool' = f.pool
        /\ mem' = [mem EXCEPT !.desc["tx"] = f.desc, !.buf[f.bufs[1]] = <<"tx", frame>>]
        /\ posted' = Append(posted, SetHead("txq", f.ring.head))
        /\ net' = [net EXCEPT !.sent = frame]
  /\ UNCHANGED <<cq, eq, main, intr, portUp, raised, q, work, events, msi, lost>>

(***************************************************************************)
(* The interrupt callback.                                                  *)
(***************************************************************************)
ReadDone == posted = <<>>

Interrupt ==
  /\ Active /\ msi.sent > 0
  /\ msi' = [msi EXCEPT !.sent = @ - 1]
  /\ intr' = IF intr.pc = "idle" THEN [intr EXCEPT !.pc = "events"]
                                 ELSE [intr EXCEPT !.pending = @ + 1]
  /\ UNCHANGED <<ring, cq, eq, pool, main, portUp, raised, posted, mem, q, work, events, net, lost>>

Advanced(ptr, val) == ptr + ((val - ptr) % PtrMod)

\* interrupt, EqRing.process: nothing is processed before the port is up.
ReadEvents ==
  /\ Active /\ intr.pc = "events"
  /\ IF ~portUp
     THEN intr' = [intr EXCEPT !.pc = "arm"] /\ UNCHANGED eq
     ELSE /\ ReadDone
          /\ eq' = [eq EXCEPT !.head = Advanced(@, q["eq"].head)]
          /\ intr' = [intr EXCEPT !.pc = IF eq'.head = eq.tail THEN "finish" ELSE "cq",
                                  !.at = eq.tail]
  /\ UNCHANGED <<ring, cq, pool, main, portUp, raised, posted, mem, q, work, events, msi, net, lost>>

Dir == mem.ev[intr.at % EvSize]
\* The entries of tx_info or rx_info that the completions from..to name.
Named(d, from, to) == [i \in 1..(to - from) |-> mem.cpl[d][(from + i - 1) % Size]]

\* free_desc for the entries named, and the packets that were in them.
FreeDesc(r, named) == [r EXCEPT !.info = [s \in Slots |-> IF s \in Range(named) THEN NoBuf ELSE @[s]]]
PacketsIn(bufs) == [i \in DOMAIN bufs |-> mem.buf[bufs[i]]]

\* process_tx_cq and process_rx_cq, up to the write of the tail pointer: the
\* packets received are handed over, and the buffers freed.  An entry outside
\* the ring or without buffer raises an exception.
ReadCompletions ==
  /\ Active /\ intr.pc = "cq" /\ ReadDone
  /\ LET d == Dir
         r == ring[d]
         head == Advanced(cq[d].head, q[CqOf[d]].head)
         named == Named(d, cq[d].tail, head)
         bufs == [i \in DOMAIN named |-> r.info[named[i]]]
     IN IF \E i \in DOMAIN named :
             \/ named[i] \notin Slots
             \/ r.info[named[i]] = NoBuf
             \/ \E j \in 1..(i - 1) : named[j] = named[i]
        THEN raised' = TRUE /\ UNCHANGED <<ring, cq, pool, posted, net, intr>>
        ELSE /\ ring' = [ring EXCEPT ![d] = FreeDesc(r, named)]
             /\ pool' = [pool EXCEPT !.free = @ \o bufs]
             /\ net' = IF d = "rx" THEN [net EXCEPT !.got = @ \o PacketsIn(bufs)] ELSE net
             /\ cq' = [cq EXCEPT ![d] = [head |-> head, tail |-> head]]
             /\ posted' = Append(posted, SetTail(CqOf[d], head))
             /\ intr' = [intr EXCEPT !.pc = "ring"]
             /\ UNCHANGED raised
  /\ UNCHANGED <<eq, main, portUp, mem, q, work, events, msi, lost>>

\* Bug variant of Cleaned: entries that still have their buffer are passed.
CleanedToTail(r, tail) == tail
\* The clean tail moves past the entries without buffer, up to the tail of the
\* device.
Cleaned(r, tail) ==
  Max({c \in r.clean..tail : \A p \in r.clean..(c - 1) : r.info[p % Size] = NoBuf})

\* Bug variant of ReadRing: the completion queue is not armed again.
ReadRingUnarmed ==
  /\ Active /\ intr.pc = "ring" /\ ReadDone
  /\ LET d == Dir
         tail == Advanced(ring[d].tail, q[RingQ[d]].tail)
         r == [ring[d] EXCEPT !.tail = tail, !.clean = Cleaned(ring[d], tail)]
     IN /\ IF d = "rx" THEN Refill(r)
           ELSE ring' = [ring EXCEPT ![d] = r] /\ UNCHANGED <<mem, pool>>
        /\ posted' = posted \o (IF d = "rx" THEN HeadWrite(r) ELSE <<>>)
  /\ intr' = [intr EXCEPT !.at = @ + 1, !.pc = IF intr.at + 1 = eq.head THEN "finish" ELSE "cq"]
  /\ UNCHANGED <<cq, eq, main, portUp, raised, q, work, events, msi, net, lost>>

\* The rest of process_tx_cq and process_rx_cq, and the arming of the
\* completion queue.
ReadRing ==
  /\ Active /\ intr.pc = "ring" /\ ReadDone
  /\ LET d == Dir
         tail == Advanced(ring[d].tail, q[RingQ[d]].tail)
         r == [ring[d] EXCEPT !.tail = tail, !.clean = Cleaned(ring[d], tail)]
     IN /\ IF d = "rx" THEN Refill(r)
           ELSE ring' = [ring EXCEPT ![d] = r] /\ UNCHANGED <<mem, pool>>
        /\ posted' = posted \o (IF d = "rx" THEN HeadWrite(r) ELSE <<>>) \o <<ArmQ(CqOf[d])>>
  /\ intr' = [intr EXCEPT !.at = @ + 1, !.pc = IF intr.at + 1 = eq.head THEN "finish" ELSE "cq"]
  /\ UNCHANGED <<cq, eq, main, portUp, raised, q, work, events, msi, net, lost>>

\* The end of EqRing.process, the arming of the event queue and the end of
\* interrupt.
FinishInterrupt ==
  /\ Active /\ intr.pc \in {"finish", "arm"}
  /\ IF intr.pc = "finish"
     THEN /\ eq' = [eq EXCEPT !.tail = intr.at]
          /\ posted' = posted \o <<SetTail("eq", intr.at), ArmQ("eq")>>
     ELSE posted' = Append(posted, ArmQ("eq")) /\ UNCHANGED eq
  /\ intr' = IF intr.pending > 0
             THEN [pc |-> "events", at |-> 0, pending |-> intr.pending - 1]
             ELSE [pc |-> "idle", at |-> 0, pending |-> 0]
  /\ UNCHANGED <<ring, cq, pool, main, portUp, raised, mem, q, work, events, msi, net, lost>>

(***************************************************************************)
(* The device.                                                              *)
(***************************************************************************)
\* What follows when queue raises an event: the event queue asks for an
\* interrupt, a completion queue puts an event in its FIFO.
Raise(queue) ==
  IF queue = "eq" THEN msi' = [msi EXCEPT !.asked = TRUE] /\ UNCHANGED events
  ELSE events' = [events EXCEPT ![DirOf(queue)] = @ + 1] /\ UNCHANGED msi

WriteRegister ==
  /\ Active /\ posted # <<>>
  /\ LET w == Head(posted) IN
     /\ q' = [q EXCEPT ![w.q] =
          CASE w.op = "head" -> [@ EXCEPT !.head = w.val]
            [] w.op = "tail" -> [@ EXCEPT !.tail = w.val]
            [] w.op = "arm" -> Arm(@)
            [] w.op = "activate" -> Activate(@, 0, 0)]
     /\ IF w.op = "arm" /\ RaisesEvent(q[w.q]) THEN Raise(w.q) ELSE UNCHANGED <<events, msi>>
  /\ posted' = Tail(posted)
  /\ UNCHANGED <<ring, cq, eq, pool, main, intr, portUp, raised, mem, work, net, lost>>

\* The transmit engine asks for a descriptor.
TxFetch ==
  /\ Active /\ HasDescriptor(q["txq"]) /\ Startable(q["txq"])
  /\ work' = [work EXCEPT !["tx"] = Append(@, [ptr |-> ActiveTail(q["txq"]), buf |-> NoBuf, frame |-> 0])]
  /\ q' = [q EXCEPT !["txq"] = Dequeue(@)]
  /\ UNCHANGED <<drvVars, mem, events, msi, net, lost>>

Arrive ==
  /\ Active /\ net.arrived < MaxRx
  /\ net' = [net EXCEPT !.arrived = @ + 1]
  /\ work' = [work EXCEPT !["rx"] = Append(@, [ptr |-> -1, buf |-> NoBuf, frame |-> net.arrived + 1])]
  /\ UNCHANGED <<drvVars, mem, q, events, msi, lost>>

\* The oldest frame without descriptor asks for one; without it, it is dropped.
RxFetch ==
  /\ Active /\ Startable(q["rxq"])
  /\ \E i \in DOMAIN work["rx"] :
       /\ work["rx"][i].ptr = -1 /\ \A j \in 1..(i - 1) : work["rx"][j].ptr # -1
       /\ IF HasDescriptor(q["rxq"])
          THEN /\ work' = [work EXCEPT !["rx"][i].ptr = ActiveTail(q["rxq"])]
               /\ q' = [q EXCEPT !["rxq"] = Dequeue(@)]
               /\ UNCHANGED net
          ELSE /\ work' = [work EXCEPT !["rx"] = RemoveAt(@, i)]
               /\ net' = [net EXCEPT !.dropped = @ \cup {work["rx"][i].frame}]
               /\ UNCHANGED q
  /\ UNCHANGED <<drvVars, mem, events, msi, lost>>

\* A descriptor has been read, and its dequeue is committed.
ReadDescriptor(d) ==
  /\ Active /\ q[RingQ[d]].ops # <<>>
  /\ LET ptr == Head(q[RingQ[d]].ops).data
         i == CHOOSE k \in DOMAIN work[d] : work[d][k].ptr = ptr
     IN work' = [work EXCEPT ![d][i].buf = mem.desc[d][ptr % Size]]
  /\ q' = [q EXCEPT ![RingQ[d]] = DequeueCommit(@)]
  /\ UNCHANGED <<drvVars, mem, events, msi, net, lost>>

\* The data of the oldest frame is moved, and an entry for its completion
\* reserved; a completion without entry is lost.
MoveData(d) ==
  /\ Active /\ work[d] # <<>> /\ Head(work[d]).buf # NoBuf /\ Startable(q[CqOf[d]])
  /\ LET job == Head(work[d]) IN
     /\ IF d = "tx"
        THEN net' = [net EXCEPT !.wire = Append(@, mem.buf[job.buf])] /\ UNCHANGED mem
        ELSE mem' = [mem EXCEPT !.buf[job.buf] = <<"rx", job.frame>>] /\ UNCHANGED net
     /\ IF Accepts(q[CqOf[d]], Size)
        THEN q' = [q EXCEPT ![CqOf[d]] = Enqueue(@, job.ptr)] /\ UNCHANGED lost
        ELSE lost' = lost + 1 /\ UNCHANGED q
  /\ work' = [work EXCEPT ![d] = Tail(@)]
  /\ UNCHANGED <<drvVars, events, msi>>

\* A completion or an event is in memory, and its enqueue is committed.
CommitEntry(queue) ==
  /\ Active /\ q[queue].ops # <<>>
  /\ LET entry == Head(q[queue].ops).data
         at == q[queue].head
     IN mem' = IF queue = "eq" THEN [mem EXCEPT !.ev[at % EvSize] = entry]
               ELSE [mem EXCEPT !.cpl[DirOf(queue)][at % Size] = entry]
  /\ q' = [q EXCEPT ![queue] = EnqueueCommit(@)]
  /\ IF q[queue].armed THEN Raise(queue) ELSE UNCHANGED <<events, msi>>
  /\ UNCHANGED <<drvVars, work, net, lost>>

EnqueueEvent(d) ==
  /\ Active /\ events[d] > 0 /\ Startable(q["eq"])
  /\ events' = [events EXCEPT ![d] = @ - 1]
  /\ IF Accepts(q["eq"], EvSize)
     THEN q' = [q EXCEPT !["eq"] = Enqueue(@, d)] /\ UNCHANGED lost
     ELSE lost' = lost + 1 /\ UNCHANGED q
  /\ UNCHANGED <<drvVars, mem, work, msi, net>>

SendMsi ==
  /\ Active /\ msi.asked
  /\ msi' = [asked |-> FALSE, sent |-> msi.sent + 1]
  /\ UNCHANGED <<drvVars, mem, q, work, events, net, lost>>

NicInit ==
  /\ ring = [d \in Dirs |-> NewRing]
  /\ cq = [d \in Dirs |-> NewCq]
  /\ eq = NewEq
  /\ pool = [made |-> 0, free |-> <<>>]
  /\ main = ToDo /\ portUp = FALSE /\ raised = FALSE
  /\ intr = [pc |-> "idle", at |-> 0, pending |-> 0]
  /\ mem = [desc |-> [d \in Dirs |-> [s \in Slots |-> NoBuf]],
            cpl |-> [d \in Dirs |-> [s \in Slots |-> 0]],
            ev |-> [s \in 0..(EvSize - 1) |-> "tx"],
            buf |-> [b \in 1..(2 * Size) |-> <<"tx", 0>>]]
  /\ posted = <<>>
  /\ q = [x \in Queues |-> EmptyQueue]
  /\ work = [d \in Dirs |-> <<>>]
  /\ events = [d \in Dirs |-> 0]
  /\ msi = [asked |-> FALSE, sent |-> 0]
  /\ net = [sent |-> 0, wire |-> <<>>, arrived |-> 0, got |-> <<>>, dropped |-> {}]
  /\ lost = 0

Callback ==
  \/ Interrupt \/ ReadEvents \/ ReadCompletions \/ ReadRing \/ FinishInterrupt
Device ==
  \/ TxFetch \/ RxFetch \/ SendMsi
  \/ \E d \in Dirs : ReadDescriptor(d) \/ MoveData(d) \/ EnqueueEvent(d)
  \/ \E queue \in {"eq", "txcq", "rxcq"} : CommitEntry(queue)
NicNext == Open \/ StartXmit \/ Callback \/ WriteRegister \/ Device \/ Arrive

\* The simulator runs every generator that can run and the device is clocked;
\* nobody has to send frames.
NicSpec ==
  /\ NicInit /\ [][NicNext]_nicVars
  /\ WF_nicVars(Open) /\ WF_nicVars(WriteRegister)
  /\ WF_nicVars(Interrupt) /\ WF_nicVars(ReadEvents \/ ReadCompletions \/ ReadRing \/ FinishInterrupt)
  /\ WF_nicVars(TxFetch) /\ WF_nicVars(RxFetch) /\ WF_nicVars(SendMsi)
  /\ \A d \in Dirs : /\ WF_nicVars(ReadDescriptor(d)) /\ WF_nicVars(MoveData(d))
                     /\ WF_nicVars(EnqueueEvent(d))
  /\ \A queue \in {"eq", "txcq", "rxcq"} : WF_nicVars(CommitEntry(queue))

(***************************************************************************)
(* Properties.                                                              *)
(***************************************************************************)
\* Every variable holds what the driver and the device may put in it.
NicTypeOK ==
  /\ \A d \in Dirs : /\ ring[d].clean <= ring[d].tail /\ ring[d].tail <= ring[d].head
                     /\ ring[d].head - ring[d].clean <= Size
                     /\ ring[d].info \in [Slots -> 1..(2 * Size) \cup {NoBuf}]
                     /\ cq[d].tail <= cq[d].head /\ events[d] \in Nat
                     /\ \A i \in DOMAIN work[d] : work[d][i].ptr \in -1..(PtrMod - 1)
  /\ eq.tail <= eq.head
  /\ pool.made \in 0..(2 * Size) /\ \A i \in DOMAIN pool.free : pool.free[i] \in 1..pool.made
  /\ intr.pc \in {"idle", "events", "cq", "ring", "finish", "arm"} /\ intr.pending \in Nat
  /\ \A x \in Queues : /\ q[x].head \in 0..(PtrMod - 1) /\ q[x].tail \in 0..(PtrMod - 1)
                       /\ Len(q[x].ops) <= OpTable
  /\ {raised, portUp, msi.asked} \subseteq BOOLEAN /\ lost \in Nat

\* A packet buffer is in one place: free, or held by one entry of one ring
\* (alloc_pkt, free_pkt, free_desc, prepare_desc) ...
Entries == Dirs \X Slots
HeldBy(e) == ring[e[1]].info[e[2]]
\* ... and the device reads and writes no buffer but the one its entry holds.
InDevice(d) == {work[d][i] : i \in {k \in DOMAIN work[d] : work[d][k].buf # NoBuf}}
BuffersApart ==
  /\ \A e, f \in Entries : e # f /\ HeldBy(e) # NoBuf => HeldBy(e) # HeldBy(f)
  /\ \A i, j \in DOMAIN pool.free : i # j => pool.free[i] # pool.free[j]
  /\ {HeldBy(e) : e \in Entries} \cap Range(pool.free) = {}
  /\ \A d \in Dirs : \A job \in InDevice(d) : job.buf = ring[d].info[job.ptr % Size]

\* Frames leave the port in the order of start_xmit, each once, with their own
\* data: descriptors are fetched ahead while earlier fetches are not committed.
WireInOrder == \A i \in DOMAIN net.wire : net.wire[i] = <<"tx", i>>

\* recv returns the frames that arrived and were not dropped, in their order.
Kept == {f \in 1..net.arrived : f \notin net.dropped}
GotAsArrived ==
  \A i \in DOMAIN net.got :
    /\ net.got[i][1] = "rx" /\ net.got[i][2] \in Kept
    /\ Cardinality({f \in Kept : f < net.got[i][2]}) = i - 1

\* No completion and no event meets a full or inactive queue: the engines would
\* go on without it.
NoCompletionLost == lost = 0

\* No completion names an entry outside its ring or without a buffer
\* (free_pkt asserts that the buffer is one it allocated).
NeverRaises == ~raised

\* Whatever the order of completions, arming, events and interrupts, the entry
\* of every frame sent is cleaned in the end,
TxReturned ==
  []<>(Len(net.wire) = net.sent /\ ring["tx"].clean = ring["tx"].head)
\* and every frame that arrived is received or dropped.
RxReturned == []<>(Len(net.got) = Cardinality(Kept))
=============================================================================
