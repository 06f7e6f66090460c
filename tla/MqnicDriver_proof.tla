--------------------------- MODULE MqnicDriver_proof ---------------------------
(***************************************************************************)
(* Proofs about MqnicDriver, for rings and queues of every size, every       *)
(* number of frames and every order of accesses, DMA and interrupts.         *)
(***************************************************************************)
EXTENDS MqnicDriver, SequenceTheorems, FiniteSetTheorems, TLAPS

-----------------------------------------------------------------------------
(* Pointers and slots. *)

Pointers == 0..(PtrMod - 1)

\* What is assumed of the constants.
LEMMA Sizes ==
  /\ Size \in Nat \ {0} /\ EvSize \in Nat \ {0} /\ OpTable \in Nat \ {0}
  /\ PtrMod \in Nat \ {0} /\ PtrMod > 2 * Size /\ PtrMod > 2 * EvSize /\ 2 * Size \in Nat
  /\ RefillAt \in 1..Size /\ MaxTx \in Nat /\ MaxRx \in Nat /\ NoBuf \notin Nat
BY QueueAssumption, DriverAssumption

\* A pointer as wide as the device's is itself below 2^16, and always a pointer.
LEMMA PtrIs ==
  /\ \A n \in Int : Ptr(n) \in Pointers
  /\ \A n \in Pointers : Ptr(n) = n
BY Sizes DEF Ptr, Pointers

\* Counting one on.
LEMMA Plus1Is ==
  /\ \A n \in Int : Plus1(n) \in Pointers
  /\ \A n \in Nat : n + 1 < PtrMod => Plus1(n) = n + 1
BY Sizes DEF Plus1, Pointers

\* The driver's pointer follows the device's, and never goes back.
LEMMA AdvancedIs ==
  /\ \A ptr, val \in Nat : Advanced(ptr, val) \in Nat /\ Advanced(ptr, val) >= ptr
  /\ \A ptr, val \in Nat : ptr <= val /\ val < PtrMod => Advanced(ptr, val) = val
<1>1. \A n \in Int : n % PtrMod \in Nat /\ (n \in Pointers => n % PtrMod = n)
  BY Sizes DEF Pointers
<1>2. \A ptr, val \in Nat : Advanced(ptr, val) \in Nat /\ Advanced(ptr, val) >= ptr
  BY <1>1 DEF Advanced
<1>3. ASSUME NEW ptr \in Nat, NEW val \in Nat, ptr <= val, val < PtrMod
      PROVE  Advanced(ptr, val) = val
  <2>1. val - ptr \in Pointers
    BY <1>3, Sizes DEF Pointers
  <2> QED BY <1>1, <1>3, <2>1 DEF Advanced
<1> QED BY <1>2, <1>3

\* Two entries in one slot are a whole ring apart.
LEMMA SlotOf ==
  /\ \A p \in Nat : p % Size \in Slots
  /\ \A p, r \in Nat : p < r /\ p % Size = r % Size => p + Size <= r
  /\ \A s \in Slots : s \in Nat /\ s % Size = s
<1>1. \A p \in Nat : p % Size \in Slots
  BY Sizes DEF Slots
<1>2. \A s \in Slots : s \in Nat /\ s % Size = s
  BY Sizes DEF Slots
<1>3. ASSUME NEW p \in Nat, NEW r \in Nat, p < r, p % Size = r % Size
      PROVE  p + Size <= r
  <2> DEFINE a == p \div Size
             b == r \div Size
             m == p % Size
  <2>1. a \in Nat /\ b \in Nat /\ m \in Nat /\ p = Size * a + m /\ r = Size * b + m
    BY <1>3, Sizes
  <2> HIDE DEF a, b, m
  <2>2. a < b
    <3> SUFFICES ASSUME b <= a PROVE FALSE
      BY <2>1
    <3>1. PICK k \in Nat : a = b + k
      BY <2>1, a - b \in Nat
    <3>2. Size * a = Size * b + Size * k /\ Size * k >= 0
      BY <2>1, <3>1, Sizes
    <3> QED BY <1>3, <2>1, <3>2, Sizes
  <2>3. PICK k \in Nat : b = a + 1 + k
    BY <2>1, <2>2, b - a - 1 \in Nat
  <2>4. Size * b = Size * a + Size + Size * k /\ Size * k >= 0
    BY <2>1, <2>3, Sizes
  <2>5. Size * a \in Nat /\ Size * b \in Nat
    BY <2>1, Sizes
  <2> QED BY <2>1, <2>4, <2>5, Sizes
<1> QED BY <1>1, <1>2, <1>3

-----------------------------------------------------------------------------
(* What every variable holds. *)

Bufs == 1..(2 * Size)
MaybeBuf == Nat \cup {NoBuf}
Frames == Dirs \X Nat
Writes == [op : {"head", "tail", "arm", "activate"}, q : Queues, val : Pointers]
Operations == [ptr : Pointers, data : Nat \cup Dirs]
QueueRecords == [active : BOOLEAN, armed : BOOLEAN, head : Pointers, tail : Pointers,
                 ops : Seq(Operations)]
RingRecords == [head : Nat, tail : Nat, clean : Nat, info : [Slots -> MaybeBuf]]
JobRecords == [ptr : -1..(PtrMod - 1), buf : MaybeBuf, frame : Nat]
Pcs == {"idle", "events", "cq", "ring", "finish", "arm"}

DriverTypes ==
  /\ ring \in [Dirs -> RingRecords] /\ cq \in [Dirs -> [head : Nat, tail : Nat]]
  /\ eq \in [head : Nat, tail : Nat] /\ eq.tail <= eq.head
  /\ pool \in [made : Nat, free : Seq(Nat)]
  /\ intr \in [pc : Pcs, at : Nat, pending : Nat]
  /\ portUp \in BOOLEAN /\ raised \in BOOLEAN /\ posted \in Seq(Writes)
MemoryTypes ==
  mem \in [desc : [Dirs -> [Slots -> MaybeBuf]], cpl : [Dirs -> [Slots -> Nat]],
           ev : [0..(EvSize - 1) -> Dirs], buf : [Bufs -> Frames]]
QueueTypes ==
  /\ q \in [Queues -> QueueRecords] /\ \A x \in Queues : Len(q[x].ops) <= OpTable
  /\ \A j \in DOMAIN q["eq"].ops : q["eq"].ops[j].data \in Dirs
FrameTypes ==
  /\ work \in [Dirs -> Seq(JobRecords)] /\ events \in [Dirs -> Nat]
  /\ msi \in [asked : BOOLEAN, sent : Nat] /\ lost \in Nat
  /\ net \in [sent : Nat, wire : Seq(Frames), arrived : Nat, got : Seq(Frames), dropped : SUBSET Nat]
Types == DriverTypes /\ MemoryTypes /\ QueueTypes /\ FrameTypes

-----------------------------------------------------------------------------
(* Where the frames of direction d have got to.  A frame takes an entry of the *)
(* ring (Filled), its descriptor is asked for and read, its data is moved, its *)
(* completion written, and its entry freed.  The pointers of the driver, of    *)
(* the two queue managers and of their operations in flight are these counts.  *)

RQ(d) == q[RingQ[d]]
CQ(d) == q[CqOf[d]]
Filled(d) == ring[d].head
Asked(d) == RQ(d).tail + Len(RQ(d).ops)
Fetched(d) == RQ(d).tail
Moved(d) == CQ(d).head + Len(CQ(d).ops)
Completed(d) == CQ(d).head
Freed(d) == cq[d].tail

\* The buffer of entry p, and the entries that have one.
Buf(d, p) == ring[d].info[p % Size]
Held(d) == Freed(d)..(Filled(d) - 1)

\* The counts follow one another, and no entry is used again before it is clean.
Order(d) ==
  /\ ring[d].clean <= CQ(d).tail /\ CQ(d).tail <= Freed(d) /\ Freed(d) <= Completed(d)
  /\ Moved(d) <= Fetched(d) /\ Asked(d) <= RQ(d).head /\ RQ(d).head <= Filled(d)
  /\ Filled(d) <= ring[d].clean + Size
  /\ ring[d].clean <= ring[d].tail /\ ring[d].tail <= Fetched(d)
  /\ cq[d].head = Freed(d) /\ Freed(d) <= Size

\* The operations in flight are those of the next entries, in their order, and
\* the completions in memory name their entries.
InLine(ops, base) == \A j \in DOMAIN ops : ops[j] = [ptr |-> base + j, data |-> base + j - 1]
Ops(d) ==
  /\ InLine(RQ(d).ops, Fetched(d)) /\ InLine(CQ(d).ops, Completed(d))
  /\ \A k \in Freed(d)..(Completed(d) - 1) : mem.cpl[d][k % Size] = k

\* The engine works on the entries asked for and not moved, in their order; it
\* knows the buffer once the descriptor is read.  Frames that arrived wait
\* behind them.
InWork(d) == Asked(d) - Moved(d)
Jobs(d) ==
  /\ Len(work[d]) >= InWork(d) /\ (d = "tx" => Len(work[d]) = InWork(d))
  /\ \A i \in DOMAIN work[d] :
       /\ i <= InWork(d) => work[d][i].ptr = Moved(d) + i - 1
       /\ i <= Fetched(d) - Moved(d) => work[d][i].buf = Buf(d, Moved(d) + i - 1)
       /\ i > Fetched(d) - Moved(d) => work[d][i].buf = NoBuf
       /\ i > InWork(d) => work[d][i].ptr = -1

\* An entry has its buffer, in the driver and in its descriptor, from when it
\* is filled until it is freed.
Entry(d) ==
  /\ \A p \in Held(d) : Buf(d, p) \in Nat /\ mem.desc[d][p % Size] = Buf(d, p)
  /\ \A s \in Slots : (\A p \in Held(d) : p % Size # s) => ring[d].info[s] = NoBuf

Rows(d) == Order(d) /\ Ops(d) /\ Jobs(d) /\ Entry(d)

\* Every buffer made is free or held by one entry.
PoolOK ==
  /\ \A i \in DOMAIN pool.free : pool.free[i] \in 1..pool.made
  /\ \A i, j \in DOMAIN pool.free : i # j => pool.free[i] # pool.free[j]
  /\ \A d \in Dirs : \A p \in Held(d) :
       /\ Buf(d, p) \in 1..pool.made
       /\ \A i \in DOMAIN pool.free : Buf(d, p) # pool.free[i]
  /\ \A d, e \in Dirs : \A p \in Held(d), r \in Held(e) :
       d # e \/ p # r => Buf(d, p) # Buf(e, r)
  /\ pool.made = Len(pool.free) + (Filled("tx") - Freed("tx")) + (Filled("rx") - Freed("rx"))
  /\ pool.made <= 2 * Size

\* Every entry of the transmit ring has the data of its frame.
TxData ==
  /\ net.sent = Filled("tx") /\ net.sent <= MaxTx
  /\ \A p \in Held("tx") : mem.buf[Buf("tx", p)] = <<"tx", p + 1>>
  /\ Len(net.wire) = Moved("tx") /\ \A i \in DOMAIN net.wire : net.wire[i] = <<"tx", i>>

\* fr[p] is the frame that entry p of the receive ring was taken for: it is in
\* the engine, then in the buffer, then with the program.
Numbers == 0..(2 * Size)
RxData(fr) ==
  /\ \A i \in 1..InWork("rx") : work["rx"][i].frame = fr[Moved("rx") + i - 1]
  /\ \A p \in Freed("rx")..(Moved("rx") - 1) : mem.buf[Buf("rx", p)] = <<"rx", fr[p]>>
  /\ Len(net.got) = Freed("rx") /\ \A i \in DOMAIN net.got : net.got[i] = <<"rx", fr[i - 1]>>

\* The frames that arrived wait in their order; of those before them each was
\* dropped, or given the next entry.
Waiting == Len(work["rx"]) - InWork("rx")
Decided == net.arrived - Waiting
FramesOK(fr) ==
  /\ Decided \in Nat /\ net.arrived <= MaxRx /\ Asked("rx") <= Decided
  /\ \A i \in 1..Waiting : work["rx"][InWork("rx") + i].frame = Decided + i
  /\ net.dropped \subseteq 1..Decided
  /\ \A p \in 0..(Asked("rx") - 1) : fr[p] \in (1..Decided) \ net.dropped
  /\ \A p, r \in 0..(Asked("rx") - 1) : p < r => fr[p] < fr[r]
  /\ \A f \in (1..Decided) \ net.dropped : \E p \in 0..(Asked("rx") - 1) : fr[p] = f
RxOK == \E fr \in [Numbers -> Nat] : RxData(fr) /\ FramesOK(fr)

-----------------------------------------------------------------------------
(* What the driver has written and the device has not yet seen. *)

\* Head pointers move on, up to what is filled; the tail of a completion queue
\* is what is freed.
HeadWrites(d) ==
  \A i \in DOMAIN posted : posted[i].op = "head" /\ posted[i].q = RingQ[d] =>
    /\ RQ(d).head <= posted[i].val /\ posted[i].val <= Filled(d)
    /\ \A j \in 1..i : posted[j].op = "head" /\ posted[j].q = RingQ[d] => posted[j].val <= posted[i].val
TailWrites(d) ==
  /\ \A i \in DOMAIN posted : posted[i].op = "tail" /\ posted[i].q = CqOf[d] => posted[i].val = Freed(d)
  /\ (\A i \in DOMAIN posted : ~(posted[i].op = "tail" /\ posted[i].q = CqOf[d])) => CQ(d).tail = Freed(d)
WhichWrites ==
  \A i \in DOMAIN posted :
    /\ posted[i].op = "head" => posted[i].q \in {"txq", "rxq"}
    /\ posted[i].op = "tail" => posted[i].q \in {"eq", "txcq", "rxcq"}
WritesOK == WhichWrites /\ \A d \in Dirs : HeadWrites(d) /\ TailWrites(d)

\* Where open activates a queue, and whether it has yet to do so.
Steps == {"eq", "arm eq", "rxcq", "arm rxcq", "rxq", "txcq", "arm txcq", "txq"}
Turn == [eq |-> 1, rxcq |-> 3, rxq |-> 5, txcq |-> 6, txq |-> 8]
ToCome(x) == Len(main) > 8 - Turn[x]
Due(x, n) == \E j \in 1..n : posted[j].op = "activate" /\ posted[j].q = x
\* Each queue is activated once, a ring after its completion queue, and nothing
\* happens in a queue before.
Activation ==
  /\ main \in Seq(Steps) /\ Len(main) <= 8
  /\ \A j \in 1..Len(main) : main[j] = ToDo[8 - Len(main) + j]
  /\ \A x \in Queues : ToCome(x) => ~q[x].active /\ ~Due(x, Len(posted))
  /\ \A x \in Queues : ToCome(x) \/ q[x].active \/ Due(x, Len(posted))
  /\ \A x \in Queues : \A i \in DOMAIN posted : posted[i].op = "activate" /\ posted[i].q = x =>
       ~q[x].active /\ ~Due(x, i - 1)
  /\ \A d \in Dirs :
       /\ RQ(d).active => CQ(d).active
       /\ \A i \in DOMAIN posted : posted[i].op = "activate" /\ posted[i].q = RingQ[d] =>
            CQ(d).active \/ Due(CqOf[d], i - 1)
       /\ ~RQ(d).active => RQ(d).tail = 0 /\ RQ(d).ops = <<>>
       /\ ~CQ(d).active => CQ(d).head = 0 /\ CQ(d).ops = <<>>

\* Where the callback is among the events it read.
AtEvent ==
  /\ intr.pc \in {"cq", "ring", "finish"} => eq.tail <= intr.at
  /\ intr.pc \in {"cq", "ring"} => intr.at < eq.head
  /\ intr.pc = "finish" => intr.at <= eq.head

NicInv ==
  /\ Types /\ \A d \in Dirs : Rows(d)
  /\ PoolOK /\ TxData /\ RxOK /\ WritesOK /\ Activation /\ AtEvent

-----------------------------------------------------------------------------
(* Lemmas about the operators of the model. *)

\* The queues of a direction.
LEMMA Names ==
  /\ Dirs = {"tx", "rx"} /\ \A d \in Dirs : DirOf(CqOf[d]) = d
  /\ \A d \in Dirs : CqOf[d] \in Queues \ {"eq"} /\ RingQ[d] \in Queues \ {"eq"}
  /\ \A d, e \in Dirs : CqOf[d] # RingQ[e] /\ (d # e => CqOf[d] # CqOf[e] /\ RingQ[d] # RingQ[e])
  /\ \A x \in Queues : x = "eq" \/ \E d \in Dirs : x = CqOf[d] \/ x = RingQ[d]
BY DEF Dirs, DirOf, CqOf, RingQ, Queues

\* Operations in flight that continue from base: the newest, one more, and the
\* others when the oldest is done.
LEMMA LineLatest ==
  ASSUME NEW x \in QueueRecords, NEW base \in Nat, InLine(x.ops, base)
  PROVE  Latest(x, base) = base + Len(x.ops)
<1>1. CASE x.ops = <<>>
  BY <1>1 DEF Latest
<1>2. CASE x.ops # <<>>
  <2>1. x.ops \in Seq(Operations) /\ Len(x.ops) \in DOMAIN x.ops /\ Len(x.ops) \in Nat
    BY <1>2 DEF QueueRecords
  <2>2. x.ops[Len(x.ops)] = [ptr |-> base + Len(x.ops), data |-> base + Len(x.ops) - 1]
    BY <2>1 DEF InLine
  <2> QED BY <1>2, <2>2 DEF Latest, Last
<1> QED BY <1>1, <1>2

\* One more operation in flight.
LEMMA LineStarted ==
  ASSUME NEW x \in QueueRecords, NEW base \in Nat, InLine(x.ops, base),
         NEW at \in Nat, at = base + Len(x.ops), at + 1 < PtrMod
  PROVE  LET y == Started(x, at, at)
         IN /\ y \in QueueRecords /\ y = [x EXCEPT !.ops = y.ops]
            /\ InLine(y.ops, base) /\ Len(y.ops) = Len(x.ops) + 1
<1> DEFINE y == Started(x, at, at)
           op == [ptr |-> at + 1, data |-> at]
<1>1. op \in Operations /\ x.ops \in Seq(Operations)
  BY Sizes DEF Operations, Pointers, QueueRecords
<1>2. y = [x EXCEPT !.ops = Append(x.ops, op)]
  BY Plus1Is DEF Started
<1>3. y.ops = Append(x.ops, op) /\ y \in QueueRecords
  BY <1>1, <1>2, SMTT(30) DEF QueueRecords
<1>4. Len(y.ops) = Len(x.ops) + 1
  BY <1>1, <1>3
<1>5. ASSUME NEW j \in DOMAIN y.ops PROVE y.ops[j] = [ptr |-> base + j, data |-> base + j - 1]
  <2>1. CASE j = Len(x.ops) + 1
    BY <1>1, <1>3, <2>1
  <2>2. CASE j # Len(x.ops) + 1
    <3>1. j \in DOMAIN x.ops /\ y.ops[j] = x.ops[j]
      BY <1>1, <1>3, <2>2
    <3> QED BY <3>1 DEF InLine
  <2> QED BY <2>1, <2>2
<1> QED BY <1>2, <1>3, <1>4, <1>5 DEF InLine

\* The oldest operation is done.
LEMMA LineTail ==
  ASSUME NEW ops \in Seq(Operations), NEW base \in Nat, InLine(ops, base), ops # <<>>
  PROVE  /\ Head(ops) = [ptr |-> base + 1, data |-> base]
         /\ Tail(ops) \in Seq(Operations) /\ Len(Tail(ops)) = Len(ops) - 1
         /\ InLine(Tail(ops), base + 1)
<1>1. Len(ops) \in Nat /\ Len(ops) >= 1 /\ 1 \in DOMAIN ops
  OBVIOUS
<1>2. Head(ops) = [ptr |-> base + 1, data |-> base]
  BY <1>1 DEF InLine
<1>3. Tail(ops) \in Seq(Operations) /\ Len(Tail(ops)) = Len(ops) - 1
  BY <1>1
<1>4. ASSUME NEW j \in DOMAIN Tail(ops)
      PROVE  Tail(ops)[j] = [ptr |-> (base + 1) + j, data |-> (base + 1) + j - 1]
  <2>1. j \in Nat /\ j + 1 \in DOMAIN ops /\ Tail(ops)[j] = ops[j + 1]
    BY <1>1, <1>3
  <2>2. ops[j + 1] = [ptr |-> base + (j + 1), data |-> base + (j + 1) - 1]
    BY <2>1 DEF InLine
  <2> QED BY <2>1, <2>2
<1> QED BY <1>2, <1>3, <1>4 DEF InLine

\* An oldest element less.
LEMMA TailIs ==
  ASSUME NEW S, NEW s \in Seq(S), s # <<>>
  PROVE  /\ Head(s) = s[1] /\ Head(s) \in S /\ Len(s) \in Nat /\ Len(s) >= 1
         /\ Tail(s) \in Seq(S) /\ Len(Tail(s)) = Len(s) - 1
         /\ \A i \in 1..(Len(s) - 1) : Tail(s)[i] = s[i + 1]
OBVIOUS

-----------------------------------------------------------------------------
(* The counts, and what a step leaves alone. *)

\* The counts are numbers in their order, below twice the size of the ring.
LEMMA Counts ==
  Types /\ (\A d \in Dirs : Order(d)) =>
    \A d \in Dirs :
      /\ Freed(d) \in Nat /\ Completed(d) \in Nat /\ Moved(d) \in Nat /\ Fetched(d) \in Nat
      /\ Asked(d) \in Nat /\ Filled(d) \in Nat /\ RQ(d).head \in Nat /\ CQ(d).tail \in Nat
      /\ Freed(d) <= Completed(d) /\ Completed(d) <= Moved(d) /\ Moved(d) <= Fetched(d)
      /\ Fetched(d) <= Asked(d) /\ Asked(d) <= RQ(d).head /\ RQ(d).head <= Filled(d)
      /\ Filled(d) <= Freed(d) + Size /\ Filled(d) <= 2 * Size /\ Filled(d) < PtrMod
      /\ Filled(d) - Freed(d) \in Nat
<1> SUFFICES ASSUME Types, NEW d \in Dirs, Order(d)
             PROVE  /\ Freed(d) \in Nat /\ Completed(d) \in Nat /\ Moved(d) \in Nat
                    /\ Fetched(d) \in Nat /\ Asked(d) \in Nat /\ Filled(d) \in Nat
                    /\ RQ(d).head \in Nat /\ CQ(d).tail \in Nat
                    /\ Freed(d) <= Completed(d) /\ Completed(d) <= Moved(d)
                    /\ Moved(d) <= Fetched(d) /\ Fetched(d) <= Asked(d)
                    /\ Asked(d) <= RQ(d).head /\ RQ(d).head <= Filled(d)
                    /\ Filled(d) <= Freed(d) + Size /\ Filled(d) <= 2 * Size
                    /\ Filled(d) < PtrMod /\ Filled(d) - Freed(d) \in Nat
  OBVIOUS
<1>1. RQ(d) \in QueueRecords /\ CQ(d) \in QueueRecords
  BY Names DEF Types, QueueTypes, RQ, CQ
<1>2. /\ RQ(d).tail \in Nat /\ RQ(d).head \in Nat /\ CQ(d).tail \in Nat /\ CQ(d).head \in Nat
      /\ Len(RQ(d).ops) \in Nat /\ Len(CQ(d).ops) \in Nat
  BY <1>1, Sizes DEF QueueRecords, Pointers
<1>3. /\ ring[d].head \in Nat /\ ring[d].tail \in Nat /\ ring[d].clean \in Nat
      /\ cq[d].head \in Nat /\ cq[d].tail \in Nat
  BY DEF Types, DriverTypes, RingRecords
<1>4. /\ ring[d].clean <= CQ(d).tail /\ CQ(d).tail <= cq[d].tail /\ cq[d].tail <= CQ(d).head
      /\ CQ(d).head + Len(CQ(d).ops) <= RQ(d).tail /\ RQ(d).tail + Len(RQ(d).ops) <= RQ(d).head
      /\ RQ(d).head <= ring[d].head /\ ring[d].head <= ring[d].clean + Size /\ cq[d].tail <= Size
  BY DEF Order, Freed, Completed, Moved, Fetched, Asked, Filled
<1>5. cq[d].tail + Size <= 2 * Size /\ Size \in Nat /\ 2 * Size \in Nat
  BY <1>3, <1>4, Sizes
<1>6. /\ Filled(d) \in Nat /\ Filled(d) <= Freed(d) + Size /\ Filled(d) <= 2 * Size
      /\ Filled(d) < PtrMod
  <2>1. ring[d].head <= cq[d].tail + Size
    <3> DEFINE a == ring[d].head
               b == ring[d].clean
               c == CQ(d).tail
               e == cq[d].tail
    <3>1. a \in Nat /\ b \in Nat /\ c \in Nat /\ e \in Nat /\ Size \in Nat
      BY <1>2, <1>3, <1>5
    <3>2. a <= b + Size /\ b <= c /\ c <= e
      BY <1>4
    <3> HIDE DEF a, b, c, e
    <3> SUFFICES a <= e + Size
      BY DEF a, e
    <3> QED BY <3>1, <3>2
  <2>2. PtrMod \in Nat /\ 2 * Size < PtrMod
    BY Sizes
  <2> QED BY <1>3, <1>5, <2>1, <2>2 DEF Freed, Filled
<1>7. /\ Freed(d) \in Nat /\ Completed(d) \in Nat /\ Moved(d) \in Nat
      /\ Fetched(d) \in Nat /\ Asked(d) \in Nat
  BY <1>2, <1>3, SMTT(30) DEF Freed, Completed, Moved, Fetched, Asked
<1>8. /\ Freed(d) <= Completed(d) /\ Completed(d) <= Moved(d) /\ Moved(d) <= Fetched(d)
      /\ Fetched(d) <= Asked(d) /\ Asked(d) <= RQ(d).head /\ RQ(d).head <= Filled(d)
  BY <1>2, <1>3, <1>4 DEF Freed, Completed, Moved, Fetched, Asked, Filled
<1>9. Filled(d) - Freed(d) \in Nat
  BY <1>2, <1>6, <1>7, <1>8
<1> QED BY <1>2, <1>6, <1>7, <1>8, <1>9

\* The entries of a direction are as they were if its pointers, operations and
\* frames are, its buffers, and what memory holds of them.
SameRows(d) ==
  /\ ring'[d] = ring[d] /\ cq'[d] = cq[d] /\ work'[d] = work[d]
  /\ mem'.desc[d] = mem.desc[d] /\ mem'.cpl[d] = mem.cpl[d]
  /\ RQ(d)'.head = RQ(d).head /\ RQ(d)'.tail = RQ(d).tail /\ RQ(d)'.ops = RQ(d).ops
  /\ CQ(d)'.head = CQ(d).head /\ CQ(d)'.tail = CQ(d).tail /\ CQ(d)'.ops = CQ(d).ops

\* Such a step keeps the entries of the direction in order.
LEMMA SameKeepsRows == ASSUME NEW d \in Dirs, Rows(d), SameRows(d) PROVE Rows(d)'
<1> USE DEF SameRows
<1>1. /\ Filled(d)' = Filled(d) /\ Freed(d)' = Freed(d) /\ Asked(d)' = Asked(d)
      /\ Fetched(d)' = Fetched(d) /\ Moved(d)' = Moved(d) /\ Completed(d)' = Completed(d)
      /\ InWork(d)' = InWork(d) /\ Held(d)' = Held(d)
  BY DEF Filled, Freed, Asked, Fetched, Moved, Completed, InWork, Held
<1>2. \A p : Buf(d, p)' = Buf(d, p)
  BY DEF Buf
<1>3. Order(d)'
  BY <1>1 DEF Rows, Order
<1>4. Ops(d)'
  BY <1>1 DEF Rows, Ops, InLine
<1>5. Jobs(d)'
  BY <1>1, <1>2 DEF Rows, Jobs
<1>6. Entry(d)'
  BY <1>1, <1>2 DEF Rows, Entry
<1> QED BY <1>3, <1>4, <1>5, <1>6 DEF Rows

-----------------------------------------------------------------------------
(* Packet buffers: what n calls of alloc_pkt do. *)

Spare == /\ \A i \in DOMAIN pool.free : pool.free[i] \in 1..pool.made
         /\ \A i, j \in DOMAIN pool.free : i # j => pool.free[i] # pool.free[j]

\* The buffers returned, and the pool left, entry by entry.
LEMMA AllocIs ==
  ASSUME Types, NEW n \in Nat
  PROVE  LET k == Len(pool.free)
             a == Alloc(n)
         IN /\ k \in Nat /\ pool.made \in Nat /\ pool.free \in Seq(Nat)
            /\ DOMAIN a.bufs = 1..n
            /\ \A i \in 1..n : a.bufs[i] = IF i <= k THEN pool.free[k - i + 1] ELSE pool.made + (i - k)
            /\ n < k => /\ a.pool.made = pool.made
                        /\ a.pool.free \in Seq(Nat) /\ Len(a.pool.free) = k - n
                        /\ \A j \in 1..(k - n) : a.pool.free[j] = pool.free[j]
            /\ n >= k => a.pool.made = pool.made + (n - k) /\ a.pool.free = <<>>
            /\ a.pool = [made |-> a.pool.made, free |-> a.pool.free]
<1> DEFINE k == Len(pool.free)
           old == Reverse(pool.free)
<1>1. k \in Nat /\ pool.made \in Nat /\ pool.free \in Seq(Nat)
  BY DEF Types, DriverTypes
<1>2. old = [i \in 1..k |-> pool.free[(k - i) + 1]]
  BY DEF Reverse
<1>3. \A i \in 1..k : pool.free[(k - i) + 1] \in Nat
  BY <1>1
<1>4. old \in Seq(Nat) /\ Len(old) = k
  BY <1>1, <1>2, <1>3, IsASeq
<1>5. Alloc(n) = [bufs |-> [i \in 1..n |-> IF i <= k THEN old[i] ELSE pool.made + (i - k)],
                  pool |-> [made |-> pool.made + (IF n > k THEN n - k ELSE 0),
                            free |-> IF n >= k THEN <<>> ELSE SubSeq(pool.free, 1, k - n)]]
  BY <1>4 DEF Alloc
<1>6. \A i \in 1..n : i <= k => old[i] = pool.free[k - i + 1]
  BY <1>1, <1>2
<1>7. ASSUME n < k
      PROVE  /\ SubSeq(pool.free, 1, k - n) \in Seq(Nat)
             /\ Len(SubSeq(pool.free, 1, k - n)) = k - n
             /\ \A j \in 1..(k - n) : SubSeq(pool.free, 1, k - n)[j] = pool.free[j]
  <2>1. k - n \in 1..k /\ 1 \in 1..(k + 1)
    BY <1>1, <1>7
  <2> QED BY <1>1, <2>1, SubSeqProperties, SMTT(30)
<1>8. Alloc(n).bufs = [i \in 1..n |-> IF i <= k THEN old[i] ELSE pool.made + (i - k)]
  BY <1>5
<1>9. /\ Alloc(n).pool.made = pool.made + (IF n > k THEN n - k ELSE 0)
      /\ Alloc(n).pool.free = IF n >= k THEN <<>> ELSE SubSeq(pool.free, 1, k - n)
      /\ Alloc(n).pool = [made |-> Alloc(n).pool.made, free |-> Alloc(n).pool.free]
  <2> DEFINE P == [made |-> pool.made + (IF n > k THEN n - k ELSE 0),
                   free |-> IF n >= k THEN <<>> ELSE SubSeq(pool.free, 1, k - n)]
  <2>1. Alloc(n).pool = P
    BY <1>5
  <2>2. P = [made |-> P.made, free |-> P.free]
    OBVIOUS
  <2> QED BY <2>1, <2>2
<1> HIDE DEF k, old
<1>10. \A i \in 1..n : Alloc(n).bufs[i] = IF i <= k THEN pool.free[k - i + 1] ELSE pool.made + (i - k)
  BY <1>6, <1>8
<1>11. n < k => /\ Alloc(n).pool.made = pool.made
                /\ Alloc(n).pool.free \in Seq(Nat) /\ Len(Alloc(n).pool.free) = k - n
                /\ \A j \in 1..(k - n) : Alloc(n).pool.free[j] = pool.free[j]
  <2> SUFFICES ASSUME n < k
               PROVE  /\ Alloc(n).pool.made = pool.made
                      /\ Alloc(n).pool.free \in Seq(Nat) /\ Len(Alloc(n).pool.free) = k - n
                      /\ \A j \in 1..(k - n) : Alloc(n).pool.free[j] = pool.free[j]
    OBVIOUS
  <2>1. ~(n > k) /\ ~(n >= k)
    BY <1>1 DEF k
  <2> QED BY <1>1, <1>7, <1>9, <2>1
<1>12. n >= k => Alloc(n).pool.made = pool.made + (n - k) /\ Alloc(n).pool.free = <<>>
  <2>1. CASE n > k
    BY <1>1, <1>9, <2>1
  <2>2. CASE n = k
    BY <1>1, <1>9, <2>2
  <2> QED BY <1>1, <2>1, <2>2 DEF k
<1> QED BY <1>1, <1>8, <1>9, <1>10, <1>11, <1>12 DEF k

\* The buffers returned are different, were free or did not exist, and are free
\* no more; the pool counts them as used.
LEMMA AllocFacts ==
  ASSUME Types, Spare, NEW n \in Nat
  PROVE  LET a == Alloc(n)
         IN /\ a.pool \in [made : Nat, free : Seq(Nat)] /\ a.pool.made >= pool.made
            /\ a.pool.made - Len(a.pool.free) = pool.made - Len(pool.free) + n
            /\ a.pool.made = pool.made \/ a.pool.free = <<>>
            /\ DOMAIN a.pool.free \subseteq DOMAIN pool.free
            /\ \A j \in DOMAIN a.pool.free : a.pool.free[j] = pool.free[j]
            /\ \A i \in 1..n :
                 /\ a.bufs[i] \in 1..a.pool.made
                 /\ a.bufs[i] > pool.made \/ \E j \in DOMAIN pool.free : a.bufs[i] = pool.free[j]
                 /\ \A j \in DOMAIN a.pool.free : a.bufs[i] # a.pool.free[j]
            /\ \A i, j \in 1..n : i # j => a.bufs[i] # a.bufs[j]
<1> DEFINE k == Len(pool.free)
           a == Alloc(n)
           m == a.pool.made
           f == a.pool.free
<1>1. /\ k \in Nat /\ pool.made \in Nat /\ pool.free \in Seq(Nat) /\ DOMAIN pool.free = 1..k
      /\ \A i \in 1..n : a.bufs[i] = IF i <= k THEN pool.free[k - i + 1] ELSE pool.made + (i - k)
      /\ n < k => /\ m = pool.made /\ f \in Seq(Nat) /\ Len(f) = k - n
                  /\ \A j \in 1..(k - n) : f[j] = pool.free[j]
      /\ n >= k => m = pool.made + (n - k) /\ f = <<>>
      /\ a.pool = [made |-> m, free |-> f]
  BY AllocIs, SMTT(30)
<1>2. /\ \A j \in 1..k : pool.free[j] \in 1..pool.made
      /\ \A i, j \in 1..k : i # j => pool.free[i] # pool.free[j]
  BY <1>1 DEF Spare
<1>3. k \in Nat /\ pool.made \in Nat
  BY <1>1
<1>4. /\ \A i \in 1..n : i <= k => a.bufs[i] = pool.free[k - i + 1] /\ k - i + 1 \in 1..k
      /\ \A i \in 1..n : i > k => a.bufs[i] = pool.made + (i - k)
  <2>1. \A i \in 1..n : a.bufs[i] = IF i <= k THEN pool.free[k - i + 1] ELSE pool.made + (i - k)
    BY <1>1
  <2> QED BY <1>3, <2>1
<1> HIDE DEF a, m, f, k
<1>5. /\ f \in Seq(Nat) /\ m \in Nat /\ m >= pool.made /\ m - Len(f) = pool.made - k + n
      /\ m = pool.made \/ f = <<>>
      /\ DOMAIN f = 1..Len(f) /\ Len(f) \in Nat /\ Len(f) <= k
      /\ \A j \in 1..Len(f) : j \in 1..k /\ j <= k - n /\ f[j] = pool.free[j]
      /\ n > k => m = pool.made + (n - k)
  <2>1. CASE n < k
    <3>1. /\ m = pool.made /\ f \in Seq(Nat) /\ Len(f) = k - n
          /\ \A j \in 1..(k - n) : f[j] = pool.free[j]
      BY <1>1, <2>1
    <3>2. k - n \in Nat /\ k - n <= k
      BY <1>3, <2>1
    <3> QED BY <1>3, <2>1, <3>1, <3>2
  <2>2. CASE n >= k
    <3>1. f = <<>> /\ m = pool.made + (n - k) /\ Len(f) = 0
      BY <1>1, <2>2
    <3> QED BY <1>3, <2>2, <3>1
  <2> QED BY <1>3, <2>1, <2>2
<1>6. ASSUME NEW i \in 1..n
      PROVE  /\ a.bufs[i] \in 1..m
             /\ a.bufs[i] > pool.made \/ \E j \in 1..k : a.bufs[i] = pool.free[j]
             /\ \A j \in DOMAIN f : a.bufs[i] # f[j]
  <2>1. CASE i <= k
    <3>1. k - i + 1 \in 1..k /\ a.bufs[i] = pool.free[k - i + 1]
      BY <1>4, <2>1
    <3>2. a.bufs[i] \in 1..pool.made
      BY <1>2, <3>1
    <3>3. ASSUME NEW j \in DOMAIN f PROVE a.bufs[i] # f[j]
      <4>1. j \in 1..k /\ j <= k - n /\ f[j] = pool.free[j]
        BY <1>5
      <4>2. j # k - i + 1
        BY <1>3, <4>1
      <4> QED BY <1>2, <3>1, <4>1, <4>2
    <3>4. a.bufs[i] \in 1..m
      BY <1>3, <1>5, <3>2
    <3> QED BY <3>1, <3>3, <3>4
  <2>2. CASE i > k
    <3>1. a.bufs[i] = pool.made + (i - k) /\ n > k
      BY <1>3, <1>4, <2>2
    <3>2. m = pool.made + (n - k)
      BY <1>5, <3>1
    <3>3. a.bufs[i] > pool.made /\ a.bufs[i] \in 1..m
      BY <1>3, <2>2, <3>1, <3>2
    <3>4. \A j \in DOMAIN f : f[j] \in 1..pool.made
      BY <1>2, <1>5
    <3>5. \A j \in DOMAIN f : a.bufs[i] # f[j]
      BY <1>3, <3>3, <3>4
    <3> QED BY <3>3, <3>5
  <2> QED BY <1>3, <2>1, <2>2
<1>7. ASSUME NEW i \in 1..n, NEW j \in 1..n, i # j PROVE a.bufs[i] # a.bufs[j]
  <2>1. CASE i <= k /\ j <= k
    <3>1. /\ k - i + 1 \in 1..k /\ a.bufs[i] = pool.free[k - i + 1]
          /\ k - j + 1 \in 1..k /\ a.bufs[j] = pool.free[k - j + 1]
      BY <1>4, <2>1
    <3>2. k - i + 1 # k - j + 1
      BY <1>3, <1>7
    <3> QED BY <1>2, <3>1, <3>2
  <2>2. CASE i > k /\ j > k
    <3>1. a.bufs[i] = pool.made + (i - k) /\ a.bufs[j] = pool.made + (j - k)
      BY <1>4, <2>2
    <3> QED BY <1>3, <1>7, <3>1
  <2>3. ASSUME NEW x \in 1..n, NEW y \in 1..n, x <= k, y > k PROVE a.bufs[x] # a.bufs[y]
    <3>1. a.bufs[x] = pool.free[k - x + 1] /\ k - x + 1 \in 1..k /\ a.bufs[y] = pool.made + (y - k)
      BY <1>4, <2>3
    <3>2. a.bufs[x] \in 1..pool.made
      BY <1>2, <3>1
    <3> QED BY <1>3, <2>3, <3>1, <3>2
  <2> QED BY <1>3, <2>1, <2>2, <2>3
<1>8. /\ a.pool \in [made : Nat, free : Seq(Nat)] /\ m >= pool.made
      /\ m - Len(f) = pool.made - Len(pool.free) + n
      /\ m = pool.made \/ f = <<>>
      /\ DOMAIN f \subseteq DOMAIN pool.free
      /\ \A j \in DOMAIN f : f[j] = pool.free[j]
  <2>1. a.pool = [made |-> m, free |-> f] /\ DOMAIN pool.free = 1..k
    BY <1>1
  <2> QED BY <1>5, <2>1 DEF k
<1>9. DOMAIN pool.free = 1..k
  BY <1>1
<1> QED BY <1>6, <1>7, <1>8, <1>9 DEF a, m, f

\* Fill puts the buffers in the entries from head on, and leaves the others.
LEMMA FillFacts ==
  ASSUME Types, Spare, NEW d \in Dirs, NEW r \in RingRecords, NEW n \in 0..Size
  PROVE  LET f == Fill(d, r, n)
             a == Alloc(n)
         IN /\ f.ring \in RingRecords /\ f.desc \in [Slots -> MaybeBuf]
            /\ f.ring.head = r.head + n /\ f.ring.tail = r.tail /\ f.ring.clean = r.clean
            /\ f.pool = a.pool /\ f.bufs = a.bufs
            /\ \A i \in 1..n : /\ f.ring.info[(r.head + i - 1) % Size] = a.bufs[i]
                               /\ f.desc[(r.head + i - 1) % Size] = a.bufs[i]
            /\ \A s \in Slots : (\A i \in 1..n : (r.head + i - 1) % Size # s) =>
                 f.ring.info[s] = r.info[s] /\ f.desc[s] = mem.desc[d][s]
<1> DEFINE f == Fill(d, r, n)
           a == Alloc(n)
           slot(i) == (r.head + i - 1) % Size
           buf(s, old) == IF \E i \in 1..n : slot(i) = s
                          THEN a.bufs[CHOOSE i \in 1..n : slot(i) = s] ELSE old
           info == [s \in Slots |-> buf(s, r.info[s])]
           desc == [s \in Slots |-> buf(s, mem.desc[d][s])]
<1>1. f = [ring |-> [r EXCEPT !.head = r.head + n, !.info = info],
           desc |-> desc, pool |-> a.pool, bufs |-> a.bufs]
  BY DEF Fill, RingRecords
<1>2. r.head \in Nat /\ n \in Nat /\ r.info \in [Slots -> MaybeBuf]
      /\ mem.desc[d] \in [Slots -> MaybeBuf] /\ Size \in Nat \ {0}
  BY Sizes DEF RingRecords, Types, MemoryTypes
<1>3. \A i \in 1..n : a.bufs[i] \in MaybeBuf
  <2>1. \A i \in 1..n : a.bufs[i] \in 1..a.pool.made
    BY <1>2, AllocFacts
  <2> QED BY <2>1 DEF MaybeBuf
<1>4. \A i \in 1..n : r.head + i - 1 \in Nat /\ slot(i) \in Slots
  <2>1. \A i \in 1..n : r.head + i - 1 \in Nat
    BY <1>2
  <2> QED BY <2>1, SlotOf
<1>5. ASSUME NEW i \in 1..n, NEW j \in 1..n, slot(i) = slot(j) PROVE i = j
  <2>1. CASE i < j
    <3>1. r.head + i - 1 < r.head + j - 1 /\ r.head + i - 1 \in Nat /\ r.head + j - 1 \in Nat
      BY <1>2, <2>1
    <3>2. (r.head + i - 1) + Size <= r.head + j - 1
      BY <1>5, <3>1, SlotOf
    <3> QED BY <1>2, <3>2
  <2>2. CASE j < i
    <3>1. r.head + j - 1 < r.head + i - 1 /\ r.head + i - 1 \in Nat /\ r.head + j - 1 \in Nat
      BY <1>2, <2>2
    <3>2. (r.head + j - 1) + Size <= r.head + i - 1
      BY <1>5, <3>1, SlotOf
    <3> QED BY <1>2, <3>2
  <2> QED BY <2>1, <2>2
<1> HIDE DEF slot
<1>6. ASSUME NEW s \in Slots, NEW i \in 1..n, slot(i) = s, NEW old PROVE buf(s, old) = a.bufs[i]
  <2>1. (CHOOSE j \in 1..n : slot(j) = s) = i
    BY <1>5, <1>6
  <2> QED BY <1>6, <2>1
<1>7. ASSUME NEW s \in Slots, \A i \in 1..n : slot(i) # s, NEW old PROVE buf(s, old) = old
  BY <1>7
<1> HIDE DEF buf
<1>8. \A s \in Slots, i \in 1..n : slot(i) = s => info[s] = a.bufs[i] /\ desc[s] = a.bufs[i]
  BY <1>6
<1>9. \A s \in Slots : (\A i \in 1..n : slot(i) # s) => info[s] = r.info[s] /\ desc[s] = mem.desc[d][s]
  BY <1>7
<1>10. info \in [Slots -> MaybeBuf] /\ desc \in [Slots -> MaybeBuf]
  BY <1>2, <1>3, <1>8, <1>9
<1> HIDE DEF info, desc, a
<1>11. /\ f.ring \in RingRecords /\ f.desc \in [Slots -> MaybeBuf]
       /\ f.ring.head = r.head + n /\ f.ring.tail = r.tail /\ f.ring.clean = r.clean
       /\ f.pool = a.pool /\ f.bufs = a.bufs /\ f.ring.info = info /\ f.desc = desc
  <2>1. f.ring = [r EXCEPT !.head = r.head + n, !.info = info]
    BY <1>1
  <2>2. f.desc = desc /\ f.pool = a.pool /\ f.bufs = a.bufs
    BY <1>1
  <2> HIDE DEF f
  <2>3. f.ring = [head |-> r.head + n, tail |-> r.tail, clean |-> r.clean, info |-> info]
    BY <2>1 DEF RingRecords
  <2>4. r.tail \in Nat /\ r.clean \in Nat /\ r.head + n \in Nat
    BY <1>2 DEF RingRecords
  <2>5. f.ring \in RingRecords
    BY <1>10, <2>3, <2>4 DEF RingRecords
  <2> QED BY <1>10, <2>2, <2>3, <2>5
<1>12. /\ \A i \in 1..n : f.ring.info[slot(i)] = a.bufs[i] /\ f.desc[slot(i)] = a.bufs[i]
       /\ \A s \in Slots : (\A i \in 1..n : slot(i) # s) =>
            f.ring.info[s] = r.info[s] /\ f.desc[s] = mem.desc[d][s]
  BY <1>4, <1>8, <1>9, <1>11
<1> QED BY <1>11, <1>12 DEF slot, a

\* Entries filled: those held keep their buffers, the new ones hold buffers
\* that nobody has, and the pool accounts for them.
Fills(d, r, n) ==
  /\ r.head = ring[d].head /\ r.info = ring[d].info /\ Filled(d) + n <= Freed(d) + Size
  /\ ring' = [ring EXCEPT ![d] = Fill(d, r, n).ring] /\ cq' = cq
  /\ mem'.desc = [mem.desc EXCEPT ![d] = Fill(d, r, n).desc] /\ pool' = Fill(d, r, n).pool

\* What the pointers and the buffers of the entries are after entries were filled.
LEMMA FillMoves ==
  ASSUME Types, \A e \in Dirs : Order(e) /\ Entry(e), PoolOK,
         NEW d \in Dirs, NEW r \in RingRecords, NEW n \in 0..Size, Fills(d, r, n)
  PROVE  /\ r.head = Filled(d) /\ Filled(d)' = r.head + n /\ \A e \in Dirs : Freed(e)' = Freed(e)
         /\ \A e \in Dirs : e # d => Filled(e)' = Filled(e) /\ ring'[e] = ring[e]
         /\ \A e \in Dirs : \A p \in Held(e) : p \in Held(e)' /\ Buf(e, p)' = Buf(e, p)
         /\ \A i \in 1..n : /\ r.head + i - 1 \in Held(d)'
                            /\ Buf(d, r.head + i - 1)' = Alloc(n).bufs[i]
         /\ \A p \in Held(d)' : p \in Held(d) \/ \E i \in 1..n : p = r.head + i - 1
         /\ \A i \in 1..n : \A e \in Dirs : \A p \in Held(e) : Buf(e, p) # Alloc(n).bufs[i]
         /\ \A e \in Dirs : Entry(e)'
<1> DEFINE f == Fill(d, r, n)
           a == Alloc(n)
<1>1. Spare /\ n \in Nat /\ Size \in Nat \ {0}
  BY Sizes DEF PoolOK, Spare
<1>2. /\ \A e \in Dirs : /\ Filled(e) \in Nat /\ Freed(e) \in Nat /\ Freed(e) <= Filled(e)
                         /\ Filled(e) <= Freed(e) + Size
      /\ r.head = Filled(d) /\ r.head + n <= Freed(d) + Size
  <2>1. \A e \in Dirs : Freed(e) \in Nat /\ Filled(e) \in Nat /\ Filled(e) - Freed(e) \in Nat
                        /\ Filled(e) <= Freed(e) + Size
    BY Counts
  <2>2. r.head = Filled(d) /\ r.head + n <= Freed(d) + Size
    BY DEF Fills, Filled
  <2> QED BY <2>1, <2>2
<1>3. /\ f.ring \in RingRecords /\ f.desc \in [Slots -> MaybeBuf]
      /\ f.ring.head = r.head + n
      /\ \A i \in 1..n : /\ f.ring.info[(r.head + i - 1) % Size] = a.bufs[i]
                         /\ f.desc[(r.head + i - 1) % Size] = a.bufs[i]
      /\ \A s \in Slots : (\A i \in 1..n : (r.head + i - 1) % Size # s) =>
           f.ring.info[s] = r.info[s] /\ f.desc[s] = mem.desc[d][s]
  BY <1>1, FillFacts
<1>4. /\ \A i \in 1..n :
           /\ a.bufs[i] \in 1..a.pool.made
           /\ a.bufs[i] > pool.made \/ \E j \in DOMAIN pool.free : a.bufs[i] = pool.free[j]
  BY <1>1, AllocFacts
<1> HIDE DEF f, a
<1>5. /\ ring \in [Dirs -> RingRecords] /\ mem.desc \in [Dirs -> [Slots -> MaybeBuf]]
      /\ r.head = Filled(d) /\ r.info = ring[d].info /\ Filled(d) + n <= Freed(d) + Size
      /\ ring' = [ring EXCEPT ![d] = f.ring] /\ cq' = cq
      /\ mem'.desc = [mem.desc EXCEPT ![d] = f.desc]
  BY DEF Types, DriverTypes, MemoryTypes, Fills, Filled, f
<1>6. /\ ring'[d] = f.ring /\ mem'.desc[d] = f.desc
      /\ \A e \in Dirs : e # d => ring'[e] = ring[e] /\ mem'.desc[e] = mem.desc[e]
  BY <1>5
<1>7. /\ Filled(d)' = r.head + n /\ \A e \in Dirs : Freed(e)' = Freed(e)
      /\ \A e \in Dirs : e # d => Filled(e)' = Filled(e)
  BY <1>3, <1>5, <1>6 DEF Filled, Freed
<1>8. \A i \in 1..n : r.head + i - 1 \in Nat /\ r.head + i - 1 \in Held(d)'
  <2> SUFFICES ASSUME NEW i \in 1..n PROVE r.head + i - 1 \in Nat /\ r.head + i - 1 \in Held(d)'
    OBVIOUS
  <2>1. Held(d)' = Freed(d)..((r.head + n) - 1)
    BY <1>7 DEF Held
  <2> QED BY <1>1, <1>2, <2>1
<1>9. \A p \in Held(d)' : p \in Held(d) \/ \E i \in 1..n : p = r.head + i - 1
  <2> SUFFICES ASSUME NEW p \in Held(d)', p \notin Held(d)
               PROVE  \E i \in 1..n : p = r.head + i - 1
    OBVIOUS
  <2>1. p \in Freed(d)..((r.head + n) - 1) /\ ~(p \in Freed(d)..(Filled(d) - 1))
    BY <1>7 DEF Held
  <2>2. p - r.head + 1 \in 1..n /\ p = r.head + (p - r.head + 1) - 1
    BY <1>1, <1>2, <2>1
  <2> QED BY <2>2
<1>10. ASSUME NEW p \in Held(d), NEW i \in 1..n PROVE (r.head + i - 1) % Size # p % Size
  <2>1. p \in Nat /\ r.head + i - 1 \in Nat /\ p < r.head + i - 1
        /\ ~(p + Size <= r.head + i - 1)
    BY <1>1, <1>2, <1>5 DEF Held
  <2> QED BY <2>1, SlotOf
<1>11. \A i \in 1..n : /\ Buf(d, r.head + i - 1)' = a.bufs[i]
                       /\ mem'.desc[d][(r.head + i - 1) % Size] = a.bufs[i]
  <2>1. \A i \in 1..n : /\ f.ring.info[(r.head + i - 1) % Size] = a.bufs[i]
                        /\ f.desc[(r.head + i - 1) % Size] = a.bufs[i]
    BY <1>3
  <2>2. \A x : Buf(d, x)' = ring'[d].info[x % Size]
    BY DEF Buf
  <2> QED BY <1>6, <2>1, <2>2
<1>12. ASSUME NEW e \in Dirs, NEW p \in Held(e)
       PROVE  /\ p \in Held(e)' /\ Buf(e, p)' = Buf(e, p)
              /\ mem'.desc[e][p % Size] = mem.desc[e][p % Size]
  <2>1. CASE e # d
    BY <1>6, <1>7, <2>1 DEF Held, Buf
  <2>2. CASE e = d
    <3>1. p \in Nat
      BY <1>2 DEF Held
    <3>2. p % Size \in Slots
      BY <3>1, SlotOf
    <3>3. f.ring.info[p % Size] = r.info[p % Size] /\ f.desc[p % Size] = mem.desc[d][p % Size]
      BY <1>3, <1>5, <1>10, <2>2, <3>2
    <3>4. p \in Held(d)'
      <4>1. Held(d)' = Freed(d)..((r.head + n) - 1)
        BY <1>7 DEF Held
      <4>2. p \in Freed(d)..(Filled(d) - 1)
        BY <2>2 DEF Held
      <4> QED BY <1>1, <1>2, <4>1, <4>2
    <3> QED BY <1>5, <1>6, <2>2, <3>3, <3>4 DEF Buf
  <2> QED BY <2>1, <2>2
<1>13. ASSUME NEW i \in 1..n, NEW e \in Dirs, NEW p \in Held(e) PROVE Buf(e, p) # a.bufs[i]
  <2>1. Buf(e, p) \in 1..pool.made /\ \A j \in DOMAIN pool.free : Buf(e, p) # pool.free[j]
    BY DEF PoolOK
  <2>2. a.bufs[i] > pool.made \/ \E j \in DOMAIN pool.free : a.bufs[i] = pool.free[j]
    BY <1>4
  <2>3. CASE a.bufs[i] > pool.made
    <3>1. pool.made \in Nat
      BY DEF Types, DriverTypes
    <3> QED BY <2>1, <2>3, <3>1
  <2> QED BY <2>1, <2>2, <2>3
<1>14. ASSUME NEW e \in Dirs PROVE Entry(e)'
  <2>1. ASSUME NEW p \in Held(e)'
        PROVE  Buf(e, p)' \in Nat /\ mem'.desc[e][p % Size] = Buf(e, p)'
    <3>1. CASE p \in Held(e)
      BY <1>12, <3>1 DEF Entry
    <3>2. CASE p \notin Held(e)
      <4>1. e = d
        BY <1>7, <3>2 DEF Held
      <4>2. PICK i \in 1..n : p = r.head + i - 1
        BY <1>9, <3>2, <4>1
      <4>3. a.bufs[i] \in Nat
        BY <1>4
      <4>4. Buf(d, p)' = a.bufs[i] /\ mem'.desc[d][p % Size] = a.bufs[i]
        BY <1>11, <4>2
      <4> QED BY <4>1, <4>3, <4>4
    <3> QED BY <3>1, <3>2
  <2>2. ASSUME NEW s \in Slots, \A p \in Held(e)' : p % Size # s PROVE ring'[e].info[s] = NoBuf
    <3>1. ring[e].info[s] = NoBuf
      BY <1>12, <2>2 DEF Entry
    <3>2. CASE e # d
      BY <1>6, <3>1, <3>2
    <3>3. CASE e = d
      <4>1. \A i \in 1..n : (r.head + i - 1) % Size # s
        BY <1>5, <1>8, <2>2, <3>3
      <4> QED BY <1>3, <1>5, <1>6, <3>1, <3>3, <4>1
    <3> QED BY <3>2, <3>3
  <2> QED BY <2>1, <2>2 DEF Entry
<1>15. \A i \in 1..n : Buf(d, r.head + i - 1)' = Alloc(n).bufs[i]
  BY <1>11 DEF a
<1>16. \A i \in 1..n : \A e \in Dirs : \A p \in Held(e) : Buf(e, p) # Alloc(n).bufs[i]
  BY <1>13 DEF a
<1> QED BY <1>2, <1>6, <1>7, <1>8, <1>9, <1>12, <1>14, <1>15, <1>16

\* Every buffer made is still free or held by one entry.
LEMMA FillPool ==
  ASSUME Types, \A e \in Dirs : Order(e) /\ Entry(e), PoolOK,
         NEW d \in Dirs, NEW r \in RingRecords, NEW n \in 0..Size, Fills(d, r, n)
  PROVE  PoolOK'
<1> DEFINE a == Alloc(n)
           m == a.pool.made
           f == a.pool.free
<1>1. Spare /\ n \in Nat /\ Size \in Nat \ {0} /\ pool.made \in Nat /\ pool.free \in Seq(Nat)
  BY Sizes DEF PoolOK, Spare, Types, DriverTypes
<1>2. /\ a.pool \in [made : Nat, free : Seq(Nat)] /\ m >= pool.made
      /\ m - Len(f) = pool.made - Len(pool.free) + n
      /\ m = pool.made \/ f = <<>>
      /\ DOMAIN f \subseteq DOMAIN pool.free
      /\ \A j \in DOMAIN f : f[j] = pool.free[j]
      /\ \A i \in 1..n : /\ a.bufs[i] \in 1..m /\ \A j \in DOMAIN f : a.bufs[i] # f[j]
      /\ \A i, j \in 1..n : i # j => a.bufs[i] # a.bufs[j]
  BY <1>1, AllocFacts
<1>3. pool' = a.pool
  BY <1>1, FillFacts DEF Fills
<1>4. /\ r.head = Filled(d) /\ Filled(d)' = r.head + n /\ \A e \in Dirs : Freed(e)' = Freed(e)
      /\ \A e \in Dirs : e # d => Filled(e)' = Filled(e)
      /\ \A e \in Dirs : \A p \in Held(e) : Buf(e, p)' = Buf(e, p)
      /\ \A i \in 1..n : Buf(d, r.head + i - 1)' = a.bufs[i]
      /\ \A p \in Held(d)' : p \in Held(d) \/ \E i \in 1..n : p = r.head + i - 1
      /\ \A i \in 1..n : \A e \in Dirs : \A p \in Held(e) : Buf(e, p) # a.bufs[i]
  BY FillMoves
<1>5. /\ \A e \in Dirs : Freed(e) \in Nat /\ Filled(e) \in Nat /\ Filled(e) <= Freed(e) + Size
      /\ r.head + n <= Freed(d) + Size
  BY Counts DEF Fills, Filled
<1> HIDE DEF a, m, f
<1>6. /\ m \in Nat /\ f \in Seq(Nat) /\ pool'.made = m /\ pool'.free = f
  BY <1>2, <1>3 DEF m, f
<1>7. /\ \A i \in DOMAIN f : f[i] \in 1..m
      /\ \A i, j \in DOMAIN f : i # j => f[i] # f[j]
  <2>1. \A i \in DOMAIN f : pool.free[i] \in 1..pool.made
    BY <1>1, <1>2 DEF Spare
  <2>2. \A i \in DOMAIN f : f[i] \in 1..m
    BY <1>1, <1>2, <1>6, <2>1
  <2> QED BY <1>1, <1>2, <2>2 DEF Spare
<1>8. ASSUME NEW e \in Dirs, NEW p \in Held(e)', p \notin Held(e)
      PROVE  e = d /\ \E i \in 1..n : p = r.head + i - 1 /\ Buf(e, p)' = a.bufs[i]
  <2>1. e = d
    BY <1>4, <1>8 DEF Held
  <2> QED BY <1>4, <1>8, <2>1
<1>9. ASSUME NEW e \in Dirs, NEW p \in Held(e)'
      PROVE  Buf(e, p)' \in 1..m /\ \A i \in DOMAIN f : Buf(e, p)' # f[i]
  <2>1. CASE p \in Held(e)
    <3>1. Buf(e, p)' = Buf(e, p) /\ Buf(e, p) \in 1..pool.made
          /\ \A i \in DOMAIN pool.free : Buf(e, p) # pool.free[i]
      BY <1>4, <2>1 DEF PoolOK
    <3>2. Buf(e, p)' \in 1..m
      BY <1>1, <1>2, <1>6, <3>1
    <3> QED BY <1>2, <3>1, <3>2
  <2>2. CASE p \notin Held(e)
    BY <1>2, <1>8, <2>2, SMTT(30)
  <2> QED BY <2>1, <2>2
<1>10. ASSUME NEW e \in Dirs, NEW g \in Dirs, NEW p \in Held(e)', NEW s \in Held(g)', e # g \/ p # s
       PROVE  Buf(e, p)' # Buf(g, s)'
  <2>1. CASE p \in Held(e) /\ s \in Held(g)
    BY <1>4, <1>10, <2>1 DEF PoolOK
  <2>2. CASE p \in Held(e) /\ s \notin Held(g)
    <3>1. PICK i \in 1..n : Buf(g, s)' = a.bufs[i]
      BY <1>8, <2>2
    <3> QED BY <1>4, <2>2, <3>1
  <2>3. CASE p \notin Held(e) /\ s \in Held(g)
    <3>1. PICK i \in 1..n : Buf(e, p)' = a.bufs[i]
      BY <1>8, <2>3
    <3> QED BY <1>4, <2>3, <3>1
  <2>4. CASE p \notin Held(e) /\ s \notin Held(g)
    <3>1. e = d /\ g = d
      BY <1>8, <2>4
    <3>2. PICK i \in 1..n : p = r.head + i - 1 /\ Buf(e, p)' = a.bufs[i]
      BY <1>8, <2>4
    <3>3. PICK j \in 1..n : s = r.head + j - 1 /\ Buf(g, s)' = a.bufs[j]
      BY <1>8, <2>4
    <3>4. i # j
      BY <1>10, <3>1, <3>2, <3>3
    <3> QED BY <1>2, <3>2, <3>3, <3>4
  <2> QED BY <2>1, <2>2, <2>3, <2>4
<1>11. m = Len(f) + (Filled("tx")' - Freed("tx")') + (Filled("rx")' - Freed("rx")')
  <2>1. pool.made = Len(pool.free) + (Filled("tx") - Freed("tx")) + (Filled("rx") - Freed("rx"))
    BY DEF PoolOK
  <2>2. m - Len(f) = pool.made - Len(pool.free) + n /\ Len(f) \in Nat /\ Len(pool.free) \in Nat
    BY <1>1, <1>2, <1>6
  <2>3. "tx" \in Dirs /\ "rx" \in Dirs /\ d \in {"tx", "rx"}
    BY Names
  <2>4. CASE d = "tx"
    <3>1. /\ Filled("tx")' = Filled("tx") + n /\ Filled("rx")' = Filled("rx")
          /\ Freed("tx")' = Freed("tx") /\ Freed("rx")' = Freed("rx")
      BY <1>4, <2>3, <2>4
    <3>2. /\ Filled("tx") \in Nat /\ Filled("rx") \in Nat /\ Freed("tx") \in Nat
          /\ Freed("rx") \in Nat
      BY <1>5, <2>3
    <3>3. pool.made \in Nat /\ n \in Nat /\ m \in Nat
      BY <1>1, <1>6
    <3>4. m = (pool.made - Len(pool.free)) + n + Len(f)
      BY <2>2, <3>3
    <3>5. pool.made - Len(pool.free) = (Filled("tx") - Freed("tx")) + (Filled("rx") - Freed("rx"))
      BY <2>1, <2>2, <3>2, <3>3, SMTT(30)
    <3> QED BY <2>2, <3>1, <3>2, <3>3, <3>4, <3>5
  <2>5. CASE d = "rx"
    <3>1. /\ Filled("rx")' = Filled("rx") + n /\ Filled("tx")' = Filled("tx")
          /\ Freed("tx")' = Freed("tx") /\ Freed("rx")' = Freed("rx")
      BY <1>4, <2>3, <2>5
    <3>2. /\ Filled("tx") \in Nat /\ Filled("rx") \in Nat /\ Freed("tx") \in Nat
          /\ Freed("rx") \in Nat
      BY <1>5, <2>3
    <3>3. pool.made \in Nat /\ n \in Nat /\ m \in Nat
      BY <1>1, <1>6
    <3>4. m = (pool.made - Len(pool.free)) + n + Len(f)
      BY <2>2, <3>3
    <3>5. pool.made - Len(pool.free) = (Filled("tx") - Freed("tx")) + (Filled("rx") - Freed("rx"))
      BY <2>1, <2>2, <3>2, <3>3, SMTT(30)
    <3> QED BY <2>2, <3>1, <3>2, <3>3, <3>4, <3>5
  <2> QED BY <2>3, <2>4, <2>5
<1>12. m <= 2 * Size
  <2>1. CASE m = pool.made
    BY <2>1 DEF PoolOK
  <2>2. CASE f = <<>>
    <3>1. "tx" \in Dirs /\ "rx" \in Dirs
      BY Names
    <3>2. ASSUME NEW e \in Dirs
          PROVE  Filled(e)' \in Nat /\ Freed(e)' \in Nat /\ Filled(e)' <= Freed(e)' + Size
      <4>1. CASE e = d
        BY <1>1, <1>4, <1>5, <4>1
      <4>2. CASE e # d
        BY <1>4, <1>5, <4>2
      <4> QED BY <4>1, <4>2
    <3>3. Len(f) = 0
      BY <2>2
    <3> QED BY <1>1, <1>6, <1>11, <3>1, <3>2, <3>3
  <2> QED BY <1>2, <2>1, <2>2
<1> QED BY <1>6, <1>7, <1>9, <1>10, <1>11, <1>12 DEF PoolOK

-----------------------------------------------------------------------------
(* Steps that leave entries, buffers or frames alone. *)

\* The pool accounts for the same buffers if the entries hold the same.
LEMMA SamePool ==
  ASSUME PoolOK, pool' = pool,
         \A d \in Dirs : /\ ring'[d].head = ring[d].head /\ ring'[d].info = ring[d].info
                         /\ cq'[d].tail = cq[d].tail
  PROVE  PoolOK'
<1>1. \A d \in Dirs : Filled(d)' = Filled(d) /\ Freed(d)' = Freed(d) /\ Held(d)' = Held(d)
  BY DEF Filled, Freed, Held
<1>2. \A d \in Dirs : \A p : Buf(d, p)' = Buf(d, p)
  BY DEF Buf
<1>3. "tx" \in Dirs /\ "rx" \in Dirs
  BY Names
<1> QED BY <1>1, <1>2, <1>3 DEF PoolOK

\* The frames to send are the same if their entries, their data and the wire are.
LEMMA SameTx ==
  ASSUME TxData, ring'["tx"].head = ring["tx"].head, ring'["tx"].info = ring["tx"].info,
         cq'["tx"].tail = cq["tx"].tail, CQ("tx")'.head = CQ("tx").head,
         CQ("tx")'.ops = CQ("tx").ops, net'.sent = net.sent, net'.wire = net.wire,
         \A p \in Held("tx") : mem'.buf[Buf("tx", p)] = mem.buf[Buf("tx", p)]
  PROVE  TxData'
<1>1. Filled("tx")' = Filled("tx") /\ Held("tx")' = Held("tx") /\ Moved("tx")' = Moved("tx")
  BY DEF Filled, Freed, Held, Moved
<1>2. \A p : Buf("tx", p)' = Buf("tx", p)
  BY DEF Buf
<1> QED BY <1>1, <1>2 DEF TxData

\* The frames received are the same if the engine, their data and those handed
\* over are.
LEMMA SameRx ==
  ASSUME RxOK, cq'["rx"].tail = cq["rx"].tail, work'["rx"] = work["rx"],
         CQ("rx")'.head = CQ("rx").head, CQ("rx")'.ops = CQ("rx").ops,
         RQ("rx")'.tail = RQ("rx").tail, RQ("rx")'.ops = RQ("rx").ops,
         net'.got = net.got, net'.arrived = net.arrived, net'.dropped = net.dropped,
         \A p \in Freed("rx")..(Moved("rx") - 1) :
           Buf("rx", p)' = Buf("rx", p) /\ mem'.buf[Buf("rx", p)] = mem.buf[Buf("rx", p)]
  PROVE  RxOK'
<1>1. /\ Freed("rx")' = Freed("rx") /\ Moved("rx")' = Moved("rx") /\ Asked("rx")' = Asked("rx")
      /\ InWork("rx")' = InWork("rx") /\ Waiting' = Waiting /\ Decided' = Decided
  BY DEF Freed, Moved, Asked, InWork, Waiting, Decided
<1>2. PICK fr \in [Numbers -> Nat] : RxData(fr) /\ FramesOK(fr)
  BY DEF RxOK
<1>3. RxData(fr)'
  BY <1>1, <1>2 DEF RxData
<1>4. FramesOK(fr)'
  BY <1>1, <1>2 DEF FramesOK
<1> QED BY <1>3, <1>4 DEF RxOK

\* A step that touches neither entries, buffers nor frames keeps what is known
\* of them.
Quiet ==
  /\ ring' = ring /\ cq' = cq /\ pool' = pool /\ work' = work /\ net' = net
  /\ mem'.desc = mem.desc /\ mem'.cpl = mem.cpl /\ mem'.buf = mem.buf
  /\ \A x \in Queues \ {"eq"} : /\ q'[x].head = q[x].head /\ q'[x].tail = q[x].tail
                                /\ q'[x].ops = q[x].ops

\* Such a step keeps the entries, the pool and the frames in order.
LEMMA QuietKeeps ==
  ASSUME \A d \in Dirs : Rows(d), PoolOK, TxData, RxOK, Quiet
  PROVE  (\A d \in Dirs : Rows(d)') /\ PoolOK' /\ TxData' /\ RxOK'
<1>1. \A d \in Dirs : /\ RQ(d)'.head = RQ(d).head /\ RQ(d)'.tail = RQ(d).tail
                      /\ RQ(d)'.ops = RQ(d).ops /\ CQ(d)'.head = CQ(d).head
                      /\ CQ(d)'.tail = CQ(d).tail /\ CQ(d)'.ops = CQ(d).ops
  BY Names DEF Quiet, RQ, CQ
<1>2. \A d \in Dirs : SameRows(d)
  BY <1>1 DEF Quiet, SameRows
<1>3. \A d \in Dirs : Rows(d)'
  BY <1>2, SameKeepsRows
<1>4. "tx" \in Dirs /\ "rx" \in Dirs
  BY Names
<1>5. PoolOK'
  BY SamePool DEF Quiet
<1>6. TxData'
  BY <1>1, <1>4, SameTx DEF Quiet
<1>7. \A p : Buf("rx", p)' = Buf("rx", p)
  BY DEF Quiet, Buf
<1>8. RxOK'
  BY <1>1, <1>4, <1>7, SameRx DEF Quiet
<1> QED BY <1>3, <1>5, <1>6, <1>8

\* A write on its way is for a queue, and its value a pointer.
LEMMA WriteTypes ==
  Types => /\ posted \in Seq(Writes) /\ Len(posted) \in Nat /\ DOMAIN posted = 1..Len(posted)
           /\ \A i \in DOMAIN posted :
                posted[i] \in Writes /\ posted[i].q \in Queues /\ posted[i].val \in Nat
<1> SUFFICES ASSUME Types
             PROVE  /\ posted \in Seq(Writes) /\ Len(posted) \in Nat /\ DOMAIN posted = 1..Len(posted)
                    /\ \A i \in DOMAIN posted :
                         posted[i] \in Writes /\ posted[i].q \in Queues /\ posted[i].val \in Nat
  OBVIOUS
<1>1. posted \in Seq(Writes)
  BY DEF Types, DriverTypes
<1>2. \A i \in DOMAIN posted : posted[i] \in Writes
  BY <1>1
<1>3. \A w \in Writes : w.q \in Queues /\ w.val \in Nat
  BY Sizes DEF Writes, Pointers
<1> QED BY <1>1, <1>2, <1>3

\* The writes on their way are in order if they are the same and so are the
\* counts they are about.
LEMMA SameWrites ==
  ASSUME WritesOK, posted' = posted,
         \A d \in Dirs : /\ ring'[d].head = ring[d].head /\ cq'[d].tail = cq[d].tail
                         /\ RQ(d)'.head = RQ(d).head /\ CQ(d)'.tail = CQ(d).tail
  PROVE  WritesOK'
<1>1. WhichWrites'
  BY DEF WritesOK, WhichWrites
<1>2. ASSUME NEW d \in Dirs PROVE HeadWrites(d)' /\ TailWrites(d)'
  <2>1. Filled(d)' = Filled(d) /\ Freed(d)' = Freed(d)
    BY DEF Filled, Freed
  <2>2. HeadWrites(d) /\ TailWrites(d)
    BY DEF WritesOK
  <2>3. HeadWrites(d)'
    BY <2>1, <2>2 DEF HeadWrites
  <2>4. TailWrites(d)'
    BY <2>1, <2>2 DEF TailWrites
  <2> QED BY <2>3, <2>4
<1> QED BY <1>1, <1>2 DEF WritesOK

\* Activation is as it was if no activation is written or done, and inactive
\* queues stay empty.
LEMMA SameActivation ==
  ASSUME Types, Activation, main' = main, posted' = posted,
         \A x \in Queues : /\ q'[x].active = q[x].active
                           /\ x # "eq" /\ ~q[x].active =>
                                /\ q'[x].head = q[x].head /\ q'[x].tail = q[x].tail
                                /\ q'[x].ops = q[x].ops
  PROVE  Activation'
<1>1. \A x, n : Due(x, n)' = Due(x, n) /\ ToCome(x)' = ToCome(x)
  BY DEF Due, ToCome
<1>2. \A d \in Dirs : /\ RQ(d)'.active = RQ(d).active /\ CQ(d)'.active = CQ(d).active
                      /\ ~RQ(d).active => RQ(d)'.tail = RQ(d).tail /\ RQ(d)'.ops = RQ(d).ops
                      /\ ~CQ(d).active => CQ(d)'.head = CQ(d).head /\ CQ(d)'.ops = CQ(d).ops
  BY Names DEF RQ, CQ
<1>3. \A i \in DOMAIN posted : posted[i].op = "activate" => posted[i].q \in Queues
  BY WriteTypes
<1> QED BY <1>1, <1>2, <1>3 DEF Activation

-----------------------------------------------------------------------------
(* Writes posted behind those on their way. *)

\* What is posted before stays before.
LEMMA PostedIs ==
  ASSUME Types, NEW ws \in Seq(Writes), posted' = posted \o ws
  PROVE  /\ posted' \in Seq(Writes) /\ Len(posted') = Len(posted) + Len(ws)
         /\ Len(posted) \in Nat /\ Len(ws) \in Nat /\ DOMAIN posted' = 1..(Len(posted) + Len(ws))
         /\ \A i \in 1..Len(posted) : posted'[i] = posted[i]
         /\ \A i \in DOMAIN posted' : i > Len(posted) =>
              i - Len(posted) \in DOMAIN ws /\ posted'[i] = ws[i - Len(posted)]
<1>1. posted \in Seq(Writes) /\ Len(posted) \in Nat /\ Len(ws) \in Nat /\ DOMAIN ws = 1..Len(ws)
  BY WriteTypes
<1>2. /\ posted' \in Seq(Writes) /\ Len(posted') = Len(posted) + Len(ws)
      /\ \A i \in 1..(Len(posted) + Len(ws)) :
           posted'[i] = IF i <= Len(posted) THEN posted[i] ELSE ws[i - Len(posted)]
  BY <1>1, ConcatProperties
<1> QED BY <1>1, <1>2

\* A head pointer posted is what is now filled, a tail pointer that of the
\* event queue.
Posts(ws) ==
  /\ posted' = posted \o ws
  /\ \A i \in DOMAIN ws :
       /\ ws[i].op = "head" => ws[i].q \in {"txq", "rxq"}
       /\ ws[i].op = "tail" => ws[i].q = "eq"
       /\ \A d \in Dirs : ws[i].op = "head" /\ ws[i].q = RingQ[d] => ws[i].val = ring'[d].head

\* Such writes keep those on their way in order.
LEMMA PostWrites ==
  ASSUME Types, WritesOK, NEW ws \in Seq(Writes), Posts(ws),
         \A d \in Dirs : Order(d),
         \A d \in Dirs : /\ ring'[d].head \in Nat /\ ring'[d].head >= ring[d].head
                         /\ cq'[d].tail = cq[d].tail
                         /\ RQ(d)'.head = RQ(d).head /\ CQ(d)'.tail = CQ(d).tail
  PROVE  WritesOK'
<1> DEFINE n == Len(posted)
<1>1. posted' = posted \o ws
  BY DEF Posts
<1>2. /\ n \in Nat /\ DOMAIN posted' = 1..(n + Len(ws)) /\ Len(ws) \in Nat /\ DOMAIN posted = 1..n
      /\ \A i \in 1..n : posted'[i] = posted[i]
      /\ \A i \in DOMAIN posted' : i > n => i - n \in DOMAIN ws /\ posted'[i] = ws[i - n]
  BY <1>1, PostedIs, WriteTypes
<1> HIDE DEF n
<1>3. WhichWrites'
  <2> SUFFICES ASSUME NEW i \in DOMAIN posted'
               PROVE  /\ posted'[i].op = "head" => posted'[i].q \in {"txq", "rxq"}
                      /\ posted'[i].op = "tail" => posted'[i].q \in {"eq", "txcq", "rxcq"}
    BY DEF WhichWrites
  <2>1. CASE i > n
    BY <1>2, <2>1 DEF Posts
  <2>2. CASE ~(i > n)
    <3>1. i \in DOMAIN posted /\ posted'[i] = posted[i]
      BY <1>2, <2>2
    <3> QED BY <3>1 DEF WritesOK, WhichWrites
  <2> QED BY <2>1, <2>2
<1>4. ASSUME NEW d \in Dirs PROVE HeadWrites(d)' /\ TailWrites(d)'
  <2>1. /\ Filled(d) \in Nat /\ Filled(d)' \in Nat /\ Filled(d) <= Filled(d)'
        /\ RQ(d).head \in Nat /\ RQ(d).head <= Filled(d) /\ RQ(d)'.head = RQ(d).head
        /\ Freed(d)' = Freed(d) /\ CQ(d)'.tail = CQ(d).tail /\ ring'[d].head = Filled(d)'
    BY Counts DEF Filled, Freed
  <2>2. HeadWrites(d) /\ TailWrites(d)
    BY DEF WritesOK
  <2>3. ASSUME NEW i \in DOMAIN posted', posted'[i].op = "head", posted'[i].q = RingQ[d]
        PROVE  /\ RQ(d)'.head <= posted'[i].val /\ posted'[i].val <= Filled(d)'
               /\ posted'[i].val \in Nat
               /\ i > n => posted'[i].val = Filled(d)'
    <3>1. CASE i > n
      <4>1. posted'[i].val = Filled(d)'
        BY <1>2, <2>1, <2>3, <3>1 DEF Posts
      <4> QED BY <2>1, <4>1
    <3>2. CASE ~(i > n)
      <4>1. i \in DOMAIN posted /\ posted'[i] = posted[i]
        BY <1>2, <3>2
      <4>2. posted[i].val \in Nat
        BY <4>1, WriteTypes
      <4>3. RQ(d).head <= posted[i].val /\ posted[i].val <= Filled(d)
        BY <2>2, <2>3, <4>1 DEF HeadWrites
      <4> QED BY <2>1, <3>2, <4>1, <4>2, <4>3
    <3> QED BY <3>1, <3>2
  <2>4. ASSUME NEW i \in DOMAIN posted', NEW j \in 1..i,
               posted'[i].op = "head", posted'[i].q = RingQ[d],
               posted'[j].op = "head", posted'[j].q = RingQ[d]
        PROVE  posted'[j].val <= posted'[i].val
    <3>1. j \in DOMAIN posted' /\ i \in Nat /\ j \in Nat
      BY <1>2
    <3>2. CASE i > n
      BY <2>1, <2>3, <2>4, <3>1, <3>2
    <3>3. CASE ~(i > n)
      <4>1. i \in DOMAIN posted /\ posted'[i] = posted[i] /\ posted'[j] = posted[j]
        BY <1>2, <3>1, <3>3
      <4> QED BY <2>2, <2>4, <4>1 DEF HeadWrites
    <3> QED BY <3>2, <3>3
  <2>5. HeadWrites(d)'
    BY <2>3, <2>4 DEF HeadWrites
  <2>6. ASSUME NEW i \in DOMAIN posted', posted'[i].op = "tail", posted'[i].q = CqOf[d]
        PROVE  posted'[i].val = Freed(d)' /\ i \in DOMAIN posted /\ posted'[i] = posted[i]
    <3>1. ~(i > n)
      BY <1>2, <2>6, Names DEF Posts
    <3>2. i \in DOMAIN posted /\ posted'[i] = posted[i]
      BY <1>2, <3>1
    <3> QED BY <2>1, <2>2, <2>6, <3>2 DEF TailWrites
  <2>7. ASSUME \A i \in DOMAIN posted' : ~(posted'[i].op = "tail" /\ posted'[i].q = CqOf[d])
        PROVE  CQ(d)'.tail = Freed(d)'
    <3>1. \A i \in DOMAIN posted : i \in DOMAIN posted' /\ posted'[i] = posted[i]
      BY <1>2
    <3> QED BY <2>1, <2>2, <2>7, <3>1 DEF TailWrites
  <2>8. TailWrites(d)'
    BY <2>6, <2>7 DEF TailWrites
  <2> QED BY <2>5, <2>8
<1> QED BY <1>3, <1>4 DEF WritesOK

\* Nothing posted but activations touches the activation of queues.
LEMMA PostActivation ==
  ASSUME Types, Activation, NEW ws \in Seq(Writes), posted' = posted \o ws,
         \A i \in DOMAIN ws : ws[i].op # "activate", main' = main,
         \A x \in Queues : /\ q'[x].active = q[x].active
                           /\ x # "eq" /\ ~q[x].active =>
                                /\ q'[x].head = q[x].head /\ q'[x].tail = q[x].tail
                                /\ q'[x].ops = q[x].ops
  PROVE  Activation'
<1> DEFINE n == Len(posted)
<1>1. /\ n \in Nat /\ DOMAIN posted' = 1..(n + Len(ws)) /\ Len(posted') = n + Len(ws)
      /\ Len(ws) \in Nat /\ DOMAIN posted = 1..n
      /\ \A i \in 1..n : posted'[i] = posted[i]
      /\ \A i \in DOMAIN posted' : i > n => i - n \in DOMAIN ws /\ posted'[i] = ws[i - n]
  BY PostedIs, WriteTypes
<1>2. \A i \in DOMAIN posted : posted[i].q \in Queues
  BY WriteTypes
<1> HIDE DEF n
<1>3. \A i \in DOMAIN posted' : posted'[i].op = "activate" => i \in 1..n /\ posted'[i] = posted[i]
  BY <1>1
<1>4. ASSUME NEW x, NEW k \in 0..n PROVE Due(x, k)' = Due(x, k)
  <2>1. \A j \in 1..k : posted'[j] = posted[j]
    BY <1>1
  <2> QED BY <2>1 DEF Due
<1>5. ASSUME NEW x PROVE Due(x, Len(posted))' = Due(x, Len(posted)) /\ ToCome(x)' = ToCome(x)
  <2>1. ASSUME Due(x, n) PROVE Due(x, Len(posted))'
    <3>1. PICK j \in 1..n : posted[j].op = "activate" /\ posted[j].q = x
      BY <2>1 DEF Due
    <3>2. j \in 1..Len(posted') /\ posted'[j] = posted[j]
      BY <1>1
    <3> QED BY <3>1, <3>2 DEF Due
  <2>2. ASSUME Due(x, Len(posted))' PROVE Due(x, n)
    <3>1. PICK j \in 1..Len(posted') : posted'[j].op = "activate" /\ posted'[j].q = x
      BY <2>2 DEF Due
    <3>2. j \in 1..n /\ posted'[j] = posted[j]
      BY <1>1, <1>3, <3>1
    <3> QED BY <3>1, <3>2 DEF Due
  <2>3. ToCome(x)' = ToCome(x)
    BY DEF ToCome
  <2>4. Due(x, Len(posted)) \in BOOLEAN /\ Due(x, Len(posted))' \in BOOLEAN
    BY DEF Due
  <2> QED BY <2>1, <2>2, <2>3, <2>4 DEF n
<1>6. \A i \in 1..n : i - 1 \in 0..n
  BY <1>1
<1>7. \A d \in Dirs : /\ RQ(d)'.active = RQ(d).active /\ CQ(d)'.active = CQ(d).active
                      /\ ~RQ(d).active => RQ(d)'.tail = RQ(d).tail /\ RQ(d)'.ops = RQ(d).ops
                      /\ ~CQ(d).active => CQ(d)'.head = CQ(d).head /\ CQ(d)'.ops = CQ(d).ops
  BY Names DEF RQ, CQ
<1>8. /\ main' \in Seq(Steps) /\ Len(main') <= 8
      /\ \A j \in 1..Len(main') : main'[j] = ToDo[8 - Len(main') + j]
  BY DEF Activation
<1>9. \A x \in Queues : /\ ToCome(x)' => ~q'[x].active /\ ~Due(x, Len(posted))'
                        /\ ToCome(x)' \/ q'[x].active \/ Due(x, Len(posted))'
  BY <1>5 DEF Activation
<1>10. ASSUME NEW i \in DOMAIN posted', posted'[i].op = "activate",
              NEW x \in Queues, posted'[i].q = x
       PROVE  /\ ~q'[x].active /\ ~Due(x, i - 1)'
              /\ \A d \in Dirs : x = RingQ[d] => CQ(d)'.active \/ Due(CqOf[d], i - 1)'
  <2>1. i \in 1..n /\ posted'[i] = posted[i] /\ i - 1 \in 0..n
    BY <1>1, <1>3, <1>6, <1>10
  <2>2. /\ ~q[x].active /\ ~Due(x, i - 1)
        /\ \A d \in Dirs : x = RingQ[d] => CQ(d).active \/ Due(CqOf[d], i - 1)
    BY <1>1, <1>10, <2>1 DEF Activation
  <2>3. \A y : Due(y, i - 1)' = Due(y, i - 1)
    BY <1>4, <2>1
  <2> QED BY <1>7, <2>2, <2>3
<1>11. \A d \in Dirs : /\ RQ(d)'.active => CQ(d)'.active
                       /\ ~RQ(d)'.active => RQ(d)'.tail = 0 /\ RQ(d)'.ops = <<>>
                       /\ ~CQ(d)'.active => CQ(d)'.head = 0 /\ CQ(d)'.ops = <<>>
  BY <1>7 DEF Activation
<1>12. \A d \in Dirs : RingQ[d] \in Queues
  BY Names
<1> QED BY <1>8, <1>9, <1>10, <1>11, <1>12 DEF Activation

-----------------------------------------------------------------------------
(* Interrupts, events and the event queue. *)

\* A step that only concerns them keeps the invariant.
LEMMA Aside ==
  ASSUME NicInv, Types', AtEvent',
         UNCHANGED <<ring, cq, pool, main, posted, work, net>>,
         mem'.desc = mem.desc, mem'.cpl = mem.cpl, mem'.buf = mem.buf,
         \A x \in Queues : q'[x].active = q[x].active /\ (x # "eq" => q'[x] = q[x])
  PROVE  NicInv'
<1>1. Quiet
  BY DEF Quiet
<1>2. (\A d \in Dirs : Rows(d)') /\ PoolOK' /\ TxData' /\ RxOK'
  BY <1>1, QuietKeeps DEF NicInv
<1>3. \A d \in Dirs : RQ(d)' = RQ(d) /\ CQ(d)' = CQ(d)
  BY Names DEF RQ, CQ
<1>4. WritesOK'
  BY <1>3, SameWrites DEF NicInv
<1>5. Activation'
  BY SameActivation DEF NicInv
<1> QED BY <1>2, <1>4, <1>5 DEF NicInv

\* What each record holds.
LEMMA RecordTypes ==
  Types => /\ intr.pc \in Pcs /\ intr.at \in Nat /\ intr.pending \in Nat
           /\ intr = [pc |-> intr.pc, at |-> intr.at, pending |-> intr.pending]
           /\ eq.head \in Nat /\ eq.tail \in Nat /\ eq.tail <= eq.head
           /\ eq = [head |-> eq.head, tail |-> eq.tail]
           /\ msi.asked \in BOOLEAN /\ msi.sent \in Nat
           /\ msi = [asked |-> msi.asked, sent |-> msi.sent]
           /\ \A x \in Queues : /\ q[x] \in QueueRecords /\ q[x].head \in Nat /\ q[x].tail \in Nat
                                /\ q[x].ops \in Seq(Operations) /\ Len(q[x].ops) \in Nat
           /\ \A d \in Dirs : events[d] \in Nat
BY Sizes, SMTT(30) DEF Types, DriverTypes, QueueTypes, FrameTypes, QueueRecords, Pointers

\* An interrupt is taken, or counted while one is being served.
LEMMA InterruptInv == NicInv /\ Interrupt => NicInv'
<1> SUFFICES ASSUME NicInv, Interrupt PROVE NicInv'
  OBVIOUS
<1>1. Types
  BY DEF NicInv
<1>2. msi' = [asked |-> msi.asked, sent |-> msi.sent - 1] /\ msi.sent - 1 \in Nat
  BY <1>1, RecordTypes DEF Interrupt
<1>3. intr' = [pc |-> IF intr.pc = "idle" THEN "events" ELSE intr.pc, at |-> intr.at,
               pending |-> IF intr.pc = "idle" THEN intr.pending ELSE intr.pending + 1]
  BY <1>1, RecordTypes DEF Interrupt
<1>4. intr' \in [pc : Pcs, at : Nat, pending : Nat]
  BY <1>1, <1>3, RecordTypes DEF Pcs
<1>5. msi' \in [asked : BOOLEAN, sent : Nat]
  BY <1>1, <1>2, RecordTypes
<1>6. Types'
  BY <1>1, <1>4, <1>5 DEF Interrupt, Types, DriverTypes, MemoryTypes, QueueTypes, FrameTypes
<1>7. AtEvent'
  BY <1>3 DEF Interrupt, AtEvent, NicInv
<1> QED BY <1>6, <1>7, Aside DEF Interrupt

\* The events there are are read.
LEMMA ReadEventsInv == NicInv /\ ReadEvents => NicInv'
<1> SUFFICES ASSUME NicInv, ReadEvents PROVE NicInv'
  OBVIOUS
<1>1. Types
  BY DEF NicInv
<1>2. CASE ~portUp
  <2>1. intr' = [pc |-> "arm", at |-> intr.at, pending |-> intr.pending] /\ eq' = eq
    BY <1>1, <1>2, RecordTypes DEF ReadEvents
  <2>2. intr' \in [pc : Pcs, at : Nat, pending : Nat]
    BY <1>1, <2>1, RecordTypes DEF Pcs
  <2>3. Types'
    BY <1>1, <2>1, <2>2 DEF ReadEvents, Types, DriverTypes, MemoryTypes, QueueTypes, FrameTypes
  <2>4. AtEvent'
    BY <2>1 DEF AtEvent
  <2> QED BY <2>3, <2>4, Aside DEF ReadEvents
<1>3. CASE portUp
  <2> DEFINE h == Advanced(eq.head, q["eq"].head)
  <2>1. h \in Nat /\ h >= eq.head
    BY <1>1, RecordTypes, AdvancedIs DEF Queues
  <2>2. eq' = [head |-> h, tail |-> eq.tail]
    BY <1>1, <1>3, RecordTypes DEF ReadEvents
  <2>3. intr' = [pc |-> IF h = eq.tail THEN "finish" ELSE "cq", at |-> eq.tail,
                 pending |-> intr.pending]
    BY <1>1, <1>3, <2>2, RecordTypes DEF ReadEvents
  <2> HIDE DEF h
  <2>4. intr' \in [pc : Pcs, at : Nat, pending : Nat]
    BY <1>1, <2>3, RecordTypes DEF Pcs
  <2>5. eq' \in [head : Nat, tail : Nat] /\ eq'.tail <= eq'.head
    BY <1>1, <2>1, <2>2, RecordTypes
  <2>6. Types'
    BY <1>1, <2>4, <2>5 DEF ReadEvents, Types, DriverTypes, MemoryTypes, QueueTypes, FrameTypes
  <2>7. AtEvent'
    BY <1>1, <2>1, <2>2, <2>3, RecordTypes DEF AtEvent
  <2> QED BY <2>6, <2>7, Aside DEF ReadEvents
<1>4. portUp \in BOOLEAN
  BY <1>1 DEF Types, DriverTypes
<1> QED BY <1>2, <1>3, <1>4

\* A message goes to the host.
LEMMA SendMsiInv == NicInv /\ SendMsi => NicInv'
<1> SUFFICES ASSUME NicInv, SendMsi PROVE NicInv'
  OBVIOUS
<1>1. Types
  BY DEF NicInv
<1>2. msi' \in [asked : BOOLEAN, sent : Nat]
  BY <1>1, RecordTypes DEF SendMsi
<1>3. Types'
  BY <1>1, <1>2 DEF SendMsi, drvVars, Types, DriverTypes, MemoryTypes, QueueTypes, FrameTypes
<1>4. AtEvent'
  BY DEF SendMsi, drvVars, AtEvent, NicInv
<1> QED BY <1>3, <1>4, Aside DEF SendMsi, drvVars

\* What the queue managers do to a queue's record.
LEMMA StartedType ==
  ASSUME NEW x \in QueueRecords, NEW at \in Pointers, NEW data \in Nat \cup Dirs
  PROVE  /\ Latest(x, at) \in Pointers
         /\ Started(x, Latest(x, at), data) =
              [x EXCEPT !.ops = Append(x.ops, [ptr |-> Plus1(Latest(x, at)), data |-> data])]
         /\ Started(x, Latest(x, at), data) \in QueueRecords
<1>1. x.ops \in Seq(Operations)
  BY DEF QueueRecords
<1>2. Latest(x, at) \in Pointers
  <2>1. CASE x.ops = <<>>
    BY <2>1 DEF Latest
  <2>2. CASE x.ops # <<>>
    <3>1. Len(x.ops) \in DOMAIN x.ops /\ Last(x.ops) = x.ops[Len(x.ops)]
      BY <1>1, <2>2 DEF Last
    <3>2. Last(x.ops) \in Operations
      BY <1>1, <3>1
    <3> QED BY <2>2, <3>2 DEF Latest, Operations
  <2> QED BY <2>1, <2>2
<1>3. Plus1(Latest(x, at)) \in Pointers
  BY <1>2, Plus1Is, Sizes DEF Pointers
<1>4. [ptr |-> Plus1(Latest(x, at)), data |-> data] \in Operations
  BY <1>3 DEF Operations
<1>5. Started(x, Latest(x, at), data) =
        [x EXCEPT !.ops = Append(x.ops, [ptr |-> Plus1(Latest(x, at)), data |-> data])]
  BY DEF Started
<1>6. Append(x.ops, [ptr |-> Plus1(Latest(x, at)), data |-> data]) \in Seq(Operations)
  BY <1>1, <1>4
<1>7. Started(x, Latest(x, at), data) \in QueueRecords
  BY <1>5, <1>6 DEF QueueRecords
<1> QED BY <1>2, <1>5, <1>7

\* An event for the event queue: an entry is reserved, or the event is lost.
LEMMA EnqueueEventInv == ASSUME NicInv, NEW d \in Dirs, EnqueueEvent(d) PROVE NicInv'
<1>1. Types
  BY DEF NicInv
<1>2. "eq" \in Queues /\ q["eq"] \in QueueRecords /\ q["eq"].head \in Pointers
  BY <1>1, RecordTypes DEF Queues, QueueRecords
<1>3. events' \in [Dirs -> Nat]
  <2>1. events[d] - 1 \in Nat
    BY <1>1, RecordTypes DEF EnqueueEvent
  <2> QED BY <1>1, <2>1 DEF EnqueueEvent, Types, FrameTypes
<1>4. /\ QueueTypes' /\ lost' \in Nat
      /\ \A x \in Queues : q'[x].active = q[x].active /\ (x # "eq" => q'[x] = q[x])
  <2>1. CASE Accepts(q["eq"], EvSize)
    <3> DEFINE e == q["eq"]
               op == [ptr |-> Plus1(Latest(e, e.head)), data |-> d]
               y == Started(e, Latest(e, e.head), d)
    <3>1. y = [e EXCEPT !.ops = Append(e.ops, op)] /\ y \in QueueRecords
      BY <1>2, StartedType
    <3>2. q' = [q EXCEPT !["eq"] = y] /\ lost' = lost
      BY <2>1 DEF EnqueueEvent, Enqueue, ActiveHead
    <3>3. e.ops \in Seq(Operations) /\ Len(e.ops) < OpTable /\ Len(e.ops) \in Nat
          /\ \A j \in DOMAIN e.ops : e.ops[j].data \in Dirs
      BY <1>1, <1>2, RecordTypes DEF EnqueueEvent, Startable, Types, QueueTypes
    <3>4. op \in Operations
      <4>1. Latest(e, e.head) \in Pointers
        BY <1>2, StartedType
      <4>2. Plus1(Latest(e, e.head)) \in Pointers
        BY <4>1, Plus1Is, Sizes DEF Pointers
      <4> QED BY <4>2 DEF Operations
    <3>5. y.ops = Append(e.ops, op) /\ y.active = e.active
      BY <1>2, <3>1 DEF QueueRecords
    <3> HIDE DEF y
    <3>6. Len(y.ops) <= OpTable /\ \A j \in DOMAIN y.ops : y.ops[j].data \in Dirs
      <4>1. Len(y.ops) = Len(e.ops) + 1 /\ DOMAIN y.ops = 1..(Len(e.ops) + 1)
        BY <3>3, <3>4, <3>5
      <4>2. ASSUME NEW j \in DOMAIN y.ops PROVE y.ops[j].data \in Dirs
        <5>1. CASE j = Len(e.ops) + 1
          BY <3>3, <3>4, <3>5, <5>1
        <5>2. CASE j # Len(e.ops) + 1
          <6>1. j \in DOMAIN e.ops /\ y.ops[j] = e.ops[j]
            BY <3>3, <3>4, <3>5, <4>1, <5>2
          <6> QED BY <3>3, <6>1
        <5> QED BY <5>1, <5>2
      <4> QED BY <3>3, <4>1, <4>2, Sizes
    <3>7. q \in [Queues -> QueueRecords] /\ \A x \in Queues : Len(q[x].ops) <= OpTable
      BY <1>1 DEF Types, QueueTypes
    <3>8. \A x \in Queues : x # "eq" => q'[x] = q[x]
      BY <3>2, <3>7
    <3>9. q'["eq"] = y
      BY <1>2, <3>2, <3>7
    <3>10. q' \in [Queues -> QueueRecords]
      BY <3>1, <3>2, <3>7
    <3>11. QueueTypes'
      BY <3>6, <3>7, <3>8, <3>9, <3>10 DEF QueueTypes
    <3> QED BY <1>1, <3>2, <3>5, <3>8, <3>9, <3>11 DEF Types, FrameTypes
  <2>2. CASE ~Accepts(q["eq"], EvSize)
    <3>1. q' = q /\ lost' = lost + 1
      BY <2>2 DEF EnqueueEvent
    <3> QED BY <1>1, <3>1 DEF Types, QueueTypes, FrameTypes
  <2> QED BY <2>1, <2>2
<1>5. Types'
  BY <1>1, <1>3, <1>4 DEF EnqueueEvent, drvVars, Types, DriverTypes, MemoryTypes, FrameTypes
<1>6. AtEvent'
  BY DEF EnqueueEvent, drvVars, AtEvent, NicInv
<1> QED BY <1>4, <1>5, <1>6, Aside DEF EnqueueEvent, drvVars

\* The oldest entry of a queue is in memory.
LEMMA CommittedType ==
  ASSUME NEW x \in QueueRecords, x.ops # <<>>
  PROVE  LET y == EnqueueCommit(x)
         IN /\ y \in QueueRecords /\ Head(x.ops) \in Operations
            /\ y = [active |-> x.active, armed |-> FALSE, head |-> Head(x.ops).ptr,
                    tail |-> x.tail, ops |-> Tail(x.ops)]
            /\ Len(Tail(x.ops)) \in Nat /\ Len(Tail(x.ops)) <= Len(x.ops)
<1>1. x.ops \in Seq(Operations)
  BY DEF QueueRecords
<1>2. /\ Head(x.ops) \in Operations /\ Tail(x.ops) \in Seq(Operations)
      /\ Len(Tail(x.ops)) \in Nat /\ Len(Tail(x.ops)) <= Len(x.ops)
  BY <1>1
<1>3. EnqueueCommit(x) = [active |-> x.active, armed |-> FALSE, head |-> Head(x.ops).ptr,
                          tail |-> x.tail, ops |-> Tail(x.ops)]
  <2>1. x = [active |-> x.active, armed |-> x.armed, head |-> x.head, tail |-> x.tail,
             ops |-> x.ops]
    BY DEF QueueRecords
  <2>2. EnqueueCommit(x) = [x EXCEPT !.head = Head(x.ops).ptr, !.ops = Tail(x.ops),
                                     !.armed = FALSE]
    BY <2>1 DEF EnqueueCommit
  <2> QED BY <2>1, <2>2
<1>4. Head(x.ops).ptr \in Pointers
  BY <1>2 DEF Operations
<1>5. EnqueueCommit(x) \in QueueRecords
  BY <1>2, <1>3, <1>4 DEF QueueRecords
<1> QED BY <1>2, <1>3, <1>5

\* What a queue that raises an event may change.
LEMMA RaiseType ==
  ASSUME Types, NEW queue,
         Raise(queue) \/ UNCHANGED <<events, msi>>
  PROVE  events' \in [Dirs -> Nat] /\ msi' \in [asked : BOOLEAN, sent : Nat]
<1>1. events \in [Dirs -> Nat] /\ msi \in [asked : BOOLEAN, sent : Nat]
  BY DEF Types, FrameTypes
<1>2. CASE UNCHANGED <<events, msi>>
  BY <1>1, <1>2
<1>3. CASE Raise(queue) /\ queue = "eq"
  BY <1>1, <1>3 DEF Raise
<1>4. CASE Raise(queue) /\ queue # "eq"
  BY <1>1, <1>4 DEF Raise, DirOf, Dirs
<1> QED BY <1>2, <1>3, <1>4

\* An event is in memory.
LEMMA CommitEventInv == NicInv /\ CommitEntry("eq") => NicInv'
<1> SUFFICES ASSUME NicInv, CommitEntry("eq") PROVE NicInv'
  OBVIOUS
<1> DEFINE e == q["eq"]
           y == EnqueueCommit(e)
<1>1. Types
  BY DEF NicInv
<1>2. e \in QueueRecords /\ e.ops # <<>>
  BY <1>1, RecordTypes DEF Queues, CommitEntry
<1>3. /\ y \in QueueRecords /\ y.ops = Tail(e.ops) /\ y.active = e.active
      /\ Len(Tail(e.ops)) \in Nat /\ Len(Tail(e.ops)) <= Len(e.ops)
  <2>1. y = [active |-> e.active, armed |-> FALSE, head |-> Head(e.ops).ptr,
             tail |-> e.tail, ops |-> Tail(e.ops)]
    BY <1>2, CommittedType
  <2>2. /\ y \in QueueRecords
        /\ Len(Tail(e.ops)) \in Nat /\ Len(Tail(e.ops)) <= Len(e.ops)
    BY <1>2, CommittedType
  <2> HIDE DEF y
  <2> QED BY <2>1, <2>2
<1>4. /\ mem' = [mem EXCEPT !.ev[e.head % EvSize] = Head(e.ops).data]
      /\ q' = [q EXCEPT !["eq"] = y]
  BY DEF CommitEntry
<1>5. /\ Head(e.ops).data \in Dirs
      /\ \A j \in DOMAIN Tail(e.ops) : Tail(e.ops)[j].data \in Dirs
  <2>1. \A j \in DOMAIN e.ops : e.ops[j].data \in Dirs
    BY <1>1 DEF Types, QueueTypes
  <2>2. e.ops \in Seq(Operations)
    BY <1>2 DEF QueueRecords
  <2>3. 1 \in DOMAIN e.ops /\ Head(e.ops) = e.ops[1]
    BY <1>2, <2>2
  <2>4. \A j \in DOMAIN Tail(e.ops) : j + 1 \in DOMAIN e.ops /\ Tail(e.ops)[j] = e.ops[j + 1]
    BY <1>2, <2>2
  <2> QED BY <2>1, <2>3, <2>4
<1> HIDE DEF y
<1>6. MemoryTypes' /\ mem'.desc = mem.desc /\ mem'.cpl = mem.cpl /\ mem'.buf = mem.buf
  BY <1>1, <1>4, <1>5 DEF Types, MemoryTypes
<1>7. q \in [Queues -> QueueRecords] /\ (\A x \in Queues : Len(q[x].ops) <= OpTable)
      /\ "eq" \in Queues
  BY <1>1 DEF Types, QueueTypes, Queues
<1>8. q' \in [Queues -> QueueRecords] /\ q'["eq"] = y
      /\ \A x \in Queues : q'[x].active = q[x].active /\ (x # "eq" => q'[x] = q[x])
  BY <1>3, <1>4, <1>7
<1>9. QueueTypes'
  <2>1. Len(y.ops) <= OpTable
    <3>1. Len(e.ops) \in Nat /\ Len(e.ops) <= OpTable /\ OpTable \in Nat
      BY <1>1, <1>7, Sizes, RecordTypes
    <3> QED BY <1>3, <3>1
  <2> QED BY <1>3, <1>5, <1>7, <1>8, <2>1 DEF QueueTypes
<1>10. events' \in [Dirs -> Nat] /\ msi' \in [asked : BOOLEAN, sent : Nat]
  BY <1>1, RaiseType DEF CommitEntry
<1>11. Types'
  BY <1>1, <1>6, <1>9, <1>10 DEF CommitEntry, drvVars, Types, DriverTypes, FrameTypes
<1>12. AtEvent'
  BY DEF CommitEntry, drvVars, AtEvent, NicInv
<1> QED BY <1>6, <1>8, <1>11, <1>12, Aside DEF CommitEntry, drvVars

\* The writes of the driver are writes to queues, of pointers.
LEMMA WriteIs ==
  ASSUME NEW x \in Queues, NEW n \in Int
  PROVE  /\ ArmQ(x) \in Writes /\ ActivateQ(x) \in Writes
         /\ SetHead(x, n) \in Writes /\ SetTail(x, n) \in Writes
         /\ ArmQ(x).op = "arm" /\ ActivateQ(x).op = "activate" /\ ActivateQ(x).q = x
         /\ SetHead(x, n).op = "head" /\ SetHead(x, n).q = x /\ SetHead(x, n).val = Ptr(n)
         /\ SetTail(x, n).op = "tail" /\ SetTail(x, n).q = x /\ SetTail(x, n).val = Ptr(n)
BY PtrIs, Sizes DEF ArmQ, ActivateQ, SetHead, SetTail, Writes, Pointers

\* The tail of the event queue is written and it is armed.
LEMMA FinishInv == NicInv /\ FinishInterrupt => NicInv'
<1> SUFFICES ASSUME NicInv, FinishInterrupt PROVE NicInv'
  OBVIOUS
<1> DEFINE one == <<ArmQ("eq")>>
           two == <<SetTail("eq", intr.at), ArmQ("eq")>>
<1>1. Types /\ posted \in Seq(Writes) /\ "eq" \in Queues /\ intr.at \in Nat
  BY WriteTypes, RecordTypes DEF NicInv, Queues
<1>2. PICK ws \in {one, two} : posted' = posted \o ws
  <2>1. ArmQ("eq") \in Writes
    BY <1>1, WriteIs
  <2>2. Append(posted, ArmQ("eq")) = posted \o one
    BY <1>1, <2>1, AppendIsConcat
  <2> QED BY <2>2 DEF FinishInterrupt
<1>3. /\ ws \in Seq(Writes) /\ \A i \in DOMAIN ws : ws[i].op \in {"tail", "arm"}
      /\ \A i \in DOMAIN ws : ws[i].op = "tail" => ws[i].q = "eq"
  <2>1. /\ ArmQ("eq") \in Writes /\ ArmQ("eq").op = "arm"
        /\ SetTail("eq", intr.at) \in Writes /\ SetTail("eq", intr.at).op = "tail"
        /\ SetTail("eq", intr.at).q = "eq"
    BY <1>1, WriteIs
  <2>2. CASE ws = one
    BY <2>1, <2>2
  <2>3. CASE ws = two
    BY <2>1, <2>3
  <2> QED BY <2>2, <2>3
<1> HIDE DEF one, two
<1>4. Posts(ws)
  BY <1>2, <1>3 DEF Posts
<1>5. Quiet
  BY DEF FinishInterrupt, Quiet
<1>6. (\A d \in Dirs : Rows(d)') /\ PoolOK' /\ TxData' /\ RxOK'
  BY <1>5, QuietKeeps DEF NicInv
<1>7. \A d \in Dirs : /\ ring'[d].head \in Nat /\ ring'[d].head >= ring[d].head
                      /\ cq'[d].tail = cq[d].tail
                      /\ RQ(d)'.head = RQ(d).head /\ CQ(d)'.tail = CQ(d).tail
  BY <1>1 DEF FinishInterrupt, RQ, CQ, Types, DriverTypes, RingRecords
<1>8. WritesOK'
  BY <1>1, <1>3, <1>4, <1>7, PostWrites DEF NicInv, Rows
<1>9. Activation'
  BY <1>1, <1>2, <1>3, PostActivation DEF NicInv, FinishInterrupt
<1>10. intr' \in [pc : Pcs, at : Nat, pending : Nat] /\ intr'.pc \in {"events", "idle"}
  BY <1>1, RecordTypes DEF FinishInterrupt, Pcs
<1>11. eq' \in [head : Nat, tail : Nat] /\ eq'.tail <= eq'.head
  BY <1>1, RecordTypes DEF FinishInterrupt, NicInv, AtEvent
<1>12. Types'
  BY <1>1, <1>2, <1>3, <1>10, <1>11, PostedIs
     DEF FinishInterrupt, Types, DriverTypes, MemoryTypes, QueueTypes, FrameTypes
<1>13. AtEvent'
  BY <1>10 DEF AtEvent
<1> QED BY <1>6, <1>8, <1>9, <1>12, <1>13 DEF NicInv

-----------------------------------------------------------------------------
(* Descriptors asked for, and frames that arrive. *)

\* What a step of the device leaves alone.
LEMMA DeviceStep ==
  ASSUME NicInv, UNCHANGED drvVars,
         \A x \in Queues : /\ q'[x].active = q[x].active
                           /\ x # "eq" /\ ~q[x].active =>
                                /\ q'[x].head = q[x].head /\ q'[x].tail = q[x].tail
                                /\ q'[x].ops = q[x].ops,
         \A d \in Dirs : RQ(d)'.head = RQ(d).head /\ CQ(d)'.tail = CQ(d).tail
  PROVE  PoolOK' /\ WritesOK' /\ Activation' /\ AtEvent' /\ DriverTypes'
<1> USE DEF drvVars
<1>1. PoolOK'
  BY SamePool DEF NicInv
<1>2. WritesOK'
  BY SameWrites DEF NicInv
<1>3. Activation'
  BY SameActivation DEF NicInv
<1>4. AtEvent' /\ DriverTypes'
  BY DEF NicInv, AtEvent, Types, DriverTypes
<1> QED BY <1>1, <1>2, <1>3, <1>4

\* A queue is replaced, the others are not.
LEMMA QueueReplaced ==
  ASSUME Types, NEW x \in Queues, NEW y \in QueueRecords, q' = [q EXCEPT ![x] = y],
         Len(y.ops) <= OpTable, x # "eq"
  PROVE  /\ QueueTypes' /\ q'[x] = y /\ \A z \in Queues : z # x => q'[z] = q[z]
         /\ \A d \in Dirs : /\ x = RingQ[d] => RQ(d)' = y
                            /\ x = CqOf[d] => CQ(d)' = y
                            /\ x # RingQ[d] => RQ(d)' = RQ(d)
                            /\ x # CqOf[d] => CQ(d)' = CQ(d)
<1>1. /\ q \in [Queues -> QueueRecords] /\ \A z \in Queues : Len(q[z].ops) <= OpTable
      /\ \A j \in DOMAIN q["eq"].ops : q["eq"].ops[j].data \in Dirs
  BY DEF Types, QueueTypes
<1>2. /\ q' \in [Queues -> QueueRecords] /\ q'[x] = y /\ \A z \in Queues : z # x => q'[z] = q[z]
  BY <1>1
<1>3. QueueTypes'
  BY <1>1, <1>2 DEF QueueTypes, Queues
<1>4. \A d \in Dirs : RingQ[d] \in Queues /\ CqOf[d] \in Queues
  BY Names
<1> QED BY <1>2, <1>3, <1>4 DEF RQ, CQ

\* A descriptor is asked for where the last one was.
Fetches(d) ==
  /\ HasDescriptor(RQ(d)) /\ Startable(RQ(d)) /\ q' = [q EXCEPT ![RingQ[d]] = Dequeue(@)]

\* What a fetch finds, and what it leaves.
LEMMA FetchStarts ==
  ASSUME NicInv, NEW d \in Dirs, Fetches(d)
  PROVE  /\ QueueTypes' /\ ActiveTail(RQ(d)) = Asked(d) /\ Asked(d) < RQ(d).head
         /\ RQ(d).active /\ Asked(d)' = Asked(d) + 1 /\ InLine(RQ(d)'.ops, Fetched(d)')
         /\ RQ(d)'.active = RQ(d).active /\ RQ(d)'.head = RQ(d).head /\ RQ(d)'.tail = RQ(d).tail
         /\ CQ(d)' = CQ(d) /\ \A e \in Dirs : e # d => RQ(e)' = RQ(e) /\ CQ(e)' = CQ(e)
         /\ \A x \in Queues : x # RingQ[d] => q'[x] = q[x]
<1> DEFINE x == RQ(d)
           y == Dequeue(x)
<1>1. Types /\ Order(d) /\ Ops(d) /\ RingQ[d] \in Queues \ {"eq"}
  BY Names DEF NicInv, Rows
<1>2. x \in QueueRecords /\ x = q[RingQ[d]] /\ Len(x.ops) \in Nat
  BY <1>1, RecordTypes DEF RQ
<1>3. /\ Asked(d) \in Nat /\ Asked(d) <= x.head /\ x.head <= Filled(d) /\ Filled(d) < PtrMod
      /\ Fetched(d) \in Nat /\ x.head \in Nat /\ Filled(d) \in Nat /\ Fetched(d) = x.tail
      /\ Asked(d) = Fetched(d) + Len(x.ops)
  BY <1>1, Counts DEF NicInv, Rows, Fetched, Asked
<1>4. ActiveTail(x) = Asked(d)
  <2>1. InLine(x.ops, Fetched(d))
    BY <1>1 DEF Ops
  <2>2. Latest(x, Fetched(d)) = Fetched(d) + Len(x.ops)
    BY <1>2, <1>3, <2>1, LineLatest
  <2> QED BY <1>3, <2>2 DEF ActiveTail
<1>5. x.head # Asked(d) /\ x.active /\ Len(x.ops) < OpTable
  BY <1>4 DEF Fetches, HasDescriptor, Startable
<1>6. Asked(d) + 1 < PtrMod \/ Asked(d) + 1 <= x.head
  BY <1>3, <1>5
<1>7. Asked(d) + 1 < PtrMod
  BY <1>3, <1>5, Sizes
<1>8. /\ y \in QueueRecords /\ y = [x EXCEPT !.ops = y.ops]
      /\ InLine(y.ops, Fetched(d)) /\ Len(y.ops) = Len(x.ops) + 1
  <2>1. InLine(x.ops, Fetched(d))
    BY <1>1 DEF Ops
  <2>2. y = Started(x, Asked(d), Asked(d))
    BY <1>4 DEF Dequeue
  <2> DEFINE z == Started(x, Asked(d), Asked(d))
  <2>3. /\ z \in QueueRecords /\ z = [x EXCEPT !.ops = z.ops]
        /\ InLine(z.ops, Fetched(d)) /\ Len(z.ops) = Len(x.ops) + 1
    BY <1>2, <1>3, <1>7, <2>1, LineStarted
  <2> HIDE DEF z, y
  <2>4. y = z
    BY <2>2 DEF z, y
  <2> QED BY <2>3, <2>4
<1> HIDE DEF y
<1>9. q' = [q EXCEPT ![RingQ[d]] = y]
  BY <1>2 DEF Fetches, y, RQ
<1>10. y.active = x.active /\ y.head = x.head /\ y.tail = x.tail
  BY <1>2, <1>8 DEF QueueRecords
<1>11. Len(y.ops) <= OpTable
  BY <1>2, <1>5, <1>8, Sizes, SMTT(30)
<1>12. /\ QueueTypes' /\ RQ(d)' = y /\ CQ(d)' = CQ(d)
       /\ \A z \in Queues : z # RingQ[d] => q'[z] = q[z]
       /\ \A e \in Dirs : e # d => RQ(e)' = RQ(e) /\ CQ(e)' = CQ(e)
  <2> HIDE DEF x
  <2>1. RingQ[d] \in Queues /\ RingQ[d] # "eq"
    BY <1>1
  <2>2. y \in QueueRecords /\ Types
    BY <1>1, <1>8
  <2>3. /\ QueueTypes' /\ q'[RingQ[d]] = y /\ \A z \in Queues : z # RingQ[d] => q'[z] = q[z]
        /\ \A e \in Dirs : /\ RingQ[d] = RingQ[e] => RQ(e)' = y
                           /\ RingQ[d] = CqOf[e] => CQ(e)' = y
                           /\ RingQ[d] # RingQ[e] => RQ(e)' = RQ(e)
                           /\ RingQ[d] # CqOf[e] => CQ(e)' = CQ(e)
    BY <1>9, <1>11, <2>1, <2>2, QueueReplaced, ZenonT(60)
  <2>4. \A e \in Dirs : RingQ[d] # CqOf[e] /\ (e # d => RingQ[d] # RingQ[e])
    BY Names
  <2> QED BY <2>3, <2>4
<1>13. Asked(d)' = Asked(d) + 1 /\ Fetched(d)' = Fetched(d)
  BY <1>2, <1>3, <1>8, <1>10, <1>12 DEF Asked, Fetched
<1>14. InLine(RQ(d)'.ops, Fetched(d)')
  BY <1>8, <1>12, <1>13
<1>15. RQ(d).active /\ Asked(d) < RQ(d).head
  BY <1>3, <1>5
<1> QED BY <1>4, <1>10, <1>12, <1>13, <1>14, <1>15

\* The entries of the direction whose descriptor is asked for.
LEMMA FetchRows ==
  ASSUME NicInv, NEW d \in Dirs, Fetches(d), UNCHANGED drvVars, UNCHANGED mem,
         Jobs(d)', \A e \in Dirs : e # d => work'[e] = work[e]
  PROVE  \A e \in Dirs : Rows(e)'
<1> USE DEF drvVars
<1>1. /\ Asked(d) < RQ(d).head /\ Asked(d)' = Asked(d) + 1 /\ InLine(RQ(d)'.ops, Fetched(d)')
      /\ RQ(d)'.head = RQ(d).head /\ RQ(d)'.tail = RQ(d).tail /\ CQ(d)' = CQ(d)
      /\ \A e \in Dirs : e # d => RQ(e)' = RQ(e) /\ CQ(e)' = CQ(e)
  BY FetchStarts
<1>2. \A e \in Dirs : e # d => SameRows(e)
  BY <1>1 DEF SameRows
<1>3. \A e \in Dirs : e # d => Rows(e)'
  BY <1>2, SameKeepsRows DEF NicInv
<1>4. Rows(d) /\ Asked(d) \in Nat /\ RQ(d).head \in Nat
  BY Counts DEF NicInv, Rows
<1>5. /\ Filled(d)' = Filled(d) /\ Freed(d)' = Freed(d) /\ Fetched(d)' = Fetched(d)
      /\ Moved(d)' = Moved(d) /\ Completed(d)' = Completed(d) /\ Held(d)' = Held(d)
  BY <1>1 DEF Filled, Freed, Fetched, Moved, Completed, Held
<1>6. Order(d)'
  BY <1>1, <1>4, <1>5 DEF Rows, Order
<1>7. Ops(d)'
  BY <1>1, <1>4, <1>5 DEF Rows, Ops, InLine
<1>8. Entry(d)'
  BY <1>4, <1>5 DEF Rows, Entry, Buf
<1> QED BY <1>3, <1>6, <1>7, <1>8 DEF Rows

\* What follows for a step that asks for a descriptor.
LEMMA FetchRest ==
  ASSUME NicInv, NEW d \in Dirs, Fetches(d), UNCHANGED drvVars
  PROVE  PoolOK' /\ WritesOK' /\ Activation' /\ AtEvent' /\ DriverTypes' /\ QueueTypes'
<1>1. /\ QueueTypes' /\ RQ(d).active /\ RQ(d)'.active = RQ(d).active
      /\ RQ(d)'.head = RQ(d).head /\ CQ(d)' = CQ(d)
      /\ \A e \in Dirs : e # d => RQ(e)' = RQ(e) /\ CQ(e)' = CQ(e)
      /\ \A x \in Queues : x # RingQ[d] => q'[x] = q[x]
  BY FetchStarts
<1>2. \A x \in Queues : /\ q'[x].active = q[x].active
                        /\ x # "eq" /\ ~q[x].active =>
                             /\ q'[x].head = q[x].head /\ q'[x].tail = q[x].tail
                             /\ q'[x].ops = q[x].ops
  BY <1>1 DEF RQ
<1>3. \A e \in Dirs : RQ(e)'.head = RQ(e).head /\ CQ(e)'.tail = CQ(e).tail
  BY <1>1
<1> QED BY <1>1, <1>2, <1>3, DeviceStep

\* What the engine holds, and how far it is.
LEMMA WorkFacts ==
  ASSUME NicInv, NEW d \in Dirs
  PROVE  /\ work[d] \in Seq(JobRecords) /\ Len(work[d]) \in Nat
         /\ DOMAIN work[d] = 1..Len(work[d])
         /\ InWork(d) \in Nat /\ InWork(d) <= Len(work[d]) /\ Asked(d) = Moved(d) + InWork(d)
         /\ Fetched(d) - Moved(d) \in Nat /\ Fetched(d) - Moved(d) <= InWork(d)
         /\ Asked(d) \in Nat /\ Moved(d) \in Nat /\ Fetched(d) \in Nat /\ Asked(d) < PtrMod
         /\ Jobs(d)
<1>1. work[d] \in Seq(JobRecords)
  BY DEF NicInv, Types, FrameTypes
<1>2. /\ Asked(d) \in Nat /\ Moved(d) \in Nat /\ Fetched(d) \in Nat
      /\ Moved(d) <= Fetched(d) /\ Fetched(d) <= Asked(d) /\ Asked(d) <= RQ(d).head
      /\ RQ(d).head <= Filled(d) /\ Filled(d) < PtrMod /\ RQ(d).head \in Nat /\ Filled(d) \in Nat
  BY Counts DEF NicInv, Rows
<1>3. Jobs(d) /\ Len(work[d]) >= InWork(d)
  BY DEF NicInv, Rows, Jobs
<1>4. Asked(d) < PtrMod
  BY <1>2, Sizes
<1>5. /\ InWork(d) \in Nat /\ Asked(d) = Moved(d) + InWork(d)
      /\ Fetched(d) - Moved(d) \in Nat /\ Fetched(d) - Moved(d) <= InWork(d)
  BY <1>2 DEF InWork
<1> QED BY <1>1, <1>2, <1>3, <1>4, <1>5

\* The transmit engine asks for a descriptor.
LEMMA TxFetchInv == NicInv /\ TxFetch => NicInv'
<1> SUFFICES ASSUME NicInv, TxFetch PROVE NicInv'
  OBVIOUS
<1> DEFINE w == work["tx"]
           job == [ptr |-> Asked("tx"), buf |-> NoBuf, frame |-> 0]
<1>1. "tx" \in Dirs /\ "rx" \in Dirs /\ RingQ["tx"] = "txq"
  BY Names DEF RingQ
<1>2. Fetches("tx") /\ UNCHANGED drvVars /\ UNCHANGED mem
  BY <1>1 DEF TxFetch, Fetches, RQ
<1>3. /\ w \in Seq(JobRecords) /\ Len(w) \in Nat /\ DOMAIN w = 1..Len(w) /\ Len(w) = InWork("tx")
      /\ InWork("tx") \in Nat /\ Asked("tx") = Moved("tx") + InWork("tx")
      /\ Fetched("tx") - Moved("tx") \in Nat /\ Fetched("tx") - Moved("tx") <= InWork("tx")
      /\ Asked("tx") \in Nat /\ Moved("tx") \in Nat /\ Asked("tx") < PtrMod /\ Jobs("tx")
  BY <1>1, WorkFacts DEF Jobs
<1>4. /\ ActiveTail(RQ("tx")) = Asked("tx") /\ Asked("tx")' = Asked("tx") + 1
      /\ RQ("tx")'.tail = RQ("tx").tail /\ CQ("tx")' = CQ("tx")
      /\ RQ("rx")' = RQ("rx") /\ CQ("rx")' = CQ("rx")
  BY <1>1, <1>2, FetchStarts
<1>5. work \in [Dirs -> Seq(JobRecords)]
  BY DEF NicInv, Types, FrameTypes
<1>6. work' = [work EXCEPT !["tx"] = Append(w, job)]
  BY <1>1, <1>4 DEF TxFetch, RQ
<1>7. job \in JobRecords
  BY <1>3, Sizes DEF JobRecords, MaybeBuf
<1>8. /\ work' \in [Dirs -> Seq(JobRecords)] /\ work'["tx"] = Append(w, job)
      /\ work'["rx"] = work["rx"]
  BY <1>1, <1>3, <1>5, <1>6, <1>7
<1> HIDE DEF w, job
<1>9. /\ Len(work'["tx"]) = Len(w) + 1 /\ DOMAIN work'["tx"] = 1..(Len(w) + 1)
      /\ work'["tx"][Len(w) + 1] = job /\ \A i \in 1..Len(w) : work'["tx"][i] = w[i]
  BY <1>3, <1>7, <1>8
<1>10. /\ Moved("tx")' = Moved("tx") /\ Fetched("tx")' = Fetched("tx")
       /\ InWork("tx")' = InWork("tx") + 1 /\ \A p : Buf("tx", p)' = Buf("tx", p)
  <2>1. Moved("tx")' = Moved("tx") /\ Fetched("tx")' = Fetched("tx")
    BY <1>4 DEF Moved, Fetched
  <2>2. InWork("tx")' = (Asked("tx") + 1) - Moved("tx")
    BY <1>4, <2>1 DEF InWork
  <2>3. \A p : Buf("tx", p)' = Buf("tx", p)
    BY <1>2 DEF drvVars, Buf
  <2> QED BY <1>3, <2>1, <2>2, <2>3
<1>11. Jobs("tx")'
  <2>1. ASSUME NEW i \in DOMAIN work'["tx"]
        PROVE  /\ i <= InWork("tx")' => work'["tx"][i].ptr = Moved("tx")' + i - 1
               /\ i <= Fetched("tx")' - Moved("tx")' => work'["tx"][i].buf = Buf("tx", Moved("tx") + i - 1)
               /\ i > Fetched("tx")' - Moved("tx")' => work'["tx"][i].buf = NoBuf
               /\ ~(i > InWork("tx")')
    <3>1. CASE i = Len(w) + 1
      <4>1. work'["tx"][i].ptr = Asked("tx") /\ work'["tx"][i].buf = NoBuf
        BY <1>9, <3>1 DEF job
      <4> QED BY <1>3, <1>9, <1>10, <3>1, <4>1
    <3>2. CASE i # Len(w) + 1
      <4>1. i \in 1..Len(w) /\ i \in DOMAIN work["tx"] /\ work'["tx"][i] = work["tx"][i]
            /\ i <= InWork("tx") /\ i <= InWork("tx") + 1
        BY <1>3, <1>9, <3>2 DEF w
      <4>2. /\ i <= InWork("tx") => work["tx"][i].ptr = Moved("tx") + i - 1
            /\ i <= Fetched("tx") - Moved("tx") => work["tx"][i].buf = Buf("tx", Moved("tx") + i - 1)
            /\ i > Fetched("tx") - Moved("tx") => work["tx"][i].buf = NoBuf
        BY <1>3, <4>1 DEF Jobs
      <4> QED BY <1>3, <1>10, <4>1, <4>2
    <3> QED BY <3>1, <3>2
  <2>2. Len(work'["tx"]) = InWork("tx")' /\ InWork("tx")' \in Nat
    BY <1>3, <1>9, <1>10
  <2> QED BY <1>10, <2>1, <2>2 DEF Jobs
<1>12. \A e \in Dirs : Rows(e)'
  <2>1. \A e \in Dirs : e # "tx" => work'[e] = work[e]
    BY <1>8, Names
  <2> QED BY <1>1, <1>2, <1>11, <2>1, FetchRows
<1>13. PoolOK' /\ WritesOK' /\ Activation' /\ AtEvent' /\ DriverTypes' /\ QueueTypes'
  BY <1>1, <1>2, FetchRest
<1>14. TxData'
  BY <1>2, <1>4, SameTx DEF NicInv, TxFetch, drvVars
<1>15. RxOK'
  BY <1>2, <1>4, <1>8, SameRx DEF NicInv, TxFetch, drvVars, Buf
<1>16. MemoryTypes' /\ FrameTypes'
  BY <1>8 DEF TxFetch, NicInv, Types, MemoryTypes, FrameTypes
<1> QED BY <1>12, <1>13, <1>14, <1>15, <1>16 DEF NicInv, Types

\* A frame arrives and waits behind the others.
LEMMA ArriveInv == NicInv /\ Arrive => NicInv'
<1> SUFFICES ASSUME NicInv, Arrive PROVE NicInv'
  OBVIOUS
<1> DEFINE w == work["rx"]
           job == [ptr |-> -1, buf |-> NoBuf, frame |-> net.arrived + 1]
<1>1. "tx" \in Dirs /\ "rx" \in Dirs
  BY Names
<1>2. UNCHANGED drvVars /\ UNCHANGED <<mem, q>>
  BY DEF Arrive
<1>3. /\ w \in Seq(JobRecords) /\ Len(w) \in Nat /\ DOMAIN w = 1..Len(w) /\ InWork("rx") <= Len(w)
      /\ InWork("rx") \in Nat /\ Fetched("rx") - Moved("rx") \in Nat
      /\ Fetched("rx") - Moved("rx") <= InWork("rx") /\ Jobs("rx")
  BY <1>1, WorkFacts
<1>4. /\ work \in [Dirs -> Seq(JobRecords)] /\ net.arrived \in Nat
      /\ net \in [sent : Nat, wire : Seq(Frames), arrived : Nat, got : Seq(Frames), dropped : SUBSET Nat]
  BY DEF NicInv, Types, FrameTypes
<1>5. work' = [work EXCEPT !["rx"] = Append(w, job)] /\ net' = [net EXCEPT !.arrived = @ + 1]
      /\ net.arrived < MaxRx
  BY DEF Arrive
<1>6. job \in JobRecords
  BY <1>4, Sizes DEF JobRecords, MaybeBuf
<1>7. /\ work' \in [Dirs -> Seq(JobRecords)] /\ work'["rx"] = Append(w, job)
      /\ work'["tx"] = work["tx"]
  BY <1>1, <1>3, <1>4, <1>5, <1>6
<1>8. /\ net' \in [sent : Nat, wire : Seq(Frames), arrived : Nat, got : Seq(Frames), dropped : SUBSET Nat]
      /\ net'.arrived = net.arrived + 1 /\ net'.sent = net.sent /\ net'.wire = net.wire
      /\ net'.got = net.got /\ net'.dropped = net.dropped
  <2>1. net' = [sent |-> net.sent, wire |-> net.wire, arrived |-> net.arrived + 1,
                got |-> net.got, dropped |-> net.dropped]
    BY <1>4, <1>5
  <2>2. /\ net.sent \in Nat /\ net.wire \in Seq(Frames) /\ net.got \in Seq(Frames)
        /\ net.dropped \in SUBSET Nat /\ net.arrived + 1 \in Nat
    BY <1>4
  <2> QED BY <2>1, <2>2
<1> HIDE DEF w, job
<1>9. /\ Len(work'["rx"]) = Len(w) + 1 /\ DOMAIN work'["rx"] = 1..(Len(w) + 1)
      /\ work'["rx"][Len(w) + 1] = job /\ \A i \in 1..Len(w) : work'["rx"][i] = w[i]
  BY <1>3, <1>6, <1>7
<1>10. \A d \in Dirs : RQ(d)' = RQ(d) /\ CQ(d)' = CQ(d)
  BY <1>2 DEF RQ, CQ
<1>11. PoolOK' /\ WritesOK' /\ Activation' /\ AtEvent' /\ DriverTypes'
  BY <1>2, <1>10, DeviceStep
<1>12. Types'
  BY <1>2, <1>7, <1>8, <1>11 DEF Arrive, NicInv, Types, MemoryTypes, QueueTypes, FrameTypes
<1>13. TxData'
  BY <1>1, <1>2, <1>8, <1>10, SameTx DEF NicInv, drvVars
<1>14. \A d \in Dirs : /\ Filled(d)' = Filled(d) /\ Freed(d)' = Freed(d) /\ Asked(d)' = Asked(d)
                       /\ Fetched(d)' = Fetched(d) /\ Moved(d)' = Moved(d)
                       /\ InWork(d)' = InWork(d) /\ \A p : Buf(d, p)' = Buf(d, p)
  BY <1>2, <1>10 DEF drvVars, Filled, Freed, Asked, Fetched, Moved, InWork, Buf
<1>15. Jobs("rx")'
  <2>1. ASSUME NEW i \in DOMAIN work'["rx"]
        PROVE  /\ i <= InWork("rx") => work'["rx"][i].ptr = Moved("rx") + i - 1
               /\ i <= Fetched("rx") - Moved("rx") => work'["rx"][i].buf = Buf("rx", Moved("rx") + i - 1)
               /\ i > Fetched("rx") - Moved("rx") => work'["rx"][i].buf = NoBuf
               /\ i > InWork("rx") => work'["rx"][i].ptr = -1
    <3>1. CASE i = Len(w) + 1
      <4>1. work'["rx"][i].ptr = -1 /\ work'["rx"][i].buf = NoBuf
        BY <1>9, <3>1 DEF job
      <4>2. ~(i <= InWork("rx")) /\ ~(i <= Fetched("rx") - Moved("rx"))
        BY <1>3, <3>1
      <4> QED BY <4>1, <4>2
    <3>2. CASE i # Len(w) + 1
      <4>1. i \in DOMAIN work["rx"] /\ work'["rx"][i] = work["rx"][i]
        BY <1>3, <1>9, <3>2 DEF w
      <4> QED BY <1>3, <4>1 DEF Jobs
    <3> QED BY <3>1, <3>2
  <2>2. Len(work'["rx"]) >= InWork("rx")
    BY <1>3, <1>9
  <2> QED BY <1>1, <1>14, <2>1, <2>2 DEF Jobs
<1>16. \A d \in Dirs : Rows(d)'
  <2>1. SameRows("tx")
    BY <1>1, <1>2, <1>7, <1>10 DEF drvVars, SameRows
  <2>2. Rows("tx")'
    BY <1>1, <2>1, SameKeepsRows DEF NicInv
  <2>3. Order("rx") /\ Ops("rx") /\ Entry("rx")
    BY <1>1 DEF NicInv, Rows
  <2>4. Order("rx")' /\ Ops("rx")' /\ Entry("rx")'
    BY <1>2, <2>3 DEF drvVars, Order, Ops, InLine, Entry, Filled, Freed, Fetched, Moved, Asked,
                      Completed, Held, Buf, RQ, CQ
  <2> QED BY <1>15, <2>2, <2>4, Names DEF Rows
<1>17. RxOK'
  <2>1. PICK fr \in [Numbers -> Nat] : RxData(fr) /\ FramesOK(fr)
    BY DEF NicInv, RxOK
  <2>2. /\ Waiting = Len(w) - InWork("rx") /\ Waiting' = (Len(w) + 1) - InWork("rx")
        /\ Waiting \in Nat /\ Waiting' = Waiting + 1
    BY <1>1, <1>3, <1>9, <1>14 DEF Waiting, w
  <2>3. Decided' = Decided /\ Decided \in Nat /\ net.arrived = Decided + Waiting
    BY <1>4, <1>8, <2>1, <2>2 DEF Decided, FramesOK
  <2>4. RxData(fr)'
    <3>1. \A i \in 1..InWork("rx") : work'["rx"][i] = work["rx"][i]
      BY <1>3, <1>9 DEF w
    <3> QED BY <1>1, <1>2, <1>8, <1>14, <2>1, <3>1 DEF RxData
  <2>5. ASSUME NEW i \in 1..Waiting'
        PROVE  work'["rx"][InWork("rx") + i].frame = Decided + i
    <3>1. CASE i = Waiting + 1
      <4>1. InWork("rx") + i = Len(w) + 1
        BY <1>3, <2>2, <3>1
      <4> QED BY <1>9, <2>2, <2>3, <3>1, <4>1 DEF job
    <3>2. CASE i # Waiting + 1
      <4>1. i \in 1..Waiting /\ InWork("rx") + i \in 1..Len(w)
        BY <1>3, <2>2, <3>2
      <4>2. work'["rx"][InWork("rx") + i] = work["rx"][InWork("rx") + i]
        BY <1>9, <4>1 DEF w
      <4> QED BY <2>1, <4>1, <4>2 DEF FramesOK
    <3> QED BY <3>1, <3>2
  <2>6. net'.arrived <= MaxRx
    BY <1>4, <1>5, <1>8, Sizes, SMTT(30)
  <2>7. FramesOK(fr)'
    BY <1>1, <1>8, <1>14, <2>1, <2>3, <2>5, <2>6 DEF FramesOK
  <2> QED BY <2>4, <2>7 DEF RxOK
<1> QED BY <1>11, <1>12, <1>13, <1>16, <1>17 DEF NicInv

\* An element less, wherever it was.
LEMMA RemoveAtIs ==
  ASSUME NEW S, NEW s \in Seq(S), NEW i \in 1..Len(s)
  PROVE  /\ RemoveAt(s, i) \in Seq(S) /\ Len(RemoveAt(s, i)) = Len(s) - 1
         /\ \A k \in 1..(Len(s) - 1) : RemoveAt(s, i)[k] = IF k < i THEN s[k] ELSE s[k + 1]
<1> DEFINE a == SubSeq(s, 1, i - 1)
           b == SubSeq(s, i + 1, Len(s))
<1>1. Len(s) \in Nat /\ i \in Nat /\ i >= 1 /\ i <= Len(s)
  OBVIOUS
<1>2. /\ a \in Seq(S) /\ Len(a) = i - 1 /\ \A k \in 1..(i - 1) : a[k] = s[k]
  <2>1. CASE i = 1
    <3>1. a = <<>>
      BY <1>1, <2>1, SubSeqEmpty
    <3> QED BY <2>1, <3>1
  <2>2. CASE i # 1
    <3>1. i - 1 \in 1..Len(s) /\ 1 \in 1..(Len(s) + 1)
      BY <1>1, <2>2
    <3> QED BY <1>1, <3>1, SubSeqProperties
  <2> QED BY <2>1, <2>2
<1>3. /\ b \in Seq(S) /\ Len(b) = Len(s) - i /\ \A k \in 1..(Len(s) - i) : b[k] = s[i + k]
  <2>1. CASE i = Len(s)
    <3>1. b = <<>>
      BY <1>1, <2>1, SubSeqEmpty
    <3> QED BY <1>1, <2>1, <3>1
  <2>2. CASE i # Len(s)
    <3>1. i + 1 \in 1..(Len(s) + 1) /\ Len(s) \in i..Len(s) /\ i + 1 \in 1..Len(s)
      BY <1>1, <2>2
    <3>2. /\ b \in Seq(S) /\ Len(b) = Len(s) - (i + 1) + 1
          /\ \A k \in 1..(Len(s) - (i + 1) + 1) : b[k] = s[(i + 1) + k - 1]
      BY <1>1, <3>1, SubSeqProperties
    <3> HIDE DEF b
    <3>3. Len(s) - (i + 1) + 1 = Len(s) - i /\ \A k \in 1..(Len(s) - i) : (i + 1) + k - 1 = i + k
      BY <1>1
    <3> QED BY <3>2, <3>3
  <2> QED BY <2>1, <2>2
<1>4. RemoveAt(s, i) = a \o b
  BY DEF RemoveAt
<1> HIDE DEF a, b
<1>5. /\ a \o b \in Seq(S) /\ Len(a \o b) = Len(a) + Len(b)
      /\ \A k \in 1..(Len(a) + Len(b)) : (a \o b)[k] = IF k <= Len(a) THEN a[k] ELSE b[k - Len(a)]
  BY <1>2, <1>3, ConcatProperties
<1>6. ASSUME NEW k \in 1..(Len(s) - 1) PROVE (a \o b)[k] = IF k < i THEN s[k] ELSE s[k + 1]
  <2>1. k \in 1..(Len(a) + Len(b))
    BY <1>1, <1>2, <1>3
  <2>2. CASE k < i
    <3>1. (a \o b)[k] = a[k] /\ k \in 1..(i - 1)
      BY <1>1, <1>2, <1>5, <2>1, <2>2
    <3> QED BY <1>2, <2>2, <3>1
  <2>3. CASE ~(k < i)
    <3>1. (a \o b)[k] = b[k - (i - 1)] /\ k - (i - 1) \in 1..(Len(s) - i)
      BY <1>1, <1>2, <1>5, <2>1, <2>3
    <3>2. b[k - (i - 1)] = s[i + (k - (i - 1))] /\ i + (k - (i - 1)) = k + 1
      BY <1>1, <1>3, <3>1
    <3> QED BY <2>3, <3>1, <3>2
  <2> QED BY <2>2, <2>3
<1>7. Len(a) + Len(b) = Len(s) - 1
  BY <1>1, <1>2, <1>3
<1> QED BY <1>4, <1>5, <1>6, <1>7

\* The frame that asks for a descriptor is the first that waits.
LEMMA FirstWaits ==
  ASSUME NicInv, NEW i \in DOMAIN work["rx"], work["rx"][i].ptr = -1,
         \A j \in 1..(i - 1) : work["rx"][j].ptr # -1
  PROVE  i = InWork("rx") + 1
<1>1. "rx" \in Dirs
  BY Names
<1>2. /\ DOMAIN work["rx"] = 1..Len(work["rx"]) /\ Len(work["rx"]) \in Nat
      /\ InWork("rx") \in Nat /\ Moved("rx") \in Nat /\ Jobs("rx")
  BY <1>1, WorkFacts
<1>3. i > InWork("rx")
  <2> SUFFICES ASSUME i <= InWork("rx") PROVE FALSE
    BY <1>2
  <2>1. work["rx"][i].ptr = Moved("rx") + i - 1
    BY <1>2 DEF Jobs
  <2> QED BY <1>2, <2>1
<1>4. ~(i > InWork("rx") + 1)
  <2> SUFFICES ASSUME i > InWork("rx") + 1 PROVE FALSE
    OBVIOUS
  <2>1. InWork("rx") + 1 \in DOMAIN work["rx"] /\ InWork("rx") + 1 \in 1..(i - 1)
        /\ InWork("rx") + 1 > InWork("rx")
    BY <1>2
  <2>2. work["rx"][InWork("rx") + 1].ptr = -1
    BY <1>2, <2>1 DEF Jobs
  <2> QED BY <2>1, <2>2
<1> QED BY <1>2, <1>3, <1>4

\* The frames of the receive engine.
RxTakes == LET i == InWork("rx") + 1
           IN /\ Fetches("rx") /\ UNCHANGED net
              /\ work' = [work EXCEPT !["rx"][i].ptr = Asked("rx")]

\* A frame that takes the next entry becomes the newest job with a pointer.
LEMMA RxTakesJobs ==
  ASSUME NicInv, RxTakes, UNCHANGED drvVars, InWork("rx") < Len(work["rx"])
  PROVE  /\ work' \in [Dirs -> Seq(JobRecords)] /\ work'["tx"] = work["tx"]
         /\ Len(work'["rx"]) = Len(work["rx"])
         /\ \A k \in 1..Len(work["rx"]) : work'["rx"][k].frame = work["rx"][k].frame
         /\ InWork("rx")' = InWork("rx") + 1 /\ Jobs("rx")'
<1> DEFINE w == work["rx"]
           n == InWork("rx")
           i == n + 1
           job == [w[i] EXCEPT !.ptr = Asked("rx")]
<1>1. "rx" \in Dirs /\ "tx" \in Dirs
  BY Names
<1>2. /\ w \in Seq(JobRecords) /\ Len(w) \in Nat /\ DOMAIN w = 1..Len(w) /\ n <= Len(w)
      /\ n \in Nat /\ Asked("rx") = Moved("rx") + n
      /\ Fetched("rx") - Moved("rx") \in Nat /\ Fetched("rx") - Moved("rx") <= n
      /\ Asked("rx") \in Nat /\ Moved("rx") \in Nat /\ Asked("rx") < PtrMod /\ Jobs("rx")
      /\ Fetched("rx") \in Nat
  BY <1>1, WorkFacts
<1>3. work \in [Dirs -> Seq(JobRecords)]
  BY DEF NicInv, Types, FrameTypes
<1>4. /\ Asked("rx")' = Asked("rx") + 1 /\ RQ("rx")'.tail = RQ("rx").tail /\ CQ("rx")' = CQ("rx")
  BY <1>1, FetchStarts DEF RxTakes
<1>5. i \in 1..Len(w) /\ w[i] \in JobRecords
  BY <1>2
<1>6. /\ job \in JobRecords /\ job.ptr = Asked("rx") /\ job.buf = w[i].buf /\ job.frame = w[i].frame
  <2>1. w[i] = [ptr |-> w[i].ptr, buf |-> w[i].buf, frame |-> w[i].frame]
        /\ w[i].buf \in MaybeBuf /\ w[i].frame \in Nat
    BY <1>5 DEF JobRecords
  <2>2. job = [ptr |-> Asked("rx"), buf |-> w[i].buf, frame |-> w[i].frame]
    BY <2>1
  <2>3. Asked("rx") \in -1..(PtrMod - 1)
    BY <1>2, Sizes
  <2> QED BY <2>1, <2>2, <2>3 DEF JobRecords
<1>7. work' = [work EXCEPT !["rx"] = [w EXCEPT ![i] = job]]
  BY <1>1, <1>3 DEF RxTakes
<1>8. /\ work' \in [Dirs -> Seq(JobRecords)] /\ work'["rx"] = [w EXCEPT ![i] = job]
      /\ work'["tx"] = work["tx"]
  <2>1. [w EXCEPT ![i] = job] \in Seq(JobRecords)
    BY <1>2, <1>5, <1>6
  <2> QED BY <1>1, <1>3, <1>7, <2>1
<1>9. /\ Len(work'["rx"]) = Len(w) /\ DOMAIN work'["rx"] = 1..Len(w) /\ work'["rx"][i] = job
      /\ \A k \in 1..Len(w) : k # i => work'["rx"][k] = w[k]
  BY <1>2, <1>5, <1>8
<1>10. /\ Moved("rx")' = Moved("rx") /\ Fetched("rx")' = Fetched("rx")
       /\ InWork("rx")' = n + 1 /\ \A p : Buf("rx", p)' = Buf("rx", p)
  <2>1. Moved("rx")' = Moved("rx") /\ Fetched("rx")' = Fetched("rx")
    BY <1>4 DEF Moved, Fetched
  <2>2. InWork("rx")' = (Asked("rx") + 1) - Moved("rx")
    BY <1>4, <2>1 DEF InWork
  <2>3. \A p : Buf("rx", p)' = Buf("rx", p)
    BY DEF drvVars, Buf
  <2>4. InWork("rx")' = n + 1
    BY <1>2, <2>2
  <2> QED BY <2>1, <2>3, <2>4
<1> HIDE DEF w, job, n, i
<1>11. i = n + 1
  BY DEF i
<1>12. Jobs("rx")'
  <2>1. ASSUME NEW k \in DOMAIN work'["rx"]
        PROVE  /\ k <= n + 1 => work'["rx"][k].ptr = Moved("rx") + k - 1
               /\ k <= Fetched("rx") - Moved("rx") => work'["rx"][k].buf = Buf("rx", Moved("rx") + k - 1)
               /\ k > Fetched("rx") - Moved("rx") => work'["rx"][k].buf = NoBuf
               /\ k > n + 1 => work'["rx"][k].ptr = -1
    <3>1. /\ k \in DOMAIN work["rx"]
          /\ k <= n => work["rx"][k].ptr = Moved("rx") + k - 1
          /\ k <= Fetched("rx") - Moved("rx") => work["rx"][k].buf = Buf("rx", Moved("rx") + k - 1)
          /\ k > Fetched("rx") - Moved("rx") => work["rx"][k].buf = NoBuf
          /\ k > n => work["rx"][k].ptr = -1
      BY <1>2, <1>9 DEF Jobs, w, n
    <3>2. CASE k = i
      <4>1. work'["rx"][k].ptr = Asked("rx") /\ work'["rx"][k].buf = work["rx"][k].buf
        BY <1>6, <1>9, <3>2 DEF w
      <4> QED BY <1>2, <1>11, <3>1, <3>2, <4>1
    <3>3. CASE k # i
      <4>1. work'["rx"][k] = work["rx"][k] /\ k \in Nat
        BY <1>9, <3>3 DEF w
      <4>2. k <= n + 1 => k <= n
        BY <1>2, <1>11, <3>3, <4>1
      <4>3. k > n + 1 => k > n
        BY <1>2, <4>1
      <4> QED BY <3>1, <4>1, <4>2, <4>3
    <3> QED BY <3>2, <3>3
  <2>2. Len(work'["rx"]) >= n + 1
    BY <1>2, <1>5, <1>9, <1>11
  <2> QED BY <1>10, <2>1, <2>2 DEF Jobs
<1>13. \A k \in 1..Len(w) : work'["rx"][k].frame = w[k].frame
  BY <1>6, <1>9
<1> QED BY <1>8, <1>9, <1>10, <1>12, <1>13 DEF w, n

\* The places after the first n of L things, read again once one more is of the first.
LEMMA NextPlace ==
  ASSUME NEW n \in Nat, NEW L \in Nat, NEW k \in 1..((L - n) - 1)
  PROVE  k + 1 \in 1..(L - n) /\ n + (k + 1) \in 1..L /\ (n + 1) + k = n + (k + 1)
OBVIOUS

\* The frame that takes a descriptor is the next of those received.
LEMMA RxTakesFrames ==
  ASSUME NicInv, RxTakes, UNCHANGED drvVars, UNCHANGED mem, InWork("rx") < Len(work["rx"])
  PROVE  RxOK'
<1>1. "rx" \in Dirs /\ "tx" \in Dirs
  BY Names
<1>2. PICK fr \in [Numbers -> Nat] : RxData(fr) /\ FramesOK(fr)
  BY DEF NicInv, RxOK
<1>3. /\ Len(work'["rx"]) = Len(work["rx"]) /\ InWork("rx")' = InWork("rx") + 1
      /\ \A k \in 1..Len(work["rx"]) : work'["rx"][k].frame = work["rx"][k].frame
  BY RxTakesJobs
<1>4. /\ Asked("rx")' = Asked("rx") + 1 /\ CQ("rx")' = CQ("rx") /\ net' = net
  BY <1>1, FetchStarts DEF RxTakes
<1>5. /\ Moved("rx")' = Moved("rx") /\ Freed("rx")' = Freed("rx") /\ \A p : Buf("rx", p)' = Buf("rx", p)
      /\ Len(net'.got) = Len(net.got)
  BY <1>4 DEF drvVars, Moved, Freed, Buf
<1>6. /\ Len(work["rx"]) \in Nat /\ InWork("rx") \in Nat /\ Asked("rx") \in Nat /\ Moved("rx") \in Nat
      /\ Asked("rx") = Moved("rx") + InWork("rx")
  BY <1>1, WorkFacts
<1>7. Freed("rx") \in Nat /\ Freed("rx") <= Asked("rx") /\ Asked("rx") \in Numbers
  <2>1. /\ Freed("rx") \in Nat /\ Freed("rx") <= Completed("rx") /\ Completed("rx") <= Moved("rx")
        /\ Completed("rx") \in Nat /\ Filled("rx") \in Nat /\ Filled("rx") <= 2 * Size
        /\ Asked("rx") <= RQ("rx").head /\ RQ("rx").head <= Filled("rx") /\ RQ("rx").head \in Nat
    BY <1>1, Counts DEF NicInv, Rows
  <2> QED BY <1>6, <2>1, Sizes DEF Numbers
<1> DEFINE n == InWork("rx")
           a == Asked("rx")
           new == work["rx"][n + 1].frame
           D == Decided
<1>8. /\ Waiting = Len(work["rx"]) - n /\ Waiting' = Waiting - 1 /\ Waiting \in Nat /\ Waiting >= 1
  BY <1>3, <1>6, SMTT(30) DEF Waiting
<1>9. /\ D \in Nat /\ net.arrived = D + Waiting /\ Decided' = D + 1 /\ net.arrived \in Nat
  <2>1. net.arrived \in Nat /\ Decided \in Nat
    BY <1>2 DEF NicInv, Types, FrameTypes, FramesOK
  <2> QED BY <1>4, <1>8, <2>1, SMTT(30) DEF Decided
<1>10. new = D + 1
  BY <1>2, <1>8 DEF FramesOK
<1> HIDE DEF D, new
<1>11. PICK g \in [Numbers -> Nat] : g[a] = D + 1 /\ \A p \in 0..(a - 1) : g[p] = fr[p]
  <2> DEFINE h == [fr EXCEPT ![a] = D + 1]
  <2>1. h \in [Numbers -> Nat] /\ h[a] = D + 1 /\ \A p \in 0..(a - 1) : h[p] = fr[p]
    BY <1>6, <1>7, <1>9 DEF Numbers
  <2> QED BY <2>1
<1>12. /\ \A k \in 1..n : work["rx"][k].frame = fr[Moved("rx") + k - 1]
       /\ \A p \in Freed("rx")..(Moved("rx") - 1) : mem.buf[Buf("rx", p)] = <<"rx", fr[p]>>
       /\ Len(net.got) = Freed("rx") /\ \A k \in DOMAIN net.got : net.got[k] = <<"rx", fr[k - 1]>>
  BY <1>2 DEF RxData
<1>13. RxData(g)'
  <2>1. ASSUME NEW k \in 1..(n + 1) PROVE work'["rx"][k].frame = g[Moved("rx") + k - 1]
    <3>0. k \in 1..Len(work["rx"])
      BY <1>6
    <3>1. CASE k = n + 1
      BY <1>3, <1>6, <1>10, <1>11, <3>0, <3>1 DEF new
    <3>2. CASE k # n + 1
      <4>1. k \in 1..n /\ Moved("rx") + k - 1 \in 0..(a - 1)
        BY <1>6, <3>2
      <4> QED BY <1>3, <1>11, <1>12, <3>0, <4>1
    <3> QED BY <3>1, <3>2
  <2>2. \A p \in Freed("rx")..(Moved("rx") - 1) : g[p] = fr[p]
    BY <1>6, <1>7, <1>11
  <2>3. \A k \in DOMAIN net.got : g[k - 1] = fr[k - 1]
    <3>1. net.got \in Seq(Frames)
      BY DEF NicInv, Types, FrameTypes
    <3>2. \A k \in DOMAIN net.got : k - 1 \in 0..(a - 1)
      BY <1>6, <1>7, <1>12, <3>1
    <3> QED BY <1>11, <3>2
  <2>4. \A p \in Freed("rx")..(Moved("rx") - 1) : mem.buf[Buf("rx", p)] = <<"rx", g[p]>>
    BY <1>12, <2>2
  <2>5. \A k \in DOMAIN net.got : net.got[k] = <<"rx", g[k - 1]>>
    BY <1>12, <2>3
  <2> QED BY <1>3, <1>4, <1>5, <1>12, <2>1, <2>4, <2>5 DEF RxData
<1>14. FramesOK(g)'
  <2>1. /\ net.arrived <= MaxRx /\ a <= D /\ net.dropped \subseteq 1..D
        /\ \A k \in 1..Waiting : work["rx"][n + k].frame = D + k
        /\ \A p \in 0..(a - 1) : fr[p] \in (1..D) \ net.dropped
        /\ \A p, r \in 0..(a - 1) : p < r => fr[p] < fr[r]
        /\ \A f \in (1..D) \ net.dropped : \E p \in 0..(a - 1) : fr[p] = f
    BY <1>2 DEF FramesOK, D
  <2>2. ASSUME NEW k \in 1..(Waiting - 1) PROVE work'["rx"][(n + 1) + k].frame = (D + 1) + k
    <3>1. k + 1 \in 1..Waiting /\ n + (k + 1) \in 1..Len(work["rx"]) /\ (n + 1) + k = n + (k + 1)
      <4>1. k \in 1..((Len(work["rx"]) - n) - 1)
        BY <1>8
      <4>2. PICK nn \in Nat, L \in Nat : nn = n /\ L = Len(work["rx"])
        BY <1>6
      <4>3. k \in 1..((L - nn) - 1)
        BY <4>1, <4>2
      <4>4. k + 1 \in 1..(L - nn) /\ nn + (k + 1) \in 1..L /\ (nn + 1) + k = nn + (k + 1)
        BY <4>2, <4>3, NextPlace
      <4> QED BY <1>8, <4>2, <4>4
    <3>2. work'["rx"][n + (k + 1)].frame = work["rx"][n + (k + 1)].frame
      BY <1>3, <3>1
    <3>3. PICK m : m = k + 1
      OBVIOUS
    <3>4. work["rx"][n + m].frame = D + m
      BY <2>1, <3>1, <3>3
    <3>5. D + m = (D + 1) + k
      BY <1>9, <3>3
    <3> QED BY <3>1, <3>2, <3>3, <3>4, <3>5
  <2>3. net.dropped \subseteq 1..(D + 1) /\ D + 1 \in (1..(D + 1)) \ net.dropped
    BY <1>9, <2>1
  <2>4. \A p \in 0..a : p \in 0..(a - 1) \/ p = a
    BY <1>6
  <2>5. \A p \in 0..a : g[p] \in (1..(D + 1)) \ net.dropped
    BY <1>9, <1>11, <2>1, <2>3, <2>4
  <2>6. ASSUME NEW p \in 0..a, NEW r \in 0..a, p < r PROVE g[p] < g[r]
    <3>1. p \in 0..(a - 1) /\ g[p] = fr[p] /\ fr[p] \in 1..D
      BY <1>6, <1>11, <2>1, <2>6
    <3>2. CASE r = a
      BY <1>9, <1>11, <3>1, <3>2
    <3>3. CASE r # a
      <4>1. r \in 0..(a - 1) /\ g[r] = fr[r]
        BY <1>6, <1>11, <3>3
      <4> QED BY <2>1, <2>6, <3>1, <4>1
    <3> QED BY <3>2, <3>3
  <2>7. ASSUME NEW f \in (1..(D + 1)) \ net.dropped PROVE \E p \in 0..a : g[p] = f
    <3>1. CASE f = D + 1
      BY <1>6, <1>11, <3>1
    <3>2. CASE f # D + 1
      <4>1. f \in (1..D) \ net.dropped
        BY <1>9, <3>2
      <4>2. PICK p \in 0..(a - 1) : fr[p] = f
        BY <2>1, <4>1
      <4> QED BY <1>6, <1>11, <4>2
    <3> QED BY <3>1, <3>2
  <2>8. Decided' \in Nat /\ Asked("rx")' <= Decided' /\ (a + 1) - 1 = a
    BY <1>4, <1>6, <1>9, <2>1
  <2> QED BY <1>3, <1>4, <1>8, <1>9, <2>1, <2>2, <2>3, <2>5, <2>6, <2>7, <2>8 DEF FramesOK
<1> QED BY <1>11, <1>13, <1>14 DEF RxOK

\* A frame without descriptor leaves the engine, and counts as dropped.
RxDrops == LET i == InWork("rx") + 1
           IN /\ UNCHANGED q /\ work' = [work EXCEPT !["rx"] = RemoveAt(@, i)]
              /\ net' = [net EXCEPT !.dropped = @ \cup {work["rx"][i].frame}]

\* The frames behind it stay as they are.
LEMMA RxDropsInv ==
  ASSUME NicInv, RxDrops, UNCHANGED drvVars, UNCHANGED <<mem, events, msi, lost>>,
         InWork("rx") < Len(work["rx"])
  PROVE  NicInv'
<1> DEFINE w == work["rx"]
           n == InWork("rx")
           D == Decided
<1>1. "rx" \in Dirs /\ "tx" \in Dirs
  BY Names
<1>2. /\ w \in Seq(JobRecords) /\ Len(w) \in Nat /\ DOMAIN w = 1..Len(w) /\ n < Len(w)
      /\ n \in Nat /\ Asked("rx") = Moved("rx") + n /\ Moved("rx") \in Nat
      /\ Fetched("rx") - Moved("rx") \in Nat /\ Fetched("rx") - Moved("rx") <= n /\ Jobs("rx")
  BY <1>1, WorkFacts
<1>3. /\ work \in [Dirs -> Seq(JobRecords)]
      /\ net \in [sent : Nat, wire : Seq(Frames), arrived : Nat, got : Seq(Frames), dropped : SUBSET Nat]
  BY DEF NicInv, Types, FrameTypes
<1>4. PICK fr \in [Numbers -> Nat] : RxData(fr) /\ FramesOK(fr)
  BY DEF NicInv, RxOK
<1>5. /\ Waiting = Len(w) - n /\ Waiting \in Nat /\ Waiting >= 1
      /\ D \in Nat /\ net.arrived = D + Waiting /\ net.arrived \in Nat
  <2>1. Waiting = Len(w) - n /\ Waiting \in Nat /\ Waiting >= 1
    BY <1>2 DEF Waiting
  <2>2. net.arrived \in Nat /\ D \in Nat /\ D = net.arrived - Waiting
    BY <1>3, <1>4 DEF FramesOK, Decided
  <2> QED BY <2>1, <2>2
<1>6. w[n + 1].frame = D + 1
  BY <1>4, <1>5 DEF FramesOK
<1>7. net' = [sent |-> net.sent, wire |-> net.wire, arrived |-> net.arrived,
              got |-> net.got, dropped |-> net.dropped \cup {D + 1}]
  BY <1>3, <1>6 DEF RxDrops
<1>8. n + 1 \in 1..Len(w)
  BY <1>2
<1>9. /\ work' \in [Dirs -> Seq(JobRecords)] /\ work'["tx"] = work["tx"]
      /\ work'["rx"] = RemoveAt(w, n + 1)
  <2>1. RemoveAt(w, n + 1) \in Seq(JobRecords)
    BY <1>2, <1>8, RemoveAtIs
  <2> QED BY <1>1, <1>3, <2>1 DEF RxDrops
<1>10. /\ Len(work'["rx"]) = Len(w) - 1
       /\ \A k \in 1..(Len(w) - 1) : work'["rx"][k] = IF k < n + 1 THEN w[k] ELSE w[k + 1]
  <2> DEFINE i == n + 1
             r == RemoveAt(w, i)
  <2> HIDE DEF w, i
  <2>1. /\ Len(r) = Len(w) - 1
        /\ \A k \in 1..(Len(w) - 1) : r[k] = IF k < i THEN w[k] ELSE w[k + 1]
    BY <1>2, <1>8, RemoveAtIs DEF i
  <2> QED BY <1>9, <2>1 DEF i
<1>11. DOMAIN work'["rx"] = 1..(Len(w) - 1)
  <2>1. work'["rx"] \in Seq(JobRecords)
    BY <1>1, <1>9
  <2> QED BY <1>10, <2>1
<1> DEFINE l == Len(w)
<1>0. l = Len(w) /\ l \in Nat /\ n \in Nat /\ n < l
  BY <1>2
<1> HIDE DEF w, D, l, n
<1>12. /\ \A k \in 1..(Len(w) - 1) : k <= n => work'["rx"][k] = w[k]
       /\ \A k \in 1..(Len(w) - 1) : k > n => work'["rx"][k] = w[k + 1]
  <2>1. \A k \in 1..(l - 1) : (k <= n => k < n + 1) /\ (k > n => ~(k < n + 1))
    BY <1>0
  <2> QED BY <1>0, <1>10, <2>1
<1>13. \A d \in Dirs : RQ(d)' = RQ(d) /\ CQ(d)' = CQ(d)
  BY DEF RxDrops, RQ, CQ
<1>14. \A d \in Dirs : /\ Filled(d)' = Filled(d) /\ Freed(d)' = Freed(d) /\ Asked(d)' = Asked(d)
                       /\ Fetched(d)' = Fetched(d) /\ Moved(d)' = Moved(d)
                       /\ InWork(d)' = InWork(d) /\ \A p : Buf(d, p)' = Buf(d, p)
  BY <1>13 DEF drvVars, Filled, Freed, Asked, Fetched, Moved, InWork, Buf
<1>15. PoolOK' /\ WritesOK' /\ Activation' /\ AtEvent' /\ DriverTypes'
  BY <1>13, DeviceStep DEF RxDrops
<1>16. /\ net'.sent = net.sent /\ net'.wire = net.wire /\ net'.arrived = net.arrived
       /\ net'.got = net.got /\ net'.dropped = net.dropped \cup {D + 1}
  BY <1>7
<1>17. Types'
  <2>1. net' \in [sent : Nat, wire : Seq(Frames), arrived : Nat, got : Seq(Frames), dropped : SUBSET Nat]
    <3>1. /\ net.sent \in Nat /\ net.wire \in Seq(Frames) /\ net.got \in Seq(Frames)
          /\ net.dropped \cup {D + 1} \in SUBSET Nat /\ net.arrived \in Nat
      BY <1>3, <1>5
    <3> QED BY <1>7, <3>1
  <2> QED BY <1>9, <1>15, <2>1 DEF RxDrops, NicInv, Types, MemoryTypes, QueueTypes, FrameTypes
<1>18. TxData'
  BY <1>1, <1>13, <1>16, SameTx DEF NicInv, drvVars
<1>19. Jobs("rx")'
  <2>1. ASSUME NEW k \in DOMAIN work'["rx"]
        PROVE  /\ k <= n => work'["rx"][k].ptr = Moved("rx") + k - 1
               /\ k <= Fetched("rx") - Moved("rx") => work'["rx"][k].buf = Buf("rx", Moved("rx") + k - 1)
               /\ k > Fetched("rx") - Moved("rx") => work'["rx"][k].buf = NoBuf
               /\ k > n => work'["rx"][k].ptr = -1
    <3>1. k \in 1..(Len(w) - 1) /\ k \in DOMAIN work["rx"] /\ k + 1 \in DOMAIN work["rx"] /\ k \in Nat
      BY <1>2, <1>11 DEF w
    <3>2. CASE k <= n
      <4>1. work'["rx"][k] = work["rx"][k]
        BY <1>12, <3>1, <3>2 DEF w
      <4> QED BY <1>2, <3>1, <3>2, <4>1 DEF Jobs, n
    <3>3. CASE ~(k <= n)
      <4>1. work'["rx"][k] = work["rx"][k + 1] /\ k + 1 > n /\ k + 1 > Fetched("rx") - Moved("rx")
            /\ ~(k <= Fetched("rx") - Moved("rx"))
        BY <1>2, <1>12, <3>1, <3>3 DEF w
      <4>2. work["rx"][k + 1].ptr = -1 /\ work["rx"][k + 1].buf = NoBuf
        BY <1>2, <3>1, <4>1 DEF Jobs, n
      <4> QED BY <3>3, <4>1, <4>2
    <3> QED BY <3>2, <3>3
  <2>2. Len(work'["rx"]) >= n
    <3>1. Len(work'["rx"]) = l - 1
      BY <1>0, <1>10
    <3> QED BY <1>0, <3>1
  <2> QED BY <1>1, <1>14, <2>1, <2>2 DEF Jobs, n
<1>20. \A d \in Dirs : Rows(d)'
  <2>1. SameRows("tx")
    BY <1>1, <1>9, <1>13 DEF drvVars, SameRows
  <2>2. Rows("tx")'
    BY <1>1, <2>1, SameKeepsRows DEF NicInv
  <2>3. Order("rx") /\ Ops("rx") /\ Entry("rx")
    BY <1>1 DEF NicInv, Rows
  <2>4. Order("rx")' /\ Ops("rx")' /\ Entry("rx")'
    BY <1>1, <1>13, <2>3 DEF drvVars, Order, Ops, InLine, Entry, Filled, Freed, Fetched, Moved,
                             Asked, Completed, Held, Buf
  <2> QED BY <1>19, <2>2, <2>4, Names DEF Rows
<1>21. RxData(fr)'
  <2>1. \A i \in 1..n : i \in 1..(Len(w) - 1) /\ work'["rx"][i] = work["rx"][i]
    BY <1>2, <1>12 DEF w
  <2> QED BY <1>1, <1>4, <1>14, <1>16, <2>1 DEF RxData, drvVars, n
<1>22. FramesOK(fr)'
  <2>1. /\ net.arrived <= MaxRx /\ Asked("rx") <= D /\ net.dropped \subseteq 1..D
        /\ \A k \in 1..Waiting : work["rx"][n + k].frame = D + k
        /\ \A p \in 0..(Asked("rx") - 1) : fr[p] \in (1..D) \ net.dropped
        /\ \A p, r \in 0..(Asked("rx") - 1) : p < r => fr[p] < fr[r]
        /\ \A f \in (1..D) \ net.dropped : \E p \in 0..(Asked("rx") - 1) : fr[p] = f
    BY <1>4 DEF FramesOK, D, n
  <2>2. Waiting' = Waiting - 1 /\ Decided' = D + 1
    <3>1. Waiting' = (Len(w) - 1) - n
      BY <1>1, <1>10, <1>14 DEF Waiting, n
    <3>2. Waiting' = Waiting - 1
      BY <1>0, <1>5, <3>1
    <3> QED BY <1>5, <1>16, <3>2 DEF Decided, D
  <2>3. ASSUME NEW k \in 1..(Waiting - 1) PROVE work'["rx"][n + k].frame = (D + 1) + k
    <3>1. k + 1 \in 1..Waiting /\ n + k \in 1..(Len(w) - 1) /\ n + k > n /\ (n + k) + 1 = n + (k + 1)
      BY <1>2, <1>5
    <3>2. work'["rx"][n + k] = work["rx"][n + (k + 1)]
      BY <1>12, <3>1 DEF w
    <3>3. work["rx"][n + (k + 1)].frame = D + (k + 1)
      BY <2>1, <3>1
    <3> QED BY <1>5, <3>1, <3>2, <3>3
  <2>4. (1..(D + 1)) \ (net.dropped \cup {D + 1}) = (1..D) \ net.dropped
    BY <1>5, <2>1
  <2>5. net.dropped \cup {D + 1} \subseteq 1..(D + 1)
    BY <1>5, <2>1
  <2>6. D + 1 \in Nat /\ Asked("rx") <= D + 1
    BY <1>2, <1>5, <2>1
  <2> QED BY <1>1, <1>14, <1>16, <2>1, <2>2, <2>3, <2>4, <2>5, <2>6 DEF FramesOK, n
<1> QED BY <1>15, <1>17, <1>18, <1>20, <1>21, <1>22 DEF NicInv, RxOK

\* The oldest frame without descriptor asks for one.
LEMMA RxFetchInv == NicInv /\ RxFetch => NicInv'
<1> SUFFICES ASSUME NicInv, RxFetch PROVE NicInv'
  OBVIOUS
<1>1. "rx" \in Dirs /\ "tx" \in Dirs /\ RingQ["rx"] = "rxq"
  BY Names DEF RingQ
<1>2. PICK i \in DOMAIN work["rx"] :
        /\ work["rx"][i].ptr = -1 /\ \A j \in 1..(i - 1) : work["rx"][j].ptr # -1
        /\ IF HasDescriptor(q["rxq"])
           THEN /\ work' = [work EXCEPT !["rx"][i].ptr = ActiveTail(q["rxq"])]
                /\ q' = [q EXCEPT !["rxq"] = Dequeue(@)]
                /\ UNCHANGED net
           ELSE /\ work' = [work EXCEPT !["rx"] = RemoveAt(@, i)]
                /\ net' = [net EXCEPT !.dropped = @ \cup {work["rx"][i].frame}]
                /\ UNCHANGED q
  BY DEF RxFetch
<1>3. i = InWork("rx") + 1
  BY <1>2, FirstWaits
<1>4. InWork("rx") < Len(work["rx"])
  BY <1>1, <1>2, <1>3, WorkFacts, SMTT(30)
<1>5. UNCHANGED drvVars /\ UNCHANGED <<mem, events, msi, lost>> /\ Startable(q["rxq"])
  BY DEF RxFetch
<1>6. CASE HasDescriptor(q["rxq"])
  <2>1. Fetches("rx")
    BY <1>1, <1>2, <1>5, <1>6 DEF Fetches, RQ
  <2>2. RxTakes
    <3>1. ActiveTail(q["rxq"]) = Asked("rx")
      BY <1>1, <2>1, FetchStarts DEF RQ
    <3> QED BY <1>2, <1>3, <1>6, <2>1, <3>1 DEF RxTakes
  <2>3. work' \in [Dirs -> Seq(JobRecords)] /\ work'["tx"] = work["tx"] /\ Jobs("rx")'
    BY <1>4, <1>5, <2>2, RxTakesJobs
  <2>4. \A e \in Dirs : Rows(e)'
    <3>1. \A e \in Dirs : e # "rx" => work'[e] = work[e]
      BY <2>3, Names
    <3> QED BY <1>1, <1>5, <2>1, <2>3, <3>1, FetchRows
  <2>5. PoolOK' /\ WritesOK' /\ Activation' /\ AtEvent' /\ DriverTypes' /\ QueueTypes'
    BY <1>1, <1>5, <2>1, FetchRest
  <2>6. CQ("tx")' = CQ("tx") /\ net' = net
    BY <1>1, <2>1, <2>2, FetchStarts DEF RxTakes
  <2>7. TxData'
    BY <1>5, <2>6, SameTx DEF NicInv, drvVars
  <2>8. RxOK'
    BY <1>4, <1>5, <2>2, RxTakesFrames
  <2>9. MemoryTypes' /\ FrameTypes'
    BY <1>5, <2>3, <2>6 DEF NicInv, Types, MemoryTypes, FrameTypes
  <2> QED BY <2>4, <2>5, <2>7, <2>8, <2>9 DEF NicInv, Types
<1>7. CASE ~HasDescriptor(q["rxq"])
  <2>1. RxDrops
    BY <1>2, <1>3, <1>7 DEF RxDrops
  <2> QED BY <1>4, <1>5, <2>1, RxDropsInv
<1> QED BY <1>6, <1>7

-----------------------------------------------------------------------------
(* Descriptors read. *)

\* The oldest dequeue of a queue is committed.
LEMMA DequeuedType ==
  ASSUME NEW x \in QueueRecords, x.ops # <<>>
  PROVE  LET y == DequeueCommit(x)
         IN /\ y \in QueueRecords /\ y.active = x.active /\ y.head = x.head
            /\ y.tail = Head(x.ops).ptr /\ y.ops = Tail(x.ops)
<1> DEFINE y == DequeueCommit(x)
<1>1. x.ops \in Seq(Operations) /\ Head(x.ops) \in Operations /\ Tail(x.ops) \in Seq(Operations)
  BY DEF QueueRecords
<1>2. y = [active |-> x.active, armed |-> x.armed, head |-> x.head, tail |-> Head(x.ops).ptr,
           ops |-> Tail(x.ops)]
  <2>1. x = [active |-> x.active, armed |-> x.armed, head |-> x.head, tail |-> x.tail,
             ops |-> x.ops]
    BY DEF QueueRecords
  <2>2. y = [x EXCEPT !.tail = Head(x.ops).ptr, !.ops = Tail(x.ops)]
    BY <2>1 DEF DequeueCommit
  <2> HIDE DEF y
  <2> QED BY <2>1, <2>2
<1> HIDE DEF y
<1>3. /\ y.active = x.active /\ y.armed = x.armed /\ y.head = x.head
      /\ y.tail = Head(x.ops).ptr /\ y.ops = Tail(x.ops)
  BY <1>2
<1>4. Head(x.ops).ptr \in Pointers
  BY <1>1 DEF Operations
<1>5. y \in QueueRecords
  BY <1>1, <1>2, <1>4 DEF QueueRecords
<1> QED BY <1>3, <1>5 DEF y

\* The frames received are the same if as many are in the engine, in their order.
LEMMA SameFrames ==
  ASSUME NicInv, Asked("rx")' = Asked("rx"), Moved("rx")' = Moved("rx"),
         Freed("rx")' = Freed("rx"), Len(work'["rx"]) = Len(work["rx"]),
         \A i \in DOMAIN work["rx"] : work'["rx"][i].frame = work["rx"][i].frame,
         net'.got = net.got, net'.arrived = net.arrived, net'.dropped = net.dropped,
         \A p \in Freed("rx")..(Moved("rx") - 1) :
           Buf("rx", p)' = Buf("rx", p) /\ mem'.buf[Buf("rx", p)] = mem.buf[Buf("rx", p)]
  PROVE  RxOK'
<1>1. InWork("rx")' = InWork("rx") /\ Waiting' = Waiting /\ Decided' = Decided
  BY DEF InWork, Waiting, Decided
<1>2. PICK fr \in [Numbers -> Nat] : RxData(fr) /\ FramesOK(fr)
  BY DEF NicInv, RxOK
<1>3. /\ DOMAIN work["rx"] = 1..Len(work["rx"]) /\ Len(work["rx"]) \in Nat
      /\ InWork("rx") \in Nat /\ InWork("rx") <= Len(work["rx"])
  BY Names, WorkFacts
<1>4. \A i \in 1..InWork("rx") : work'["rx"][i].frame = work["rx"][i].frame
  <2>1. \A i \in 1..InWork("rx") : i \in DOMAIN work["rx"]
    BY <1>3
  <2> QED BY <2>1
<1>5. \A i \in 1..Waiting : work'["rx"][InWork("rx") + i].frame = work["rx"][InWork("rx") + i].frame
  <2>1. \A i \in 1..Waiting : InWork("rx") + i \in DOMAIN work["rx"]
    BY <1>3 DEF Waiting
  <2> QED BY <2>1
<1>6. RxData(fr)'
  BY <1>1, <1>2, <1>4 DEF RxData
<1>7. FramesOK(fr)'
  BY <1>1, <1>2, <1>5 DEF FramesOK
<1> QED BY <1>6, <1>7 DEF RxOK

\* The entry whose descriptor is read, and its frame in the engine.
LEMMA ReadWhere ==
  ASSUME NicInv, NEW d \in Dirs, RQ(d).ops # <<>>
  PROVE  LET F == Fetched(d)
             i == F - Moved(d) + 1
         IN /\ Head(RQ(d).ops) = [ptr |-> F + 1, data |-> F]
            /\ InLine(Tail(RQ(d).ops), F + 1) /\ Tail(RQ(d).ops) \in Seq(Operations)
            /\ Len(Tail(RQ(d).ops)) = Len(RQ(d).ops) - 1 /\ Len(RQ(d).ops) \in Nat
            /\ F \in Held(d) /\ F + 1 <= Asked(d) /\ mem.desc[d][F % Size] = Buf(d, F)
            /\ i \in DOMAIN work[d] /\ i <= InWork(d)
            /\ (CHOOSE k \in DOMAIN work[d] : work[d][k].ptr = F) = i
<1> DEFINE F == Fetched(d)
           M == Moved(d)
           i == F - M + 1
           x == RQ(d)
<1>1. x \in QueueRecords /\ x.ops \in Seq(Operations) /\ Len(x.ops) \in Nat /\ x.ops # <<>>
  BY RecordTypes, Names DEF NicInv, RQ
<1>2. /\ F \in Nat /\ M \in Nat /\ M <= F /\ Asked(d) = F + Len(x.ops)
      /\ Freed(d) \in Nat /\ Freed(d) <= M /\ Asked(d) <= Filled(d) /\ Filled(d) \in Nat
  <2>1. /\ Freed(d) \in Nat /\ Completed(d) \in Nat /\ M \in Nat /\ F \in Nat /\ Asked(d) \in Nat
        /\ Filled(d) \in Nat /\ RQ(d).head \in Nat
        /\ Freed(d) <= Completed(d) /\ Completed(d) <= M /\ M <= F
        /\ Asked(d) <= RQ(d).head /\ RQ(d).head <= Filled(d)
    BY Counts DEF NicInv, Rows
  <2> HIDE DEF M, F, x
  <2>2. Asked(d) = F + Len(x.ops)
    BY DEF Asked, Fetched, F, x
  <2> QED BY <2>1, <2>2
<1>3. /\ DOMAIN work[d] = 1..Len(work[d]) /\ Len(work[d]) \in Nat
      /\ InWork(d) \in Nat /\ InWork(d) <= Len(work[d]) /\ Asked(d) = M + InWork(d) /\ Jobs(d)
  BY WorkFacts
<1>4. InLine(x.ops, F) /\ Entry(d)
  BY DEF NicInv, Rows, Ops
<1>5. Len(x.ops) >= 1
  BY <1>1
<1>6. /\ Head(x.ops) = [ptr |-> F + 1, data |-> F] /\ InLine(Tail(x.ops), F + 1)
      /\ Tail(x.ops) \in Seq(Operations) /\ Len(Tail(x.ops)) = Len(x.ops) - 1
  BY <1>1, <1>2, <1>4, LineTail
<1> HIDE DEF F, M, x
<1>7. F \in Held(d) /\ F + 1 <= Asked(d)
  BY <1>1, <1>2, <1>5 DEF Held
<1>8. mem.desc[d][F % Size] = Buf(d, F)
  BY <1>4, <1>7 DEF Entry
<1>9. i \in DOMAIN work[d] /\ i <= InWork(d) /\ i \in Nat
  BY <1>1, <1>2, <1>3, <1>5
<1>10. work[d][i].ptr = F
  <2>1. work[d][i].ptr = M + i - 1
    BY <1>3, <1>9 DEF Jobs, M
  <2> QED BY <1>2, <2>1
<1>11. ASSUME NEW k \in DOMAIN work[d], work[d][k].ptr = F PROVE k = i
  <2>1. CASE k <= InWork(d)
    <3>1. work[d][k].ptr = M + k - 1
      BY <1>3, <2>1 DEF Jobs, M
    <3> QED BY <1>2, <1>3, <1>11, <3>1
  <2>2. CASE ~(k <= InWork(d))
    <3>1. work[d][k].ptr = -1
      BY <1>3, <2>2 DEF Jobs
    <3> QED BY <1>2, <1>11, <3>1
  <2> QED BY <2>1, <2>2
<1> HIDE DEF i
<1>12. (CHOOSE k \in DOMAIN work[d] : work[d][k].ptr = F) = i
  BY <1>9, <1>10, <1>11
<1> QED BY <1>1, <1>6, <1>7, <1>8, <1>9, <1>12 DEF F, M, i, x

\* The frame whose descriptor is read gets the buffer of its entry.
LEMMA ReadJobs ==
  ASSUME NicInv, NEW d \in Dirs, ReadDescriptor(d)
  PROVE  /\ QueueTypes' /\ FrameTypes'
         /\ RQ(d)'.active = RQ(d).active /\ RQ(d)'.head = RQ(d).head
         /\ Fetched(d)' = Fetched(d) + 1 /\ Asked(d)' = Asked(d) /\ Fetched(d) + 1 <= Asked(d)
         /\ InLine(RQ(d)'.ops, Fetched(d)') /\ CQ(d)' = CQ(d)
         /\ \A e \in Dirs : e # d => RQ(e)' = RQ(e) /\ CQ(e)' = CQ(e) /\ work'[e] = work[e]
         /\ \A x \in Queues : x # RingQ[d] => q'[x] = q[x]
         /\ Len(work'[d]) = Len(work[d])
         /\ \A k \in DOMAIN work[d] : work'[d][k].frame = work[d][k].frame
         /\ Jobs(d)'
<1> DEFINE x == RQ(d)
           y == DequeueCommit(x)
           F == Fetched(d)
           M == Moved(d)
           i == F - M + 1
           w == work[d]
           job == [w[i] EXCEPT !.buf = Buf(d, F)]
<1>1. Types /\ RingQ[d] \in Queues \ {"eq"} /\ UNCHANGED drvVars /\ UNCHANGED <<mem, events, msi, net, lost>>
  BY Names DEF NicInv, ReadDescriptor
<1>2. x.ops # <<>> /\ x = q[RingQ[d]] /\ x \in QueueRecords /\ Len(x.ops) <= OpTable
  BY <1>1, RecordTypes DEF ReadDescriptor, RQ, Types, QueueTypes
<1>3. /\ Head(x.ops) = [ptr |-> F + 1, data |-> F]
      /\ InLine(Tail(x.ops), F + 1) /\ Len(Tail(x.ops)) = Len(x.ops) - 1 /\ Len(x.ops) \in Nat
      /\ F + 1 <= Asked(d) /\ mem.desc[d][F % Size] = Buf(d, F)
      /\ i \in DOMAIN work[d] /\ i <= InWork(d)
      /\ (CHOOSE k \in DOMAIN work[d] : work[d][k].ptr = F) = i
      /\ F \in Held(d)
  BY <1>2, ReadWhere
<1>4. /\ w \in Seq(JobRecords) /\ Len(w) \in Nat /\ DOMAIN w = 1..Len(w)
      /\ F \in Nat /\ M \in Nat /\ InWork(d) \in Nat /\ Jobs(d) /\ InWork(d) <= Len(w)
      /\ F - M \in Nat
  BY WorkFacts
<1>5. /\ y \in QueueRecords /\ y.active = x.active /\ y.head = x.head
      /\ y.tail = F + 1 /\ y.ops = Tail(x.ops)
  BY <1>2, <1>3, DequeuedType
<1> HIDE DEF y
<1>6. q' = [q EXCEPT ![RingQ[d]] = y]
  BY DEF ReadDescriptor, y, RQ
<1>7. Len(y.ops) <= OpTable
  BY <1>2, <1>3, <1>5, Sizes
<1>8. /\ QueueTypes' /\ RQ(d)' = y /\ CQ(d)' = CQ(d)
      /\ \A z \in Queues : z # RingQ[d] => q'[z] = q[z]
      /\ \A e \in Dirs : e # d => RQ(e)' = RQ(e) /\ CQ(e)' = CQ(e)
  <2> DEFINE z == RingQ[d]
  <2>0. /\ Types /\ z \in Queues /\ z # "eq" /\ q' = [q EXCEPT ![z] = y]
        /\ y \in QueueRecords /\ Len(y.ops) <= OpTable
    BY <1>1, <1>5, <1>6, <1>7
  <2> HIDE DEF z
  <2>1. /\ QueueTypes' /\ \A u \in Queues : u # z => q'[u] = q[u]
        /\ \A e \in Dirs : /\ z = RingQ[e] => RQ(e)' = y
                           /\ z # RingQ[e] => RQ(e)' = RQ(e)
                           /\ z # CqOf[e] => CQ(e)' = CQ(e)
    BY <2>0, QueueReplaced, ZenonT(60)
  <2>2. \A e \in Dirs : RingQ[d] # CqOf[e] /\ (e # d => RingQ[d] # RingQ[e])
    BY Names
  <2> HIDE DEF x
  <2> QED BY <2>1, <2>2 DEF z
<1>9. Fetched(d)' = F + 1
  BY <1>5, <1>8 DEF Fetched
<1>10. Asked(d)' = Asked(d)
  <2>1. Asked(d)' = (F + 1) + (Len(x.ops) - 1)
    BY <1>3, <1>5, <1>8 DEF Asked
  <2>2. Asked(d) = F + Len(x.ops)
    BY DEF Asked, Fetched
  <2> HIDE DEF F, x
  <2>3. F \in Nat /\ Len(x.ops) \in Nat
    BY <1>3, <1>4
  <2> DEFINE n == Len(x.ops)
  <2> HIDE DEF F, x, n
  <2>4. /\ Asked(d)' = (F + 1) + (n - 1) /\ Asked(d) = F + n
        /\ F \in Nat /\ n \in Nat
    BY <2>1, <2>2, <2>3 DEF n
  <2>5. (F + 1) + (n - 1) = F + n
    BY <2>4
  <2> QED BY <2>4, <2>5
<1>11. InLine(RQ(d)'.ops, Fetched(d)')
  BY <1>3, <1>5, <1>8, <1>9
<1>12. work \in [Dirs -> Seq(JobRecords)]
  BY <1>1 DEF Types, FrameTypes
<1>13. work' = [work EXCEPT ![d] = [w EXCEPT ![i] = job]]
  <2>1. Head(q[RingQ[d]].ops).data = F
    BY <1>2, <1>3
  <2>2. work' = [work EXCEPT ![d][i].buf = Buf(d, F)]
    BY <1>3, <2>1 DEF ReadDescriptor
  <2> QED BY <1>12, <2>2
<1> HIDE DEF i
<1>14. Buf(d, F) \in MaybeBuf
  BY <1>1, <1>3, <1>4, SlotOf DEF Types, MemoryTypes
<1>15. /\ job \in JobRecords /\ job.ptr = w[i].ptr /\ job.buf = Buf(d, F) /\ job.frame = w[i].frame
  <2>1. w[i] = [ptr |-> w[i].ptr, buf |-> w[i].buf, frame |-> w[i].frame]
        /\ w[i].ptr \in -1..(PtrMod - 1) /\ w[i].frame \in Nat
    <3>1. w[i] \in JobRecords
      BY <1>3, <1>4
    <3> HIDE DEF w
    <3> QED BY <3>1 DEF JobRecords
  <2>2. job = [ptr |-> w[i].ptr, buf |-> Buf(d, F), frame |-> w[i].frame]
    BY <2>1
  <2> QED BY <1>14, <2>1, <2>2 DEF JobRecords
<1>16. /\ work' \in [Dirs -> Seq(JobRecords)] /\ work'[d] = [w EXCEPT ![i] = job]
       /\ \A e \in Dirs : e # d => work'[e] = work[e]
  <2>1. [w EXCEPT ![i] = job] \in Seq(JobRecords)
    BY <1>3, <1>4, <1>15
  <2> QED BY <1>12, <1>13, <2>1
<1>17. /\ Len(work'[d]) = Len(w) /\ DOMAIN work'[d] = 1..Len(w) /\ work'[d][i] = job
       /\ \A k \in 1..Len(w) : k # i => work'[d][k] = w[k]
  BY <1>3, <1>4, <1>16
<1>18. \A k \in DOMAIN w : work'[d][k].frame = w[k].frame /\ work'[d][k].ptr = w[k].ptr
  BY <1>4, <1>15, <1>17
<1>19. Moved(d)' = M /\ InWork(d)' = InWork(d) /\ \A p : Buf(d, p)' = Buf(d, p)
  BY <1>1, <1>8, <1>10 DEF Moved, InWork, Buf, drvVars
<1> HIDE DEF w, job, F, M, x
<1>20. Jobs(d)'
  <2>1. ASSUME NEW k \in DOMAIN work'[d]
        PROVE  /\ k <= InWork(d) => work'[d][k].ptr = M + k - 1
               /\ k <= (F + 1) - M => work'[d][k].buf = Buf(d, M + k - 1)
               /\ k > (F + 1) - M => work'[d][k].buf = NoBuf
               /\ k > InWork(d) => work'[d][k].ptr = -1
    <3>1. /\ k \in DOMAIN work[d] /\ k \in Nat
          /\ k <= InWork(d) => work[d][k].ptr = M + k - 1
          /\ k <= F - M => work[d][k].buf = Buf(d, M + k - 1)
          /\ k > F - M => work[d][k].buf = NoBuf
          /\ k > InWork(d) => work[d][k].ptr = -1
      BY <1>4, <1>17 DEF Jobs, w, F, M
    <3>2. work'[d][k].ptr = work[d][k].ptr
      BY <1>18, <3>1 DEF w
    <3>3. CASE k = i
      <4>1. work'[d][k].buf = Buf(d, F)
        BY <1>15, <1>17, <3>3
      <4>2. F \in Nat /\ M \in Nat /\ k = F - M + 1
        BY <1>4, <3>3 DEF i, F, M
      <4>3. M + k - 1 = F /\ k = (F + 1) - M
        BY <4>2
      <4> QED BY <3>1, <3>2, <4>1, <4>3
    <3>4. CASE k # i
      <4>1. work'[d][k].buf = work[d][k].buf
        BY <1>4, <1>17, <3>1, <3>4 DEF w
      <4>2. k # (F + 1) - M
        BY <1>4, <3>4 DEF i
      <4>3. (k <= (F + 1) - M => k <= F - M) /\ (k > (F + 1) - M => k > F - M)
        BY <1>4, <3>1, <4>2
      <4> QED BY <3>1, <3>2, <4>1, <4>3
    <3> QED BY <3>3, <3>4
  <2>2. Len(work'[d]) >= InWork(d) /\ (d = "tx" => Len(work'[d]) = InWork(d))
    BY <1>4, <1>17 DEF Jobs, w
  <2> QED BY <1>9, <1>19, <2>1, <2>2 DEF Jobs
<1>21. FrameTypes'
  BY <1>1, <1>16 DEF Types, FrameTypes
<1> QED BY <1>3, <1>5, <1>8, <1>9, <1>10, <1>11, <1>16, <1>17, <1>18, <1>20, <1>21 DEF w, F, x

\* A descriptor is read.
LEMMA ReadDescriptorInv == ASSUME NicInv, NEW d \in Dirs, ReadDescriptor(d) PROVE NicInv'
<1>1. UNCHANGED drvVars /\ UNCHANGED <<mem, events, msi, net, lost>>
  BY DEF ReadDescriptor
<1>2. /\ QueueTypes' /\ FrameTypes'
      /\ RQ(d)'.active = RQ(d).active /\ RQ(d)'.head = RQ(d).head
      /\ Fetched(d)' = Fetched(d) + 1 /\ Asked(d)' = Asked(d) /\ Fetched(d) + 1 <= Asked(d)
      /\ InLine(RQ(d)'.ops, Fetched(d)') /\ CQ(d)' = CQ(d) /\ Jobs(d)'
      /\ \A e \in Dirs : e # d => RQ(e)' = RQ(e) /\ CQ(e)' = CQ(e) /\ work'[e] = work[e]
      /\ \A x \in Queues : x # RingQ[d] => q'[x] = q[x]
  BY ReadJobs
<1>3. /\ Len(work'[d]) = Len(work[d])
      /\ \A k \in DOMAIN work[d] : work'[d][k].frame = work[d][k].frame
  BY ReadJobs
<1>4. RQ(d).ops # <<>>
  BY DEF ReadDescriptor, RQ
<1>5. RQ(d).active
  BY <1>4 DEF NicInv, Activation
<1>6. PoolOK' /\ WritesOK' /\ Activation' /\ AtEvent' /\ DriverTypes'
  <2>1. \A x \in Queues : /\ q'[x].active = q[x].active
                          /\ x # "eq" /\ ~q[x].active =>
                               /\ q'[x].head = q[x].head /\ q'[x].tail = q[x].tail
                               /\ q'[x].ops = q[x].ops
    BY <1>2, <1>5 DEF RQ
  <2>2. \A e \in Dirs : RQ(e)'.head = RQ(e).head /\ CQ(e)'.tail = CQ(e).tail
    BY <1>2
  <2> QED BY <1>1, <2>1, <2>2, DeviceStep
<1>7. \A e \in Dirs : e # d => Rows(e)'
  <2>1. \A e \in Dirs : e # d => SameRows(e)
    BY <1>1, <1>2 DEF drvVars, SameRows
  <2> QED BY <2>1, SameKeepsRows DEF NicInv
<1>8. /\ Filled(d)' = Filled(d) /\ Freed(d)' = Freed(d) /\ Moved(d)' = Moved(d)
      /\ Completed(d)' = Completed(d) /\ Held(d)' = Held(d) /\ \A p : Buf(d, p)' = Buf(d, p)
  BY <1>1, <1>2 DEF drvVars, Filled, Freed, Moved, Completed, Held, Buf
<1>9. Rows(d) /\ Fetched(d) \in Nat /\ Moved(d) \in Nat /\ ring[d].tail \in Nat
  BY Counts DEF NicInv, Rows, Types, DriverTypes, RingRecords
<1>10. Order(d)'
  <2>1. Moved(d) <= Fetched(d) + 1 /\ ring[d].tail <= Fetched(d) + 1
    BY <1>9 DEF Rows, Order
  <2> QED BY <1>1, <1>2, <1>8, <1>9, <2>1 DEF Rows, Order, drvVars
<1>11. Ops(d)'
  BY <1>1, <1>2, <1>8, <1>9 DEF Rows, Ops, InLine
<1>12. Entry(d)'
  BY <1>1, <1>8, <1>9 DEF Rows, Entry, drvVars
<1>13. \A e \in Dirs : Rows(e)'
  BY <1>2, <1>7, <1>10, <1>11, <1>12 DEF Rows
<1>14. "tx" \in Dirs /\ "rx" \in Dirs
  BY Names
<1>15. \A e \in Dirs : CQ(e)' = CQ(e) /\ Asked(e)' = Asked(e)
  BY <1>2 DEF Asked
<1>16. TxData'
  BY <1>1, <1>14, <1>15, SameTx DEF NicInv, drvVars
<1>17. RxOK'
  <2>1. /\ Len(work'["rx"]) = Len(work["rx"])
        /\ \A k \in DOMAIN work["rx"] : work'["rx"][k].frame = work["rx"][k].frame
    BY <1>2, <1>3, <1>14
  <2>2. /\ Moved("rx")' = Moved("rx") /\ Freed("rx")' = Freed("rx")
        /\ \A p : Buf("rx", p)' = Buf("rx", p)
    BY <1>1, <1>14, <1>15 DEF drvVars, Moved, Freed, Buf
  <2> QED BY <1>1, <1>14, <1>15, <2>1, <2>2, SameFrames
<1>18. Types'
  BY <1>1, <1>2, <1>6 DEF NicInv, Types, MemoryTypes
<1> QED BY <1>6, <1>13, <1>16, <1>17, <1>18 DEF NicInv

-----------------------------------------------------------------------------
(* Data moved. *)

\* The oldest frame of the engine is that of the next entry, with its buffer,
\* and there is room for its completion.
LEMMA MoveWhere ==
  ASSUME NicInv, NEW d \in Dirs, MoveData(d)
  PROVE  /\ work[d][1] = Head(work[d]) /\ Len(work[d]) >= 1 /\ work[d] # <<>>
         /\ Head(work[d]).ptr = Moved(d) /\ Head(work[d]).buf = Buf(d, Moved(d))
         /\ Moved(d) \in Held(d) /\ Moved(d) + 1 <= Fetched(d) /\ Moved(d) + 1 < PtrMod
         /\ Moved(d) \in Nat /\ InWork(d) >= 1
         /\ ActiveHead(CQ(d)) = Moved(d) /\ Accepts(CQ(d), Size)
<1> DEFINE x == CQ(d)
           M == Moved(d)
           F == Fetched(d)
<1>1. /\ work[d] \in Seq(JobRecords) /\ Len(work[d]) \in Nat /\ DOMAIN work[d] = 1..Len(work[d])
      /\ InWork(d) \in Nat /\ M \in Nat /\ F \in Nat /\ F - M \in Nat /\ F - M <= InWork(d)
      /\ Jobs(d)
  BY WorkFacts
<1>2. work[d] # <<>> /\ Head(work[d]).buf # NoBuf
  BY DEF MoveData
<1>3. work[d][1] = Head(work[d]) /\ 1 \in DOMAIN work[d] /\ Len(work[d]) >= 1
  BY <1>1, <1>2
<1>4. ~(1 > F - M)
  BY <1>2, <1>3 DEF NicInv, Rows, Jobs
<1> HIDE DEF M, F, x
<1>5. 1 <= F - M /\ 1 <= InWork(d) /\ M + 1 <= F /\ InWork(d) >= 1
  BY <1>1, <1>4
<1>6. Head(work[d]).ptr = M /\ Head(work[d]).buf = Buf(d, M)
  <2>1. /\ work[d][1].ptr = M + 1 - 1 /\ work[d][1].buf = Buf(d, M + 1 - 1)
    BY <1>1, <1>3, <1>5 DEF Jobs, M, F
  <2>2. M + 1 - 1 = M
    BY <1>1
  <2> QED BY <1>3, <2>1, <2>2
<1>7. /\ F <= Filled(d) /\ Filled(d) \in Nat /\ Filled(d) < PtrMod /\ Freed(d) \in Nat
      /\ Freed(d) <= M /\ x.tail \in Nat /\ Completed(d) \in Nat
  <2>1. /\ Freed(d) \in Nat /\ Completed(d) \in Nat /\ M \in Nat /\ F \in Nat /\ Asked(d) \in Nat
        /\ Filled(d) \in Nat /\ RQ(d).head \in Nat /\ Filled(d) < PtrMod /\ x.tail \in Nat
        /\ Freed(d) <= Completed(d) /\ Completed(d) <= M /\ M <= F
        /\ F <= Asked(d) /\ Asked(d) <= RQ(d).head /\ RQ(d).head <= Filled(d)
    BY Counts DEF NicInv, Rows, M, F, x
  <2> QED BY <2>1
<1>8. M \in Held(d) /\ M + 1 < PtrMod
  BY <1>1, <1>5, <1>7, Sizes, SMTT(30) DEF Held
<1>9. x \in QueueRecords
  BY Names, RecordTypes DEF NicInv, CQ, x
<1>10. ActiveHead(x) = M
  <2>1. InLine(x.ops, Completed(d)) /\ Completed(d) = x.head /\ M = Completed(d) + Len(x.ops)
    BY DEF NicInv, Rows, Ops, Completed, Moved, M, x
  <2>2. Latest(x, Completed(d)) = Completed(d) + Len(x.ops)
    BY <1>7, <1>9, <2>1, LineLatest
  <2> QED BY <2>1, <2>2 DEF ActiveHead
<1>11. x.active
  <2>1. RQ(d).active
    <3>1. F # 0
      BY <1>1, <1>5
    <3> QED BY <3>1 DEF NicInv, Activation, F, Fetched
  <2> QED BY <2>1 DEF NicInv, Activation, x
<1>12. ~((M - x.tail) % PtrMod >= Size)
  <2>1. /\ ring[d].clean <= x.tail /\ x.tail <= Freed(d) /\ Filled(d) <= ring[d].clean + Size
        /\ ring[d].clean \in Nat
    BY DEF NicInv, Rows, Order, Types, DriverTypes, RingRecords, x
  <2> DEFINE c == ring[d].clean
             t == x.tail
             n == M - t
  <2>2. /\ c \in Nat /\ t \in Nat /\ c <= t /\ t <= Freed(d) /\ Filled(d) <= c + Size
        /\ Freed(d) \in Nat /\ Filled(d) \in Nat /\ F <= Filled(d) /\ Freed(d) <= M /\ M + 1 <= F
        /\ M \in Nat /\ F \in Nat /\ Size \in Nat
    BY <1>1, <1>5, <1>7, <2>1, Sizes
  <2> HIDE DEF c, t
  <2>3. n \in 0..(Size - 1)
    BY <2>2
  <2> HIDE DEF n
  <2>4. n % PtrMod = n
    BY <2>3, Sizes
  <2>5. ~(n % PtrMod >= Size)
    BY <2>2, <2>3, <2>4
  <2> QED BY <2>5 DEF n, t
<1>13. Accepts(x, Size)
  BY <1>10, <1>11, <1>12 DEF Accepts, Full
<1> QED BY <1>1, <1>2, <1>3, <1>5, <1>6, <1>8, <1>10, <1>13 DEF M, F, x

\* The engine goes on to the next entry.
LEMMA MoveJobs ==
  ASSUME NicInv, NEW d \in Dirs, MoveData(d)
  PROVE  /\ QueueTypes' /\ work' \in [Dirs -> Seq(JobRecords)] /\ UNCHANGED lost
         /\ Moved(d)' = Moved(d) + 1 /\ Completed(d)' = Completed(d) /\ CQ(d).active
         /\ InLine(CQ(d)'.ops, Completed(d)') /\ RQ(d)' = RQ(d)
         /\ CQ(d)'.active = CQ(d).active /\ CQ(d)'.tail = CQ(d).tail
         /\ \A e \in Dirs : e # d => RQ(e)' = RQ(e) /\ CQ(e)' = CQ(e) /\ work'[e] = work[e]
         /\ \A x \in Queues : x # CqOf[d] => q'[x] = q[x]
         /\ Len(work'[d]) = Len(work[d]) - 1 /\ InWork(d)' = InWork(d) - 1
         /\ \A k \in 1..(Len(work[d]) - 1) : work'[d][k] = work[d][k + 1]
         /\ Jobs(d)'
<1> DEFINE x == CQ(d)
           M == Moved(d)
           F == Fetched(d)
           z == CqOf[d]
           w == work[d]
           y == Enqueue(x, M)
<1>1. Types /\ z \in Queues /\ z # "eq" /\ UNCHANGED drvVars /\ UNCHANGED <<events, msi>>
  BY Names DEF NicInv, MoveData
<1>2. /\ w[1] = Head(w) /\ Head(w).ptr = M /\ M + 1 <= F /\ M + 1 < PtrMod /\ M \in Nat
      /\ InWork(d) >= 1 /\ Len(w) >= 1 /\ w # <<>>
      /\ ActiveHead(x) = M /\ Accepts(x, Size)
  BY MoveWhere
<1>3. /\ x \in QueueRecords /\ x = q[z] /\ Len(x.ops) \in Nat /\ Len(x.ops) <= OpTable
  BY <1>1, RecordTypes DEF CQ, Types, QueueTypes
<1>4. /\ w \in Seq(JobRecords) /\ Len(w) \in Nat /\ DOMAIN w = 1..Len(w)
      /\ F \in Nat /\ InWork(d) \in Nat /\ Jobs(d) /\ InWork(d) <= Len(w) /\ Asked(d) = M + InWork(d)
      /\ F - M \in Nat /\ F - M <= InWork(d) /\ Asked(d) \in Nat
  BY WorkFacts
<1>5. Len(x.ops) < OpTable
  BY DEF MoveData, Startable, CQ
<1>6. InLine(x.ops, Completed(d)) /\ Completed(d) \in Nat /\ M = Completed(d) + Len(x.ops)
  BY Counts DEF NicInv, Rows, Ops, Moved, Completed
<1>7. /\ y \in QueueRecords /\ y = [x EXCEPT !.ops = y.ops]
      /\ InLine(y.ops, Completed(d)) /\ Len(y.ops) = Len(x.ops) + 1
  <2> DEFINE v == Started(x, M, M)
  <2>1. y = v
    BY <1>2 DEF Enqueue
  <2> DEFINE base == Completed(d)
  <2> HIDE DEF x, M, base
  <2>0. /\ x \in QueueRecords /\ base \in Nat /\ InLine(x.ops, base) /\ M \in Nat
        /\ M = base + Len(x.ops) /\ M + 1 < PtrMod
    BY <1>2, <1>3, <1>6 DEF base
  <2>2. /\ v \in QueueRecords /\ v = [x EXCEPT !.ops = v.ops]
        /\ InLine(v.ops, base) /\ Len(v.ops) = Len(x.ops) + 1
    BY <2>0, LineStarted
  <2> HIDE DEF v, y
  <2> QED BY <2>1, <2>2 DEF base
<1> HIDE DEF y
<1>8. q' = [q EXCEPT ![z] = y] /\ UNCHANGED lost
  BY <1>2, <1>3 DEF MoveData, CQ, y
<1>9. y.active = x.active /\ y.head = x.head /\ y.tail = x.tail
  BY <1>3, <1>7 DEF QueueRecords
<1>10. Len(y.ops) <= OpTable
  BY <1>3, <1>5, <1>7, Sizes, SMTT(30)
<1>11. /\ QueueTypes' /\ CQ(d)' = y /\ RQ(d)' = RQ(d)
       /\ \A u \in Queues : u # z => q'[u] = q[u]
       /\ \A e \in Dirs : e # d => RQ(e)' = RQ(e) /\ CQ(e)' = CQ(e)
  <2>1. \A e \in Dirs : z # RingQ[e] /\ (e # d => z # CqOf[e])
    BY Names
  <2>2. z = CqOf[d]
    OBVIOUS
  <2> HIDE DEF z
  <2>3. /\ QueueTypes' /\ \A u \in Queues : u # z => q'[u] = q[u]
        /\ \A e \in Dirs : /\ z = CqOf[e] => CQ(e)' = y
                           /\ z # RingQ[e] => RQ(e)' = RQ(e)
                           /\ z # CqOf[e] => CQ(e)' = CQ(e)
    <3>1. Types /\ y \in QueueRecords /\ Len(y.ops) <= OpTable /\ z \in Queues /\ z # "eq"
      BY <1>1, <1>7, <1>10
    <3> QED BY <1>8, <3>1, QueueReplaced, ZenonT(60)
  <2> QED BY <2>1, <2>2, <2>3
<1>12. Completed(d)' = Completed(d) /\ Moved(d)' = M + 1
  <2>1. Completed(d)' = Completed(d) /\ Moved(d)' = x.head + (Len(x.ops) + 1)
    BY <1>7, <1>9, <1>11 DEF Completed, Moved
  <2>2. x.head = Completed(d)
    BY DEF Completed
  <2> DEFINE n == Len(x.ops)
  <2>3. Moved(d)' = Completed(d) + (n + 1) /\ n \in Nat /\ Completed(d) \in Nat /\ M = Completed(d) + n
    BY <1>3, <1>6, <2>1, <2>2
  <2> HIDE DEF n, M
  <2> QED BY <2>1, <2>3
<1>13. /\ Asked(d)' = Asked(d) /\ Fetched(d)' = F /\ \A p : Buf(d, p)' = Buf(d, p)
  BY <1>1, <1>11 DEF Asked, Fetched, Buf, drvVars
<1>14. InWork(d)' = InWork(d) - 1
  <2>1. InWork(d)' = Asked(d) - (M + 1)
    BY <1>12, <1>13 DEF InWork
  <2> HIDE DEF M
  <2> QED BY <1>2, <1>4, <2>1
<1>15. work \in [Dirs -> Seq(JobRecords)] /\ work' = [work EXCEPT ![d] = Tail(w)]
  BY <1>1 DEF Types, FrameTypes, MoveData
<1>16. /\ Tail(w) \in Seq(JobRecords) /\ Len(Tail(w)) = Len(w) - 1
       /\ \A k \in 1..(Len(w) - 1) : Tail(w)[k] = w[k + 1]
  BY <1>2, <1>4, TailIs
<1>17. /\ work' \in [Dirs -> Seq(JobRecords)] /\ work'[d] = Tail(w)
       /\ \A e \in Dirs : e # d => work'[e] = work[e]
  BY <1>15, <1>16
<1>18. /\ Len(work'[d]) = Len(w) - 1 /\ DOMAIN work'[d] = 1..(Len(w) - 1)
       /\ \A k \in 1..(Len(w) - 1) : work'[d][k] = w[k + 1]
  BY <1>16, <1>17
<1> HIDE DEF w, M, F, x
<1>19. Jobs(d)'
  <2>1. ASSUME NEW k \in DOMAIN work'[d]
        PROVE  /\ k <= InWork(d) - 1 => work'[d][k].ptr = (M + 1) + k - 1
               /\ k <= F - (M + 1) => work'[d][k].buf = Buf(d, (M + 1) + k - 1)
               /\ k > F - (M + 1) => work'[d][k].buf = NoBuf
               /\ k > InWork(d) - 1 => work'[d][k].ptr = -1
    <3>1. k \in 1..(Len(w) - 1) /\ k \in Nat /\ k + 1 \in DOMAIN work[d] /\ k + 1 \in Nat
      BY <1>4, <1>18 DEF w
    <3>2. /\ k + 1 <= InWork(d) => work[d][k + 1].ptr = M + (k + 1) - 1
          /\ k + 1 <= F - M => work[d][k + 1].buf = Buf(d, M + (k + 1) - 1)
          /\ k + 1 > F - M => work[d][k + 1].buf = NoBuf
          /\ k + 1 > InWork(d) => work[d][k + 1].ptr = -1
      BY <1>4, <3>1 DEF Jobs, F, M
    <3>3. work'[d][k] = work[d][k + 1]
      BY <1>18, <3>1 DEF w
    <3>4. /\ M + (k + 1) - 1 = (M + 1) + k - 1
          /\ (k <= InWork(d) - 1 => k + 1 <= InWork(d)) /\ (k <= F - (M + 1) => k + 1 <= F - M)
          /\ (k > F - (M + 1) => k + 1 > F - M) /\ (k > InWork(d) - 1 => k + 1 > InWork(d))
      BY <1>2, <1>4, <3>1
    <3> QED BY <3>2, <3>3, <3>4
  <2>2. Len(work'[d]) >= InWork(d) - 1 /\ (d = "tx" => Len(work'[d]) = InWork(d) - 1)
    <3>1. d = "tx" => Len(w) = InWork(d)
      BY <1>4 DEF Jobs, w
    <3> DEFINE l == Len(w)
               n == InWork(d)
    <3>2. l \in Nat /\ n \in Nat /\ l >= n /\ Len(work'[d]) = l - 1
      BY <1>4, <1>18
    <3> HIDE DEF l, n
    <3>3. Len(work'[d]) >= n - 1 /\ (l = n => Len(work'[d]) = n - 1)
      BY <3>2
    <3> QED BY <3>1, <3>3 DEF l, n
  <2> QED BY <1>12, <1>13, <1>14, <2>1, <2>2 DEF Jobs
<1> QED BY <1>2, <1>8, <1>9, <1>11, <1>12, <1>7, <1>14, <1>17, <1>18, <1>19
        DEF w, M, x, z, Accepts

\* The packet that an entry holds is in a buffer of its own.
LEMMA HeldApart ==
  ASSUME NicInv, NEW d \in Dirs, NEW e \in Dirs, NEW p \in Held(d), NEW r \in Held(e)
  PROVE  /\ Buf(d, p) \in Bufs /\ Buf(d, p) \in Nat
         /\ d # e \/ p # r => Buf(d, p) # Buf(e, r)
<1>1. Buf(d, p) \in 1..pool.made /\ pool.made <= 2 * Size /\ pool.made \in Nat
  BY DEF NicInv, PoolOK, Types, DriverTypes
<1>2. Buf(d, p) \in Bufs /\ Buf(d, p) \in Nat
  BY <1>1, Sizes DEF Bufs
<1>3. d # e \/ p # r => Buf(d, p) # Buf(e, r)
  BY DEF NicInv, PoolOK
<1> QED BY <1>2, <1>3

\* The entries of both directions when data is moved.
LEMMA MoveRows == ASSUME NicInv, NEW d \in Dirs, MoveData(d) PROVE \A e \in Dirs : Rows(e)'
<1>1. UNCHANGED drvVars /\ mem'.desc = mem.desc /\ mem'.cpl = mem.cpl
  <2>1. mem' = mem \/ mem' = [mem EXCEPT !.buf[Head(work[d]).buf] = <<"rx", Head(work[d]).frame>>]
    BY DEF MoveData
  <2> QED BY <2>1 DEF MoveData, NicInv, Types, MemoryTypes
<1>2. /\ Moved(d)' = Moved(d) + 1 /\ Completed(d)' = Completed(d)
      /\ InLine(CQ(d)'.ops, Completed(d)') /\ RQ(d)' = RQ(d) /\ CQ(d)'.tail = CQ(d).tail
      /\ \A e \in Dirs : e # d => RQ(e)' = RQ(e) /\ CQ(e)' = CQ(e) /\ work'[e] = work[e]
      /\ Jobs(d)'
  BY MoveJobs
<1>3. Moved(d) + 1 <= Fetched(d)
  BY MoveWhere
<1>4. \A e \in Dirs : e # d => Rows(e)'
  <2>1. \A e \in Dirs : e # d => SameRows(e)
    BY <1>1, <1>2 DEF drvVars, SameRows
  <2> QED BY <2>1, SameKeepsRows DEF NicInv
<1>5. /\ Filled(d)' = Filled(d) /\ Freed(d)' = Freed(d) /\ Fetched(d)' = Fetched(d)
      /\ Asked(d)' = Asked(d) /\ Held(d)' = Held(d) /\ \A p : Buf(d, p)' = Buf(d, p)
  BY <1>1, <1>2 DEF drvVars, Filled, Freed, Fetched, Asked, Held, Buf
<1>6. Rows(d)
  BY DEF NicInv
<1>7. Order(d)'
  BY <1>1, <1>2, <1>3, <1>5, <1>6 DEF Rows, Order, drvVars
<1>8. Ops(d)'
  BY <1>1, <1>2, <1>5, <1>6 DEF Rows, Ops
<1>9. Entry(d)'
  BY <1>1, <1>5, <1>6 DEF Rows, Entry, drvVars
<1> QED BY <1>2, <1>4, <1>7, <1>8, <1>9 DEF Rows

\* A frame goes out on the wire: it is the next that start_xmit was given.
LEMMA MoveOut ==
  ASSUME NicInv, MoveData("tx")
  PROVE  MemoryTypes' /\ FrameTypes' /\ TxData' /\ RxOK'
<1> DEFINE M == Moved("tx")
           frame == mem.buf[Buf("tx", M)]
<1>1. "tx" \in Dirs /\ "rx" \in Dirs /\ UNCHANGED drvVars /\ UNCHANGED <<mem, events, msi>>
  BY Names DEF MoveData
<1>2. /\ M \in Held("tx") /\ M \in Nat /\ Head(work["tx"]).buf = Buf("tx", M)
  BY <1>1, MoveWhere
<1>3. /\ Moved("tx")' = M + 1 /\ RQ("rx")' = RQ("rx") /\ CQ("rx")' = CQ("rx")
      /\ work'["rx"] = work["rx"] /\ work' \in [Dirs -> Seq(JobRecords)] /\ UNCHANGED lost
  BY <1>1, MoveJobs
<1>4. net \in [sent : Nat, wire : Seq(Frames), arrived : Nat, got : Seq(Frames), dropped : SUBSET Nat]
  BY DEF NicInv, Types, FrameTypes
<1>5. frame = <<"tx", M + 1>> /\ frame \in Frames
  <2>1. frame = <<"tx", M + 1>>
    <3>1. \A p \in Held("tx") : mem.buf[Buf("tx", p)] = <<"tx", p + 1>>
      BY DEF NicInv, TxData
    <3> HIDE DEF M
    <3> QED BY <1>2, <3>1
  <2> HIDE DEF frame, M
  <2>2. M + 1 \in Nat
    BY <1>2
  <2> QED BY <1>1, <2>1, <2>2 DEF Frames
<1>6. net' = [net EXCEPT !.wire = Append(net.wire, frame)]
  BY <1>2 DEF MoveData
<1> HIDE DEF frame
<1>7. /\ net'.sent = net.sent /\ net'.wire = Append(net.wire, frame) /\ net'.arrived = net.arrived
      /\ net'.got = net.got /\ net'.dropped = net.dropped
      /\ net' \in [sent : Nat, wire : Seq(Frames), arrived : Nat, got : Seq(Frames), dropped : SUBSET Nat]
  <2>1. net' = [sent |-> net.sent, wire |-> Append(net.wire, frame), arrived |-> net.arrived,
                got |-> net.got, dropped |-> net.dropped]
    BY <1>4, <1>6
  <2>2. Append(net.wire, frame) \in Seq(Frames)
    BY <1>4, <1>5
  <2> QED BY <1>4, <2>1, <2>2
<1>8. MemoryTypes' /\ FrameTypes'
  BY <1>1, <1>3, <1>7 DEF NicInv, Types, MemoryTypes, FrameTypes
<1>9. Len(net.wire) = M /\ net.wire \in Seq(Frames)
  BY <1>4 DEF NicInv, TxData
<1>10. /\ Len(net'.wire) = M + 1 /\ DOMAIN net'.wire = 1..(M + 1)
       /\ \A i \in 1..(M + 1) : net'.wire[i] = <<"tx", i>>
  <2>1. \A i \in DOMAIN net.wire : net.wire[i] = <<"tx", i>>
    BY DEF NicInv, TxData
  <2>2. Len(net'.wire) = M + 1 /\ DOMAIN net'.wire = 1..(M + 1) /\ DOMAIN net.wire = 1..M
    BY <1>2, <1>5, <1>7, <1>9
  <2>3. ASSUME NEW i \in 1..(M + 1) PROVE net'.wire[i] = <<"tx", i>>
    <3>1. CASE i = M + 1
      BY <1>5, <1>7, <1>9, <3>1
    <3>2. CASE i # M + 1
      <4>1. i \in 1..M
        BY <1>2, <3>2
      <4>2. net'.wire[i] = net.wire[i]
        BY <1>7, <1>9, <4>1
      <4> QED BY <2>1, <2>2, <4>1, <4>2
    <3> QED BY <3>1, <3>2
  <2> QED BY <2>2, <2>3
<1>11. /\ Filled("tx")' = Filled("tx") /\ Held("tx")' = Held("tx")
       /\ \A p : Buf("tx", p)' = Buf("tx", p)
  BY <1>1 DEF drvVars, Filled, Freed, Held, Buf
<1>12. TxData'
  <2>1. /\ net.sent = Filled("tx") /\ net.sent <= MaxTx
        /\ \A p \in Held("tx") : mem.buf[Buf("tx", p)] = <<"tx", p + 1>>
    BY DEF NicInv, TxData
  <2> QED BY <1>1, <1>3, <1>7, <1>10, <1>11, <2>1 DEF TxData
<1>13. RxOK'
  BY <1>1, <1>3, <1>7, SameRx DEF NicInv, drvVars, Buf
<1> QED BY <1>8, <1>12, <1>13

\* A frame that arrived is in the buffer of its entry.
LEMMA MoveIn ==
  ASSUME NicInv, MoveData("rx")
  PROVE  MemoryTypes' /\ FrameTypes' /\ TxData' /\ RxOK'
<1> DEFINE M == Moved("rx")
           b == Buf("rx", M)
           job == Head(work["rx"])
           n == InWork("rx")
           l == Len(work["rx"])
           new == <<"rx", job.frame>>
<1>1. "tx" \in Dirs /\ "rx" \in Dirs /\ UNCHANGED drvVars /\ UNCHANGED <<net, events, msi>>
  BY Names DEF MoveData
<1>2. /\ M \in Held("rx") /\ M \in Nat /\ job.buf = b /\ n >= 1 /\ work["rx"][1] = job
      /\ M + 1 <= Fetched("rx") /\ work["rx"] # <<>>
  BY <1>1, MoveWhere
<1>3. /\ Moved("rx")' = M + 1 /\ CQ("tx")' = CQ("tx") /\ RQ("rx")' = RQ("rx")
      /\ work' \in [Dirs -> Seq(JobRecords)] /\ UNCHANGED lost
      /\ Len(work'["rx"]) = l - 1 /\ InWork("rx")' = n - 1
      /\ \A k \in 1..(l - 1) : work'["rx"][k] = work["rx"][k + 1]
  BY <1>1, MoveJobs
<1>4. /\ work["rx"] \in Seq(JobRecords) /\ l \in Nat /\ n \in Nat /\ n <= l
  BY <1>1, WorkFacts
<1>5. b \in Bufs
  BY <1>1, <1>2, HeldApart
<1>6. job \in JobRecords /\ new \in Frames
  <2>1. job \in JobRecords
    BY <1>2, <1>4
  <2> QED BY <1>1, <2>1 DEF JobRecords, Frames
<1>7. mem' = [mem EXCEPT !.buf[b] = new]
  BY <1>2 DEF MoveData
<1> HIDE DEF job, new
<1>8. /\ MemoryTypes' /\ mem'.buf[b] = new
      /\ \A c : c # b => mem'.buf[c] = mem.buf[c]
  <2>1. mem \in [desc : [Dirs -> [Slots -> MaybeBuf]], cpl : [Dirs -> [Slots -> Nat]],
                 ev : [0..(EvSize - 1) -> Dirs], buf : [Bufs -> Frames]]
    BY DEF NicInv, Types, MemoryTypes
  <2> HIDE DEF b
  <2>2. mem' = [desc |-> mem.desc, cpl |-> mem.cpl, ev |-> mem.ev, buf |-> [mem.buf EXCEPT ![b] = new]]
    BY <1>7, <2>1
  <2>3. [mem.buf EXCEPT ![b] = new] \in [Bufs -> Frames]
    BY <1>5, <1>6, <2>1
  <2>4. MemoryTypes'
    BY <2>1, <2>2, <2>3 DEF MemoryTypes
  <2> QED BY <1>5, <2>1, <2>2, <2>4
<1>9. FrameTypes'
  BY <1>1, <1>3 DEF NicInv, Types, FrameTypes
<1>10. TxData'
  <2>1. \A p \in Held("tx") : Buf("tx", p) # b
    BY <1>1, <1>2, HeldApart
  <2>2. \A p \in Held("tx") : mem'.buf[Buf("tx", p)] = mem.buf[Buf("tx", p)]
    BY <1>8, <2>1
  <2> QED BY <1>1, <1>3, <2>2, SameTx DEF NicInv, drvVars
<1>11. PICK fr \in [Numbers -> Nat] : RxData(fr) /\ FramesOK(fr)
  BY DEF NicInv, RxOK
<1>12. /\ Freed("rx") \in Nat /\ Freed("rx") <= M /\ M <= Filled("rx") - 1 /\ Filled("rx") \in Nat
       /\ Freed("rx")' = Freed("rx") /\ Asked("rx")' = Asked("rx")
       /\ \A p : Buf("rx", p)' = Buf("rx", p)
  <2>1. Filled("rx") \in Nat /\ Freed("rx") \in Nat
    BY <1>1, Counts DEF NicInv, Rows
  <2>2. Freed("rx")' = Freed("rx") /\ Asked("rx")' = Asked("rx") /\ \A p : Buf("rx", p)' = Buf("rx", p)
    BY <1>1, <1>3 DEF drvVars, Freed, Asked, Buf
  <2> QED BY <1>2, <2>1, <2>2 DEF Held
<1> HIDE DEF M, b, n, l
<1>13. RxData(fr)'
  <2>1. /\ \A i \in 1..n : work["rx"][i].frame = fr[M + i - 1]
        /\ \A p \in Freed("rx")..(M - 1) : mem.buf[Buf("rx", p)] = <<"rx", fr[p]>>
        /\ Len(net.got) = Freed("rx") /\ \A i \in DOMAIN net.got : net.got[i] = <<"rx", fr[i - 1]>>
    BY <1>11 DEF RxData, n, M
  <2>2. ASSUME NEW i \in 1..(n - 1) PROVE work'["rx"][i].frame = fr[(M + 1) + i - 1]
    <3>0. M \in Nat /\ n \in Nat /\ l \in Nat /\ n >= 1 /\ n <= l /\ i \in Nat /\ i <= n - 1 /\ i >= 1
      BY <1>2, <1>4
    <3>1. i \in 1..(l - 1) /\ i + 1 \in 1..n /\ M + (i + 1) - 1 = (M + 1) + i - 1
      BY <3>0
    <3>2. work["rx"][i + 1].frame = fr[M + (i + 1) - 1]
      BY <2>1, <3>1
    <3> QED BY <1>3, <3>1, <3>2
  <2>3. ASSUME NEW p \in Freed("rx")..M PROVE mem'.buf[Buf("rx", p)] = <<"rx", fr[p]>>
    <3>1. CASE p = M
      <4>1. 1 \in 1..n /\ M + 1 - 1 = M
        BY <1>2, <1>4
      <4>2. job.frame = fr[M]
        BY <1>2, <2>1, <4>1
      <4> QED BY <1>8, <3>1, <4>2 DEF b, new
    <3>2. CASE p # M
      <4>1. p \in Freed("rx")..(M - 1) /\ p \in Held("rx")
        BY <1>2, <1>12, <3>2 DEF Held
      <4>2. Buf("rx", p) # b
        BY <1>1, <1>2, <3>2, <4>1, HeldApart DEF b
      <4> QED BY <1>8, <2>1, <4>1, <4>2
    <3> QED BY <3>1, <3>2
  <2>4. (M + 1) - 1 = M
    BY <1>2
  <2> QED BY <1>1, <1>3, <1>12, <2>1, <2>2, <2>3, <2>4 DEF RxData
<1>14. FramesOK(fr)'
  <2>1. Waiting = l - n /\ Waiting' = (l - 1) - (n - 1)
    BY <1>3 DEF Waiting, l, n
  <2>2. Waiting' = Waiting /\ Waiting \in Nat
    BY <1>4, <2>1
  <2>3. Decided' = Decided
    BY <1>1, <2>2 DEF Decided
  <2>4. ASSUME NEW i \in 1..Waiting PROVE work'["rx"][(n - 1) + i].frame = Decided + i
    <3>1. (n - 1) + i \in 1..(l - 1) /\ ((n - 1) + i) + 1 = n + i
      BY <1>2, <1>4, <2>1
    <3>2. work'["rx"][(n - 1) + i] = work["rx"][n + i]
      BY <1>3, <3>1
    <3> QED BY <1>11, <3>2 DEF FramesOK, n
  <2> QED BY <1>1, <1>3, <1>11, <1>12, <2>2, <2>3, <2>4 DEF FramesOK, n
<1> QED BY <1>8, <1>9, <1>10, <1>13, <1>14 DEF RxOK

\* Data is moved.
LEMMA MoveDataInv == ASSUME NicInv, NEW d \in Dirs, MoveData(d) PROVE NicInv'
<1>1. \A e \in Dirs : Rows(e)'
  BY MoveRows
<1>2. MemoryTypes' /\ FrameTypes' /\ TxData' /\ RxOK'
  BY MoveOut, MoveIn DEF Dirs
<1>3. /\ QueueTypes' /\ CQ(d).active /\ CQ(d)'.active = CQ(d).active
      /\ RQ(d)' = RQ(d) /\ CQ(d)'.tail = CQ(d).tail
      /\ \A e \in Dirs : e # d => RQ(e)' = RQ(e) /\ CQ(e)' = CQ(e)
      /\ \A x \in Queues : x # CqOf[d] => q'[x] = q[x]
  BY MoveJobs
<1>4. PoolOK' /\ WritesOK' /\ Activation' /\ AtEvent' /\ DriverTypes'
  <2>1. \A x \in Queues : /\ q'[x].active = q[x].active
                          /\ x # "eq" /\ ~q[x].active =>
                               /\ q'[x].head = q[x].head /\ q'[x].tail = q[x].tail
                               /\ q'[x].ops = q[x].ops
    BY <1>3 DEF CQ
  <2>2. \A e \in Dirs : RQ(e)'.head = RQ(e).head /\ CQ(e)'.tail = CQ(e).tail
    BY <1>3
  <2>3. UNCHANGED drvVars
    BY DEF MoveData
  <2> QED BY <2>1, <2>2, <2>3, DeviceStep
<1> QED BY <1>1, <1>2, <1>3, <1>4 DEF NicInv, Types

-----------------------------------------------------------------------------
(* Completions written. *)

\* The completion written names its entry, and is the next of its queue.
LEMMA CommitOps ==
  ASSUME NicInv, NEW d \in Dirs, CommitEntry(CqOf[d])
  PROVE  /\ QueueTypes' /\ CQ(d).active /\ RQ(d)' = RQ(d)
         /\ CQ(d)'.active = CQ(d).active /\ CQ(d)'.tail = CQ(d).tail
         /\ \A e \in Dirs : e # d => RQ(e)' = RQ(e) /\ CQ(e)' = CQ(e)
         /\ \A x \in Queues : x # CqOf[d] => q'[x] = q[x]
         /\ Completed(d)' = Completed(d) + 1 /\ Moved(d)' = Moved(d)
         /\ Completed(d) + 1 <= Moved(d) /\ InLine(CQ(d)'.ops, Completed(d)')
         /\ mem' = [mem EXCEPT !.cpl[d][Completed(d) % Size] = Completed(d)]
<1> DEFINE x == CQ(d)
           z == CqOf[d]
           C == Completed(d)
           y == EnqueueCommit(x)
<1>1. Types /\ z \in Queues /\ z # "eq" /\ DirOf(z) = d
  BY Names DEF NicInv
<1>2. x = q[z] /\ x.ops # <<>> /\ x \in QueueRecords /\ x.ops \in Seq(Operations)
      /\ Len(x.ops) \in Nat /\ Len(x.ops) <= OpTable
  BY <1>1, RecordTypes DEF CQ, CommitEntry, Types, QueueTypes
<1>3. InLine(x.ops, C) /\ C \in Nat /\ Moved(d) = C + Len(x.ops) /\ x.head = C
  BY Counts DEF NicInv, Rows, Ops, Moved, Completed
<1>4. /\ Head(x.ops) = [ptr |-> C + 1, data |-> C] /\ Len(Tail(x.ops)) = Len(x.ops) - 1
      /\ InLine(Tail(x.ops), C + 1)
  <2> HIDE DEF x, C
  <2> QED BY <1>2, <1>3, LineTail
<1>5. /\ y \in QueueRecords /\ y.active = x.active /\ y.tail = x.tail
      /\ y.head = C + 1 /\ y.ops = Tail(x.ops)
  <2>1. y = [active |-> x.active, armed |-> FALSE, head |-> Head(x.ops).ptr,
             tail |-> x.tail, ops |-> Tail(x.ops)]
    BY <1>2, CommittedType
  <2>2. y \in QueueRecords
    BY <1>2, CommittedType
  <2> HIDE DEF y, x, C
  <2>3. Head(x.ops).ptr = C + 1
    BY <1>4
  <2> QED BY <2>1, <2>2, <2>3
<1> HIDE DEF y
<1>6. q' = [q EXCEPT ![z] = y]
  BY <1>2 DEF CommitEntry, y
<1>7. Len(y.ops) <= OpTable
  <2>1. OpTable \in Nat
    BY Sizes
  <2> HIDE DEF x
  <2> QED BY <1>2, <1>4, <1>5, <2>1
<1>8. /\ QueueTypes' /\ CQ(d)' = y /\ RQ(d)' = RQ(d)
      /\ \A u \in Queues : u # z => q'[u] = q[u]
      /\ \A e \in Dirs : e # d => RQ(e)' = RQ(e) /\ CQ(e)' = CQ(e)
  <2>1. \A e \in Dirs : z # RingQ[e] /\ (e # d => z # CqOf[e])
    BY Names
  <2>2. z = CqOf[d]
    OBVIOUS
  <2> HIDE DEF z
  <2>3. /\ QueueTypes' /\ \A u \in Queues : u # z => q'[u] = q[u]
        /\ \A e \in Dirs : /\ z = CqOf[e] => CQ(e)' = y
                           /\ z # RingQ[e] => RQ(e)' = RQ(e)
                           /\ z # CqOf[e] => CQ(e)' = CQ(e)
    <3>1. Types /\ y \in QueueRecords /\ Len(y.ops) <= OpTable /\ z \in Queues /\ z # "eq"
      BY <1>1, <1>5, <1>7
    <3> QED BY <1>6, <3>1, QueueReplaced, ZenonT(60)
  <2> QED BY <2>1, <2>2, <2>3
<1>9. mem' = [mem EXCEPT !.cpl[d][C % Size] = C]
  <2>1. Head(x.ops).data = C /\ x.head = C
    BY <1>3, <1>4
  <2> QED BY <1>1, <1>2, <2>1 DEF CommitEntry
<1>10. Completed(d)' = C + 1 /\ Moved(d)' = Moved(d) /\ C + 1 <= Moved(d)
  <2>1. Completed(d)' = C + 1 /\ Moved(d)' = (C + 1) + (Len(x.ops) - 1)
    BY <1>4, <1>5, <1>8 DEF Completed, Moved
  <2> DEFINE n == Len(x.ops)
  <2>2. n \in Nat /\ n >= 1 /\ C \in Nat /\ Moved(d) = C + n /\ Moved(d)' = (C + 1) + (n - 1)
    BY <1>2, <1>3, <2>1
  <2> HIDE DEF n, C
  <2>3. (C + 1) + (n - 1) = C + n /\ C + 1 <= C + n
    BY <2>2
  <2> QED BY <2>1, <2>2, <2>3
<1>11. x.active
  BY <1>2 DEF NicInv, Activation
<1> QED BY <1>4, <1>5, <1>8, <1>9, <1>10, <1>11

\* A completion is in memory.
LEMMA CommitCplInv == ASSUME NicInv, NEW d \in Dirs, CommitEntry(CqOf[d]) PROVE NicInv'
<1> DEFINE C == Completed(d)
<1>1. /\ QueueTypes' /\ CQ(d).active /\ RQ(d)' = RQ(d)
      /\ CQ(d)'.active = CQ(d).active /\ CQ(d)'.tail = CQ(d).tail
      /\ \A e \in Dirs : e # d => RQ(e)' = RQ(e) /\ CQ(e)' = CQ(e)
      /\ \A x \in Queues : x # CqOf[d] => q'[x] = q[x]
      /\ C' = C + 1 /\ Moved(d)' = Moved(d) /\ C + 1 <= Moved(d) /\ InLine(CQ(d)'.ops, C')
      /\ mem' = [mem EXCEPT !.cpl[d][C % Size] = C]
  BY CommitOps
<1>2. /\ Types /\ UNCHANGED drvVars /\ UNCHANGED <<work, net, lost>>
      /\ Raise(CqOf[d]) \/ UNCHANGED <<events, msi>>
  BY DEF NicInv, CommitEntry
<1>3. /\ Freed(d) \in Nat /\ C \in Nat /\ Moved(d) \in Nat /\ Freed(d) <= C
      /\ Moved(d) <= Freed(d) + Size
  <2>1. /\ Freed(d) \in Nat /\ C \in Nat /\ Moved(d) \in Nat /\ Fetched(d) \in Nat
        /\ Asked(d) \in Nat /\ Filled(d) \in Nat /\ RQ(d).head \in Nat
        /\ Freed(d) <= C /\ C <= Moved(d) /\ Moved(d) <= Fetched(d)
        /\ Fetched(d) <= Asked(d) /\ Asked(d) <= RQ(d).head /\ RQ(d).head <= Filled(d)
        /\ Filled(d) <= Freed(d) + Size
    BY Counts DEF NicInv, Rows
  <2> HIDE DEF C
  <2> QED BY <2>1, Sizes
<1>4. C % Size \in Slots
  BY <1>3, SlotOf
<1>5. /\ MemoryTypes' /\ mem'.desc = mem.desc /\ mem'.buf = mem.buf
      /\ mem'.cpl[d][C % Size] = C
      /\ \A s : s # C % Size => mem'.cpl[d][s] = mem.cpl[d][s]
      /\ \A e \in Dirs : e # d => mem'.cpl[e] = mem.cpl[e]
  <2>1. mem \in [desc : [Dirs -> [Slots -> MaybeBuf]], cpl : [Dirs -> [Slots -> Nat]],
                 ev : [0..(EvSize - 1) -> Dirs], buf : [Bufs -> Frames]]
    BY <1>2 DEF Types, MemoryTypes
  <2> DEFINE s == C % Size
             f == [mem.cpl EXCEPT ![d] = [mem.cpl[d] EXCEPT ![s] = C]]
  <2> HIDE DEF s
  <2>2. mem' = [desc |-> mem.desc, cpl |-> f, ev |-> mem.ev, buf |-> mem.buf]
    BY <1>1, <2>1 DEF s
  <2>3. f \in [Dirs -> [Slots -> Nat]]
    BY <1>3, <1>4, <2>1 DEF s
  <2>4. /\ f[d][s] = C /\ \A r : r # s => f[d][r] = mem.cpl[d][r]
        /\ \A e \in Dirs : e # d => f[e] = mem.cpl[e]
    BY <1>4, <2>1 DEF s
  <2> HIDE DEF f, C
  <2>5. mem'.cpl = f /\ mem'.desc = mem.desc /\ mem'.buf = mem.buf
    BY <2>2
  <2>6. MemoryTypes'
    BY <2>1, <2>2, <2>3 DEF MemoryTypes
  <2> QED BY <2>4, <2>5, <2>6 DEF s
<1> HIDE DEF C
<1>6. events' \in [Dirs -> Nat] /\ msi' \in [asked : BOOLEAN, sent : Nat]
  <2>1. CqOf[d] \in {"eq", "txcq", "rxcq"}
    BY DEF CqOf, Dirs
  <2> QED BY <1>2, <2>1, RaiseType
<1>7. PoolOK' /\ WritesOK' /\ Activation' /\ AtEvent' /\ DriverTypes'
  <2>1. \A x \in Queues : /\ q'[x].active = q[x].active
                          /\ x # "eq" /\ ~q[x].active =>
                               /\ q'[x].head = q[x].head /\ q'[x].tail = q[x].tail
                               /\ q'[x].ops = q[x].ops
    BY <1>1 DEF CQ
  <2>2. \A e \in Dirs : RQ(e)'.head = RQ(e).head /\ CQ(e)'.tail = CQ(e).tail
    BY <1>1
  <2> QED BY <1>2, <2>1, <2>2, DeviceStep
<1>8. Types'
  BY <1>1, <1>2, <1>5, <1>6, <1>7 DEF Types, FrameTypes
<1>9. \A e \in Dirs : e # d => Rows(e)'
  <2>1. \A e \in Dirs : e # d => SameRows(e)
    BY <1>1, <1>2, <1>5 DEF drvVars, SameRows
  <2> QED BY <2>1, SameKeepsRows DEF NicInv
<1>10. \A e \in Dirs : /\ Filled(e)' = Filled(e) /\ Freed(e)' = Freed(e) /\ Moved(e)' = Moved(e)
                       /\ Fetched(e)' = Fetched(e) /\ Asked(e)' = Asked(e) /\ Held(e)' = Held(e)
                       /\ InWork(e)' = InWork(e) /\ \A p : Buf(e, p)' = Buf(e, p)
  <2>1. \A e \in Dirs : Moved(e)' = Moved(e) /\ RQ(e)' = RQ(e)
    BY <1>1 DEF Moved
  <2> QED BY <1>2, <2>1 DEF drvVars, Filled, Freed, Fetched, Asked, Held, InWork, Buf
<1>11. Rows(d)
  BY DEF NicInv
<1>12. Order(d)'
  <2>1. Freed(d) <= C + 1
    BY <1>3
  <2> QED BY <1>1, <1>2, <1>10, <1>11, <2>1 DEF Rows, Order, drvVars, C
<1>13. Ops(d)'
  <2>1. ASSUME NEW k \in Freed(d)..C PROVE mem'.cpl[d][k % Size] = k
    <3>1. CASE k = C
      BY <1>5, <3>1
    <3>2. CASE k # C
      <4>1. k \in Freed(d)..(C - 1) /\ k \in Nat /\ k < C /\ ~(k + Size <= C)
        BY <1>1, <1>3, <3>2, Sizes
      <4>2. k % Size # C % Size
        BY <1>3, <4>1, SlotOf
      <4>3. mem.cpl[d][k % Size] = k
        BY <1>11, <4>1 DEF Rows, Ops, C
      <4> QED BY <1>5, <4>2, <4>3
    <3> QED BY <3>1, <3>2
  <2>2. (C + 1) - 1 = C
    BY <1>3
  <2>3. InLine(RQ(d).ops, Fetched(d))
    BY <1>11 DEF Rows, Ops
  <2> QED BY <1>1, <1>10, <2>1, <2>2, <2>3 DEF Ops, C
<1>14. Jobs(d)'
  BY <1>2, <1>10, <1>11 DEF Rows, Jobs
<1>15. Entry(d)'
  BY <1>2, <1>5, <1>10, <1>11 DEF Rows, Entry, drvVars
<1>16. \A e \in Dirs : Rows(e)'
  BY <1>9, <1>12, <1>13, <1>14, <1>15 DEF Rows
<1>17. "tx" \in Dirs /\ "rx" \in Dirs
  BY Names
<1>18. TxData'
  BY <1>2, <1>5, <1>10, <1>17 DEF NicInv, TxData
<1>19. RxOK'
  BY <1>2, <1>5, <1>10, <1>17, SameFrames
<1> QED BY <1>7, <1>8, <1>16, <1>18, <1>19 DEF NicInv

-----------------------------------------------------------------------------
(* Register writes that reach the device. *)

\* The write that arrives is the oldest; the others move up.
LEMMA WriteIsOldest ==
  ASSUME NicInv, WriteRegister
  PROVE  /\ posted[1] = Head(posted) /\ posted[1] \in Writes /\ 1 \in DOMAIN posted
         /\ posted' \in Seq(Writes) /\ Len(posted) \in Nat /\ Len(posted) >= 1
         /\ Len(posted') = Len(posted) - 1 /\ DOMAIN posted' = 1..(Len(posted) - 1)
         /\ \A i \in DOMAIN posted' : i + 1 \in DOMAIN posted /\ posted'[i] = posted[i + 1]
         /\ \A i \in DOMAIN posted : i # 1 => i - 1 \in DOMAIN posted' /\ posted'[i - 1] = posted[i]
<1>1. posted \in Seq(Writes) /\ posted # <<>> /\ posted' = Tail(posted)
  BY DEF NicInv, Types, DriverTypes, WriteRegister
<1>2. /\ posted[1] = Head(posted) /\ posted[1] \in Writes /\ Len(posted) \in Nat /\ Len(posted) >= 1
      /\ Tail(posted) \in Seq(Writes) /\ Len(Tail(posted)) = Len(posted) - 1
      /\ \A i \in 1..(Len(posted) - 1) : Tail(posted)[i] = posted[i + 1]
  BY <1>1, TailIs
<1>3. DOMAIN posted' = 1..(Len(posted) - 1) /\ DOMAIN posted = 1..Len(posted)
  BY <1>1, <1>2
<1>4. \A i \in 1..(Len(posted) - 1) : posted'[i] = posted[i + 1]
  BY <1>1, <1>2
<1>5. /\ \A i \in DOMAIN posted' : i + 1 \in DOMAIN posted /\ posted'[i] = posted[i + 1]
      /\ 1 \in DOMAIN posted
  BY <1>2, <1>3, <1>4
<1>6. \A i \in DOMAIN posted : i # 1 => i - 1 \in DOMAIN posted' /\ posted'[i - 1] = posted[i]
  <2> SUFFICES ASSUME NEW i \in DOMAIN posted, i # 1
               PROVE  i - 1 \in DOMAIN posted' /\ posted'[i - 1] = posted[i]
    OBVIOUS
  <2>1. i - 1 \in 1..(Len(posted) - 1) /\ (i - 1) + 1 = i
    BY <1>2, <1>3
  <2> QED BY <1>3, <1>4, <2>1
<1> QED BY <1>1, <1>2, <1>3, <1>5, <1>6

\* What a write does to its queue.
LEMMA WriteQueue ==
  ASSUME NicInv, WriteRegister
  PROVE  LET w == posted[1]
             x == q[w.q]
             y == q'[w.q]
         IN /\ w.q \in Queues /\ QueueTypes'
            /\ \A z \in Queues : z # w.q => q'[z] = q[z]
            /\ y.ops = x.ops
            /\ w.op = "head" => y.head = w.val /\ y.tail = x.tail /\ y.active = x.active
            /\ w.op = "tail" => y.head = x.head /\ y.tail = w.val /\ y.active = x.active
            /\ w.op = "arm" => y.head = x.head /\ y.tail = x.tail /\ y.active = x.active
            /\ w.op = "activate" => y.head = 0 /\ y.tail = 0 /\ y.active = TRUE
            /\ w.op \in {"head", "tail", "arm", "activate"}
<1> DEFINE w == posted[1]
           x == q[w.q]
           v == CASE w.op = "head" -> [x EXCEPT !.head = w.val]
                  [] w.op = "tail" -> [x EXCEPT !.tail = w.val]
                  [] w.op = "arm" -> Arm(x)
                  [] w.op = "activate" -> Activate(x, 0, 0)
<1>1. /\ w \in Writes /\ w = Head(posted)
  BY WriteIsOldest
<1>2. w.q \in Queues /\ w.val \in Pointers /\ w.op \in {"head", "tail", "arm", "activate"}
  BY <1>1 DEF Writes
<1>3. /\ q \in [Queues -> QueueRecords] /\ \A z \in Queues : Len(q[z].ops) <= OpTable
      /\ \A j \in DOMAIN q["eq"].ops : q["eq"].ops[j].data \in Dirs
  BY DEF NicInv, Types, QueueTypes
<1>4. q' = [q EXCEPT ![w.q] = v]
  BY <1>1 DEF WriteRegister
<1>5. x \in QueueRecords
  BY <1>2, <1>3
<1> HIDE DEF w, x
<1>6. /\ v \in QueueRecords /\ v.ops = x.ops
      /\ w.op = "head" => v.head = w.val /\ v.tail = x.tail /\ v.active = x.active
      /\ w.op = "tail" => v.head = x.head /\ v.tail = w.val /\ v.active = x.active
      /\ w.op = "arm" => v.head = x.head /\ v.tail = x.tail /\ v.active = x.active
      /\ w.op = "activate" => v.head = 0 /\ v.tail = 0 /\ v.active = TRUE
  <2>1. /\ x = [active |-> x.active, armed |-> x.armed, head |-> x.head, tail |-> x.tail, ops |-> x.ops]
        /\ x.active \in BOOLEAN /\ x.armed \in BOOLEAN /\ x.head \in Pointers /\ x.tail \in Pointers
        /\ x.ops \in Seq(Operations) /\ 0 \in Pointers
    BY <1>5, Sizes DEF QueueRecords, Pointers
  <2>2. CASE w.op = "head"
    <3>1. v = [active |-> x.active, armed |-> x.armed, head |-> w.val, tail |-> x.tail, ops |-> x.ops]
      BY <2>1, <2>2
    <3> HIDE DEF v
    <3>2. v \in QueueRecords
      BY <1>2, <2>1, <3>1 DEF QueueRecords
    <3> QED BY <2>2, <3>1, <3>2
  <2>3. CASE w.op = "tail"
    <3>1. v = [active |-> x.active, armed |-> x.armed, head |-> x.head, tail |-> w.val, ops |-> x.ops]
      BY <2>1, <2>3
    <3> HIDE DEF v
    <3>2. v \in QueueRecords
      BY <1>2, <2>1, <3>1 DEF QueueRecords
    <3> QED BY <2>3, <3>1, <3>2
  <2>4. CASE w.op = "arm"
    <3>1. v = [active |-> x.active, armed |-> ~RaisesEvent(x), head |-> x.head, tail |-> x.tail,
               ops |-> x.ops]
      BY <2>1, <2>4 DEF Arm
    <3> HIDE DEF v
    <3>2. v \in QueueRecords
      BY <2>1, <3>1 DEF QueueRecords
    <3> QED BY <2>4, <3>1, <3>2
  <2>5. CASE w.op = "activate"
    <3>1. v = [active |-> TRUE, armed |-> FALSE, head |-> 0, tail |-> 0, ops |-> x.ops]
      BY <2>1, <2>5 DEF Activate
    <3> HIDE DEF v
    <3>2. v \in QueueRecords
      BY <2>1, <3>1 DEF QueueRecords
    <3> QED BY <2>5, <3>1, <3>2
  <2> QED BY <1>2, <2>2, <2>3, <2>4, <2>5
<1> HIDE DEF v
<1>7. /\ q' \in [Queues -> QueueRecords] /\ q'[w.q] = v
      /\ \A z \in Queues : z # w.q => q'[z] = q[z]
  BY <1>2, <1>3, <1>4, <1>6
<1>8. \A z \in Queues : q'[z].ops = q[z].ops
  BY <1>2, <1>6, <1>7 DEF x
<1>9. "eq" \in Queues
  BY DEF Queues
<1>10. QueueTypes'
  BY <1>3, <1>7, <1>8, <1>9 DEF QueueTypes
<1> QED BY <1>2, <1>6, <1>7, <1>10 DEF w, x

\* A write moves the head of a ring's queue on, within what is filled, or
\* activates the queue while nothing has happened in it.
LEMMA WriteRing ==
  ASSUME NicInv, WriteRegister, NEW d \in Dirs
  PROVE  /\ RQ(d)'.tail = RQ(d).tail /\ RQ(d)'.ops = RQ(d).ops
         /\ RQ(d)'.head \in Nat /\ Asked(d) <= RQ(d)'.head /\ RQ(d)'.head <= Filled(d)
         /\ \A i \in DOMAIN posted : i # 1 /\ posted[i].op = "head" /\ posted[i].q = RingQ[d] =>
              RQ(d)'.head <= posted[i].val
<1> DEFINE w == posted[1]
           z == RingQ[d]
           x == RQ(d)
           y == RQ(d)'
<1>1. /\ w.op \in {"head", "tail", "arm", "activate"} /\ w.q \in Queues
      /\ w.q = z => /\ y.ops = x.ops
                    /\ w.op = "head" => y.head = w.val /\ y.tail = x.tail
                    /\ w.op = "tail" => y.head = x.head /\ y.tail = w.val
                    /\ w.op = "arm" => y.head = x.head /\ y.tail = x.tail
                    /\ w.op = "activate" => y.head = 0 /\ y.tail = 0
      /\ w.q # z => y = x
  BY WriteQueue, Names DEF RQ
<1>2. w.op = "tail" => w.q # z
  <2>1. w.op = "tail" => w.q \in {"eq", "txcq", "rxcq"}
    BY WriteIsOldest DEF NicInv, WritesOK, WhichWrites
  <2>2. z \in {"txq", "rxq"}
    BY DEF RingQ, Dirs
  <2> QED BY <2>1, <2>2
<1>3. /\ 1 \in DOMAIN posted
      /\ \A i \in DOMAIN posted : posted[i].val \in Nat /\ i \in Nat /\ i >= 1
  <2>1. Types /\ 1 \in DOMAIN posted
    BY WriteIsOldest DEF NicInv
  <2>2. Len(posted) \in Nat /\ DOMAIN posted = 1..Len(posted) /\ \A i \in DOMAIN posted : posted[i].val \in Nat
    BY <2>1, WriteTypes
  <2> QED BY <2>1, <2>2
<1>4. \A i \in DOMAIN posted : posted[i].op = "head" /\ posted[i].q = z =>
        /\ x.head <= posted[i].val /\ posted[i].val <= Filled(d)
        /\ \A j \in 1..i : posted[j].op = "head" /\ posted[j].q = z => posted[j].val <= posted[i].val
  BY DEF NicInv, WritesOK, HeadWrites
<1>5. /\ Asked(d) \in Nat /\ x.head \in Nat /\ Filled(d) \in Nat
      /\ Asked(d) <= x.head /\ x.head <= Filled(d)
  BY Counts DEF NicInv, Rows
<1>6. CASE ~(w.q = z /\ w.op \in {"head", "activate"})
  <2>1. y.head = x.head /\ y.tail = x.tail /\ y.ops = x.ops
    BY <1>1, <1>2, <1>6
  <2> QED BY <1>4, <1>5, <2>1
<1>7. CASE w.q = z /\ w.op = "head"
  <2>1. y.head = w.val /\ y.tail = x.tail /\ y.ops = x.ops /\ w.val \in Nat
    BY <1>1, <1>3, <1>7
  <2>2. x.head <= w.val /\ w.val <= Filled(d)
    BY <1>3, <1>4, <1>7
  <2>3. \A i \in DOMAIN posted : posted[i].op = "head" /\ posted[i].q = z => w.val <= posted[i].val
    BY <1>3, <1>4, <1>7
  <2>4. Asked(d) <= w.val
    BY <1>5, <2>1, <2>2
  <2> QED BY <2>1, <2>2, <2>3, <2>4
<1>8. CASE w.q = z /\ w.op = "activate"
  <2>1. y.head = 0 /\ y.tail = 0 /\ y.ops = x.ops
    BY <1>1, <1>8
  <2>2. ~x.active
    BY <1>1, <1>3, <1>8 DEF NicInv, Activation, RQ
  <2>3. x.tail = 0 /\ x.ops = <<>>
    BY <2>2 DEF NicInv, Activation
  <2>4. Asked(d) = 0
    BY <2>3 DEF Asked
  <2> QED BY <1>3, <1>5, <2>1, <2>3, <2>4
<1> QED BY <1>6, <1>7, <1>8

\* A write to a completion queue sets its tail to what is freed, or activates
\* it while nothing has happened in it.
LEMMA WriteCpl ==
  ASSUME NicInv, WriteRegister, NEW d \in Dirs
  PROVE  /\ CQ(d)'.head = CQ(d).head /\ CQ(d)'.ops = CQ(d).ops
         /\ posted[1].op = "tail" /\ posted[1].q = CqOf[d] => CQ(d)'.tail = Freed(d)
         /\ ~(posted[1].op = "tail" /\ posted[1].q = CqOf[d]) => CQ(d)'.tail = CQ(d).tail
<1> DEFINE w == posted[1]
           z == CqOf[d]
           x == CQ(d)
           y == CQ(d)'
<1>1. /\ w.op \in {"head", "tail", "arm", "activate"} /\ w.q \in Queues
      /\ w.q = z => /\ y.ops = x.ops
                    /\ w.op = "head" => y.head = w.val /\ y.tail = x.tail
                    /\ w.op = "tail" => y.head = x.head /\ y.tail = w.val
                    /\ w.op = "arm" => y.head = x.head /\ y.tail = x.tail
                    /\ w.op = "activate" => y.head = 0 /\ y.tail = 0
      /\ w.q # z => y = x
  BY WriteQueue, Names DEF CQ
<1>2. w.op = "head" => w.q # z
  <2>1. w.op = "head" => w.q \in {"txq", "rxq"}
    BY WriteIsOldest DEF NicInv, WritesOK, WhichWrites
  <2>2. z \in {"txcq", "rxcq"}
    BY DEF CqOf, Dirs
  <2> QED BY <2>1, <2>2
<1>3. 1 \in DOMAIN posted
  BY WriteIsOldest
<1>4. CASE w.q # z \/ w.op \in {"head", "arm"}
  BY <1>1, <1>2, <1>4
<1>5. CASE w.q = z /\ w.op = "tail"
  <2>1. w.val = Freed(d)
    BY <1>3, <1>5 DEF NicInv, WritesOK, TailWrites
  <2> QED BY <1>1, <1>5, <2>1
<1>6. CASE w.q = z /\ w.op = "activate"
  <2>1. y.head = 0 /\ y.tail = 0 /\ y.ops = x.ops
    BY <1>1, <1>6
  <2>2. ~x.active
    BY <1>1, <1>3, <1>6 DEF NicInv, Activation, CQ
  <2>3. x.head = 0 /\ x.ops = <<>>
    BY <2>2 DEF NicInv, Activation
  <2>4. x.tail = 0
    <3>1. /\ ring[d].clean <= x.tail /\ x.tail <= Freed(d) /\ Freed(d) <= x.head /\ x.tail \in Nat
          /\ Freed(d) \in Nat
      BY Counts DEF NicInv, Rows, Order, Completed
    <3> HIDE DEF x
    <3> QED BY <2>3, <3>1
  <2> QED BY <1>6, <2>1, <2>3, <2>4
<1> QED BY <1>1, <1>4, <1>5, <1>6

\* The writes that are left are in order.
LEMMA WriteWrites == ASSUME NicInv, WriteRegister PROVE WritesOK'
<1>1. /\ \A i \in DOMAIN posted' : i + 1 \in DOMAIN posted /\ posted'[i] = posted[i + 1] /\ i \in Nat
                                   /\ i >= 1
      /\ \A i \in DOMAIN posted : i # 1 => i - 1 \in DOMAIN posted' /\ posted'[i - 1] = posted[i]
      /\ 1 \in DOMAIN posted
  BY WriteIsOldest
<1>2. WhichWrites'
  BY <1>1 DEF NicInv, WritesOK, WhichWrites
<1>3. ASSUME NEW d \in Dirs PROVE HeadWrites(d)' /\ TailWrites(d)'
  <2>1. Filled(d)' = Filled(d) /\ Freed(d)' = Freed(d)
    BY DEF WriteRegister, Filled, Freed
  <2>2. HeadWrites(d) /\ TailWrites(d)
    BY DEF NicInv, WritesOK
  <2>3. \A i \in DOMAIN posted : i # 1 /\ posted[i].op = "head" /\ posted[i].q = RingQ[d] =>
          RQ(d)'.head <= posted[i].val
    BY WriteRing
  <2>4. ASSUME NEW i \in DOMAIN posted', posted'[i].op = "head", posted'[i].q = RingQ[d]
        PROVE  /\ RQ(d)'.head <= posted'[i].val /\ posted'[i].val <= Filled(d)'
               /\ \A j \in 1..i : posted'[j].op = "head" /\ posted'[j].q = RingQ[d] =>
                    posted'[j].val <= posted'[i].val
    <3>1. i + 1 \in DOMAIN posted /\ posted'[i] = posted[i + 1] /\ i + 1 # 1 /\ i \in Nat
      BY <1>1
    <3>2. RQ(d)'.head <= posted'[i].val /\ posted'[i].val <= Filled(d)'
      BY <2>1, <2>2, <2>3, <2>4, <3>1 DEF HeadWrites
    <3>3. ASSUME NEW j \in 1..i, posted'[j].op = "head", posted'[j].q = RingQ[d]
          PROVE  posted'[j].val <= posted'[i].val
      <4>1. j \in DOMAIN posted'
        BY <3>1, WriteIsOldest
      <4>2. j + 1 \in 1..(i + 1) /\ posted'[j] = posted[j + 1]
        BY <1>1, <3>1, <4>1
      <4> QED BY <2>2, <2>4, <3>1, <3>3, <4>2 DEF HeadWrites
    <3> QED BY <3>2, <3>3
  <2>5. HeadWrites(d)'
    BY <2>4 DEF HeadWrites
  <2>6. \A i \in DOMAIN posted' : posted'[i].op = "tail" /\ posted'[i].q = CqOf[d] =>
          posted'[i].val = Freed(d)'
    BY <1>1, <2>1, <2>2 DEF TailWrites
  <2>7. ASSUME \A i \in DOMAIN posted' : ~(posted'[i].op = "tail" /\ posted'[i].q = CqOf[d])
        PROVE  CQ(d)'.tail = Freed(d)'
    <3>1. CASE posted[1].op = "tail" /\ posted[1].q = CqOf[d]
      BY <2>1, <3>1, WriteCpl
    <3>2. CASE ~(posted[1].op = "tail" /\ posted[1].q = CqOf[d])
      <4>1. \A i \in DOMAIN posted : ~(posted[i].op = "tail" /\ posted[i].q = CqOf[d])
        BY <1>1, <2>7, <3>2
      <4>2. CQ(d).tail = Freed(d)
        BY <2>2, <4>1 DEF TailWrites
      <4> QED BY <2>1, <3>2, <4>2, WriteCpl
    <3> QED BY <3>1, <3>2
  <2>8. TailWrites(d)'
    BY <2>6, <2>7 DEF TailWrites
  <2> QED BY <2>5, <2>8
<1> QED BY <1>2, <1>3 DEF WritesOK

\* A queue is active with the write that activates it, and the others wait for
\* theirs.
LEMMA WriteActivation == ASSUME NicInv, WriteRegister PROVE Activation'
<1> DEFINE w == posted[1]
           now(x) == w.op = "activate" /\ w.q = x
<1>0. PICK n \in Nat : n = Len(posted)
  BY WriteTypes DEF NicInv
<1>1. /\ \A i \in DOMAIN posted' : i + 1 \in DOMAIN posted /\ posted'[i] = posted[i + 1]
      /\ \A i \in DOMAIN posted : i # 1 => i - 1 \in DOMAIN posted' /\ posted'[i - 1] = posted[i]
      /\ 1 \in DOMAIN posted /\ n \in Nat /\ n >= 1 /\ Len(posted') = n - 1
      /\ DOMAIN posted' = 1..(n - 1) /\ DOMAIN posted = 1..n
  BY <1>0, WriteIsOldest, WriteTypes DEF NicInv
<1>2. \A x \in Queues : /\ q[x].active \/ now(x) => q'[x].active
                        /\ q'[x].active => q[x].active \/ now(x)
  <2>1. /\ w.op \in {"head", "tail", "arm", "activate"} /\ w.q \in Queues
        /\ \A x \in Queues : x # w.q => q'[x] = q[x]
        /\ w.op \in {"head", "tail", "arm"} => q'[w.q].active = q[w.q].active
        /\ w.op = "activate" => q'[w.q].active = TRUE
    BY WriteQueue
  <2>2. \A x \in Queues : q[x].active \in BOOLEAN
    BY RecordTypes DEF NicInv, QueueRecords
  <2> QED BY <2>1, <2>2
<1>3. \A x : ToCome(x)' = ToCome(x)
  BY DEF ToCome, WriteRegister
<1>4. ASSUME NEW x, NEW k \in 0..(n - 1)
      PROVE  /\ Due(x, k)' => Due(x, k + 1)
             /\ Due(x, k + 1) => now(x) \/ Due(x, k)'
             /\ now(x) => Due(x, k + 1)
  <2>1. ASSUME Due(x, k)' PROVE Due(x, k + 1)
    <3>1. PICK j \in 1..k : posted'[j].op = "activate" /\ posted'[j].q = x
      BY <2>1 DEF Due
    <3>2. j \in DOMAIN posted' /\ j + 1 \in 1..(k + 1)
      BY <1>1
    <3>3. posted'[j] = posted[j + 1]
      BY <1>1, <3>2
    <3> QED BY <3>1, <3>2, <3>3 DEF Due
  <2>2. ASSUME Due(x, k + 1), ~now(x) PROVE Due(x, k)'
    <3>1. PICK j \in 1..(k + 1) : posted[j].op = "activate" /\ posted[j].q = x
      BY <2>2 DEF Due
    <3>2. j # 1
      BY <2>2, <3>1
    <3>3. j \in DOMAIN posted /\ j - 1 \in 1..k
      BY <1>1, <3>2
    <3>4. posted'[j - 1] = posted[j]
      BY <1>1, <3>2, <3>3
    <3> QED BY <3>1, <3>3, <3>4 DEF Due
  <2>3. ASSUME now(x) PROVE Due(x, k + 1)
    <3>1. 1 \in 1..(k + 1)
      OBVIOUS
    <3> QED BY <2>3, <3>1 DEF Due
  <2> QED BY <2>1, <2>2, <2>3
<1>5. /\ main \in Seq(Steps) /\ Len(main) <= 8
      /\ \A j \in 1..Len(main) : main[j] = ToDo[8 - Len(main) + j]
      /\ \A x \in Queues : ToCome(x) => ~q[x].active /\ ~Due(x, n)
      /\ \A x \in Queues : ToCome(x) \/ q[x].active \/ Due(x, n)
      /\ \A x \in Queues : \A i \in DOMAIN posted : posted[i].op = "activate" /\ posted[i].q = x =>
           ~q[x].active /\ ~Due(x, i - 1)
      /\ \A d \in Dirs :
           /\ RQ(d).active => CQ(d).active
           /\ \A i \in DOMAIN posted : posted[i].op = "activate" /\ posted[i].q = RingQ[d] =>
                CQ(d).active \/ Due(CqOf[d], i - 1)
           /\ ~RQ(d).active => RQ(d).tail = 0 /\ RQ(d).ops = <<>>
           /\ ~CQ(d).active => CQ(d).head = 0 /\ CQ(d).ops = <<>>
  BY <1>0 DEF NicInv, Activation
<1>6. ASSUME NEW x
      PROVE  /\ Due(x, n - 1)' => Due(x, n)
             /\ Due(x, n) => now(x) \/ Due(x, n - 1)'
             /\ now(x) => Due(x, n)
  <2>1. PICK k \in 0..(n - 1) : k = n - 1 /\ k + 1 = n
    BY <1>1
  <2> HIDE DEF now
  <2>2. /\ Due(x, k)' => Due(x, k + 1)
        /\ Due(x, k + 1) => now(x) \/ Due(x, k)'
        /\ now(x) => Due(x, k + 1)
    BY <1>4, <2>1
  <2> QED BY <2>1, <2>2
<1>7. ASSUME NEW x \in Queues, ToCome(x)' PROVE ~q'[x].active /\ ~Due(x, n - 1)'
  <2>1. ~q[x].active /\ ~Due(x, n)
    BY <1>3, <1>5, <1>7
  <2> QED BY <1>2, <1>6, <2>1
<1>8. ASSUME NEW x \in Queues PROVE ToCome(x)' \/ q'[x].active \/ Due(x, n - 1)'
  <2>1. ToCome(x) \/ q[x].active \/ Due(x, n)
    BY <1>5
  <2> QED BY <1>2, <1>3, <1>6, <2>1
<1>9. ASSUME NEW i \in DOMAIN posted', posted'[i].op = "activate"
      PROVE  /\ i + 1 \in DOMAIN posted /\ i - 1 \in 0..(n - 1) /\ (i - 1) + 1 = i
             /\ posted[i + 1].op = "activate" /\ posted[i + 1].q = posted'[i].q
             /\ (i + 1) - 1 = i
  <2>1. i + 1 \in DOMAIN posted /\ posted'[i] = posted[i + 1] /\ i \in 1..(n - 1)
    BY <1>1
  <2>2. i - 1 \in 0..(n - 1) /\ (i - 1) + 1 = i /\ (i + 1) - 1 = i
    BY <1>1, <2>1
  <2> QED BY <1>9, <2>1, <2>2
<1>10. ASSUME NEW x \in Queues, NEW i \in DOMAIN posted', posted'[i].op = "activate", posted'[i].q = x
       PROVE  ~q'[x].active /\ ~Due(x, i - 1)'
  <2>1. i + 1 \in DOMAIN posted /\ posted[i + 1].op = "activate" /\ posted[i + 1].q = x
        /\ (i + 1) - 1 = i /\ i - 1 \in 0..(n - 1) /\ (i - 1) + 1 = i
    BY <1>9, <1>10
  <2>2. ~q[x].active /\ ~Due(x, i)
    BY <1>5, <2>1
  <2>3. ~now(x) /\ ~Due(x, i - 1)'
    BY <1>4, <2>1, <2>2
  <2> QED BY <1>2, <2>2, <2>3
<1>11. ASSUME NEW d \in Dirs
       PROVE  /\ RQ(d).active => RQ(d)'.active
              /\ RQ(d)'.active => RQ(d).active \/ now(RingQ[d])
              /\ CQ(d).active \/ now(CqOf[d]) => CQ(d)'.active
              /\ RQ(d)'.tail = RQ(d).tail /\ RQ(d)'.ops = RQ(d).ops
              /\ CQ(d)'.head = CQ(d).head /\ CQ(d)'.ops = CQ(d).ops
  <2>1. RingQ[d] \in Queues /\ CqOf[d] \in Queues
    BY Names
  <2>2. (RQ(d).active => RQ(d)'.active) /\ (RQ(d)'.active => RQ(d).active \/ now(RingQ[d]))
    BY <1>2, <2>1 DEF RQ
  <2>3. CQ(d).active \/ now(CqOf[d]) => CQ(d)'.active
    BY <1>2, <2>1 DEF CQ
  <2> QED BY <2>2, <2>3, WriteRing, WriteCpl
<1>12. ASSUME NEW d \in Dirs, RQ(d)'.active PROVE CQ(d)'.active
  <2>1. CASE RQ(d).active
    BY <1>5, <1>11, <2>1
  <2>2. CASE now(RingQ[d])
    <3>1. CQ(d).active \/ Due(CqOf[d], 1 - 1)
      BY <1>1, <1>5, <2>2
    <3>2. ~Due(CqOf[d], 1 - 1)
      BY DEF Due
    <3> QED BY <1>11, <3>1, <3>2
  <2> QED BY <1>11, <1>12, <2>1, <2>2
<1>13. ASSUME NEW d \in Dirs, NEW i \in DOMAIN posted', posted'[i].op = "activate",
              posted'[i].q = RingQ[d]
       PROVE  CQ(d)'.active \/ Due(CqOf[d], i - 1)'
  <2>1. i + 1 \in DOMAIN posted /\ posted[i + 1].op = "activate" /\ posted[i + 1].q = RingQ[d]
        /\ (i + 1) - 1 = i /\ i - 1 \in 0..(n - 1) /\ (i - 1) + 1 = i
    BY <1>9, <1>13
  <2>2. CQ(d).active \/ Due(CqOf[d], i)
    BY <1>5, <2>1
  <2>3. Due(CqOf[d], i) => now(CqOf[d]) \/ Due(CqOf[d], i - 1)'
    BY <1>4, <2>1
  <2> QED BY <1>11, <2>2, <2>3
<1>14. main' = main
  BY DEF WriteRegister
<1>15. \A d \in Dirs : /\ ~RQ(d)'.active => RQ(d)'.tail = 0 /\ RQ(d)'.ops = <<>>
                       /\ ~CQ(d)'.active => CQ(d)'.head = 0 /\ CQ(d)'.ops = <<>>
  <2> SUFFICES ASSUME NEW d \in Dirs
               PROVE  /\ ~RQ(d)'.active => RQ(d)'.tail = 0 /\ RQ(d)'.ops = <<>>
                      /\ ~CQ(d)'.active => CQ(d)'.head = 0 /\ CQ(d)'.ops = <<>>
    OBVIOUS
  <2>1. (~RQ(d)'.active => ~RQ(d).active) /\ (~CQ(d)'.active => ~CQ(d).active)
    BY <1>11
  <2>2. /\ ~RQ(d).active => RQ(d).tail = 0 /\ RQ(d).ops = <<>>
        /\ ~CQ(d).active => CQ(d).head = 0 /\ CQ(d).ops = <<>>
    BY <1>5
  <2> QED BY <1>11, <2>1, <2>2
<1>16. /\ main' \in Seq(Steps) /\ Len(main') <= 8
       /\ \A j \in 1..Len(main') : main'[j] = ToDo[8 - Len(main') + j]
  BY <1>5, <1>14
<1>17. Len(posted') = n - 1
  BY <1>1
<1>18. \A x : Due(x, Len(posted))' = Due(x, n - 1)'
  BY <1>17 DEF Due
<1>19. \A x \in Queues : \A i \in DOMAIN posted' : posted'[i].op = "activate" /\ posted'[i].q = x =>
         ~q'[x].active /\ ~Due(x, i - 1)'
  BY <1>10
<1>20. \A d \in Dirs : \A i \in DOMAIN posted' : posted'[i].op = "activate" /\ posted'[i].q = RingQ[d] =>
         CQ(d)'.active \/ Due(CqOf[d], i - 1)'
  BY <1>13
<1>21. \A d \in Dirs : RQ(d)'.active => CQ(d)'.active
  BY <1>12
<1>22. ASSUME NEW d \in Dirs
       PROVE  /\ RQ(d)'.active => CQ(d)'.active
              /\ \A i \in DOMAIN posted' : posted'[i].op = "activate" /\ posted'[i].q = RingQ[d] =>
                   CQ(d)'.active \/ Due(CqOf[d], i - 1)'
              /\ ~RQ(d)'.active => RQ(d)'.tail = 0 /\ RQ(d)'.ops = <<>>
              /\ ~CQ(d)'.active => CQ(d)'.head = 0 /\ CQ(d)'.ops = <<>>
  BY <1>15, <1>20, <1>21
<1>23. \A x \in Queues : ToCome(x)' => ~q'[x].active /\ ~Due(x, Len(posted))'
  BY <1>7, <1>18
<1>24. \A x \in Queues : ToCome(x)' \/ q'[x].active \/ Due(x, Len(posted))'
  BY <1>8, <1>18
<1> HIDE DEF now
<1> QED BY <1>16, <1>19, <1>22, <1>23, <1>24 DEF Activation

\* A register write reaches the device.
LEMMA WriteRegisterInv == NicInv /\ WriteRegister => NicInv'
<1> SUFFICES ASSUME NicInv, WriteRegister PROVE NicInv'
  OBVIOUS
<1>1. UNCHANGED <<ring, cq, eq, pool, main, intr, portUp, raised, mem, work, net, lost>> /\ Types
  BY DEF WriteRegister, NicInv
<1>2. WritesOK' /\ Activation' /\ QueueTypes' /\ posted' \in Seq(Writes)
  BY WriteWrites, WriteActivation, WriteQueue, WriteIsOldest
<1>3. events' \in [Dirs -> Nat] /\ msi' \in [asked : BOOLEAN, sent : Nat]
  BY <1>1, RaiseType DEF WriteRegister
<1>4. Types'
  BY <1>1, <1>2, <1>3 DEF Types, DriverTypes, MemoryTypes, FrameTypes
<1>5. AtEvent'
  BY <1>1 DEF NicInv, AtEvent
<1>6. PoolOK'
  BY <1>1, SamePool DEF NicInv
<1>7. ASSUME NEW d \in Dirs
      PROVE  /\ RQ(d)'.tail = RQ(d).tail /\ RQ(d)'.ops = RQ(d).ops
             /\ CQ(d)'.head = CQ(d).head /\ CQ(d)'.ops = CQ(d).ops
  BY WriteRing, WriteCpl
<1>8. "tx" \in Dirs /\ "rx" \in Dirs
  BY Names
<1>9. TxData'
  BY <1>1, <1>7, <1>8, SameTx DEF NicInv
<1>10. RxOK'
  BY <1>1, <1>7, <1>8, SameRx DEF NicInv, Buf
<1>11. ASSUME NEW d \in Dirs PROVE Rows(d)'
  <2>1. /\ Filled(d)' = Filled(d) /\ Freed(d)' = Freed(d) /\ Asked(d)' = Asked(d)
        /\ Fetched(d)' = Fetched(d) /\ Moved(d)' = Moved(d) /\ Completed(d)' = Completed(d)
        /\ InWork(d)' = InWork(d) /\ Held(d)' = Held(d) /\ \A p : Buf(d, p)' = Buf(d, p)
    BY <1>1, <1>7 DEF Filled, Freed, Asked, Fetched, Moved, Completed, InWork, Held, Buf
  <2>2. Rows(d)
    BY DEF NicInv
  <2>3. Order(d)'
    <3>1. Asked(d) <= RQ(d)'.head /\ RQ(d)'.head <= Filled(d)
      BY WriteRing
    <3>2. ring[d].clean <= CQ(d)'.tail /\ CQ(d)'.tail <= Freed(d)
      <4>1. CQ(d)'.tail = Freed(d) \/ CQ(d)'.tail = CQ(d).tail
        BY WriteCpl
      <4>2. /\ ring[d].clean <= CQ(d).tail /\ CQ(d).tail <= Freed(d)
            /\ ring[d].clean \in Nat /\ CQ(d).tail \in Nat /\ Freed(d) \in Nat
        BY <2>2, Counts DEF Rows, Order, NicInv, Types, DriverTypes, RingRecords
      <4> QED BY <4>1, <4>2
    <3> QED BY <1>1, <2>1, <2>2, <3>1, <3>2 DEF Rows, Order
  <2>4. Ops(d)'
    BY <1>1, <1>7, <2>1, <2>2 DEF Rows, Ops
  <2>5. Jobs(d)'
    BY <1>1, <2>1, <2>2 DEF Rows, Jobs
  <2>6. Entry(d)'
    BY <1>1, <2>1, <2>2 DEF Rows, Entry
  <2> QED BY <2>3, <2>4, <2>5, <2>6 DEF Rows
<1> QED BY <1>2, <1>4, <1>5, <1>6, <1>9, <1>10, <1>11 DEF NicInv

-----------------------------------------------------------------------------
(* The steps of the driver that fill entries. *)

\* Entries that are filled or counted as clean leave those before them alone.
LEMMA RowsKept ==
  ASSUME NicInv, UNCHANGED <<q, work, cq>>, mem'.cpl = mem.cpl,
         \A e \in Dirs : Order(e)' /\ Entry(e)',
         \A e \in Dirs : \A p \in Held(e) : Buf(e, p)' = Buf(e, p)
  PROVE  \A e \in Dirs : Rows(e)'
<1> SUFFICES ASSUME NEW e \in Dirs PROVE Rows(e)'
  OBVIOUS
<1>1. /\ Freed(e)' = Freed(e) /\ Asked(e)' = Asked(e) /\ Fetched(e)' = Fetched(e)
      /\ Moved(e)' = Moved(e) /\ Completed(e)' = Completed(e) /\ InWork(e)' = InWork(e)
      /\ RQ(e)' = RQ(e) /\ CQ(e)' = CQ(e)
  BY DEF Freed, Asked, Fetched, Moved, Completed, InWork, RQ, CQ
<1>2. Ops(e) /\ Jobs(e)
  BY DEF NicInv, Rows
<1>3. Ops(e)'
  BY <1>1, <1>2 DEF Ops
<1>4. ASSUME NEW i \in DOMAIN work[e], i <= Fetched(e) - Moved(e)
      PROVE  Moved(e) + i - 1 \in Held(e)
  <2> DEFINE M == Moved(e)
             F == Fetched(e)
             A == Freed(e)
             B == Filled(e)
  <2>1. /\ A \in Nat /\ M \in Nat /\ F \in Nat /\ B \in Nat /\ A <= M /\ F <= B
    <3>1. /\ Freed(e) \in Nat /\ Completed(e) \in Nat /\ Moved(e) \in Nat /\ Fetched(e) \in Nat
          /\ Asked(e) \in Nat /\ Filled(e) \in Nat /\ RQ(e).head \in Nat
          /\ Freed(e) <= Completed(e) /\ Completed(e) <= Moved(e) /\ Fetched(e) <= Asked(e)
          /\ Asked(e) <= RQ(e).head /\ RQ(e).head <= Filled(e)
      BY Counts DEF NicInv, Rows
    <3> QED BY <3>1
  <2>2. i \in Nat /\ i >= 1 /\ i <= F - M
    BY <1>4, WorkFacts
  <2> HIDE DEF M, F, A, B
  <2>3. M + i - 1 \in A..(B - 1)
    BY <2>1, <2>2
  <2> QED BY <2>3 DEF Held, M, A, B
<1>5. Jobs(e)'
  <2>1. \A i \in DOMAIN work[e] : i <= Fetched(e) - Moved(e) =>
          Buf(e, Moved(e) + i - 1)' = Buf(e, Moved(e) + i - 1)
    <3> SUFFICES ASSUME NEW i \in DOMAIN work[e], i <= Fetched(e) - Moved(e)
                 PROVE  Buf(e, Moved(e) + i - 1)' = Buf(e, Moved(e) + i - 1)
      OBVIOUS
    <3>1. PICK p : p = Moved(e) + i - 1
      OBVIOUS
    <3>2. Buf(e, p)' = Buf(e, p)
      BY <1>4, <3>1
    <3>3. Moved(e)' + i - 1 = p
      BY <1>1, <3>1
    <3> QED BY <3>1, <3>2, <3>3 DEF Buf
  <2> QED BY <1>1, <1>2, <2>1 DEF Jobs
<1> QED BY <1>3, <1>5 DEF Rows

\* The frames received are the same if their entries, their data and the
\* engine are.
LEMMA RxKept ==
  ASSUME NicInv, UNCHANGED <<q, work, cq>>,
         net'.got = net.got, net'.arrived = net.arrived, net'.dropped = net.dropped,
         \A p \in Held("rx") : Buf("rx", p)' = Buf("rx", p)
                               /\ mem'.buf[Buf("rx", p)] = mem.buf[Buf("rx", p)]
  PROVE  RxOK'
<1>1. "rx" \in Dirs
  BY Names
<1>2. \A p \in Freed("rx")..(Moved("rx") - 1) : p \in Held("rx")
  <2> DEFINE M == Moved("rx")
             A == Freed("rx")
             B == Filled("rx")
  <2>1. /\ Freed("rx") \in Nat /\ Moved("rx") \in Nat /\ Fetched("rx") \in Nat
        /\ Asked("rx") \in Nat /\ Filled("rx") \in Nat /\ RQ("rx").head \in Nat
        /\ Moved("rx") <= Fetched("rx") /\ Fetched("rx") <= Asked("rx")
        /\ Asked("rx") <= RQ("rx").head /\ RQ("rx").head <= Filled("rx")
    BY <1>1, Counts DEF NicInv, Rows
  <2>2. A \in Nat /\ M \in Nat /\ B \in Nat /\ M <= B
    BY <2>1
  <2> HIDE DEF M, A, B
  <2>3. \A p \in A..(M - 1) : p \in A..(B - 1)
    BY <2>2
  <2> QED BY <2>3 DEF Held, M, A, B
<1>3. RQ("rx")' = RQ("rx") /\ CQ("rx")' = CQ("rx")
  BY DEF RQ, CQ
<1> QED BY <1>2, <1>3, SameRx DEF NicInv

\* Entries are filled within the ring, and its clean tail may move up to what
\* the completion queue has been told.
LEMMA FillRows ==
  ASSUME NicInv, NEW d \in Dirs, NEW r \in RingRecords, NEW n \in 0..Size, Fills(d, r, n),
         UNCHANGED <<q, work>>, mem'.cpl = mem.cpl,
         ring[d].clean <= r.clean, r.clean <= CQ(d).tail, r.clean <= r.tail,
         r.tail <= Fetched(d), r.head + n <= r.clean + Size
  PROVE  /\ \A e \in Dirs : Rows(e)'
         /\ PoolOK' /\ ring' \in [Dirs -> RingRecords] /\ pool' \in [made : Nat, free : Seq(Nat)]
         /\ mem'.desc \in [Dirs -> [Slots -> MaybeBuf]]
         /\ ring'[d].head = ring[d].head + n /\ ring'[d].head \in Nat
         /\ \A e \in Dirs : e # d => ring'[e] = ring[e]
         /\ \A e \in Dirs : ring'[e].head \in Nat /\ ring'[e].head >= ring[e].head
         /\ \A e \in Dirs : \A p \in Held(e) : Buf(e, p)' = Buf(e, p)
<1> DEFINE f == Fill(d, r, n)
<1>1. Types /\ PoolOK /\ Spare /\ \A e \in Dirs : Order(e) /\ Entry(e)
  BY DEF NicInv, Rows, PoolOK, Spare
<1>2. /\ f.ring \in RingRecords /\ f.desc \in [Slots -> MaybeBuf]
      /\ f.ring.head = r.head + n /\ f.ring.tail = r.tail /\ f.ring.clean = r.clean
      /\ f.pool = Alloc(n).pool
  BY <1>1, FillFacts
<1>3. /\ ring' = [ring EXCEPT ![d] = f.ring] /\ cq' = cq /\ r.head = ring[d].head
      /\ mem'.desc = [mem.desc EXCEPT ![d] = f.desc] /\ pool' = f.pool
  BY DEF Fills
<1> HIDE DEF f
<1>4. PoolOK'
  BY <1>1, FillPool
<1>5. /\ \A e \in Dirs : \A p \in Held(e) : Buf(e, p)' = Buf(e, p)
      /\ \A e \in Dirs : Entry(e)'
  BY <1>1, FillMoves
<1>6. ring \in [Dirs -> RingRecords] /\ mem.desc \in [Dirs -> [Slots -> MaybeBuf]]
  BY <1>1 DEF Types, DriverTypes, MemoryTypes
<1>7. /\ ring' \in [Dirs -> RingRecords] /\ mem'.desc \in [Dirs -> [Slots -> MaybeBuf]]
      /\ ring'[d] = f.ring /\ \A e \in Dirs : e # d => ring'[e] = ring[e]
  BY <1>2, <1>3, <1>6
<1>8. pool' \in [made : Nat, free : Seq(Nat)]
  BY <1>1, <1>2, <1>3, AllocFacts
<1>9. \A e \in Dirs : ring[e].head \in Nat /\ ring[e].clean \in Nat /\ ring[e].tail \in Nat
  BY <1>6 DEF RingRecords
<1>10. \A e \in Dirs : ring'[e].head \in Nat /\ ring'[e].head >= ring[e].head
  BY <1>2, <1>3, <1>7, <1>9
<1>11. /\ ring'[d].head = ring[d].head + n /\ ring'[d].tail = r.tail
       /\ ring'[d].clean = r.clean /\ r.head = ring[d].head
  BY <1>2, <1>3, <1>7
<1>12. \A e \in Dirs : Order(e)'
  <2> SUFFICES ASSUME NEW e \in Dirs PROVE Order(e)'
    OBVIOUS
  <2>1. /\ Freed(e)' = Freed(e) /\ Asked(e)' = Asked(e) /\ Fetched(e)' = Fetched(e)
        /\ Moved(e)' = Moved(e) /\ Completed(e)' = Completed(e)
        /\ RQ(e)' = RQ(e) /\ CQ(e)' = CQ(e) /\ cq'[e] = cq[e]
    BY <1>3 DEF Freed, Asked, Fetched, Moved, Completed, RQ, CQ
  <2>2. Order(e)
    BY <1>1
  <2>3. CASE e # d
    <3>1. Filled(e)' = Filled(e) /\ ring'[e] = ring[e]
      BY <1>7, <2>3 DEF Filled
    <3> QED BY <2>1, <2>2, <3>1 DEF Order
  <2>4. CASE e = d
    <3>1. RQ(d).head <= ring'[d].head
      <4>1. /\ RQ(d).head \in Nat /\ ring[d].head \in Nat /\ RQ(d).head <= ring[d].head
            /\ ring'[d].head \in Nat /\ ring'[d].head >= ring[d].head
        BY <1>1, <1>9, <1>10, Counts DEF Filled
      <4> QED BY <4>1
    <3>2. ring'[d].head <= ring'[d].clean + Size
      BY <1>11
    <3> QED BY <1>11, <2>1, <2>2, <2>4, <3>1, <3>2 DEF Order, Filled
  <2> QED BY <2>3, <2>4
<1>13. \A e \in Dirs : Rows(e)'
  BY <1>3, <1>5, <1>12, RowsKept
<1> QED BY <1>4, <1>5, <1>7, <1>8, <1>10, <1>11, <1>13

\* The receive ring is refilled after its clean tail has moved up: what is
\* written to the device is where it is filled to.
LEMMA RefillInv ==
  ASSUME NicInv, NEW r \in RingRecords, Refill(r), UNCHANGED <<q, work, cq, net>>,
         r.head = ring["rx"].head, r.info = ring["rx"].info,
         ring["rx"].clean <= r.clean, r.clean <= CQ("rx").tail, r.clean <= r.tail,
         r.tail <= Fetched("rx")
  PROVE  /\ \A e \in Dirs : Rows(e)'
         /\ PoolOK' /\ TxData' /\ RxOK' /\ MemoryTypes' /\ ring' \in [Dirs -> RingRecords]
         /\ pool' \in [made : Nat, free : Seq(Nat)]
         /\ \A e \in Dirs : ring'[e].head \in Nat /\ ring'[e].head >= ring[e].head
         /\ HeadWrite(r) \in Seq(Writes)
         /\ \A i \in DOMAIN HeadWrite(r) : /\ HeadWrite(r)[i].op = "head" /\ HeadWrite(r)[i].q = "rxq"
                                           /\ HeadWrite(r)[i].val = ring'["rx"].head
<1> DEFINE n == RefillCount(r)
           f == Fill("rx", r, n)
<1>1. /\ ring' = [ring EXCEPT !["rx"] = f.ring] /\ mem' = [mem EXCEPT !.desc["rx"] = f.desc]
      /\ pool' = f.pool
  BY DEF Refill
<1>2. "tx" \in Dirs /\ "rx" \in Dirs /\ Types /\ \A e \in Dirs : Order(e)
  BY Names DEF NicInv, Rows
<1>3. /\ r.head \in Nat /\ r.clean \in Nat /\ r.clean <= r.head /\ r.head <= r.clean + Size
      /\ r.clean + Size < PtrMod /\ r.clean <= Freed("rx") /\ Freed("rx") \in Nat
  <2>1. /\ CQ("rx").tail \in Nat /\ Freed("rx") \in Nat /\ ring["rx"].head \in Nat
        /\ ring["rx"].clean \in Nat /\ r.clean \in Nat /\ r.head \in Nat
    BY <1>2, Counts DEF Types, DriverTypes, RingRecords
  <2>2. /\ CQ("rx").tail <= Freed("rx") /\ Freed("rx") <= Size
        /\ ring["rx"].head <= ring["rx"].clean + Size
    BY <1>2 DEF Order, Filled
  <2>3. Freed("rx") <= ring["rx"].head
    <3>1. /\ Freed("rx") \in Nat /\ Completed("rx") \in Nat /\ Moved("rx") \in Nat
          /\ Fetched("rx") \in Nat /\ Asked("rx") \in Nat /\ Filled("rx") \in Nat
          /\ RQ("rx").head \in Nat
          /\ Freed("rx") <= Completed("rx") /\ Completed("rx") <= Moved("rx")
          /\ Moved("rx") <= Fetched("rx") /\ Fetched("rx") <= Asked("rx")
          /\ Asked("rx") <= RQ("rx").head /\ RQ("rx").head <= Filled("rx")
      BY <1>2, Counts
    <3> QED BY <3>1 DEF Filled
  <2> DEFINE a == CQ("rx").tail
             b == Freed("rx")
             h == ring["rx"].head
             c == ring["rx"].clean
             k == r.clean
  <2>4. /\ a \in Nat /\ b \in Nat /\ h \in Nat /\ c \in Nat /\ k \in Nat
        /\ c <= k /\ k <= a /\ a <= b /\ b <= Size /\ b <= h /\ h <= c + Size
        /\ Size \in Nat /\ PtrMod \in Nat /\ PtrMod > 2 * Size /\ 2 * Size = Size + Size
    BY <2>1, <2>2, <2>3, Sizes
  <2> HIDE DEF a, b, h, c, k
  <2>5. k <= h /\ h <= k + Size /\ k + Size < PtrMod /\ k <= b
    BY <2>4
  <2> QED BY <2>1, <2>5 DEF b, h, k
<1>4. n \in 0..Size /\ r.head + n <= r.clean + Size
  <2> DEFINE m == Size - (r.head - r.clean)
  <2>1. m \in 0..Size /\ r.head + m = r.clean + Size
    BY <1>3, Sizes
  <2>2. n = 0 \/ n = m
    BY DEF RefillCount, Missing
  <2> HIDE DEF n, m
  <2> QED BY <1>3, <2>1, <2>2, Sizes
<1> HIDE DEF n
<1>5. Filled("rx") + n <= Freed("rx") + Size
  <2>1. r.head + n <= Freed("rx") + Size
    <3> DEFINE h == r.head
               k == r.clean
               b == Freed("rx")
    <3>1. h \in Nat /\ n \in Nat /\ k \in Nat /\ b \in Nat /\ Size \in Nat /\ h + n <= k + Size
          /\ k <= b
      BY <1>3, <1>4, Sizes
    <3> HIDE DEF h, k, b
    <3>2. h + n <= b + Size
      BY <3>1
    <3> QED BY <3>2 DEF h, b
  <2> QED BY <2>1 DEF Filled
<1>6. mem = [desc |-> mem.desc, cpl |-> mem.cpl, ev |-> mem.ev, buf |-> mem.buf]
  BY <1>2 DEF Types, MemoryTypes
<1> HIDE DEF f
<1>7. /\ mem'.desc = [mem.desc EXCEPT !["rx"] = f.desc] /\ mem'.cpl = mem.cpl
      /\ mem'.buf = mem.buf
      /\ mem' = [desc |-> mem'.desc, cpl |-> mem.cpl, ev |-> mem.ev, buf |-> mem.buf]
  BY <1>1, <1>6
<1>8. Fills("rx", r, n)
  BY <1>1, <1>5, <1>7 DEF Fills, f
<1>9. /\ \A e \in Dirs : Rows(e)'
      /\ PoolOK' /\ ring' \in [Dirs -> RingRecords] /\ pool' \in [made : Nat, free : Seq(Nat)]
      /\ mem'.desc \in [Dirs -> [Slots -> MaybeBuf]]
      /\ ring'["rx"].head = ring["rx"].head + n /\ ring'["rx"].head \in Nat
      /\ \A e \in Dirs : e # "rx" => ring'[e] = ring[e]
      /\ \A e \in Dirs : ring'[e].head \in Nat /\ ring'[e].head >= ring[e].head
      /\ \A e \in Dirs : \A p \in Held(e) : Buf(e, p)' = Buf(e, p)
  BY <1>2, <1>4, <1>7, <1>8, FillRows
<1>10. TxData'
  <2>1. ring'["tx"] = ring["tx"] /\ CQ("tx")' = CQ("tx")
    BY <1>2, <1>9 DEF CQ
  <2> QED BY <1>7, <2>1, SameTx DEF NicInv
<1>11. RxOK'
  BY <1>2, <1>7, <1>9, RxKept
<1>12. MemoryTypes'
  <2>1. /\ mem.cpl \in [Dirs -> [Slots -> Nat]] /\ mem.ev \in [0..(EvSize - 1) -> Dirs]
        /\ mem.buf \in [Bufs -> Frames]
    BY <1>2 DEF Types, MemoryTypes
  <2>2. PICK D \in [Dirs -> [Slots -> MaybeBuf]] : D = mem'.desc
    BY <1>9
  <2>3. mem' = [desc |-> D, cpl |-> mem.cpl, ev |-> mem.ev, buf |-> mem.buf]
    BY <1>7, <2>2
  <2> QED BY <2>1, <2>3 DEF MemoryTypes
<1>13. /\ HeadWrite(r) \in Seq(Writes)
       /\ \A i \in DOMAIN HeadWrite(r) : /\ HeadWrite(r)[i].op = "head" /\ HeadWrite(r)[i].q = "rxq"
                                         /\ HeadWrite(r)[i].val = ring'["rx"].head
  <2> DEFINE w == SetHead("rxq", r.head + n)
  <2>1. r.head + n = ring'["rx"].head /\ r.head + n \in Pointers
    <3>1. r.head + n \in Nat
      BY <1>3, <1>4
    <3>2. r.head + n < PtrMod
      <4> DEFINE h == r.head + n
                 k == r.clean + Size
      <4>1. h \in Nat /\ k \in Nat /\ h <= k /\ k < PtrMod /\ PtrMod \in Nat
        BY <1>3, <1>4, <3>1, Sizes
      <4> HIDE DEF h, k
      <4>2. h < PtrMod
        BY <4>1
      <4> QED BY <4>2 DEF h
    <3>3. r.head + n = ring'["rx"].head
      BY <1>9
    <3> QED BY <3>1, <3>2, <3>3, Sizes DEF Pointers
  <2>2. w \in Writes /\ w.op = "head" /\ w.q = "rxq" /\ w.val = ring'["rx"].head
    <3>1. "rxq" \in Queues /\ r.head + n \in Int
      BY <1>3, <1>4 DEF Queues
    <3> QED BY <2>1, <3>1, WriteIs, PtrIs
  <2>3. HeadWrite(r) = <<>> \/ HeadWrite(r) = <<w>>
    BY DEF HeadWrite, n
  <2> HIDE DEF w
  <2>4. CASE HeadWrite(r) = <<>>
    BY <2>4
  <2>5. CASE HeadWrite(r) = <<w>>
    BY <2>2, <2>5
  <2> QED BY <2>3, <2>4, <2>5
<1> QED BY <1>9, <1>10, <1>11, <1>12, <1>13

\* The driver reads the tail of the ring's queue, and its clean tail moves up
\* to the first entry that is not freed: the completion queue has been told of
\* all that are.
LEMMA CleanedIs ==
  ASSUME NicInv, posted = <<>>, NEW d \in Dirs
  PROVE  /\ Advanced(ring[d].tail, RQ(d).tail) = Fetched(d)
         /\ Cleaned(ring[d], Fetched(d)) = Freed(d) /\ CQ(d).tail = Freed(d)
         /\ ring[d].clean <= Freed(d) /\ Freed(d) <= Fetched(d) /\ ring[d].tail <= Fetched(d)
         /\ Freed(d) \in Nat /\ Fetched(d) \in Nat
<1> DEFINE k == ring[d].clean
           A == Freed(d)
           F == Fetched(d)
           B == Filled(d)
<1>1. Types /\ Order(d) /\ Entry(d) /\ TailWrites(d)
  BY DEF NicInv, Rows, WritesOK
<1>2. /\ k \in Nat /\ A \in Nat /\ F \in Nat /\ B \in Nat /\ ring[d].tail \in Nat
      /\ A <= F /\ F <= B /\ F < PtrMod
  <2>1. /\ Freed(d) \in Nat /\ Completed(d) \in Nat /\ Moved(d) \in Nat /\ Fetched(d) \in Nat
        /\ Asked(d) \in Nat /\ Filled(d) \in Nat /\ RQ(d).head \in Nat
        /\ Freed(d) <= Completed(d) /\ Completed(d) <= Moved(d) /\ Moved(d) <= Fetched(d)
        /\ Fetched(d) <= Asked(d) /\ Asked(d) <= RQ(d).head /\ RQ(d).head <= Filled(d)
        /\ Filled(d) < PtrMod
    BY Counts DEF NicInv, Rows
  <2>2. ring[d].clean \in Nat /\ ring[d].tail \in Nat
    BY <1>1 DEF Types, DriverTypes, RingRecords
  <2> QED BY <2>1, <2>2, Sizes
<1>3. CQ(d).tail = A
  BY <1>1 DEF TailWrites
<1>4. k <= A /\ B <= k + Size /\ ring[d].tail <= F
  BY <1>1, <1>3 DEF Order
<1>5. Advanced(ring[d].tail, RQ(d).tail) = F
  BY <1>2, <1>4, AdvancedIs DEF Fetched
<1> DEFINE S == {c \in k..F : \A p \in k..(c - 1) : ring[d].info[p % Size] = NoBuf}
<1> HIDE DEF k, A, F, B
<1>6. A \in S
  <2>1. A \in k..F
    BY <1>2, <1>4
  <2>2. ASSUME NEW p \in k..(A - 1) PROVE ring[d].info[p % Size] = NoBuf
    <3>1. p \in Nat /\ k <= p /\ p < A
      BY <1>2
    <3>2. \A r \in A..(B - 1) : r % Size # p % Size
      <4> SUFFICES ASSUME NEW r \in A..(B - 1), r % Size = p % Size PROVE FALSE
        OBVIOUS
      <4>1. r \in Nat /\ p < r /\ r < B
        BY <1>2, <3>1
      <4>2. p + Size <= r
        BY <3>1, <4>1, SlotOf
      <4> QED BY <1>2, <1>4, <3>1, <4>1, <4>2, Sizes
    <3>3. p % Size \in Slots
      BY <3>1, SlotOf
    <3> QED BY <1>1, <3>2, <3>3 DEF Entry, Held, A, B
  <2> QED BY <2>1, <2>2
<1>7. \A c \in S : c \in Nat /\ c <= A
  <2> SUFFICES ASSUME NEW c \in S PROVE c \in Nat /\ c <= A
    OBVIOUS
  <2>0. c \in Nat /\ c <= F
    BY <1>2
  <2> SUFFICES ASSUME c > A PROVE FALSE
    BY <1>2, <2>0
  <2>1. A \in k..(c - 1) /\ A \in A..(B - 1)
    BY <1>2, <1>4, <2>0
  <2>2. ring[d].info[A % Size] \in Nat
    BY <1>1, <2>1 DEF Entry, Held, Buf, A, B
  <2>3. ring[d].info[A % Size] = NoBuf
    BY <2>1
  <2> QED BY <2>2, <2>3, Sizes
<1>8. Max(S) = A
  <2> HIDE DEF S
  <2>1. \A c \in S : A >= c
    BY <1>2, <1>7
  <2>2. \A c \in S : (\A z \in S : c >= z) => c = A
    BY <1>2, <1>6, <1>7
  <2> QED BY <1>6, <2>1, <2>2 DEF Max
<1>9. Cleaned(ring[d], F) = A
  BY <1>8 DEF Cleaned, k
<1> QED BY <1>2, <1>3, <1>4, <1>5, <1>9 DEF k, A, F

\* The direction of the event that the callback is at.
LEMMA DirIs == Types => Dir \in Dirs
<1> SUFFICES ASSUME Types PROVE Dir \in Dirs
  OBVIOUS
<1>1. intr.at \in Nat
  BY RecordTypes
<1>2. intr.at % EvSize \in 0..(EvSize - 1)
  BY <1>1, Sizes
<1> QED BY <1>2 DEF Dir, Types, MemoryTypes

\* The callback goes on to the next event it read, or to the end.
LEMMA NextEvent ==
  ASSUME NicInv, intr.pc \in {"cq", "ring"}, eq' = eq,
         intr' = [intr EXCEPT !.at = @ + 1, !.pc = IF intr.at + 1 = eq.head THEN "finish" ELSE "cq"]
  PROVE  intr' \in [pc : Pcs, at : Nat, pending : Nat] /\ AtEvent'
<1>1. /\ intr.at \in Nat /\ intr.pending \in Nat /\ eq.head \in Nat /\ eq.tail \in Nat
      /\ intr = [pc |-> intr.pc, at |-> intr.at, pending |-> intr.pending]
      /\ eq.tail <= intr.at /\ intr.at < eq.head
  BY RecordTypes DEF NicInv, AtEvent
<1>2. intr' = [pc |-> IF intr.at + 1 = eq.head THEN "finish" ELSE "cq",
               at |-> intr.at + 1, pending |-> intr.pending]
  BY <1>1
<1>3. /\ intr'.pc \in {"finish", "cq"} /\ intr'.at = intr.at + 1
      /\ intr'.pc = "cq" => intr.at + 1 # eq.head
  BY <1>2
<1>4. intr' \in [pc : Pcs, at : Nat, pending : Nat]
  <2>1. PICK p \in {"finish", "cq"} : p = IF intr.at + 1 = eq.head THEN "finish" ELSE "cq"
    OBVIOUS
  <2>2. intr' = [pc |-> p, at |-> intr.at + 1, pending |-> intr.pending]
    BY <1>2, <2>1
  <2> QED BY <1>1, <2>2 DEF Pcs
<1>5. eq.tail <= intr.at + 1 /\ intr.at + 1 <= eq.head
  BY <1>1
<1>6. intr.at + 1 # eq.head => intr.at + 1 < eq.head
  BY <1>1
<1> QED BY <1>3, <1>4, <1>5, <1>6 DEF AtEvent

\* The rest of the handling of a completion queue: the clean tail moves up, the
\* receive ring is refilled, and the completion queue is armed.
LEMMA ReadRingInv == NicInv /\ ReadRing => NicInv'
<1> SUFFICES ASSUME NicInv, ReadRing PROVE NicInv'
  OBVIOUS
<1>1. Types /\ posted = <<>> /\ "tx" \in Dirs /\ "rx" \in Dirs
  BY Names DEF NicInv, ReadRing, ReadDone
<1>2. PICK d \in Dirs : d = Dir
  BY <1>1, DirIs
<1> DEFINE r == [ring[d] EXCEPT !.tail = Fetched(d), !.clean = Freed(d)]
           ws == (IF d = "rx" THEN HeadWrite(r) ELSE <<>>) \o <<ArmQ(CqOf[d])>>
<1>3. /\ Advanced(ring[d].tail, RQ(d).tail) = Fetched(d)
      /\ Cleaned(ring[d], Fetched(d)) = Freed(d) /\ CQ(d).tail = Freed(d)
      /\ ring[d].clean <= Freed(d) /\ Freed(d) <= Fetched(d) /\ ring[d].tail <= Fetched(d)
      /\ Freed(d) \in Nat /\ Fetched(d) \in Nat
  BY <1>1, CleanedIs
<1>4. /\ IF d = "rx" THEN Refill(r) ELSE ring' = [ring EXCEPT ![d] = r] /\ UNCHANGED <<mem, pool>>
      /\ posted' = posted \o ((IF d = "rx" THEN HeadWrite(r) ELSE <<>>)) \o <<ArmQ(CqOf[d])>>
      /\ intr' = [intr EXCEPT !.at = @ + 1, !.pc = IF intr.at + 1 = eq.head THEN "finish" ELSE "cq"]
      /\ intr.pc \in {"cq", "ring"}
      /\ UNCHANGED <<cq, eq, main, portUp, raised, q, work, events, msi, net, lost>>
  <2>1. Advanced(ring[d].tail, q[RingQ[d]].tail) = Fetched(d)
    BY <1>3 DEF RQ
  <2> HIDE DEF ws
  <2> QED BY <1>2, <1>3, <2>1 DEF ReadRing
<1>5. ring[d] \in RingRecords
  BY <1>1 DEF Types, DriverTypes
<1>6. /\ r \in RingRecords /\ r.head = ring[d].head /\ r.info = ring[d].info
      /\ r.clean = Freed(d) /\ r.tail = Fetched(d)
  <2>1. PICK h \in Nat, t \in Nat, c \in Nat, info \in [Slots -> MaybeBuf] :
          ring[d] = [head |-> h, tail |-> t, clean |-> c, info |-> info]
    BY <1>5 DEF RingRecords
  <2> DEFINE x == [head |-> h, tail |-> t, clean |-> c, info |-> info]
  <2>2. r = [x EXCEPT !.tail = Fetched(d), !.clean = Freed(d)]
    BY <2>1
  <2>3. [x EXCEPT !.tail = Fetched(d), !.clean = Freed(d)]
          = [head |-> h, tail |-> Fetched(d), clean |-> Freed(d), info |-> info]
    <3> DEFINE y == [x EXCEPT !.tail = Fetched(d)]
    <3>1. y = [head |-> h, tail |-> Fetched(d), clean |-> c, info |-> info]
      OBVIOUS
    <3>2. [x EXCEPT !.tail = Fetched(d), !.clean = Freed(d)] = [y EXCEPT !.clean = Freed(d)]
      OBVIOUS
    <3> HIDE DEF y
    <3> QED BY <3>1, <3>2
  <2> HIDE DEF r
  <2> QED BY <1>3, <2>1, <2>2, <2>3 DEF RingRecords
<1> HIDE DEF r
<1>7. ArmQ(CqOf[d]) \in Writes /\ ArmQ(CqOf[d]).op = "arm"
  BY Names, WriteIs
<1>8. CASE d = "rx"
  <2>1. /\ \A e \in Dirs : Rows(e)'
        /\ PoolOK' /\ TxData' /\ RxOK' /\ MemoryTypes' /\ ring' \in [Dirs -> RingRecords]
        /\ pool' \in [made : Nat, free : Seq(Nat)]
        /\ \A e \in Dirs : ring'[e].head \in Nat /\ ring'[e].head >= ring[e].head
        /\ HeadWrite(r) \in Seq(Writes)
        /\ \A i \in DOMAIN HeadWrite(r) : /\ HeadWrite(r)[i].op = "head" /\ HeadWrite(r)[i].q = "rxq"
                                          /\ HeadWrite(r)[i].val = ring'["rx"].head
    <3>1. Refill(r)
      BY <1>4, <1>8
    <3> QED BY <1>3, <1>4, <1>6, <1>8, <3>1, RefillInv
  <2> DEFINE hw == HeadWrite(r)
             a == ArmQ(CqOf[d])
  <2>2. posted' = posted \o (hw \o <<a>>)
    <3>1. posted' = (posted \o hw) \o <<a>>
      BY <1>4, <1>8
    <3> HIDE DEF hw, a
    <3>2. posted \o hw = hw
      BY <1>1, <2>1 DEF hw
    <3>3. posted \o (hw \o <<a>>) = hw \o <<a>>
      BY <1>1, <1>7, <2>1 DEF hw, a
    <3> QED BY <3>1, <3>2, <3>3
  <2>3. /\ hw \o <<a>> \in Seq(Writes)
        /\ \A i \in DOMAIN (hw \o <<a>>) :
             \/ i \in DOMAIN hw /\ (hw \o <<a>>)[i] = hw[i]
             \/ (hw \o <<a>>)[i] = a
    <3>1. hw \in Seq(Writes) /\ a \in Writes
      BY <1>7, <2>1
    <3> HIDE DEF hw, a
    <3> QED BY <3>1
  <2>4. PICK v \in Seq(Writes) : v = hw \o <<a>>
    BY <2>3
  <2>5. \A i \in DOMAIN v : \/ v[i].op = "head" /\ v[i].q = "rxq" /\ v[i].val = ring'["rx"].head
                            \/ v[i].op = "arm"
    <3> SUFFICES ASSUME NEW i \in DOMAIN v
                 PROVE  \/ v[i].op = "head" /\ v[i].q = "rxq" /\ v[i].val = ring'["rx"].head
                        \/ v[i].op = "arm"
      OBVIOUS
    <3>1. (i \in DOMAIN hw /\ v[i] = hw[i]) \/ v[i] = a
      BY <2>3, <2>4
    <3> QED BY <1>7, <2>1, <3>1
  <2>6. Posts(v)
    <3>1. RingQ["rx"] = "rxq" /\ RingQ["tx"] = "txq"
      BY DEF RingQ
    <3> HIDE DEF hw, a
    <3> QED BY <2>2, <2>4, <2>5, <3>1, Names DEF Posts
  <2>7. \A i \in DOMAIN v : v[i].op # "activate"
    BY <2>5
  <2> QED
    <3>1. WritesOK'
      BY <1>1, <1>4, <2>1, <2>6, PostWrites DEF NicInv, Rows, RQ, CQ
    <3>2. Activation'
      BY <1>1, <1>4, <2>6, <2>7, PostActivation DEF NicInv, Posts
    <3>3. intr' \in [pc : Pcs, at : Nat, pending : Nat] /\ AtEvent'
      BY <1>4, NextEvent
    <3>4. posted' \in Seq(Writes)
      BY <1>1, <2>6, PostedIs DEF Posts
    <3>5. Types'
      BY <1>1, <1>4, <2>1, <3>3, <3>4 DEF Types, DriverTypes, QueueTypes, FrameTypes
    <3> QED BY <2>1, <3>1, <3>2, <3>3, <3>5 DEF NicInv
<1>9. CASE d # "rx"
  <2>1. d = "tx"
    BY <1>9, Names
  <2>2. /\ ring' = [ring EXCEPT !["tx"] = r] /\ UNCHANGED <<mem, pool>>
        /\ posted' = posted \o <<ArmQ(CqOf[d])>>
    BY <1>1, <1>4, <1>7, <1>9, <2>1
  <2>3. ring \in [Dirs -> RingRecords]
    BY <1>1 DEF Types, DriverTypes
  <2>4. ring' \in [Dirs -> RingRecords] /\ ring'["tx"] = r /\ ring'["rx"] = ring["rx"]
    BY <1>1, <1>6, <2>2, <2>3
  <2>5. \A e \in Dirs : /\ ring'[e].head = ring[e].head /\ ring'[e].info = ring[e].info
                        /\ ring'[e].head \in Nat /\ ring'[e].head >= ring[e].head
    <3>1. \A e \in Dirs : ring[e].head \in Nat
      BY <2>3 DEF RingRecords
    <3> QED BY <1>6, <2>1, <2>4, <3>1, Names
  <2>6. PoolOK'
    BY <1>4, <2>2, <2>5, SamePool DEF NicInv
  <2>7. TxData'
    BY <1>1, <1>4, <2>2, <2>5, SameTx DEF NicInv, CQ
  <2>8. RxOK'
    BY <1>1, <1>4, <2>2, <2>4, SameRx DEF NicInv, CQ, RQ, Buf
  <2>9. \A e \in Dirs : Entry(e)'
    <3>1. \A e \in Dirs : Held(e)' = Held(e) /\ \A p : Buf(e, p)' = Buf(e, p)
      BY <1>4, <2>5 DEF Held, Freed, Filled, Buf
    <3> QED BY <2>2, <2>5, <3>1 DEF NicInv, Rows, Entry
  <2>10. Order("rx")'
    BY <1>1, <1>4, <2>4 DEF NicInv, Rows, Order, Freed, Completed, Moved, Fetched, Asked, Filled, RQ, CQ
  <2>11. Order("tx")'
    <3>1. /\ Freed("tx")' = Freed("tx") /\ Asked("tx")' = Asked("tx")
          /\ Fetched("tx")' = Fetched("tx") /\ Moved("tx")' = Moved("tx")
          /\ Completed("tx")' = Completed("tx") /\ Filled("tx")' = Filled("tx")
          /\ RQ("tx")' = RQ("tx") /\ CQ("tx")' = CQ("tx") /\ cq'["tx"] = cq["tx"]
      BY <1>1, <1>4, <2>5 DEF Freed, Asked, Fetched, Moved, Completed, Filled, RQ, CQ
    <3>2. ring'["tx"].clean = Freed("tx") /\ ring'["tx"].tail = Fetched("tx")
      BY <1>6, <2>1, <2>4
    <3>3. Filled("tx") <= Freed("tx") + Size
      BY <1>1, Counts DEF NicInv, Rows
    <3>4. CQ("tx").tail = Freed("tx") /\ Freed("tx") <= Fetched("tx")
          /\ Freed("tx") \in Nat /\ Fetched("tx") \in Nat
      BY <1>3, <2>1
    <3>5. Order("tx")
      BY <1>1 DEF NicInv, Rows
    <3>6. Freed("tx") <= Freed("tx") /\ Fetched("tx") <= Fetched("tx")
      BY <3>4
    <3> QED BY <3>1, <3>2, <3>3, <3>4, <3>5, <3>6 DEF Order
  <2>12. \A e \in Dirs : Order(e)'
    BY <2>10, <2>11, Names
  <2>13. \A e \in Dirs : Rows(e)'
    <3>1. \A e \in Dirs : \A p \in Held(e) : Buf(e, p)' = Buf(e, p)
      BY <2>5 DEF Buf
    <3> QED BY <1>4, <2>2, <2>9, <2>12, <3>1, RowsKept
  <2>14. PICK v \in Seq(Writes) : v = <<ArmQ(CqOf[d])>>
    <3>1. <<ArmQ(CqOf[d])>> \in Seq(Writes)
      BY <1>7
    <3> QED BY <3>1
  <2>15. Posts(v) /\ \A i \in DOMAIN v : v[i].op # "activate"
    BY <1>7, <2>2, <2>14 DEF Posts
  <2>16. WritesOK'
    BY <1>1, <1>4, <2>5, <2>15, PostWrites DEF NicInv, Rows, RQ, CQ
  <2>17. Activation'
    BY <1>1, <1>4, <2>15, PostActivation DEF NicInv, Posts
  <2>18. intr' \in [pc : Pcs, at : Nat, pending : Nat] /\ AtEvent'
    BY <1>4, NextEvent
  <2>19. posted' \in Seq(Writes)
    BY <1>1, <2>15, PostedIs DEF Posts
  <2>20. Types'
    BY <1>1, <1>4, <2>2, <2>4, <2>18, <2>19 DEF Types, DriverTypes, MemoryTypes, QueueTypes, FrameTypes
  <2> QED BY <2>6, <2>7, <2>8, <2>13, <2>16, <2>17, <2>18, <2>20 DEF NicInv
<1> QED BY <1>8, <1>9

\* start_xmit puts the packet in a buffer that nobody has, and its descriptor
\* in the next entry.
LEMMA StartXmitInv == NicInv /\ StartXmit => NicInv'
<1> SUFFICES ASSUME NicInv, StartXmit PROVE NicInv'
  OBVIOUS
<1>r. PICK r \in RingRecords : r = ring["tx"]
  BY Names DEF NicInv, Types, DriverTypes
<1>h. PICK h \in Nat : h = r.head
  BY DEF RingRecords
<1> DEFINE f == Fill("tx", r, 1)
           b == f.bufs[1]
           w == SetHead("txq", f.ring.head)
<1>1. Types /\ PoolOK /\ Spare /\ "tx" \in Dirs /\ "rx" \in Dirs
      /\ \A e \in Dirs : Order(e) /\ Entry(e)
  BY Names DEF NicInv, Rows, PoolOK, Spare
<1>2. /\ net.sent < MaxTx /\ r.head - r.clean < Size
      /\ ring' = [ring EXCEPT !["tx"] = f.ring] /\ pool' = f.pool
      /\ mem' = [mem EXCEPT !.desc["tx"] = f.desc, !.buf[b] = <<"tx", net.sent + 1>>]
      /\ posted' = Append(posted, w) /\ net' = [net EXCEPT !.sent = net.sent + 1]
      /\ UNCHANGED <<cq, eq, main, intr, portUp, raised, q, work, events, msi, lost>>
  BY <1>r DEF StartXmit
<1>3. r \in RingRecords /\ 1 \in 0..Size /\ ring \in [Dirs -> RingRecords]
  BY <1>1, Sizes DEF Types, DriverTypes
<1>4. /\ r.head \in Nat /\ r.clean \in Nat /\ r.head + 1 <= r.clean + Size
      /\ r.clean <= CQ("tx").tail /\ r.clean <= r.tail /\ r.tail <= Fetched("tx")
      /\ r.head + 1 <= Freed("tx") + Size /\ r.head + 1 < PtrMod
  <2>1. r.head \in Nat /\ r.clean \in Nat /\ r.tail \in Nat
    BY <1>3 DEF RingRecords
  <2>2. /\ CQ("tx").tail \in Nat /\ Freed("tx") \in Nat /\ Fetched("tx") \in Nat
    BY <1>1, Counts
  <2>3. /\ r.clean <= CQ("tx").tail /\ CQ("tx").tail <= Freed("tx") /\ Freed("tx") <= Size
        /\ r.clean <= r.tail /\ r.tail <= Fetched("tx")
    BY <1>r, <1>1 DEF Order
  <2> DEFINE c == r.clean
             t == CQ("tx").tail
             a == Freed("tx")
  <2>4. /\ h = r.head /\ c \in Nat /\ t \in Nat /\ a \in Nat /\ h - c < Size /\ c <= t /\ t <= a
        /\ a <= Size /\ Size \in Nat /\ PtrMod \in Nat /\ 2 * Size = Size + Size /\ 2 * Size < PtrMod
    BY <1>2, <1>h, <2>1, <2>2, <2>3, Sizes
  <2> HIDE DEF c, t, a
  <2>5. h + 1 <= c + Size /\ h + 1 <= a + Size /\ h + 1 < PtrMod
    BY <2>4
  <2> QED BY <1>h, <2>1, <2>3, <2>5 DEF c, a
<1>5. /\ f.ring \in RingRecords /\ f.desc \in [Slots -> MaybeBuf] /\ f.ring.head = r.head + 1
      /\ f.pool = Alloc(1).pool /\ b = Alloc(1).bufs[1]
  BY <1>1, <1>3, FillFacts
<1>6. mem = [desc |-> mem.desc, cpl |-> mem.cpl, ev |-> mem.ev, buf |-> mem.buf]
  BY <1>1 DEF Types, MemoryTypes
<1> HIDE DEF f
<1>7. /\ mem'.desc = [mem.desc EXCEPT !["tx"] = f.desc] /\ mem'.cpl = mem.cpl
      /\ mem'.buf = [mem.buf EXCEPT ![b] = <<"tx", net.sent + 1>>]
      /\ mem' = [desc |-> mem'.desc, cpl |-> mem.cpl, ev |-> mem.ev, buf |-> mem'.buf]
  <2> DEFINE x == <<"tx", net.sent + 1>>
             m == [desc |-> mem.desc, cpl |-> mem.cpl, ev |-> mem.ev, buf |-> mem.buf]
             D == [mem.desc EXCEPT !["tx"] = f.desc]
             B == [mem.buf EXCEPT ![b] = x]
  <2> HIDE DEF x
  <2>1. [m EXCEPT !.desc["tx"] = f.desc, !.buf[b] = x]
          = [desc |-> D, cpl |-> mem.cpl, ev |-> mem.ev, buf |-> B]
    <3> DEFINE y == [m EXCEPT !.desc["tx"] = f.desc]
    <3>1. y = [desc |-> D, cpl |-> mem.cpl, ev |-> mem.ev, buf |-> mem.buf]
      OBVIOUS
    <3>2. [m EXCEPT !.desc["tx"] = f.desc, !.buf[b] = x] = [y EXCEPT !.buf[b] = x]
      OBVIOUS
    <3> HIDE DEF y, D
    <3> QED BY <3>1, <3>2
  <2>2. mem' = [m EXCEPT !.desc["tx"] = f.desc, !.buf[b] = x]
    BY <1>2, <1>6 DEF x
  <2>3. mem' = [desc |-> D, cpl |-> mem.cpl, ev |-> mem.ev, buf |-> B]
    BY <2>1, <2>2
  <2> HIDE DEF D, B
  <2> QED BY <2>3 DEF D, B, x
<1>8. Fills("tx", r, 1)
  BY <1>r, <1>2, <1>4, <1>7 DEF Fills, f, Filled
<1>9. /\ \A e \in Dirs : Rows(e)'
      /\ PoolOK' /\ ring' \in [Dirs -> RingRecords] /\ pool' \in [made : Nat, free : Seq(Nat)]
      /\ mem'.desc \in [Dirs -> [Slots -> MaybeBuf]]
      /\ ring'["tx"].head = ring["tx"].head + 1
      /\ \A e \in Dirs : e # "tx" => ring'[e] = ring[e]
      /\ \A e \in Dirs : ring'[e].head \in Nat /\ ring'[e].head >= ring[e].head
      /\ \A e \in Dirs : \A p \in Held(e) : Buf(e, p)' = Buf(e, p)
  <2>1. UNCHANGED <<q, work>> /\ ring["tx"].clean <= r.clean
    BY <1>r, <1>2, <1>3 DEF RingRecords
  <2> QED BY <1>1, <1>3, <1>4, <1>7, <1>8, <2>1, FillRows
<1>10. /\ Filled("tx")' = h + 1 /\ \A e \in Dirs : Freed(e)' = Freed(e)
       /\ Buf("tx", h)' = b
       /\ \A p \in Held("tx")' : p \in Held("tx") \/ p = h
       /\ \A e \in Dirs : \A p \in Held(e) : Buf(e, p) # b
  <2>1. PICK n \in 0..Size : n = 1
    BY <1>3
  <2>2. Fills("tx", r, n)
    BY <1>8, <2>1
  <2>3. /\ r.head = Filled("tx") /\ Filled("tx")' = r.head + n /\ \A e \in Dirs : Freed(e)' = Freed(e)
        /\ \A e \in Dirs : e # "tx" => Filled(e)' = Filled(e) /\ ring'[e] = ring[e]
        /\ \A e \in Dirs : \A p \in Held(e) : p \in Held(e)' /\ Buf(e, p)' = Buf(e, p)
        /\ \A i \in 1..n : /\ r.head + i - 1 \in Held("tx")'
                           /\ Buf("tx", r.head + i - 1)' = Alloc(n).bufs[i]
        /\ \A p \in Held("tx")' : p \in Held("tx") \/ \E i \in 1..n : p = r.head + i - 1
        /\ \A i \in 1..n : \A e \in Dirs : \A p \in Held(e) : Buf(e, p) # Alloc(n).bufs[i]
        /\ \A e \in Dirs : Entry(e)'
    BY <1>1, <2>2, FillMoves
  <2>4. PICK i \in 1..n : i = 1
    BY <2>1
  <2>5. r.head + i - 1 = h /\ Alloc(n).bufs[i] = b /\ \A k \in 1..n : k = i
    BY <1>5, <1>h, <2>1, <2>4
  <2>6. Buf("tx", r.head + i - 1)' = b
    BY <2>3, <2>5
  <2>7. Buf("tx", h)' = b
    BY <2>5, <2>6
  <2>8. Filled("tx")' = h + 1
    BY <1>h, <2>1, <2>3
  <2>9. \A p \in Held("tx")' : p \in Held("tx") \/ p = h
    BY <2>3, <2>5
  <2>10. \A e \in Dirs : \A p \in Held(e) : Buf(e, p) # b
    BY <2>3, <2>5
  <2> QED BY <2>3, <2>7, <2>8, <2>9, <2>10
<1>11. b \in Bufs /\ b \in Nat
  <2>1. b \in 1..pool'.made /\ pool'.made \in Nat
    <3>1. 1 \in Nat /\ 1 \in 1..1
      OBVIOUS
    <3> QED BY <1>1, <1>2, <1>5, <3>1, AllocFacts
  <2>2. pool'.made <= 2 * Size /\ 2 * Size \in Nat
    BY <1>9, Sizes DEF PoolOK
  <2> QED BY <2>1, <2>2 DEF Bufs
<1>12. /\ mem.buf \in [Bufs -> Frames] /\ mem.cpl \in [Dirs -> [Slots -> Nat]]
       /\ mem.ev \in [0..(EvSize - 1) -> Dirs] /\ net.sent \in Nat /\ <<"tx", net.sent + 1>> \in Frames
       /\ net = [sent |-> net.sent, wire |-> net.wire, arrived |-> net.arrived, got |-> net.got,
                 dropped |-> net.dropped]
       /\ net.wire \in Seq(Frames) /\ net.arrived \in Nat /\ net.got \in Seq(Frames)
       /\ net.dropped \in SUBSET Nat
  <2>1. mem.buf \in [Bufs -> Frames] /\ mem.cpl \in [Dirs -> [Slots -> Nat]]
        /\ mem.ev \in [0..(EvSize - 1) -> Dirs]
    BY <1>1 DEF Types, MemoryTypes
  <2>2. net \in [sent : Nat, wire : Seq(Frames), arrived : Nat, got : Seq(Frames),
                 dropped : SUBSET Nat]
    BY <1>1 DEF Types, FrameTypes
  <2>3. net.sent + 1 \in Nat
    BY <2>2
  <2> QED BY <1>1, <2>1, <2>2, <2>3 DEF Frames
<1> DEFINE x == <<"tx", net.sent + 1>>
<1> HIDE DEF b, x
<1>13. /\ mem'.buf \in [Bufs -> Frames] /\ mem'.buf[b] = x
       /\ \A c \in Nat : c # b => mem'.buf[c] = mem.buf[c]
  BY <1>7, <1>11, <1>12 DEF x
<1>14. MemoryTypes'
  <2>1. PICK D \in [Dirs -> [Slots -> MaybeBuf]], B \in [Bufs -> Frames] : D = mem'.desc /\ B = mem'.buf
    BY <1>9, <1>13
  <2>2. mem' = [desc |-> D, cpl |-> mem.cpl, ev |-> mem.ev, buf |-> B]
    BY <1>7, <2>1
  <2> QED BY <1>12, <2>2 DEF MemoryTypes
<1>15. /\ net' = [sent |-> net.sent + 1, wire |-> net.wire, arrived |-> net.arrived, got |-> net.got,
                  dropped |-> net.dropped]
       /\ net'.sent = net.sent + 1 /\ net'.wire = net.wire /\ net'.arrived = net.arrived
       /\ net'.got = net.got /\ net'.dropped = net.dropped
  BY <1>2, <1>12
<1>16. FrameTypes'
  <2>1. net' \in [sent : Nat, wire : Seq(Frames), arrived : Nat, got : Seq(Frames),
                  dropped : SUBSET Nat]
    BY <1>12, <1>15
  <2> QED BY <1>1, <1>2, <2>1 DEF Types, FrameTypes
<1>17. \A e \in Dirs : \A p \in Held(e) : mem'.buf[Buf(e, p)] = mem.buf[Buf(e, p)]
  <2>1. \A e \in Dirs : \A p \in Held(e) : Buf(e, p) \in Nat
    BY <1>1 DEF Entry
  <2> QED BY <1>10, <1>13, <2>1
<1>18. RxOK'
  BY <1>1, <1>2, <1>9, <1>15, <1>17, RxKept
<1>19. TxData'
  <2>1. /\ net.sent = h /\ Len(net.wire) = Moved("tx")
        /\ \A p \in Held("tx") : mem.buf[Buf("tx", p)] = <<"tx", p + 1>>
        /\ \A i \in DOMAIN net.wire : net.wire[i] = <<"tx", i>>
    BY <1>r, <1>h DEF NicInv, TxData, Filled
  <2>2. net'.sent = Filled("tx")' /\ net'.sent <= MaxTx
    BY <1>2, <1>10, <1>12, <1>15, <2>1, Sizes
  <2>3. ASSUME NEW p \in Held("tx")' PROVE mem'.buf[Buf("tx", p)'] = <<"tx", p + 1>>
    <3>1. CASE p \in Held("tx")
      BY <1>1, <1>9, <1>17, <2>1, <3>1
    <3>2. CASE p = h
      BY <1>10, <1>13, <2>1, <3>2 DEF x
    <3> QED BY <1>10, <3>1, <3>2
  <2>4. Moved("tx")' = Moved("tx")
    BY <1>2 DEF Moved, CQ
  <2> QED BY <1>15, <2>1, <2>2, <2>3, <2>4 DEF TxData
<1>20. w \in Writes /\ w.op = "head" /\ w.q = "txq" /\ w.val = ring'["tx"].head
  <2>1. "txq" \in Queues /\ f.ring.head = ring'["tx"].head /\ f.ring.head = h + 1
    BY <1>r, <1>5, <1>9, <1>h DEF Queues
  <2>2. h + 1 \in Int /\ h + 1 \in Pointers
    <3>1. h + 1 < PtrMod
      BY <1>4, <1>h
    <3> QED BY <3>1, Sizes DEF Pointers
  <2> QED BY <2>1, <2>2, WriteIs, PtrIs
<1> HIDE DEF w
<1>21. PICK ws \in Seq(Writes) : ws = <<w>>
  <2>1. <<w>> \in Seq(Writes)
    BY <1>20
  <2> QED BY <2>1
<1>22. posted' = posted \o ws
  BY <1>1, <1>2, <1>20, <1>21, AppendIsConcat, WriteTypes
<1>23. \A i \in DOMAIN ws : ws[i] = w
  BY <1>21
<1>24. Posts(ws)
  <2>1. RingQ["rx"] = "rxq" /\ RingQ["tx"] = "txq"
    BY DEF RingQ
  <2> QED BY <1>20, <1>22, <1>23, <2>1, Names DEF Posts
<1>25. WritesOK'
  BY <1>1, <1>2, <1>9, <1>24, PostWrites DEF NicInv, RQ, CQ
<1>26. Activation'
  BY <1>1, <1>2, <1>20, <1>22, <1>23, PostActivation DEF NicInv
<1>27. posted' \in Seq(Writes)
  BY <1>1, <1>22, PostedIs
<1>28. Types'
  BY <1>1, <1>2, <1>9, <1>14, <1>16, <1>27 DEF Types, DriverTypes, QueueTypes
<1>29. AtEvent'
  BY <1>2 DEF NicInv, AtEvent
<1> QED BY <1>9, <1>18, <1>19, <1>25, <1>26, <1>28, <1>29 DEF NicInv

-----------------------------------------------------------------------------
(* open. *)

\* open takes its next step, and posts the activation of the queue whose turn
\* it is, if there is one, before anything else.
Activates(x) == Turn[x] = 9 - Len(main)

\* A step of open keeps the order of the activations.
LEMMA OpenActivation ==
  ASSUME Types, Activation, main # <<>>, main' = Tail(main), q' = q,
         NEW ws \in Seq(Writes), posted' = posted \o ws,
         \A i \in DOMAIN ws : ws[i].op = "activate" => i = 1 /\ Activates(ws[i].q),
         \A x \in Queues : Activates(x) => 1 \in DOMAIN ws /\ ws[1].op = "activate" /\ ws[1].q = x
  PROVE  Activation'
<1>1. PICK n \in Nat : n = Len(posted)
  <2>1. Len(posted) \in Nat
    BY WriteTypes
  <2> QED BY <2>1
<1>2. PICK L \in Nat : L = Len(main)
  BY DEF Activation
<1>3. /\ DOMAIN posted' = 1..(n + Len(ws)) /\ Len(posted') = n + Len(ws)
      /\ Len(ws) \in Nat /\ DOMAIN ws = 1..Len(ws) /\ DOMAIN posted = 1..n
      /\ \A i \in 1..n : posted'[i] = posted[i]
      /\ \A i \in DOMAIN posted' : i > n => i - n \in DOMAIN ws /\ posted'[i] = ws[i - n]
      /\ \A i \in DOMAIN posted : posted[i].q \in Queues
  BY <1>1, PostedIs, WriteTypes
<1>4. /\ main \in Seq(Steps) /\ L <= 8 /\ L >= 1
      /\ \A j \in 1..L : main[j] = ToDo[8 - L + j]
      /\ main' \in Seq(Steps) /\ Len(main') = L - 1
      /\ \A j \in 1..(L - 1) : main'[j] = main[j + 1]
  BY <1>2 DEF Activation
<1>5. Turn["eq"] = 1 /\ Turn["rxcq"] = 3 /\ Turn["rxq"] = 5 /\ Turn["txcq"] = 6 /\ Turn["txq"] = 8
  BY DEF Turn
<1>6. \A x \in Queues : Turn[x] \in 1..8
  BY <1>5 DEF Queues
<1>7. /\ main' \in Seq(Steps) /\ Len(main') <= 8
      /\ \A j \in 1..Len(main') : main'[j] = ToDo[8 - Len(main') + j]
  <2>1. ASSUME NEW j \in 1..(L - 1) PROVE main'[j] = ToDo[8 - (L - 1) + j]
    <3>1. j + 1 \in 1..L /\ 8 - L + (j + 1) = 8 - (L - 1) + j
      BY <1>4
    <3> QED BY <1>4, <3>1
  <2> QED BY <1>4, <2>1
<1>8. ASSUME NEW x \in Queues
      PROVE  /\ ToCome(x)' => ToCome(x) /\ ~Activates(x)
             /\ ToCome(x) => ToCome(x)' \/ Activates(x)
             /\ Activates(x) => ToCome(x)
  <2>1. PICK T \in 1..8 : T = Turn[x]
    BY <1>6
  <2>2. /\ ToCome(x) <=> L > 8 - T
        /\ ToCome(x)' <=> L - 1 > 8 - T
        /\ Activates(x) <=> T = 9 - L
    BY <1>2, <1>4, <2>1 DEF ToCome, Activates
  <2>3. /\ (L - 1 > 8 - T) => L > 8 - T /\ T # 9 - L
        /\ (L > 8 - T) => L - 1 > 8 - T \/ T = 9 - L
        /\ (T = 9 - L) => L > 8 - T
    <3>1. T \in Int /\ L \in Int
      BY <1>2, <2>1
    <3> QED BY <3>1
  <2> QED BY <2>2, <2>3
<1>9. ASSUME NEW x, NEW k \in 0..n PROVE Due(x, k)' = Due(x, k)
  <2>1. \A j \in 1..k : posted'[j] = posted[j]
    BY <1>3
  <2> QED BY <2>1 DEF Due
<1>10. ASSUME NEW i \in DOMAIN posted', posted'[i].op = "activate"
       PROVE  \/ i \in 1..n /\ i \in DOMAIN posted /\ posted'[i] = posted[i] /\ i - 1 \in 0..n
              \/ i - 1 = n /\ i - 1 \in 0..n /\ Activates(posted'[i].q)
  <2>1. CASE i > n
    <3>1. i - n \in DOMAIN ws /\ posted'[i] = ws[i - n]
      BY <1>3, <2>1
    <3>2. i - n = 1 /\ Activates(posted'[i].q)
      BY <1>10, <3>1
    <3>3. i - 1 = n
      BY <1>3, <3>2
    <3> QED BY <3>2, <3>3
  <2>2. CASE ~(i > n)
    BY <1>3, <2>2
  <2> QED BY <2>1, <2>2
<1>11. ASSUME NEW x \in Queues
       PROVE  /\ Due(x, Len(posted))' => Due(x, n) \/ Activates(x)
              /\ Due(x, n) \/ Activates(x) => Due(x, Len(posted))'
  <2>1. ASSUME Due(x, Len(posted))' PROVE Due(x, n) \/ Activates(x)
    <3>1. PICK j \in 1..Len(posted') : posted'[j].op = "activate" /\ posted'[j].q = x
      BY <2>1 DEF Due
    <3>2. CASE j \in 1..n /\ posted'[j] = posted[j]
      BY <3>1, <3>2 DEF Due
    <3>3. CASE Activates(posted'[j].q)
      BY <3>1, <3>3
    <3>4. j \in DOMAIN posted'
      BY <1>3
    <3> QED BY <1>10, <3>1, <3>2, <3>3, <3>4
  <2>2. ASSUME Due(x, n) PROVE Due(x, Len(posted))'
    <3>1. PICK j \in 1..n : posted[j].op = "activate" /\ posted[j].q = x
      BY <2>2 DEF Due
    <3>2. j \in 1..Len(posted') /\ posted'[j] = posted[j]
      BY <1>3
    <3> QED BY <3>1, <3>2 DEF Due
  <2>3. ASSUME Activates(x) PROVE Due(x, Len(posted))'
    <3>1. 1 \in DOMAIN ws /\ ws[1].op = "activate" /\ ws[1].q = x
      BY <2>3
    <3>2. n + 1 \in DOMAIN posted' /\ n + 1 > n /\ (n + 1) - n = 1 /\ n + 1 \in 1..Len(posted')
      BY <1>3, <3>1
    <3>3. posted'[n + 1] = ws[1]
      BY <1>3, <3>2
    <3> QED BY <3>1, <3>2, <3>3 DEF Due
  <2> QED BY <2>1, <2>2, <2>3
<1>12. /\ \A x \in Queues : ToCome(x) => ~q[x].active /\ ~Due(x, n)
       /\ \A x \in Queues : ToCome(x) \/ q[x].active \/ Due(x, n)
       /\ \A x \in Queues : \A i \in DOMAIN posted : posted[i].op = "activate" /\ posted[i].q = x =>
            ~q[x].active /\ ~Due(x, i - 1)
       /\ \A d \in Dirs :
            /\ RQ(d).active => CQ(d).active
            /\ \A i \in DOMAIN posted : posted[i].op = "activate" /\ posted[i].q = RingQ[d] =>
                 CQ(d).active \/ Due(CqOf[d], i - 1)
            /\ ~RQ(d).active => RQ(d).tail = 0 /\ RQ(d).ops = <<>>
            /\ ~CQ(d).active => CQ(d).head = 0 /\ CQ(d).ops = <<>>
  BY <1>1 DEF Activation
<1>13. \A x \in Queues : ToCome(x)' => ~q'[x].active /\ ~Due(x, Len(posted))'
  BY <1>8, <1>11, <1>12
<1>14. \A x \in Queues : ToCome(x)' \/ q'[x].active \/ Due(x, Len(posted))'
  BY <1>8, <1>11, <1>12
<1>15. ASSUME NEW x \in Queues, NEW i \in DOMAIN posted', posted'[i].op = "activate", posted'[i].q = x
       PROVE  ~q'[x].active /\ ~Due(x, i - 1)'
  <2>1. i - 1 \in 0..n
    BY <1>10, <1>15
  <2>2. Due(x, i - 1)' = Due(x, i - 1)
    BY <1>9, <2>1
  <2>3. CASE i \in DOMAIN posted /\ posted'[i] = posted[i]
    BY <1>12, <1>15, <2>2, <2>3
  <2>4. CASE i - 1 = n /\ Activates(posted'[i].q)
    BY <1>8, <1>12, <1>15, <2>2, <2>4
  <2> QED BY <1>10, <1>15, <2>3, <2>4
<1>16. ASSUME NEW d \in Dirs, NEW i \in DOMAIN posted', posted'[i].op = "activate",
              posted'[i].q = RingQ[d]
       PROVE  CQ(d)'.active \/ Due(CqOf[d], i - 1)'
  <2>1. i - 1 \in 0..n
    BY <1>10, <1>16
  <2>2. Due(CqOf[d], i - 1)' = Due(CqOf[d], i - 1) /\ CQ(d)' = CQ(d)
    BY <1>9, <2>1 DEF CQ
  <2>3. CASE i \in DOMAIN posted /\ posted'[i] = posted[i]
    BY <1>12, <1>16, <2>2, <2>3
  <2>4. CASE i - 1 = n /\ Activates(posted'[i].q)
    <3>1. ~ToCome(CqOf[d])
      <4>1. Turn[RingQ[d]] = 9 - L
        BY <1>2, <1>16, <2>4 DEF Activates
      <4>2. Turn[CqOf[d]] < Turn[RingQ[d]] /\ Turn[CqOf[d]] \in Nat
        BY <1>5 DEF Dirs, CqOf, RingQ
      <4>3. PICK T \in Nat : T = Turn[CqOf[d]]
        BY <4>2
      <4>4. T < 9 - L
        BY <4>1, <4>2, <4>3
      <4>5. ~(L > 8 - T)
        <5>1. T \in Int /\ L \in Int
          OBVIOUS
        <5> QED BY <4>4, <5>1
      <4> QED BY <1>2, <4>3, <4>5 DEF ToCome
    <3>2. CqOf[d] \in Queues
      BY Names
    <3>3. CQ(d).active \/ Due(CqOf[d], n)
      BY <1>12, <3>1, <3>2 DEF CQ
    <3> QED BY <2>2, <2>4, <3>3
  <2> QED BY <1>10, <1>16, <2>3, <2>4
<1>17. ASSUME NEW d \in Dirs
       PROVE  /\ RQ(d)'.active => CQ(d)'.active
              /\ \A i \in DOMAIN posted' : posted'[i].op = "activate" /\ posted'[i].q = RingQ[d] =>
                   CQ(d)'.active \/ Due(CqOf[d], i - 1)'
              /\ ~RQ(d)'.active => RQ(d)'.tail = 0 /\ RQ(d)'.ops = <<>>
              /\ ~CQ(d)'.active => CQ(d)'.head = 0 /\ CQ(d)'.ops = <<>>
  <2>1. RQ(d)' = RQ(d) /\ CQ(d)' = CQ(d)
    BY DEF RQ, CQ
  <2> QED BY <1>12, <1>16, <2>1
<1>18. \A x \in Queues : \A i \in DOMAIN posted' : posted'[i].op = "activate" /\ posted'[i].q = x =>
         ~q'[x].active /\ ~Due(x, i - 1)'
  BY <1>15
<1> QED BY <1>7, <1>13, <1>14, <1>17, <1>18 DEF Activation

\* The step that open takes: it arms a queue, or activates the queue that its
\* turn names.
LEMMA OpenStep ==
  ASSUME Types, Activation, main # <<>>, NEW step, step = Head(main)
  PROVE  \/ /\ step \in {"arm eq", "arm rxcq", "arm txcq"}
            /\ \A x \in Queues : ~Activates(x)
         \/ /\ step \in Queues
            /\ \A x \in Queues : Activates(x) => x = step
            /\ Activates(step)
<1>1. PICK L \in Nat : L = Len(main)
  BY DEF Activation
<1>2. L \in 1..8 /\ step = ToDo[9 - L]
  <2>1. main \in Seq(Steps) /\ L <= 8 /\ L >= 1 /\ step = main[1]
    BY <1>1 DEF Activation
  <2>2. 1 \in 1..L /\ 8 - L + 1 = 9 - L
    BY <2>1
  <2>3. main[1] = ToDo[8 - L + 1]
    BY <1>1, <2>2 DEF Activation
  <2> QED BY <2>1, <2>2, <2>3
<1>3. PICK s \in 1..8 : s = 9 - L
  <2>1. 9 - L \in 1..8
    BY <1>2
  <2> QED BY <2>1
<1>4. \A x \in Queues : Activates(x) <=> Turn[x] = s
  BY <1>1, <1>3 DEF Activates
<1>5. /\ Turn["eq"] = 1 /\ Turn["rxcq"] = 3 /\ Turn["rxq"] = 5 /\ Turn["txcq"] = 6 /\ Turn["txq"] = 8
      /\ Queues = {"eq", "rxcq", "rxq", "txcq", "txq"}
  BY DEF Turn, Queues
<1>6. /\ ToDo[1] = "eq" /\ ToDo[2] = "arm eq" /\ ToDo[3] = "rxcq" /\ ToDo[4] = "arm rxcq"
      /\ ToDo[5] = "rxq" /\ ToDo[6] = "txcq" /\ ToDo[7] = "arm txcq" /\ ToDo[8] = "txq"
  BY DEF ToDo
<1>7. step = ToDo[s]
  BY <1>2, <1>3
<1>8. CASE s = 2 \/ s = 4 \/ s = 7
  <2>1. step = "arm eq" \/ step = "arm rxcq" \/ step = "arm txcq"
    BY <1>6, <1>7, <1>8
  <2>2. \A x \in Queues : Turn[x] # s
    BY <1>5, <1>8
  <2> QED BY <1>4, <2>1, <2>2
<1>9. CASE s = 1 \/ s = 3 \/ s = 5 \/ s = 6 \/ s = 8
  <2>1. step \in Queues /\ Turn[step] = s
    BY <1>5, <1>6, <1>7, <1>9
  <2>2. \A x \in Queues : Turn[x] = s => x = step
    BY <1>5, <1>6, <1>7, <1>9, ZenonT(60)
  <2> QED BY <1>4, <2>1, <2>2
<1>10. s = 1 \/ s = 2 \/ s = 3 \/ s = 4 \/ s = 5 \/ s = 6 \/ s = 7 \/ s = 8
  BY <1>3
<1> QED BY <1>8, <1>9, <1>10

\* What a step of open does.
LEMMA OpenIs ==
  ASSUME Open, NEW step, step = Head(main)
  PROVE  /\ main # <<>> /\ main' = Tail(main) /\ portUp' \in BOOLEAN
         /\ UNCHANGED <<cq, eq, intr, raised, q, work, events, msi, net, lost>>
         /\ step = "arm eq" => posted' = posted \o <<ArmQ("eq")>>
         /\ step = "arm rxcq" => posted' = posted \o <<ArmQ("rxcq")>>
         /\ step = "arm txcq" => posted' = posted \o <<ArmQ("txcq")>>
         /\ step \in {"eq", "txcq", "rxcq", "txq"} => posted' = posted \o <<ActivateQ(step)>>
         /\ step = "rxq" => posted' = posted \o ActivateRx /\ Refill(ring["rx"])
         /\ step # "rxq" => UNCHANGED <<ring, mem, pool>>
<1>1. /\ main # <<>> /\ main' = Tail(main)
      /\ UNCHANGED <<cq, eq, intr, raised, q, work, events, msi, net, lost>>
  BY DEF Open
<1>2. portUp' \in BOOLEAN
  BY DEF Open
<1>3. step = "arm eq" => posted' = posted \o <<ArmQ("eq")>>
  BY DEF Open
<1>4. step = "arm rxcq" => posted' = posted \o <<ArmQ("rxcq")>>
  BY DEF Open
<1>5. step = "arm txcq" => posted' = posted \o <<ArmQ("txcq")>>
  BY DEF Open
<1>6. step = "eq" => posted' = posted \o <<ActivateQ("eq")>>
  BY DEF Open, ActivateEq
<1>7. step = "txcq" => posted' = posted \o <<ActivateQ("txcq")>>
  BY DEF Open, ActivateCq
<1>8. step = "rxcq" => posted' = posted \o <<ActivateQ("rxcq")>>
  BY DEF Open, ActivateCq
<1>9. step = "txq" => posted' = posted \o <<ActivateQ("txq")>>
  BY DEF Open, ActivateTx
<1>10. step = "rxq" => posted' = posted \o ActivateRx /\ Refill(ring["rx"])
  BY DEF Open
<1>11. step # "rxq" => UNCHANGED <<ring, mem, pool>>
  BY DEF Open
<1>12. step \in {"eq", "txcq", "rxcq", "txq"} => posted' = posted \o <<ActivateQ(step)>>
  BY <1>6, <1>7, <1>8, <1>9
<1> QED BY <1>1, <1>2, <1>3, <1>4, <1>5, <1>10, <1>11, <1>12

\* What open posts: it activates no queue out of turn, and the head pointer it
\* writes is where the receive ring is filled to.
OpenPosts(ws) ==
  /\ posted' = posted \o ws
  /\ \A i \in DOMAIN ws :
       /\ ws[i].op = "activate" => i = 1 /\ Activates(ws[i].q)
       /\ ws[i].op = "head" => ws[i].q = "rxq" /\ ws[i].val = ring'["rx"].head
       /\ ws[i].op # "tail"
  /\ \A x \in Queues : Activates(x) => 1 \in DOMAIN ws /\ ws[1].op = "activate" /\ ws[1].q = x

\* A step of open other than that of the receive ring.
LEMMA OpenOther ==
  ASSUME NicInv, Open, Head(main) # "rxq"
  PROVE  \E ws \in Seq(Writes) : OpenPosts(ws)
<1>1. PICK step : step = Head(main)
  OBVIOUS
<1>2. main # <<>> /\ Types /\ Activation
  BY <1>1, OpenIs DEF NicInv
<1>3. \/ /\ step \in {"arm eq", "arm rxcq", "arm txcq"}
         /\ \A x \in Queues : ~Activates(x)
      \/ /\ step \in Queues
         /\ \A x \in Queues : Activates(x) => x = step
         /\ Activates(step)
  BY <1>1, <1>2, OpenStep
<1>4. CASE step \in {"arm eq", "arm rxcq", "arm txcq"} /\ \A x \in Queues : ~Activates(x)
  <2>1. PICK x \in Queues : posted' = posted \o <<ArmQ(x)>>
    <3>1. "eq" \in Queues /\ "rxcq" \in Queues /\ "txcq" \in Queues
      BY DEF Queues
    <3>2. \/ posted' = posted \o <<ArmQ("eq")>> \/ posted' = posted \o <<ArmQ("rxcq")>>
          \/ posted' = posted \o <<ArmQ("txcq")>>
      BY <1>1, <1>4, OpenIs
    <3> QED BY <3>1, <3>2
  <2>2. PICK w \in Writes : w = ArmQ(x) /\ w.op = "arm"
    BY WriteIs
  <2>3. PICK ws \in Seq(Writes) : ws = <<w>>
    <3>1. <<w>> \in Seq(Writes)
      OBVIOUS
    <3> QED BY <3>1
  <2>4. \A i \in DOMAIN ws : ws[i].op = "arm"
    BY <2>2, <2>3
  <2>5. posted' = posted \o ws
    BY <2>1, <2>2, <2>3
  <2>6. OpenPosts(ws)
    BY <1>4, <2>4, <2>5 DEF OpenPosts
  <2> QED BY <2>6
<1>5. CASE step \in Queues /\ (\A x \in Queues : Activates(x) => x = step) /\ Activates(step)
  <2>1. posted' = posted \o <<ActivateQ(step)>>
    <3>1. step \in {"eq", "txcq", "rxcq", "txq"}
      BY <1>1, <1>5 DEF Queues
    <3> QED BY <1>1, <3>1, OpenIs
  <2>2. PICK w \in Writes : w = ActivateQ(step) /\ w.op = "activate" /\ w.q = step
    BY <1>5, WriteIs
  <2>3. PICK ws \in Seq(Writes) : ws = <<w>>
    <3>1. <<w>> \in Seq(Writes)
      OBVIOUS
    <3> QED BY <3>1
  <2>4. DOMAIN ws = {1} /\ ws[1] = w
    BY <2>3
  <2>5. posted' = posted \o ws
    BY <2>1, <2>2, <2>3
  <2>6. OpenPosts(ws)
    BY <1>5, <2>2, <2>4, <2>5 DEF OpenPosts
  <2> QED BY <2>6
<1> QED BY <1>3, <1>4, <1>5

\* The step of the receive ring: it is activated and filled.
LEMMA OpenRx ==
  ASSUME NicInv, Open, Head(main) = "rxq"
  PROVE  /\ \E ws \in Seq(Writes) : OpenPosts(ws)
         /\ \A e \in Dirs : Rows(e)'
         /\ PoolOK' /\ TxData' /\ RxOK' /\ MemoryTypes' /\ ring' \in [Dirs -> RingRecords]
         /\ pool' \in [made : Nat, free : Seq(Nat)]
         /\ \A e \in Dirs : ring'[e].head \in Nat /\ ring'[e].head >= ring[e].head
<1>0. PICK step : step = Head(main) /\ step = "rxq"
  OBVIOUS
<1>1. main # <<>> /\ Types /\ Activation /\ "rx" \in Dirs /\ Order("rx")
  BY <1>0, Names, OpenIs DEF NicInv, Rows
<1> DEFINE r == ring["rx"]
           hw == HeadWrite(r)
           w == ActivateQ("rxq")
<1>2. /\ Refill(r) /\ posted' = posted \o (<<w>> \o hw)
      /\ UNCHANGED <<q, work, cq, net>>
  BY <1>0, OpenIs DEF ActivateRx
<1>3. /\ \A e \in Dirs : Rows(e)'
      /\ PoolOK' /\ TxData' /\ RxOK' /\ MemoryTypes' /\ ring' \in [Dirs -> RingRecords]
      /\ pool' \in [made : Nat, free : Seq(Nat)]
      /\ \A e \in Dirs : ring'[e].head \in Nat /\ ring'[e].head >= ring[e].head
      /\ hw \in Seq(Writes)
      /\ \A i \in DOMAIN hw : hw[i].op = "head" /\ hw[i].q = "rxq" /\ hw[i].val = ring'["rx"].head
  <2>1. r \in RingRecords
    BY <1>1 DEF Types, DriverTypes
  <2>2. r.clean <= r.clean /\ r.clean <= CQ("rx").tail /\ r.clean <= r.tail /\ r.tail <= Fetched("rx")
    BY <1>1, <2>1 DEF Order, RingRecords
  <2> QED BY <1>2, <2>1, <2>2, RefillInv
<1>4. Activates("rxq") /\ \A x \in Queues : Activates(x) => x = "rxq"
  BY <1>0, <1>1, OpenStep
<1>5. w \in Writes /\ w.op = "activate" /\ w.q = "rxq" /\ "rxq" \in Queues
  <2>1. "rxq" \in Queues
    BY DEF Queues
  <2> QED BY <2>1, WriteIs
<1> HIDE DEF hw, w
<1>6. PICK ws \in Seq(Writes) : ws = <<w>> \o hw
  <2>1. <<w>> \o hw \in Seq(Writes)
    BY <1>3, <1>5
  <2> QED BY <2>1
<1>7. /\ 1 \in DOMAIN ws /\ ws[1] = w
      /\ \A i \in DOMAIN ws : i # 1 => i - 1 \in DOMAIN hw /\ ws[i] = hw[i - 1]
  BY <1>3, <1>5, <1>6
<1>8. \A i \in DOMAIN ws : i # 1 => ws[i].op = "head" /\ ws[i].q = "rxq" /\ ws[i].val = ring'["rx"].head
  BY <1>3, <1>7
<1>9. OpenPosts(ws)
  BY <1>2, <1>4, <1>5, <1>6, <1>7, <1>8 DEF OpenPosts
<1> QED BY <1>3, <1>9

\* open takes a step.
LEMMA OpenInv == NicInv /\ Open => NicInv'
<1> SUFFICES ASSUME NicInv, Open PROVE NicInv'
  OBVIOUS
<1>1. /\ Types /\ Activation /\ main # <<>> /\ main' = Tail(main) /\ portUp' \in BOOLEAN
      /\ UNCHANGED <<cq, eq, intr, raised, q, work, events, msi, net, lost>>
  <2>1. PICK step : step = Head(main)
    OBVIOUS
  <2> QED BY <2>1, OpenIs DEF NicInv
<1>2. /\ \E ws \in Seq(Writes) : OpenPosts(ws)
      /\ \A e \in Dirs : Rows(e)'
      /\ PoolOK' /\ TxData' /\ RxOK' /\ MemoryTypes' /\ ring' \in [Dirs -> RingRecords]
      /\ pool' \in [made : Nat, free : Seq(Nat)]
      /\ \A e \in Dirs : ring'[e].head \in Nat /\ ring'[e].head >= ring[e].head
  <2>1. CASE Head(main) = "rxq"
    BY <2>1, OpenRx
  <2>2. CASE Head(main) # "rxq"
    <3>1. UNCHANGED <<ring, mem, pool>>
      <4>1. PICK step : step = Head(main)
        OBVIOUS
      <4> QED BY <2>2, <4>1, OpenIs
    <3>2. Quiet
      BY <1>1, <3>1 DEF Quiet
    <3>3. (\A d \in Dirs : Rows(d)') /\ PoolOK' /\ TxData' /\ RxOK'
      BY <3>2, QuietKeeps DEF NicInv
    <3>4. MemoryTypes' /\ ring' \in [Dirs -> RingRecords] /\ pool' \in [made : Nat, free : Seq(Nat)]
      BY <1>1, <3>1 DEF Types, MemoryTypes, DriverTypes
    <3>5. \A e \in Dirs : ring'[e].head \in Nat /\ ring'[e].head >= ring[e].head
      BY <3>1, <3>4 DEF RingRecords
    <3> QED BY <2>2, <3>3, <3>4, <3>5, OpenOther
  <2> QED BY <2>1, <2>2
<1>3. PICK ws \in Seq(Writes) : OpenPosts(ws)
  BY <1>2
<1>4. Posts(ws)
  <2>1. RingQ["rx"] = "rxq" /\ RingQ["tx"] = "txq"
    BY DEF RingQ
  <2> QED BY <1>3, <2>1, Names DEF Posts, OpenPosts
<1>5. WritesOK'
  BY <1>1, <1>2, <1>4, PostWrites DEF NicInv, Rows, RQ, CQ
<1>6. Activation'
  BY <1>1, <1>3, OpenActivation DEF OpenPosts
<1>7. posted' \in Seq(Writes)
  BY <1>1, <1>3, PostedIs DEF OpenPosts
<1>8. Types'
  BY <1>1, <1>2, <1>7 DEF Types, DriverTypes, QueueTypes, FrameTypes
<1>9. AtEvent'
  BY <1>1 DEF NicInv, AtEvent
<1> QED BY <1>2, <1>5, <1>6, <1>8, <1>9 DEF NicInv

-----------------------------------------------------------------------------
(* The completions read by the driver. *)

\* The entries from the last one freed to the last one completed are freed:
\* their buffers, and on the receive side the packets in them.
FreedBufs(d) == [i \in 1..(Completed(d) - Freed(d)) |-> Buf(d, Freed(d) + i - 1)]
Frees(d) ==
  /\ posted = <<>> /\ Completed(d) <= Size /\ intr.pc = "cq"
  /\ ring' = [ring EXCEPT ![d] = [ring[d] EXCEPT !.info =
       [s \in Slots |-> IF s \in Freed(d)..(Completed(d) - 1) THEN NoBuf ELSE ring[d].info[s]]]]
  /\ cq' = [cq EXCEPT ![d] = [head |-> Completed(d), tail |-> Completed(d)]]
  /\ pool' = [pool EXCEPT !.free = pool.free \o FreedBufs(d)]
  /\ net' = IF d = "rx" THEN [net EXCEPT !.got = net.got \o PacketsIn(FreedBufs(d))] ELSE net
  /\ posted' = Append(posted, SetTail(CqOf[d], Completed(d)))
  /\ intr' = [intr EXCEPT !.pc = "ring"]
  /\ UNCHANGED <<eq, main, portUp, raised, mem, q, work, events, msi, lost>>

\* The completions name the entries in their order.
LEMMA NamedIs ==
  ASSUME NicInv, NEW d \in Dirs
  PROVE  LET A == Freed(d)
             C == Completed(d)
         IN /\ A \in Nat /\ C \in Nat /\ A <= C /\ A <= Size
            /\ Advanced(cq[d].head, q[CqOf[d]].head) = C /\ cq[d].tail = A
            /\ DOMAIN Named(d, A, C) = 1..(C - A)
            /\ \A i \in 1..(C - A) : Named(d, A, C)[i] = A + i - 1
<1> DEFINE A == Freed(d)
           C == Completed(d)
<1>1. /\ A \in Nat /\ C \in Nat /\ A <= C /\ C < PtrMod
  <2>1. /\ Freed(d) \in Nat /\ Completed(d) \in Nat /\ Moved(d) \in Nat /\ Fetched(d) \in Nat
        /\ Asked(d) \in Nat /\ Filled(d) \in Nat /\ RQ(d).head \in Nat
        /\ Freed(d) <= Completed(d) /\ Completed(d) <= Moved(d) /\ Moved(d) <= Fetched(d)
        /\ Fetched(d) <= Asked(d) /\ Asked(d) <= RQ(d).head /\ RQ(d).head <= Filled(d)
        /\ Filled(d) < PtrMod
    BY Counts DEF NicInv, Rows
  <2> HIDE DEF A, C
  <2>2. Completed(d) < PtrMod
    BY <2>1, Sizes
  <2> QED BY <2>1, <2>2 DEF A, C
<1>2. cq[d].head = A /\ A <= Size /\ cq[d].tail = A /\ q[CqOf[d]].head = C
  BY DEF NicInv, Rows, Order, Freed, Completed, CQ
<1> HIDE DEF A, C
<1>3. Advanced(cq[d].head, q[CqOf[d]].head) = C
  BY <1>1, <1>2, AdvancedIs
<1>4. Named(d, A, C) = [i \in 1..(C - A) |-> mem.cpl[d][(A + i - 1) % Size]]
  BY DEF Named
<1>5. ASSUME NEW i \in 1..(C - A) PROVE mem.cpl[d][(A + i - 1) % Size] = A + i - 1
  <2>1. PICK k : k = A + i - 1
    OBVIOUS
  <2>2. k \in A..(C - 1)
    BY <1>1, <2>1
  <2>3. mem.cpl[d][k % Size] = k
    BY <2>2 DEF NicInv, Rows, Ops, A, C
  <2> QED BY <2>1, <2>3
<1>6. \A i \in 1..(C - A) : Named(d, A, C)[i] = A + i - 1
  BY <1>4, <1>5
<1> QED BY <1>1, <1>2, <1>3, <1>4, <1>6 DEF A, C

\* Either every entry named is in the ring and has a buffer, and is freed, or an
\* exception is raised.
LEMMA CompletionsFree ==
  ASSUME NicInv, ReadCompletions
  PROVE  \/ \E d \in Dirs : Frees(d)
         \/ raised' = TRUE /\ UNCHANGED <<ring, cq, eq, pool, main, intr, portUp, posted, mem, q,
                                          work, events, msi, net, lost>>
<1>1. PICK d \in Dirs : d = Dir
  BY DirIs DEF NicInv
<1> DEFINE A == Freed(d)
           C == Completed(d)
           named == Named(d, A, C)
           r == ring[d]
           bufs == [i \in DOMAIN named |-> r.info[named[i]]]
           bad == \E i \in DOMAIN named :
                    \/ named[i] \notin Slots
                    \/ r.info[named[i]] = NoBuf
                    \/ \E j \in 1..(i - 1) : named[j] = named[i]
<1>2. /\ A \in Nat /\ C \in Nat /\ A <= C /\ A <= Size
      /\ Advanced(cq[d].head, q[CqOf[d]].head) = C /\ cq[d].tail = A
      /\ DOMAIN named = 1..(C - A) /\ \A i \in 1..(C - A) : named[i] = A + i - 1
  BY NamedIs
<1> HIDE DEF A, C
<1>3. /\ posted = <<>> /\ intr.pc = "cq"
      /\ UNCHANGED <<eq, main, portUp, mem, q, work, events, msi, lost>>
      /\ IF bad
         THEN raised' = TRUE /\ UNCHANGED <<ring, cq, pool, posted, net, intr>>
         ELSE /\ ring' = [ring EXCEPT ![d] = FreeDesc(r, named)]
              /\ pool' = [pool EXCEPT !.free = pool.free \o bufs]
              /\ net' = IF d = "rx" THEN [net EXCEPT !.got = net.got \o PacketsIn(bufs)] ELSE net
              /\ cq' = [cq EXCEPT ![d] = [head |-> C, tail |-> C]]
              /\ posted' = Append(posted, SetTail(CqOf[d], C))
              /\ intr' = [intr EXCEPT !.pc = "ring"]
              /\ UNCHANGED raised
  <2> DEFINE does(e, h, nm) ==
        LET x == ring[e]
            bs == [i \in DOMAIN nm |-> x.info[nm[i]]]
        IN IF \E i \in DOMAIN nm : \/ nm[i] \notin Slots
                                    \/ x.info[nm[i]] = NoBuf
                                    \/ \E j \in 1..(i - 1) : nm[j] = nm[i]
           THEN raised' = TRUE /\ UNCHANGED <<ring, cq, pool, posted, net, intr>>
           ELSE /\ ring' = [ring EXCEPT ![e] = FreeDesc(x, nm)]
                /\ pool' = [pool EXCEPT !.free = pool.free \o bs]
                /\ net' = IF e = "rx" THEN [net EXCEPT !.got = net.got \o PacketsIn(bs)] ELSE net
                /\ cq' = [cq EXCEPT ![e] = [head |-> h, tail |-> h]]
                /\ posted' = Append(posted, SetTail(CqOf[e], h))
                /\ intr' = [intr EXCEPT !.pc = "ring"]
                /\ UNCHANGED raised
  <2>1. Named(d, cq[d].tail, Advanced(cq[d].head, q[CqOf[d]].head)) = named
    BY <1>2
  <2>2. does(Dir, Advanced(cq[Dir].head, q[CqOf[Dir]].head),
             Named(Dir, cq[Dir].tail, Advanced(cq[Dir].head, q[CqOf[Dir]].head)))
    BY DEF ReadCompletions
  <2> HIDE DEF does, named
  <2>3. does(d, C, named)
    BY <1>1, <1>2, <2>1, <2>2
  <2>4. /\ posted = <<>> /\ intr.pc = "cq"
        /\ UNCHANGED <<eq, main, portUp, mem, q, work, events, msi, lost>>
    BY DEF ReadCompletions, ReadDone
  <2> QED BY <2>3, <2>4 DEF does
<1>4. CASE bad
  BY <1>3, <1>4
<1>5. CASE ~bad
  <2>1. C <= Size
    <3>1. CASE C = A
      BY <1>2, <3>1
    <3>2. CASE C # A
      <4>1. C - A \in 1..(C - A)
        BY <1>2, <3>2
      <4>2. named[C - A] = C - 1 /\ named[C - A] \in Slots
        <5>1. A + (C - A) - 1 = C - 1
          BY <1>2
        <5> QED BY <1>2, <1>5, <4>1, <5>1
      <4> QED BY <1>2, <4>2, Sizes DEF Slots
    <3> QED BY <3>1, <3>2
  <2>2. bufs = FreedBufs(d)
    <3>1. ASSUME NEW i \in 1..(C - A) PROVE r.info[named[i]] = Buf(d, A + i - 1)
      <4>1. PICK p : p = A + i - 1
        OBVIOUS
      <4>2. named[i] = p /\ p \in Slots
        BY <1>2, <1>5, <4>1
      <4>3. p % Size = p
        BY <4>2, SlotOf
      <4> HIDE DEF named
      <4> QED BY <4>1, <4>2, <4>3 DEF Buf
    <3>2. FreedBufs(d) = [i \in 1..(C - A) |-> Buf(d, A + i - 1)]
      BY DEF FreedBufs, A, C
    <3>3. bufs = [i \in 1..(C - A) |-> r.info[named[i]]]
      BY <1>2
    <3> HIDE DEF bufs, r, named
    <3> QED BY <3>1, <3>2, <3>3
  <2>3. Range(named) = A..(C - 1)
    <3>1. Range(named) = {named[i] : i \in 1..(C - A)}
      BY <1>2 DEF Range
    <3>2. ASSUME NEW s \in A..(C - 1) PROVE s \in Range(named)
      <4>1. s - A + 1 \in 1..(C - A) /\ A + (s - A + 1) - 1 = s
        BY <1>2
      <4>2. named[s - A + 1] = s
        BY <1>2, <4>1
      <4> QED BY <3>1, <4>1, <4>2
    <3>3. ASSUME NEW i \in 1..(C - A) PROVE named[i] \in A..(C - 1)
      BY <1>2
    <3> HIDE DEF named
    <3> QED BY <3>1, <3>2, <3>3
  <2>4. FreeDesc(r, named) = [r EXCEPT !.info = [s \in Slots |-> IF s \in A..(C - 1) THEN NoBuf ELSE r.info[s]]]
    BY <2>3 DEF FreeDesc
  <2>5. ring' = [ring EXCEPT ![d] = [r EXCEPT !.info =
                   [s \in Slots |-> IF s \in A..(C - 1) THEN NoBuf ELSE r.info[s]]]]
    BY <1>3, <1>5, <2>4
  <2> HIDE DEF bufs, bad
  <2>6. Frees(d)
    BY <1>3, <1>5, <2>1, <2>2, <2>5 DEF Frees, A, C
  <2> QED BY <2>6
<1> QED BY <1>4, <1>5

\* What is left when the entries are freed, direction by direction.
LEMMA FreesMoves ==
  ASSUME NicInv, NEW d \in Dirs, Frees(d)
  PROVE  /\ ring' \in [Dirs -> RingRecords] /\ cq' \in [Dirs -> [head : Nat, tail : Nat]]
         /\ Freed(d)' = Completed(d) /\ cq'[d].head = Completed(d)
         /\ \A e \in Dirs : /\ ring'[e].head = ring[e].head /\ ring'[e].tail = ring[e].tail
                            /\ ring'[e].clean = ring[e].clean /\ ring'[e].head \in Nat
                            /\ ring'[e].head >= ring[e].head
                            /\ RQ(e)' = RQ(e) /\ CQ(e)' = CQ(e) /\ Filled(e)' = Filled(e)
                            /\ Asked(e)' = Asked(e) /\ Fetched(e)' = Fetched(e)
                            /\ Moved(e)' = Moved(e) /\ Completed(e)' = Completed(e)
                            /\ InWork(e)' = InWork(e)
         /\ \A e \in Dirs : e # d => ring'[e] = ring[e] /\ cq'[e] = cq[e] /\ Freed(e)' = Freed(e)
         /\ \A e \in Dirs : \A p \in Held(e)' : p \in Held(e) /\ Buf(e, p)' = Buf(e, p)
         /\ \A s \in Slots : ring'[d].info[s] =
              IF s \in Freed(d)..(Completed(d) - 1) THEN NoBuf ELSE ring[d].info[s]
<1>1. PICK A \in Nat, C \in Nat, B \in Nat :
        /\ A = Freed(d) /\ C = Completed(d) /\ B = Filled(d)
        /\ A <= C /\ C <= Size /\ C <= B /\ B <= A + Size
  <2>1. /\ Freed(d) \in Nat /\ Completed(d) \in Nat /\ Moved(d) \in Nat /\ Fetched(d) \in Nat
        /\ Asked(d) \in Nat /\ Filled(d) \in Nat /\ RQ(d).head \in Nat
        /\ Freed(d) <= Completed(d) /\ Completed(d) <= Moved(d) /\ Moved(d) <= Fetched(d)
        /\ Fetched(d) <= Asked(d) /\ Asked(d) <= RQ(d).head /\ RQ(d).head <= Filled(d)
        /\ Filled(d) <= Freed(d) + Size
    BY Counts DEF NicInv, Rows
  <2>2. Completed(d) <= Size
    BY DEF Frees
  <2>3. Completed(d) <= Filled(d)
    BY <2>1
  <2> QED BY <2>1, <2>2, <2>3
<1>2. PICK h \in Nat, t \in Nat, c \in Nat, info \in [Slots -> MaybeBuf] :
        ring[d] = [head |-> h, tail |-> t, clean |-> c, info |-> info]
  BY DEF NicInv, Types, DriverTypes, RingRecords
<1> DEFINE new == [s \in Slots |-> IF s \in A..(C - 1) THEN NoBuf ELSE info[s]]
           x == [head |-> h, tail |-> t, clean |-> c, info |-> new]
<1>3. new \in [Slots -> MaybeBuf] /\ x \in RingRecords
  BY Sizes DEF MaybeBuf, RingRecords
<1>4. ring' = [ring EXCEPT ![d] = x]
  <2>1. ring' = [ring EXCEPT ![d] = [ring[d] EXCEPT !.info =
           [s \in Slots |-> IF s \in A..(C - 1) THEN NoBuf ELSE ring[d].info[s]]]]
    BY <1>1 DEF Frees
  <2>2. ring[d].info = info
    BY <1>2
  <2>3. [ring[d] EXCEPT !.info = new] = x
    <3> HIDE DEF new
    <3> QED BY <1>2
  <2> QED BY <2>1, <2>2, <2>3
<1> HIDE DEF x
<1>5. ring \in [Dirs -> RingRecords] /\ cq \in [Dirs -> [head : Nat, tail : Nat]]
  BY DEF NicInv, Types, DriverTypes
<1>6. ring' \in [Dirs -> RingRecords] /\ ring'[d] = x /\ \A e \in Dirs : e # d => ring'[e] = ring[e]
  BY <1>3, <1>4, <1>5
<1>7. /\ cq' \in [Dirs -> [head : Nat, tail : Nat]] /\ cq'[d].head = C /\ cq'[d].tail = C
      /\ \A e \in Dirs : e # d => cq'[e] = cq[e]
  <2>1. cq' = [cq EXCEPT ![d] = [head |-> C, tail |-> C]]
    BY <1>1 DEF Frees
  <2> QED BY <1>5, <2>1
<1>8. x.head = h /\ x.tail = t /\ x.clean = c /\ x.info = new
  BY DEF x
<1>9. \A e \in Dirs : /\ ring'[e].head = ring[e].head /\ ring'[e].tail = ring[e].tail
                      /\ ring'[e].clean = ring[e].clean
  BY <1>2, <1>6, <1>8
<1>10. \A e \in Dirs : ring'[e].head \in Nat /\ ring'[e].head >= ring[e].head
  BY <1>6, <1>9 DEF RingRecords
<1>11. \A e \in Dirs : /\ RQ(e)' = RQ(e) /\ CQ(e)' = CQ(e) /\ Filled(e)' = Filled(e)
                       /\ Asked(e)' = Asked(e) /\ Fetched(e)' = Fetched(e)
                       /\ Moved(e)' = Moved(e) /\ Completed(e)' = Completed(e)
                       /\ InWork(e)' = InWork(e)
  BY <1>9 DEF Frees, RQ, CQ, Filled, Asked, Fetched, Moved, Completed, InWork
<1>12. Freed(d)' = C /\ \A e \in Dirs : e # d => Freed(e)' = Freed(e)
  BY <1>7 DEF Freed
<1>13. \A s \in Slots : ring'[d].info[s] = IF s \in A..(C - 1) THEN NoBuf ELSE ring[d].info[s]
  BY <1>2, <1>6, <1>8
<1>14. ASSUME NEW e \in Dirs, NEW p \in Held(e)' PROVE p \in Held(e) /\ Buf(e, p)' = Buf(e, p)
  <2>1. CASE e # d
    BY <1>6, <1>11, <1>12, <2>1 DEF Held, Buf
  <2>2. CASE e = d
    <3>1. p \in C..(B - 1)
      BY <1>1, <1>11, <1>12, <2>2 DEF Held
    <3>2. p \in Nat /\ C <= p /\ p < B /\ p \in A..(B - 1)
      BY <1>1, <3>1
    <3>3. p % Size \in Slots
      BY <3>2, SlotOf
    <3>4. p % Size \notin A..(C - 1)
      <4> SUFFICES ASSUME NEW s \in A..(C - 1), s = p % Size PROVE FALSE
        OBVIOUS
      <4>1. s \in Nat /\ A <= s /\ s < C /\ s < p
        BY <1>1, <3>2
      <4>2. s % Size = p % Size
        BY <3>3, SlotOf
      <4>3. s + Size <= p
        BY <3>2, <4>1, <4>2, SlotOf
      <4> QED BY <1>1, <3>2, <4>1, <4>3, Sizes
    <3>5. ring'[d].info[p % Size] = ring[d].info[p % Size]
      BY <1>13, <3>3, <3>4
    <3> QED BY <1>1, <2>2, <3>2, <3>5 DEF Held, Buf
  <2> QED BY <2>1, <2>2
<1> QED BY <1>1, <1>6, <1>7, <1>9, <1>10, <1>11, <1>12, <1>13, <1>14

\* The entries that are left are in order.
LEMMA FreesRows ==
  ASSUME NicInv, NEW d \in Dirs, Frees(d) PROVE \A e \in Dirs : Rows(e)'
<1>1. /\ Freed(d)' = Completed(d) /\ cq'[d].head = Completed(d)
      /\ \A e \in Dirs : /\ ring'[e].head = ring[e].head /\ ring'[e].tail = ring[e].tail
                         /\ ring'[e].clean = ring[e].clean
                         /\ RQ(e)' = RQ(e) /\ CQ(e)' = CQ(e) /\ Filled(e)' = Filled(e)
                         /\ Asked(e)' = Asked(e) /\ Fetched(e)' = Fetched(e)
                         /\ Moved(e)' = Moved(e) /\ Completed(e)' = Completed(e)
                         /\ InWork(e)' = InWork(e)
      /\ \A e \in Dirs : e # d => ring'[e] = ring[e] /\ cq'[e] = cq[e] /\ Freed(e)' = Freed(e)
      /\ \A e \in Dirs : \A p \in Held(e)' : p \in Held(e) /\ Buf(e, p)' = Buf(e, p)
      /\ \A s \in Slots : ring'[d].info[s] =
           IF s \in Freed(d)..(Completed(d) - 1) THEN NoBuf ELSE ring[d].info[s]
  BY FreesMoves
<1>2. UNCHANGED <<mem, work>> /\ Completed(d) <= Size
  BY DEF Frees
<1>3. \A e \in Dirs : e # d => Rows(e)'
  <2>1. \A e \in Dirs : e # d => SameRows(e)
    BY <1>1, <1>2 DEF SameRows
  <2> QED BY <2>1, SameKeepsRows DEF NicInv
<1>4. Order(d) /\ Ops(d) /\ Jobs(d) /\ Entry(d) /\ Types
  BY DEF NicInv, Rows
<1>5. PICK A \in Nat, C \in Nat, M \in Nat, F \in Nat, B \in Nat :
        /\ A = Freed(d) /\ C = Completed(d) /\ M = Moved(d) /\ F = Fetched(d) /\ B = Filled(d)
        /\ A <= C /\ C <= M /\ M <= F /\ F <= B /\ B <= A + Size
  <2>1. /\ Freed(d) \in Nat /\ Completed(d) \in Nat /\ Moved(d) \in Nat /\ Fetched(d) \in Nat
        /\ Asked(d) \in Nat /\ Filled(d) \in Nat /\ RQ(d).head \in Nat
        /\ Freed(d) <= Completed(d) /\ Completed(d) <= Moved(d) /\ Moved(d) <= Fetched(d)
        /\ Fetched(d) <= Asked(d) /\ Asked(d) <= RQ(d).head /\ RQ(d).head <= Filled(d)
        /\ Filled(d) <= Freed(d) + Size
    BY Counts DEF NicInv, Rows
  <2>2. Fetched(d) <= Filled(d)
    BY <2>1
  <2> QED BY <2>1, <2>2
<1>6. Order(d)'
  <2>1. CQ(d).tail <= C
    <3>1. CQ(d).tail \in Nat /\ CQ(d).tail <= A
      BY <1>4, <1>5, Counts DEF NicInv, Rows, Order
    <3> QED BY <1>5, <3>1
  <2>2. C <= C
    BY <1>5
  <2> QED BY <1>1, <1>2, <1>4, <1>5, <2>1, <2>2 DEF Order
<1>7. Ops(d)'
  <2>1. \A k \in C..(C - 1) : FALSE
    BY <1>5
  <2> QED BY <1>1, <1>2, <1>4, <1>5, <2>1 DEF Ops
<1>8. \A p \in C..(B - 1) : p \in Held(d)'
  BY <1>1, <1>5 DEF Held
<1>9. Jobs(d)'
  <2>1. ASSUME NEW i \in DOMAIN work[d], i <= F - M
        PROVE  Buf(d, M + i - 1)' = Buf(d, M + i - 1)
    <3>1. i \in Nat /\ i >= 1
      BY WorkFacts
    <3>2. PICK p : p = M + i - 1
      OBVIOUS
    <3>3. p \in C..(B - 1)
      BY <1>5, <2>1, <3>1, <3>2
    <3>4. Buf(d, p)' = Buf(d, p)
      BY <1>1, <1>8, <3>3
    <3> QED BY <3>2, <3>4
  <2>2. work'[d] = work[d] /\ M = Moved(d)' /\ F = Fetched(d)' /\ InWork(d)' = InWork(d)
    BY <1>1, <1>2, <1>5
  <2>3. /\ Len(work[d]) >= InWork(d) /\ (d = "tx" => Len(work[d]) = InWork(d))
        /\ \A i \in DOMAIN work[d] :
             /\ i <= InWork(d) => work[d][i].ptr = M + i - 1
             /\ i <= F - M => work[d][i].buf = Buf(d, M + i - 1)
             /\ i > F - M => work[d][i].buf = NoBuf
             /\ i > InWork(d) => work[d][i].ptr = -1
    BY <1>4, <1>5 DEF Jobs
  <2>4. ASSUME NEW i \in DOMAIN work[d], i <= F - M PROVE work[d][i].buf = Buf(d, Moved(d) + i - 1)'
    <3>1. PICK p : p = M + i - 1
      OBVIOUS
    <3>2. Moved(d)' + i - 1 = p
      BY <2>2, <3>1
    <3>3. Buf(d, p)' = ring'[d].info[p % Size]
      BY DEF Buf
    <3>4. Buf(d, Moved(d) + i - 1)' = ring'[d].info[p % Size]
      BY <3>2 DEF Buf
    <3>5. Buf(d, p)' = Buf(d, p)
      BY <2>1, <2>4, <3>1
    <3>6. work[d][i].buf = Buf(d, p)
      BY <2>3, <2>4, <3>1
    <3> QED BY <3>3, <3>4, <3>5, <3>6
  <2> QED BY <2>2, <2>3, <2>4 DEF Jobs
<1>10. Entry(d)'
  <2>1. \A p \in Held(d)' : /\ Buf(d, p)' \in Nat
                            /\ mem'.desc[d][p % Size] = Buf(d, p)'
    BY <1>1, <1>2, <1>4 DEF Entry
  <2>2. ASSUME NEW s \in Slots, \A p \in Held(d)' : p % Size # s PROVE ring'[d].info[s] = NoBuf
    <3>1. CASE s \in A..(C - 1)
      BY <1>1, <1>5, <3>1
    <3>2. CASE s \notin A..(C - 1)
      <4>1. ASSUME NEW p \in Held(d), p % Size = s PROVE FALSE
        <5>1. p \in A..(B - 1)
          BY <1>5, <4>1 DEF Held
        <5>2. CASE p \in C..(B - 1)
          BY <1>8, <2>2, <4>1, <5>2
        <5>3. CASE p \notin C..(B - 1)
          <6>1. p \in A..(C - 1) /\ p \in Slots
            BY <1>2, <1>5, <5>1, <5>3, Sizes DEF Slots
          <6>2. p % Size = p
            BY <6>1, SlotOf
          <6> QED BY <3>2, <4>1, <6>1, <6>2
        <5> QED BY <5>2, <5>3
      <4>2. ring[d].info[s] = NoBuf
        BY <1>4, <4>1 DEF Entry
      <4> QED BY <1>1, <1>5, <3>2, <4>2
    <3> QED BY <3>1, <3>2
  <2> QED BY <2>1, <2>2 DEF Entry
<1> QED BY <1>3, <1>6, <1>7, <1>9, <1>10 DEF Rows

\* The buffers freed are those of the entries completed.
LEMMA FreedBufsAre ==
  ASSUME NicInv, NEW d \in Dirs
  PROVE  /\ FreedBufs(d) \in Seq(Nat) /\ Len(FreedBufs(d)) = Completed(d) - Freed(d)
         /\ DOMAIN FreedBufs(d) = 1..(Completed(d) - Freed(d))
         /\ \A i \in DOMAIN FreedBufs(d) :
              /\ Freed(d) + i - 1 \in Freed(d)..(Completed(d) - 1) /\ Freed(d) + i - 1 \in Held(d)
              /\ FreedBufs(d)[i] = Buf(d, Freed(d) + i - 1)
<1>1. PICK A \in Nat, C \in Nat, B \in Nat :
        A = Freed(d) /\ C = Completed(d) /\ B = Filled(d) /\ A <= C /\ C <= B
  <2>1. /\ Freed(d) \in Nat /\ Completed(d) \in Nat /\ Moved(d) \in Nat /\ Fetched(d) \in Nat
        /\ Asked(d) \in Nat /\ Filled(d) \in Nat /\ RQ(d).head \in Nat
        /\ Freed(d) <= Completed(d) /\ Completed(d) <= Moved(d) /\ Moved(d) <= Fetched(d)
        /\ Fetched(d) <= Asked(d) /\ Asked(d) <= RQ(d).head /\ RQ(d).head <= Filled(d)
    BY Counts DEF NicInv, Rows
  <2>2. Completed(d) <= Filled(d)
    BY <2>1
  <2> QED BY <2>1, <2>2
<1>2. FreedBufs(d) = [i \in 1..(C - A) |-> Buf(d, A + i - 1)]
  BY <1>1 DEF FreedBufs
<1>3. ASSUME NEW i \in 1..(C - A)
      PROVE  A + i - 1 \in A..(C - 1) /\ A + i - 1 \in Held(d) /\ Buf(d, A + i - 1) \in Nat
  <2>1. A + i - 1 \in A..(C - 1) /\ A + i - 1 \in A..(B - 1)
    BY <1>1
  <2>2. A + i - 1 \in Held(d)
    BY <1>1, <2>1 DEF Held
  <2> QED BY <2>1, <2>2, HeldApart
<1>4. PICK n \in Nat : n = C - A
  BY <1>1, C - A \in Nat
<1>5. FreedBufs(d) \in [1..n -> Nat]
  BY <1>2, <1>3, <1>4
<1>6. FreedBufs(d) \in Seq(Nat) /\ Len(FreedBufs(d)) = n /\ DOMAIN FreedBufs(d) = 1..n
  BY <1>5
<1> QED BY <1>1, <1>2, <1>3, <1>4, <1>6

\* The buffers freed go from the entries that held them to the free list.
LEMMA FreesPool ==
  ASSUME NicInv, NEW d \in Dirs, Frees(d)
  PROVE  PoolOK' /\ pool' \in [made : Nat, free : Seq(Nat)]
<1> DEFINE F == pool.free
           G == FreedBufs(d)
<1>1. PICK A \in Nat, C \in Nat : A = Freed(d) /\ C = Completed(d) /\ A <= C
  BY NamedIs
<1>2. /\ G \in Seq(Nat) /\ Len(G) = C - A /\ DOMAIN G = 1..(C - A)
      /\ \A i \in DOMAIN G : /\ A + i - 1 \in A..(C - 1) /\ A + i - 1 \in Held(d)
                             /\ G[i] = Buf(d, A + i - 1)
  BY <1>1, FreedBufsAre
<1>3. pool \in [made : Nat, free : Seq(Nat)] /\ F \in Seq(Nat) /\ Len(F) \in Nat
  BY DEF NicInv, Types, DriverTypes
<1>4. pool' = [made |-> pool.made, free |-> F \o G] /\ pool'.free = F \o G /\ pool'.made = pool.made
  <2>1. pool' = [pool EXCEPT !.free = F \o G]
    BY DEF Frees
  <2> HIDE DEF G, F
  <2> QED BY <1>3, <2>1
<1> HIDE DEF F, G
<1>5. /\ F \o G \in Seq(Nat) /\ Len(F \o G) = Len(F) + (C - A) /\ DOMAIN F = 1..Len(F)
      /\ DOMAIN (F \o G) = 1..(Len(F) + (C - A))
      /\ \A i \in 1..(Len(F) + (C - A)) : (F \o G)[i] = IF i <= Len(F) THEN F[i] ELSE G[i - Len(F)]
  <2>1. F \o G \in Seq(Nat) /\ Len(F \o G) = Len(F) + Len(G)
        /\ \A i \in 1..(Len(F) + Len(G)) : (F \o G)[i] = IF i <= Len(F) THEN F[i] ELSE G[i - Len(F)]
    BY <1>2, <1>3, ConcatProperties
  <2> QED BY <1>2, <1>3, <2>1
<1>6. ASSUME NEW i \in DOMAIN (F \o G)
      PROVE  \/ i \in DOMAIN F /\ (F \o G)[i] = F[i]
             \/ /\ ~(i \in DOMAIN F) /\ i - Len(F) \in DOMAIN G
                /\ (F \o G)[i] = Buf(d, A + (i - Len(F)) - 1)
                /\ A + (i - Len(F)) - 1 \in Held(d) /\ A + (i - Len(F)) - 1 \in A..(C - 1)
  <2>1. i \in 1..(Len(F) + (C - A)) /\ i \in Nat
    BY <1>5
  <2>2. CASE i <= Len(F)
    BY <1>3, <1>5, <2>1, <2>2
  <2>3. CASE ~(i <= Len(F))
    <3>1. PICK k : k = i - Len(F)
      OBVIOUS
    <3>2. k \in DOMAIN G /\ i \notin DOMAIN F
      BY <1>1, <1>2, <1>3, <1>5, <2>1, <2>3, <3>1, SMTT(30)
    <3>3. (F \o G)[i] = G[k]
      BY <1>5, <2>1, <2>3, <3>1
    <3> QED BY <1>2, <3>1, <3>2, <3>3
  <2> QED BY <2>2, <2>3
<1>7. PoolOK
  BY DEF NicInv
<1>8. \A i \in DOMAIN (F \o G) : (F \o G)[i] \in 1..pool.made
  BY <1>6, <1>7 DEF PoolOK, F
<1>9. ASSUME NEW i \in DOMAIN (F \o G), NEW j \in DOMAIN (F \o G), i # j
      PROVE  (F \o G)[i] # (F \o G)[j]
  <2>1. CASE i \in DOMAIN F /\ j \in DOMAIN F
    <3>1. (F \o G)[i] = F[i] /\ (F \o G)[j] = F[j]
      BY <1>6, <2>1
    <3> QED BY <1>7, <1>9, <2>1, <3>1 DEF PoolOK, F
  <2>2. CASE i \in DOMAIN F /\ j \notin DOMAIN F
    <3>1. (F \o G)[i] = F[i] /\ \E p \in Held(d) : (F \o G)[j] = Buf(d, p)
      BY <1>6, <2>2
    <3> QED BY <1>7, <2>2, <3>1 DEF PoolOK, F
  <2>3. CASE i \notin DOMAIN F /\ j \in DOMAIN F
    <3>1. (F \o G)[j] = F[j] /\ \E p \in Held(d) : (F \o G)[i] = Buf(d, p)
      BY <1>6, <2>3
    <3> QED BY <1>7, <2>3, <3>1 DEF PoolOK, F
  <2>4. CASE i \notin DOMAIN F /\ j \notin DOMAIN F
    <3>1. PICK p \in Held(d) : p = A + (i - Len(F)) - 1 /\ (F \o G)[i] = Buf(d, p)
      BY <1>6, <2>4
    <3>2. PICK r \in Held(d) : r = A + (j - Len(F)) - 1 /\ (F \o G)[j] = Buf(d, r)
      BY <1>6, <2>4
    <3>3. p # r
      <4>1. i \in Nat /\ j \in Nat
        BY <1>5
      <4> QED BY <1>1, <1>3, <1>9, <3>1, <3>2, <4>1
    <3> QED BY <1>7, <3>1, <3>2, <3>3 DEF PoolOK
  <2> QED BY <2>1, <2>2, <2>3, <2>4
<1>10. \A e \in Dirs : \A p \in Held(e)' : p \in Held(e) /\ Buf(e, p)' = Buf(e, p)
  BY FreesMoves
<1>11. ASSUME NEW e \in Dirs, NEW p \in Held(e)', NEW i \in DOMAIN (F \o G)
       PROVE  Buf(e, p) # (F \o G)[i]
  <2>1. p \in Held(e)
    BY <1>10
  <2>2. CASE i \in DOMAIN F
    <3>1. (F \o G)[i] = F[i]
      BY <1>6, <2>2
    <3> QED BY <1>7, <2>1, <2>2, <3>1 DEF PoolOK, F
  <2>3. CASE i \notin DOMAIN F
    <3>1. PICK r \in Held(d) : r \in A..(C - 1) /\ (F \o G)[i] = Buf(d, r)
      BY <1>6, <2>3
    <3>2. e # d \/ p # r
      <4> SUFFICES ASSUME e = d PROVE p # r
        OBVIOUS
      <4>1. Freed(d)' = C /\ Filled(d)' = Filled(d)
        BY <1>1, FreesMoves
      <4>2. Filled(d) \in Nat
        BY Counts DEF NicInv, Rows
      <4>3. p \in C..(Filled(d) - 1)
        BY <4>1 DEF Held
      <4> QED BY <1>1, <3>1, <4>2, <4>3
    <3> QED BY <1>7, <2>1, <3>1, <3>2 DEF PoolOK
  <2> QED BY <2>2, <2>3
<1>12. pool.made = Len(F \o G) + (Filled("tx") - Freed("tx"))' + (Filled("rx") - Freed("rx"))'
  <2>1. "tx" \in Dirs /\ "rx" \in Dirs /\ (d = "tx" \/ d = "rx")
    BY Names
  <2>2. /\ Filled("tx") \in Nat /\ Freed("tx") \in Nat /\ Filled("rx") \in Nat /\ Freed("rx") \in Nat
    BY <2>1, Counts DEF NicInv, Rows
  <2>3. /\ Filled("tx")' = Filled("tx") /\ Filled("rx")' = Filled("rx")
        /\ Freed("tx")' = IF d = "tx" THEN C ELSE Freed("tx")
        /\ Freed("rx")' = IF d = "rx" THEN C ELSE Freed("rx")
    BY <1>1, <2>1, FreesMoves
  <2>4. pool.made = Len(F) + (Filled("tx") - Freed("tx")) + (Filled("rx") - Freed("rx"))
    BY <1>7 DEF PoolOK, F
  <2>5. Len(F \o G) = Len(F) + (C - A)
    BY <1>5
  <2>6. CASE d = "tx"
    <3>1. Freed("tx")' = C /\ Freed("rx")' = Freed("rx") /\ A = Freed("tx")
      BY <1>1, <2>3, <2>6
    <3> QED BY <1>1, <1>3, <2>2, <2>3, <2>4, <2>5, <3>1
  <2>7. CASE d = "rx"
    <3>1. Freed("rx")' = C /\ Freed("tx")' = Freed("tx") /\ A = Freed("rx")
      BY <1>1, <2>3, <2>7
    <3> QED BY <1>1, <1>3, <2>2, <2>3, <2>4, <2>5, <3>1, SMTT(30)
  <2> QED BY <2>1, <2>6, <2>7
<1>13. PoolOK'
  <2>1. ASSUME NEW e \in Dirs, NEW p \in Held(e)'
        PROVE  /\ Buf(e, p)' \in 1..pool'.made
               /\ \A i \in DOMAIN pool'.free : Buf(e, p)' # pool'.free[i]
    <3>1. p \in Held(e) /\ Buf(e, p)' = Buf(e, p)
      BY <1>10
    <3>2. Buf(e, p) \in 1..pool.made
      BY <1>7, <3>1 DEF PoolOK
    <3> QED BY <1>4, <1>11, <3>1, <3>2
  <2>2. ASSUME NEW e \in Dirs, NEW g \in Dirs, NEW p \in Held(e)', NEW r \in Held(g)', e # g \/ p # r
        PROVE  Buf(e, p)' # Buf(g, r)'
    <3>1. p \in Held(e) /\ Buf(e, p)' = Buf(e, p) /\ r \in Held(g) /\ Buf(g, r)' = Buf(g, r)
      BY <1>10
    <3> QED BY <1>7, <2>2, <3>1 DEF PoolOK
  <2>3. pool'.made <= 2 * Size
    BY <1>4, <1>7 DEF PoolOK
  <2>4. \A i \in DOMAIN pool'.free : pool'.free[i] \in 1..pool'.made
    BY <1>4, <1>8
  <2>5. \A i, j \in DOMAIN pool'.free : i # j => pool'.free[i] # pool'.free[j]
    BY <1>4, <1>9
  <2>6. pool'.made = Len(pool'.free) + (Filled("tx") - Freed("tx"))' + (Filled("rx") - Freed("rx"))'
    BY <1>4, <1>12
  <2> QED BY <2>1, <2>2, <2>3, <2>4, <2>5, <2>6 DEF PoolOK
<1> QED BY <1>3, <1>4, <1>5, <1>13

\* The frames in entries that are freed are sent, or handed to the program.
LEMMA FreesFrames ==
  ASSUME NicInv, NEW d \in Dirs, Frees(d)
  PROVE  /\ TxData' /\ RxOK'
         /\ net' \in [sent : Nat, wire : Seq(Frames), arrived : Nat, got : Seq(Frames),
                      dropped : SUBSET Nat]
<1>1. /\ Freed(d)' = Completed(d)
      /\ \A e \in Dirs : /\ ring'[e].head = ring[e].head /\ RQ(e)' = RQ(e) /\ CQ(e)' = CQ(e)
                         /\ Filled(e)' = Filled(e) /\ Asked(e)' = Asked(e)
                         /\ Moved(e)' = Moved(e) /\ InWork(e)' = InWork(e)
      /\ \A e \in Dirs : e # d => ring'[e] = ring[e] /\ cq'[e] = cq[e] /\ Freed(e)' = Freed(e)
      /\ \A e \in Dirs : \A p \in Held(e)' : p \in Held(e) /\ Buf(e, p)' = Buf(e, p)
  BY FreesMoves
<1>2. UNCHANGED <<mem, work>> /\ "tx" \in Dirs /\ "rx" \in Dirs
  BY Names DEF Frees
<1>3. net \in [sent : Nat, wire : Seq(Frames), arrived : Nat, got : Seq(Frames), dropped : SUBSET Nat]
  BY DEF NicInv, Types, FrameTypes
<1>4. TxData /\ RxOK
  BY DEF NicInv
<1>5. ASSUME net'.sent = net.sent, net'.wire = net.wire PROVE TxData'
  <2>1. \A p \in Held("tx")' : mem'.buf[Buf("tx", p)'] = <<"tx", p + 1>>
    BY <1>1, <1>2, <1>4 DEF TxData
  <2> QED BY <1>1, <1>2, <1>4, <1>5, <2>1 DEF TxData
<1>6. CASE d # "rx"
  <2>1. net' = net
    BY <1>6 DEF Frees
  <2>2. TxData'
    BY <1>5, <2>1
  <2>3. ring'["rx"] = ring["rx"] /\ cq'["rx"] = cq["rx"] /\ CQ("rx")' = CQ("rx") /\ RQ("rx")' = RQ("rx")
    BY <1>1, <1>2, <1>6
  <2>4. RxOK'
    BY <1>2, <1>4, <2>1, <2>3, SameRx DEF Buf
  <2> QED BY <1>3, <2>1, <2>2, <2>4
<1>7. CASE d = "rx"
  <2> DEFINE G == PacketsIn(FreedBufs("rx"))
             got == net.got
  <2>1. PICK A \in Nat, C \in Nat, M \in Nat, B \in Nat :
          /\ A = Freed("rx") /\ C = Completed("rx") /\ M = Moved("rx") /\ B = Filled("rx")
          /\ A <= C /\ C <= M /\ M <= B
    <3>1. /\ Freed("rx") \in Nat /\ Completed("rx") \in Nat /\ Moved("rx") \in Nat /\ Fetched("rx") \in Nat
          /\ Asked("rx") \in Nat /\ Filled("rx") \in Nat /\ RQ("rx").head \in Nat
          /\ Freed("rx") <= Completed("rx") /\ Completed("rx") <= Moved("rx")
          /\ Moved("rx") <= Fetched("rx") /\ Fetched("rx") <= Asked("rx")
          /\ Asked("rx") <= RQ("rx").head /\ RQ("rx").head <= Filled("rx")
      BY <1>2, Counts DEF NicInv, Rows
    <3>2. Moved("rx") <= Filled("rx")
      BY <3>1
    <3> QED BY <3>1, <3>2
  <2>2. PICK fr \in [Numbers -> Nat] : RxData(fr) /\ FramesOK(fr)
    BY <1>4 DEF RxOK
  <2>3. /\ DOMAIN FreedBufs("rx") = 1..(C - A)
        /\ \A i \in 1..(C - A) : /\ A + i - 1 \in A..(C - 1) /\ A + i - 1 \in Held("rx")
                                 /\ FreedBufs("rx")[i] = Buf("rx", A + i - 1)
    BY <1>2, <2>1, FreedBufsAre
  <2>4. ASSUME NEW i \in 1..(C - A)
        PROVE  mem.buf[FreedBufs("rx")[i]] = <<"rx", fr[A + i - 1]>>
    <3>1. A + i - 1 \in A..(M - 1)
      BY <2>1, <2>3
    <3>2. mem.buf[Buf("rx", A + i - 1)] = <<"rx", fr[A + i - 1]>>
      BY <2>1, <2>2, <3>1 DEF RxData
    <3> QED BY <2>3, <3>2
  <2>5. ASSUME NEW i \in 1..(C - A) PROVE mem.buf[FreedBufs("rx")[i]] \in Frames
    <3>1. Buf("rx", A + i - 1) \in Bufs
      BY <1>2, <2>3, HeldApart
    <3>2. mem.buf \in [Bufs -> Frames]
      BY DEF NicInv, Types, MemoryTypes
    <3> QED BY <2>3, <3>1, <3>2
  <2>6. G = [i \in 1..(C - A) |-> mem.buf[FreedBufs("rx")[i]]]
    BY <2>3 DEF PacketsIn
  <2>7. PICK n \in Nat : n = C - A
    BY <2>1, C - A \in Nat
  <2>8. G \in Seq(Frames) /\ Len(G) = n /\ DOMAIN G = 1..n
    <3>1. G \in [1..n -> Frames]
      <4> HIDE DEF G
      <4> QED BY <2>5, <2>6, <2>7
    <3> HIDE DEF G
    <3> QED BY <3>1
  <2>9. /\ got \in Seq(Frames) /\ Len(got) = A /\ DOMAIN got = 1..A
        /\ \A i \in DOMAIN got : got[i] = <<"rx", fr[i - 1]>>
    BY <1>3, <2>1, <2>2 DEF RxData
  <2>10. net' = [net EXCEPT !.got = got \o G]
    BY <1>7 DEF Frees
  <2> HIDE DEF G, got
  <2>11. /\ got \o G \in Seq(Frames) /\ Len(got \o G) = C
         /\ \A i \in 1..C : (got \o G)[i] = IF i <= A THEN got[i] ELSE G[i - A]
    <3>1. /\ got \o G \in Seq(Frames) /\ Len(got \o G) = Len(got) + Len(G)
          /\ \A i \in 1..(Len(got) + Len(G)) : (got \o G)[i] = IF i <= Len(got) THEN got[i] ELSE G[i - Len(got)]
      BY <2>8, <2>9, ConcatProperties
    <3>2. Len(got) + Len(G) = C
      BY <2>1, <2>7, <2>8, <2>9
    <3> QED BY <2>9, <3>1, <3>2
  <2>12. /\ net'.sent = net.sent /\ net'.wire = net.wire /\ net'.arrived = net.arrived
         /\ net'.dropped = net.dropped /\ net'.got = got \o G
         /\ net' \in [sent : Nat, wire : Seq(Frames), arrived : Nat, got : Seq(Frames),
                      dropped : SUBSET Nat]
    BY <1>3, <2>10, <2>11
  <2>13. ASSUME NEW i \in 1..C PROVE net'.got[i] = <<"rx", fr[i - 1]>>
    <3>1. CASE i <= A
      <4>1. i \in DOMAIN got
        BY <2>1, <2>9, <3>1
      <4> QED BY <2>9, <2>11, <2>12, <3>1, <4>1
    <3>2. CASE ~(i <= A)
      <4>1. PICK k : k = i - A
        OBVIOUS
      <4>2. k \in 1..(C - A) /\ k \in 1..n /\ A + k - 1 = i - 1
        BY <2>1, <2>7, <3>2, <4>1
      <4>3. net'.got[i] = G[k]
        BY <2>11, <2>12, <3>2, <4>1
      <4>4. G[k] = <<"rx", fr[A + k - 1]>>
        BY <2>4, <2>6, <4>2
      <4> QED BY <4>2, <4>3, <4>4
    <3> QED BY <3>1, <3>2
  <2>14. DOMAIN net'.got = 1..C /\ Len(net'.got) = C
    BY <2>1, <2>11, <2>12
  <2>15. ASSUME NEW p \in C..(M - 1) PROVE mem'.buf[Buf("rx", p)'] = <<"rx", fr[p]>>
    <3>1. p \in A..(M - 1) /\ p \in C..(B - 1)
      BY <2>1
    <3>2. p \in Held("rx")'
      BY <1>1, <1>2, <1>7, <2>1, <3>1 DEF Held
    <3>3. Buf("rx", p)' = Buf("rx", p)
      BY <1>1, <1>2, <3>2
    <3>4. mem.buf[Buf("rx", p)] = <<"rx", fr[p]>>
      BY <2>1, <2>2, <3>1 DEF RxData
    <3> QED BY <1>2, <3>3, <3>4
  <2>16. RxData(fr)'
    <3>1. \A i \in 1..InWork("rx")' : work'["rx"][i].frame = fr[Moved("rx")' + i - 1]
      BY <1>1, <1>2, <2>2 DEF RxData
    <3>2. Freed("rx")' = C /\ Moved("rx")' = M
      BY <1>1, <1>2, <1>7, <2>1
    <3> QED BY <2>13, <2>14, <2>15, <3>1, <3>2 DEF RxData
  <2>17. FramesOK(fr)'
    <3>1. Waiting' = Waiting /\ Decided' = Decided /\ InWork("rx")' = InWork("rx") /\ Asked("rx")' = Asked("rx")
      BY <1>1, <1>2, <2>12 DEF Waiting, Decided
    <3> QED BY <1>2, <2>2, <2>12, <3>1 DEF FramesOK
  <2> QED BY <1>5, <2>2, <2>12, <2>16, <2>17 DEF RxOK
<1> QED BY <1>6, <1>7

\* The tail that is written is what has been freed.
LEMMA FreesWrites ==
  ASSUME NicInv, NEW d \in Dirs, Frees(d) PROVE WritesOK' /\ Activation' /\ posted' \in Seq(Writes)
<1>1. PICK C \in Nat : C = Completed(d) /\ C <= Size /\ Freed(d)' = C
  BY NamedIs, FreesMoves, ZenonT(60) DEF Frees
<1>2. \A e \in Dirs : e # d => Freed(e)' = Freed(e)
  BY FreesMoves
<1>3. posted = <<>> /\ posted' = Append(posted, SetTail(CqOf[d], C)) /\ UNCHANGED <<main, q>>
  BY <1>1 DEF Frees
<1>4. PICK w : w = SetTail(CqOf[d], C)
  OBVIOUS
<1>5. w \in Writes /\ w.op = "tail" /\ w.q = CqOf[d] /\ w.val = C
  <2>1. C \in Pointers
    BY <1>1, Sizes DEF Pointers
  <2>2. Ptr(C) = C
    BY <2>1, PtrIs
  <2> QED BY <1>4, <2>1, <2>2, Names DEF SetTail, Writes
<1>6. posted' = <<w>> /\ posted' = posted \o <<w>>
  BY <1>3, <1>4, <1>5
<1>7. <<w>> \in Seq(Writes) /\ DOMAIN <<w>> = {1} /\ <<w>>[1] = w
  BY <1>5
<1>8. Types /\ Activation /\ WritesOK
  BY DEF NicInv
<1>9. Activation'
  BY <1>3, <1>5, <1>6, <1>7, <1>8, PostActivation
<1>10. DOMAIN posted' = {1} /\ posted'[1] = w
  BY <1>6, <1>7
<1>11. WhichWrites'
  BY <1>5, <1>10, Names DEF WhichWrites, CqOf, Dirs
<1>12. ASSUME NEW e \in Dirs PROVE HeadWrites(e)' /\ TailWrites(e)'
  <2>1. HeadWrites(e)'
    BY <1>5, <1>10 DEF HeadWrites
  <2>2. CASE e = d
    <3>1. \A i \in DOMAIN posted' : posted'[i] = w
      BY <1>10
    <3>2. 1 \in DOMAIN posted' /\ w.op = "tail" /\ w.q = CqOf[e] /\ w.val = Freed(e)'
      BY <1>1, <1>5, <1>10, <2>2
    <3> QED BY <2>1, <3>1, <3>2 DEF TailWrites
  <2>3. CASE e # d
    <3>1. CqOf[e] # CqOf[d]
      BY <2>3, Names
    <3>2. CQ(e).tail = Freed(e)
      <4>1. DOMAIN posted = {}
        BY <1>3
      <4> QED BY <1>8, <4>1 DEF WritesOK, TailWrites
    <3>3. CQ(e)' = CQ(e)
      BY <1>3 DEF CQ
    <3>4. \A i \in DOMAIN posted' : posted'[i] = w /\ w.q # CqOf[e]
      BY <1>5, <1>10, <3>1
    <3>5. CQ(e)'.tail = Freed(e)'
      BY <1>2, <2>3, <3>2, <3>3
    <3> QED BY <2>1, <3>4, <3>5 DEF TailWrites
  <2> QED BY <2>1, <2>2, <2>3
<1> QED BY <1>6, <1>7, <1>9, <1>11, <1>12 DEF WritesOK

\* process_tx_cq and process_rx_cq free the entries that are completed, in their
\* order, and no others.
LEMMA ReadCompletionsInv == NicInv /\ ReadCompletions => NicInv'
<1> SUFFICES ASSUME NicInv, ReadCompletions PROVE NicInv'
  OBVIOUS
<1>1. CASE raised' = TRUE /\ UNCHANGED <<ring, cq, eq, pool, main, intr, portUp, posted, mem, q,
                                         work, events, msi, net, lost>>
  <2>1. Types'
    BY <1>1 DEF NicInv, Types, DriverTypes, MemoryTypes, QueueTypes, FrameTypes
  <2>2. AtEvent'
    BY <1>1 DEF NicInv, AtEvent
  <2> QED BY <1>1, <2>1, <2>2, Aside
<1>2. ASSUME NEW d \in Dirs, Frees(d) PROVE NicInv'
  <2>1. \A e \in Dirs : Rows(e)'
    BY <1>2, FreesRows
  <2>2. PoolOK' /\ pool' \in [made : Nat, free : Seq(Nat)]
    BY <1>2, FreesPool
  <2>3. /\ TxData' /\ RxOK'
        /\ net' \in [sent : Nat, wire : Seq(Frames), arrived : Nat, got : Seq(Frames),
                     dropped : SUBSET Nat]
    BY <1>2, FreesFrames
  <2>4. WritesOK' /\ Activation' /\ posted' \in Seq(Writes)
    BY <1>2, FreesWrites
  <2>5. ring' \in [Dirs -> RingRecords] /\ cq' \in [Dirs -> [head : Nat, tail : Nat]]
    BY <1>2, FreesMoves
  <2>6. /\ intr.pc = "cq" /\ intr' = [intr EXCEPT !.pc = "ring"]
        /\ UNCHANGED <<eq, portUp, raised, mem, q, work, events, msi, lost>>
    BY <1>2 DEF Frees
  <2>7. intr \in [pc : Pcs, at : Nat, pending : Nat]
    BY DEF NicInv, Types, DriverTypes
  <2>8. intr' \in [pc : Pcs, at : Nat, pending : Nat] /\ intr'.pc = "ring" /\ intr'.at = intr.at
    BY <2>6, <2>7 DEF Pcs
  <2>9. Types'
    BY <2>2, <2>3, <2>4, <2>5, <2>6, <2>8
       DEF NicInv, Types, DriverTypes, MemoryTypes, QueueTypes, FrameTypes
  <2>10. AtEvent'
    BY <2>6, <2>8 DEF NicInv, AtEvent
  <2> QED BY <2>1, <2>2, <2>3, <2>4, <2>9, <2>10 DEF NicInv
<1> QED BY <1>1, <1>2, CompletionsFree

-----------------------------------------------------------------------------
(* The invariant holds at the start and in every step. *)

\* The driver and the device as they are created, before open.
LEMMA NicInvInit == NicInit => NicInv
<1> SUFFICES ASSUME NicInit PROVE NicInv
  OBVIOUS
<1>1. /\ \A d \in Dirs : /\ RQ(d) = EmptyQueue /\ CQ(d) = EmptyQueue /\ ring[d] = NewRing
                         /\ cq[d] = NewCq /\ work[d] = <<>>
      /\ \A x \in Queues : q[x] = EmptyQueue
  BY Names DEF NicInit, RQ, CQ
<1>2. \A d \in Dirs : /\ Filled(d) = 0 /\ Asked(d) = 0 /\ Fetched(d) = 0 /\ Moved(d) = 0
                      /\ Completed(d) = 0 /\ Freed(d) = 0 /\ InWork(d) = 0
  BY <1>1 DEF Filled, Asked, Fetched, Moved, Completed, Freed, InWork, EmptyQueue, NewRing, NewCq
<1>3. \A d \in Dirs : Held(d) = {}
  BY <1>2 DEF Held
<1>4. "tx" \in Dirs /\ "rx" \in Dirs
  BY Names
<1>5. Types
  <2>1. DriverTypes
    <3>1. NewRing \in RingRecords /\ NewCq \in [head : Nat, tail : Nat]
      BY DEF NewRing, NewCq, RingRecords, MaybeBuf
    <3>2. ring \in [Dirs -> RingRecords] /\ cq \in [Dirs -> [head : Nat, tail : Nat]]
      BY <3>1 DEF NicInit
    <3>3. eq \in [head : Nat, tail : Nat] /\ eq.tail <= eq.head
      BY DEF NicInit, NewEq
    <3>4. pool \in [made : Nat, free : Seq(Nat)] /\ intr \in [pc : Pcs, at : Nat, pending : Nat]
      BY DEF NicInit, Pcs
    <3>5. portUp \in BOOLEAN /\ raised \in BOOLEAN /\ posted \in Seq(Writes)
      <4>1. portUp = FALSE /\ raised = FALSE /\ posted = <<>>
        BY DEF NicInit
      <4>2. <<>> \in Seq(Writes)
        OBVIOUS
      <4> QED BY <4>1, <4>2, Zenon
    <3> QED BY <3>2, <3>3, <3>4, <3>5 DEF DriverTypes
  <2>2. MemoryTypes
    <3>1. [b \in 1..(2 * Size) |-> <<"tx", 0>>] \in [Bufs -> Frames]
      BY <1>4 DEF Bufs, Frames
    <3>2. [s \in 0..(EvSize - 1) |-> "tx"] \in [0..(EvSize - 1) -> Dirs]
      BY <1>4
    <3>3. [d \in Dirs |-> [s \in Slots |-> NoBuf]] \in [Dirs -> [Slots -> MaybeBuf]]
      BY DEF MaybeBuf
    <3>4. [d \in Dirs |-> [s \in Slots |-> 0]] \in [Dirs -> [Slots -> Nat]]
      OBVIOUS
    <3> QED BY <3>1, <3>2, <3>3, <3>4 DEF NicInit, MemoryTypes
  <2>3. QueueTypes
    <3>1. EmptyQueue \in QueueRecords /\ EmptyQueue.ops = <<>>
      BY Sizes DEF EmptyQueue, QueueRecords, Pointers
    <3>2. q \in [Queues -> QueueRecords] /\ \A x \in Queues : q[x].ops = <<>>
      BY <3>1 DEF NicInit
    <3>3. "eq" \in Queues
      BY DEF Queues
    <3> QED BY <3>2, <3>3, Sizes DEF QueueTypes
  <2>4. FrameTypes
    BY DEF NicInit, FrameTypes
  <2> QED BY <2>1, <2>2, <2>3, <2>4 DEF Types
<1>6. \A d \in Dirs : Rows(d)
  <2> SUFFICES ASSUME NEW d \in Dirs PROVE Rows(d)
    OBVIOUS
  <2>1. Order(d)
    <3>1. /\ ring[d].clean = 0 /\ ring[d].tail = 0 /\ CQ(d).tail = 0 /\ RQ(d).head = 0 /\ cq[d].head = 0
      BY <1>1 DEF NewRing, NewCq, EmptyQueue
    <3> QED BY <1>2, <3>1, Sizes DEF Order
  <2>2. Ops(d)
    <3>1. RQ(d).ops = <<>> /\ CQ(d).ops = <<>>
      BY <1>1 DEF EmptyQueue
    <3> QED BY <1>2, <3>1 DEF Ops, InLine
  <2>3. Jobs(d)
    BY <1>1, <1>2 DEF Jobs
  <2>4. Entry(d)
    BY <1>1, <1>3 DEF Entry, NewRing
  <2> QED BY <2>1, <2>2, <2>3, <2>4 DEF Rows
<1>7. PoolOK
  BY <1>2, <1>3, <1>4, Sizes DEF NicInit, PoolOK
<1>8. TxData
  BY <1>2, <1>3, <1>4, Sizes DEF NicInit, TxData
<1>9. RxOK
  <2> DEFINE fr == [p \in Numbers |-> 0]
  <2>1. fr \in [Numbers -> Nat]
    OBVIOUS
  <2>2. RxData(fr)
    BY <1>2, <1>4 DEF NicInit, RxData
  <2>3. Waiting = 0 /\ Decided = 0
    BY <1>1, <1>2, <1>4 DEF NicInit, Waiting, Decided
  <2>4. FramesOK(fr)
    BY <1>2, <1>4, <2>3, Sizes DEF NicInit, FramesOK
  <2> QED BY <2>1, <2>2, <2>4 DEF RxOK
<1>10. WritesOK
  <2>1. posted = <<>>
    BY DEF NicInit
  <2>2. \A d \in Dirs : CQ(d).tail = Freed(d)
    BY <1>1, <1>2 DEF EmptyQueue
  <2> QED BY <2>1, <2>2 DEF WritesOK, WhichWrites, HeadWrites, TailWrites
<1>11. Activation
  <2>1. posted = <<>> /\ Len(posted) = 0 /\ main = ToDo
    BY DEF NicInit
  <2>2. ToDo \in Seq(Steps) /\ Len(ToDo) = 8
    <3>1. \A S : \A a, b, c, d, e, f, g, h \in S : <<a, b, c, d, e, f, g, h>> \in Seq(S)
      OBVIOUS
    <3>2. \A a, b, c, d, e, f, g, h : Len(<<a, b, c, d, e, f, g, h>>) = 8
      OBVIOUS
    <3>3. ToDo \in Seq(Steps)
      <4>1. "eq" \in Steps /\ "arm eq" \in Steps /\ "rxcq" \in Steps /\ "arm rxcq" \in Steps
        BY Zenon DEF Steps
      <4>2. "rxq" \in Steps /\ "txcq" \in Steps /\ "arm txcq" \in Steps /\ "txq" \in Steps
        BY Zenon DEF Steps
      <4> QED BY <3>1, <4>1, <4>2, Zenon DEF ToDo
    <3>4. Len(ToDo) = 8
      BY <3>2, Zenon DEF ToDo
    <3> QED BY <3>3, <3>4
  <2>3. \A j \in 1..Len(main) : main[j] = ToDo[8 - Len(main) + j]
    BY <2>1, <2>2
  <2>4. \A x \in Queues : Turn[x] \in 1..8
    BY DEF Queues, Turn
  <2>5. \A x \in Queues : ToCome(x) /\ ~q[x].active /\ ~Due(x, Len(posted))
    BY <1>1, <2>1, <2>2, <2>4 DEF ToCome, Due, EmptyQueue
  <2>6. \A d \in Dirs : /\ ~RQ(d).active /\ ~CQ(d).active /\ RQ(d).tail = 0 /\ RQ(d).ops = <<>>
                        /\ CQ(d).head = 0 /\ CQ(d).ops = <<>>
    BY <1>1 DEF EmptyQueue
  <2>7. DOMAIN posted = {}
    BY <2>1
  <2> QED BY <2>1, <2>2, <2>3, <2>5, <2>6, <2>7 DEF Activation
<1>12. AtEvent
  BY DEF NicInit, AtEvent
<1> QED BY <1>5, <1>6, <1>7, <1>8, <1>9, <1>10, <1>11, <1>12 DEF NicInv

\* Every step of open, start_xmit, the interrupt callback and the device.
LEMMA NicInvNext == NicInv /\ [NicNext]_nicVars => NicInv'
<1> SUFFICES ASSUME NicInv, [NicNext]_nicVars PROVE NicInv'
  OBVIOUS
<1>1. CASE Open
  BY <1>1, OpenInv
<1>2. CASE StartXmit
  BY <1>2, StartXmitInv
<1>3. CASE Callback
  BY <1>3, InterruptInv, ReadEventsInv, ReadCompletionsInv, ReadRingInv, FinishInv DEF Callback
<1>4. CASE WriteRegister
  BY <1>4, WriteRegisterInv
<1>5. CASE Device
  <2>1. CASE TxFetch
    BY <2>1, TxFetchInv
  <2>2. CASE RxFetch
    BY <2>2, RxFetchInv
  <2>3. CASE SendMsi
    BY <2>3, SendMsiInv
  <2>4. ASSUME NEW d \in Dirs, ReadDescriptor(d) \/ MoveData(d) \/ EnqueueEvent(d) PROVE NicInv'
    BY <2>4, ReadDescriptorInv, MoveDataInv, EnqueueEventInv
  <2>5. ASSUME NEW queue \in {"eq", "txcq", "rxcq"}, CommitEntry(queue) PROVE NicInv'
    <3>1. CASE queue = "eq"
      BY <2>5, <3>1, CommitEventInv
    <3>2. CASE queue # "eq"
      <4>1. PICK d \in Dirs : CqOf[d] = queue
        BY <2>5, <3>2 DEF CqOf, Dirs
      <4> QED BY <2>5, <4>1, CommitCplInv
    <3> QED BY <3>1, <3>2
  <2> QED BY <1>5, <2>1, <2>2, <2>3, <2>4, <2>5 DEF Device
<1>6. CASE Arrive
  BY <1>6, ArriveInv
<1>7. CASE UNCHANGED nicVars
  <2>1. UNCHANGED <<ring, cq, eq, pool, main, intr, portUp, raised, posted, mem, q, work, events,
                    msi, net, lost>>
    BY <1>7 DEF nicVars, drvVars
  <2>2. Types'
    BY <2>1 DEF NicInv, Types, DriverTypes, MemoryTypes, QueueTypes, FrameTypes
  <2>3. AtEvent'
    BY <2>1 DEF NicInv, AtEvent
  <2> QED BY <2>1, <2>2, <2>3, Aside
<1> QED BY <1>1, <1>2, <1>3, <1>4, <1>5, <1>6, <1>7 DEF NicNext

\* The invariant holds in every reachable state.
THEOREM NicInvariant == NicSpec => []NicInv
<1> QED BY NicInvInit, NicInvNext, PTL DEF NicSpec

-----------------------------------------------------------------------------
(* What the invariant says of the driver. *)

\* An entry of a ring with a buffer is one that is filled and not freed, and has
\* the buffer of no other.
LEMMA HeldWhere ==
  ASSUME NicInv, NEW d \in Dirs, NEW s \in Slots, ring[d].info[s] # NoBuf
  PROVE  \E p \in Held(d) : p % Size = s /\ ring[d].info[s] = Buf(d, p)
<1>1. PICK p \in Held(d) : p % Size = s
  BY DEF NicInv, Rows, Entry
<1>2. ring[d].info[s] = Buf(d, p)
  BY <1>1 DEF Buf
<1> QED BY <1>1, <1>2

\* The pointers of a direction as they follow one another.
LEMMA InOrder ==
  ASSUME NicInv, NEW d \in Dirs
  PROVE  /\ Freed(d) \in Nat /\ Completed(d) \in Nat /\ Moved(d) \in Nat /\ Fetched(d) \in Nat
         /\ Asked(d) \in Nat /\ Filled(d) \in Nat
         /\ Freed(d) <= Completed(d) /\ Completed(d) <= Moved(d) /\ Moved(d) <= Fetched(d)
         /\ Fetched(d) <= Asked(d) /\ Asked(d) <= Filled(d) /\ Filled(d) <= ring[d].clean + Size
         /\ Freed(d) <= Asked(d) /\ Freed(d) <= Size
<1>1. /\ Freed(d) \in Nat /\ Completed(d) \in Nat /\ Moved(d) \in Nat /\ Fetched(d) \in Nat
      /\ Asked(d) \in Nat /\ Filled(d) \in Nat /\ RQ(d).head \in Nat
      /\ Freed(d) <= Completed(d) /\ Completed(d) <= Moved(d) /\ Moved(d) <= Fetched(d)
      /\ Fetched(d) <= Asked(d) /\ Asked(d) <= RQ(d).head /\ RQ(d).head <= Filled(d)
  BY Counts DEF NicInv, Rows
<1>2. Filled(d) <= ring[d].clean + Size /\ Freed(d) <= Size
  BY DEF NicInv, Rows, Order
<1>3. Asked(d) <= Filled(d) /\ Freed(d) <= Asked(d)
  BY <1>1
<1> QED BY <1>1, <1>2, <1>3

\* The pointers, rings, queues and counters of the driver and of the device hold
\* what the code may put in them: the clean tail, the tail and the head of a ring
\* follow one another within its size, and no more operations are in flight than
\* a queue manager has entries for.
LEMMA TypesHold == NicInv => NicTypeOK
<1> SUFFICES ASSUME NicInv PROVE NicTypeOK
  OBVIOUS
<1>1. Types /\ PoolOK
  BY DEF NicInv
<1>2. ASSUME NEW d \in Dirs
      PROVE  /\ ring[d].clean <= ring[d].tail /\ ring[d].tail <= ring[d].head
             /\ ring[d].head - ring[d].clean <= Size
  <2>1. /\ Fetched(d) \in Nat /\ Asked(d) \in Nat /\ Filled(d) \in Nat
        /\ Fetched(d) <= Asked(d) /\ Asked(d) <= Filled(d) /\ Filled(d) <= ring[d].clean + Size
    BY InOrder
  <2>2. ring[d].clean <= ring[d].tail /\ ring[d].tail <= Fetched(d)
    BY DEF NicInv, Rows, Order
  <2>3. ring[d].tail \in Nat /\ ring[d].clean \in Nat
    BY <1>1 DEF Types, DriverTypes, RingRecords
  <2>4. ring[d].head = Filled(d)
    BY DEF Filled
  <2> QED BY <2>1, <2>2, <2>3, <2>4, Sizes
<1>3. ASSUME NEW d \in Dirs PROVE ring[d].info \in [Slots -> 1..(2 * Size) \cup {NoBuf}]
  <2>1. ring[d].info \in [Slots -> MaybeBuf]
    BY <1>1 DEF Types, DriverTypes, RingRecords
  <2>2. ASSUME NEW s \in Slots, ring[d].info[s] # NoBuf PROVE ring[d].info[s] \in 1..(2 * Size)
    <3>1. PICK p \in Held(d) : ring[d].info[s] = Buf(d, p)
      BY <2>2, HeldWhere
    <3> QED BY <3>1, HeldApart DEF Bufs
  <2>3. \A s \in Slots : ring[d].info[s] \in 1..(2 * Size) \cup {NoBuf}
    BY <2>2
  <2> QED BY <2>1, <2>3
<1>4. ASSUME NEW d \in Dirs
      PROVE  /\ cq[d].tail <= cq[d].head /\ events[d] \in Nat
             /\ \A i \in DOMAIN work[d] : work[d][i].ptr \in -1..(PtrMod - 1)
  <2>1. cq[d].head = cq[d].tail /\ cq[d].tail \in Nat
    BY <1>1 DEF NicInv, Rows, Order, Freed, Types, DriverTypes
  <2>2. events[d] \in Nat /\ work[d] \in Seq(JobRecords)
    BY <1>1 DEF Types, FrameTypes
  <2>3. \A i \in DOMAIN work[d] : work[d][i] \in JobRecords
    BY <2>2
  <2> QED BY <2>1, <2>2, <2>3 DEF JobRecords
<1>5. /\ eq.tail <= eq.head
      /\ pool.made \in 0..(2 * Size) /\ \A i \in DOMAIN pool.free : pool.free[i] \in 1..pool.made
      /\ intr.pc \in {"idle", "events", "cq", "ring", "finish", "arm"} /\ intr.pending \in Nat
  <2>1. pool.made \in Nat /\ pool.made <= 2 * Size
    BY <1>1 DEF Types, DriverTypes, PoolOK
  <2> QED BY <1>1, <2>1, Sizes, RecordTypes DEF PoolOK, Pcs
<1>6. ASSUME NEW x \in Queues
      PROVE  /\ q[x].head \in 0..(PtrMod - 1) /\ q[x].tail \in 0..(PtrMod - 1)
             /\ Len(q[x].ops) <= OpTable
  BY <1>1 DEF Types, QueueTypes, QueueRecords, Pointers
<1>7. {raised, portUp, msi.asked} \subseteq BOOLEAN /\ lost \in Nat
  <2>1. raised \in BOOLEAN /\ portUp \in BOOLEAN /\ msi.asked \in BOOLEAN /\ lost \in Nat
    BY <1>1, RecordTypes DEF Types, DriverTypes, FrameTypes
  <2> QED BY <2>1, Zenon
<1> QED BY <1>2, <1>3, <1>4, <1>5, <1>6, <1>7 DEF NicTypeOK

\* alloc_pkt, free_pkt, free_desc and prepare_desc keep every packet buffer in one
\* place, free or in one entry of one ring, and what the engines read and write is
\* the buffer that the entry they were given still holds.
LEMMA ApartHolds == NicInv => BuffersApart
<1> SUFFICES ASSUME NicInv PROVE BuffersApart
  OBVIOUS
<1>1. PoolOK
  BY DEF NicInv
<1>2. ASSUME NEW e \in Entries, HeldBy(e) # NoBuf
      PROVE  \E p \in Held(e[1]) : e[1] \in Dirs /\ p % Size = e[2] /\ HeldBy(e) = Buf(e[1], p)
  BY <1>2, HeldWhere DEF Entries, HeldBy
<1>3. ASSUME NEW e \in Entries, NEW f \in Entries, e # f, HeldBy(e) # NoBuf
      PROVE  HeldBy(e) # HeldBy(f)
  <2> SUFFICES ASSUME HeldBy(f) # NoBuf PROVE HeldBy(e) # HeldBy(f)
    BY <1>3
  <2>1. PICK p \in Held(e[1]) : e[1] \in Dirs /\ p % Size = e[2] /\ HeldBy(e) = Buf(e[1], p)
    BY <1>2, <1>3
  <2>2. PICK r \in Held(f[1]) : f[1] \in Dirs /\ r % Size = f[2] /\ HeldBy(f) = Buf(f[1], r)
    BY <1>2
  <2>3. e[1] # f[1] \/ p # r
    BY <1>3, <2>1, <2>2 DEF Entries
  <2> QED BY <2>1, <2>2, <2>3, HeldApart
<1>4. {HeldBy(e) : e \in Entries} \cap Range(pool.free) = {}
  <2> SUFFICES ASSUME NEW e \in Entries, NEW i \in DOMAIN pool.free, HeldBy(e) = pool.free[i]
               PROVE  FALSE
    BY DEF Range
  <2>1. pool.free[i] \in Nat
    BY <1>1, Sizes DEF NicInv, Types, DriverTypes
  <2>2. HeldBy(e) # NoBuf
    BY <2>1, Sizes
  <2>3. PICK p \in Held(e[1]) : e[1] \in Dirs /\ HeldBy(e) = Buf(e[1], p)
    BY <1>2, <2>2
  <2> QED BY <1>1, <2>3 DEF PoolOK
<1>5. ASSUME NEW d \in Dirs, NEW job \in InDevice(d) PROVE job.buf = ring[d].info[job.ptr % Size]
  <2>1. PICK i \in DOMAIN work[d] : work[d][i].buf # NoBuf /\ job = work[d][i]
    BY DEF InDevice
  <2>2. Moved(d) \in Nat /\ Fetched(d) \in Nat /\ Asked(d) \in Nat /\ Fetched(d) <= Asked(d)
    BY InOrder
  <2>3. i \in Nat
    BY WorkFacts
  <2>4. i <= Fetched(d) - Moved(d)
    BY <2>1, <2>2, <2>3 DEF NicInv, Rows, Jobs
  <2>5. i <= InWork(d)
    BY <2>2, <2>3, <2>4 DEF InWork
  <2> QED BY <2>1, <2>4, <2>5 DEF NicInv, Rows, Jobs, Buf
<1>6. \A i, j \in DOMAIN pool.free : i # j => pool.free[i] # pool.free[j]
  BY <1>1 DEF PoolOK
<1> QED BY <1>3, <1>4, <1>5, <1>6 DEF BuffersApart

\* The frames received are those kept, each with those kept before it received
\* before it.
LEMMA ArrivedHolds == NicInv => GotAsArrived
<1> SUFFICES ASSUME NicInv, NEW i \in DOMAIN net.got
             PROVE  /\ net.got[i][1] = "rx" /\ net.got[i][2] \in Kept
                    /\ Cardinality({f \in Kept : f < net.got[i][2]}) = i - 1
  BY DEF GotAsArrived
<1>1. PICK fr \in [Numbers -> Nat] : RxData(fr) /\ FramesOK(fr)
  BY DEF NicInv, RxOK
<1>2. "rx" \in Dirs
  BY Names
<1>3. net \in [sent : Nat, wire : Seq(Frames), arrived : Nat, got : Seq(Frames), dropped : SUBSET Nat]
  BY DEF NicInv, Types, FrameTypes
<1>4. PICK A \in Nat, D \in Nat, N \in Nat :
        /\ A = Asked("rx") /\ D = Decided /\ N = net.arrived
        /\ D <= N /\ i \in Nat /\ i >= 1 /\ i <= A
  <2>1. Len(net.got) = Freed("rx") /\ i \in 1..Len(net.got)
    BY <1>1, <1>3 DEF RxData
  <2>2. Freed("rx") \in Nat /\ Asked("rx") \in Nat /\ Freed("rx") <= Asked("rx")
    BY <1>2, InOrder
  <2>3. i \in Nat /\ i >= 1 /\ i <= Asked("rx")
    BY <2>1, <2>2
  <2>4. Decided \in Nat /\ net.arrived \in Nat
    BY <1>1, <1>3 DEF FramesOK
  <2>5. Waiting \in Int /\ Waiting >= 0
    <3>1. Len(work["rx"]) >= InWork("rx") /\ Len(work["rx"]) \in Nat
      BY <1>2 DEF NicInv, Rows, Jobs, Types, FrameTypes
    <3>2. InWork("rx") \in Int
      BY <1>2, InOrder DEF InWork
    <3> QED BY <3>1, <3>2 DEF Waiting
  <2>6. Decided <= net.arrived
    BY <2>4, <2>5 DEF Decided
  <2> QED BY <2>2, <2>3, <2>4, <2>6
<1>5. A <= 2 * Size /\ \A p \in 0..(A - 1) : p \in Numbers /\ fr[p] \in Nat
  <2>1. Filled("rx") <= 2 * Size /\ Asked("rx") <= Filled("rx") /\ Filled("rx") \in Nat
    BY <1>2, Counts, InOrder DEF NicInv, Rows
  <2>2. A <= 2 * Size
    BY <1>4, <2>1, Sizes
  <2> QED BY <1>4, <2>2, Sizes DEF Numbers
<1>6. /\ \A p \in 0..(A - 1) : fr[p] \in (1..D) \ net.dropped
      /\ \A p, r \in 0..(A - 1) : p < r => fr[p] < fr[r]
      /\ \A f \in (1..D) \ net.dropped : \E p \in 0..(A - 1) : fr[p] = f
  BY <1>1, <1>4 DEF FramesOK
<1>7. PICK k \in Nat : k = i - 1 /\ k \in 0..(A - 1)
  BY <1>4, i - 1 \in Nat
<1>8. net.got[i] = <<"rx", fr[k]>>
  BY <1>1, <1>7 DEF RxData
<1>9. PICK g \in Nat : g = fr[k] /\ g \in 1..D
  BY <1>5, <1>6, <1>7
<1>10. net.got[i][1] = "rx" /\ net.got[i][2] = g /\ g \in Kept
  BY <1>4, <1>6, <1>7, <1>8, <1>9 DEF Kept
<1> DEFINE S == {f \in Kept : f < g}
           T == 0..(k - 1)
           h == [p \in T |-> fr[p]]
<1>11. Cardinality(T) = k /\ IsFiniteSet(T)
  <2>1. 0 \in Int /\ k - 1 \in Int
    BY <1>7
  <2>2. IsFiniteSet(T) /\ Cardinality(T) = IF 0 > k - 1 THEN 0 ELSE (k - 1) - 0 + 1
    BY <2>1, FS_Interval
  <2> QED BY <1>7, <2>2
<1>12. \A p \in T : p \in 0..(A - 1) /\ p < k
  BY <1>4, <1>7
<1>13. ASSUME NEW p \in T PROVE h[p] \in S
  <2>1. fr[p] \in 1..D /\ fr[p] \notin net.dropped /\ fr[p] < fr[k]
    BY <1>6, <1>7, <1>12
  <2>2. fr[p] \in 1..N
    BY <1>4, <2>1
  <2> QED BY <1>4, <1>9, <2>1, <2>2 DEF Kept
<1>14. ASSUME NEW p \in T, NEW r \in T, p # r PROVE h[p] # h[r]
  <2>1. p \in 0..(A - 1) /\ r \in 0..(A - 1) /\ (p < r \/ r < p)
    BY <1>7, <1>12, <1>14
  <2>2. fr[p] < fr[r] \/ fr[r] < fr[p]
    BY <1>6, <2>1
  <2>3. fr[p] \in Nat /\ fr[r] \in Nat
    BY <1>5, <2>1
  <2> QED BY <2>2, <2>3
<1>15. ASSUME NEW f \in S PROVE \E p \in T : h[p] = f
  <2>1. f \in Nat /\ f >= 1 /\ f < g /\ f \notin net.dropped
    BY <1>4 DEF Kept
  <2>2. f \in (1..D) \ net.dropped
    BY <1>4, <1>9, <2>1
  <2>3. PICK p \in 0..(A - 1) : fr[p] = f
    BY <1>6, <2>2
  <2>4. p < k
    <3> SUFFICES ASSUME k <= p PROVE FALSE
      BY <1>7
    <3>1. CASE k = p
      BY <1>9, <2>1, <2>3, <3>1
    <3>2. CASE k # p
      <4>1. fr[k] < fr[p]
        BY <1>6, <1>7, <3>2
      <4> QED BY <1>9, <2>1, <2>3, <4>1
    <3> QED BY <3>1, <3>2
  <2>5. p \in T
    BY <1>7, <2>4
  <2> QED BY <2>3, <2>5
<1>16. h \in Bijection(T, S)
  <2>1. h \in [T -> S]
    BY <1>13
  <2> HIDE DEF h, S, T
  <2>2. h \in Injection(T, S) /\ h \in Surjection(T, S)
    BY <2>1, <1>14, <1>15 DEF Injection, Surjection, IsInjective
  <2> QED BY <2>2 DEF Bijection
<1>17. Cardinality(S) = k
  <2> HIDE DEF h, S, T
  <2>1. ExistsBijection(T, S)
    BY <1>16 DEF ExistsBijection
  <2> QED BY <1>11, <2>1, FS_Bijection
<1>18. {f \in Kept : f < net.got[i][2]} = S
  BY <1>10
<1> QED BY <1>7, <1>10, <1>17, <1>18

\* With no more frames each way than a ring has entries.
Few == MaxTx <= Size /\ MaxRx <= Size

\* Then every completion names an entry of the ring.
LEMMA CompletedInRing == ASSUME NicInv, Few, NEW d \in Dirs PROVE Completed(d) <= Size
<1>1. /\ Completed(d) \in Nat /\ Moved(d) \in Nat /\ Fetched(d) \in Nat /\ Asked(d) \in Nat
      /\ Filled(d) \in Nat /\ Completed(d) <= Moved(d) /\ Moved(d) <= Fetched(d)
      /\ Fetched(d) <= Asked(d) /\ Asked(d) <= Filled(d)
  BY InOrder
<1>2. CASE d = "tx"
  <2>1. Filled(d) <= MaxTx
    BY <1>2 DEF NicInv, TxData
  <2>2. Completed(d) <= MaxTx
    BY <1>1, <2>1, Sizes
  <2> QED BY <1>1, <2>2, Sizes DEF Few
<1>3. CASE d = "rx"
  <2>1. PICK fr \in [Numbers -> Nat] : FramesOK(fr)
    BY DEF NicInv, RxOK
  <2>2. Decided \in Nat /\ net.arrived <= MaxRx /\ Asked("rx") <= Decided
    BY <2>1 DEF FramesOK
  <2>3. Decided <= net.arrived /\ net.arrived \in Nat
    <3>1. Len(work["rx"]) >= InWork("rx") /\ Len(work["rx"]) \in Nat
      BY <1>3 DEF NicInv, Rows, Jobs, Types, FrameTypes
    <3>2. InWork("rx") \in Int
      BY <1>3, InOrder DEF InWork
    <3>3. Waiting \in Int /\ Waiting >= 0
      BY <3>1, <3>2 DEF Waiting
    <3>4. net.arrived \in Nat
      BY DEF NicInv, Types, FrameTypes
    <3> QED BY <2>2, <3>3, <3>4 DEF Decided
  <2>4. Completed(d) <= MaxRx
    <3>1. Asked(d) <= MaxRx
      BY <1>1, <1>3, <2>2, <2>3, Sizes
    <3> QED BY <1>1, <3>1, Sizes
  <2> QED BY <1>1, <2>4, Sizes DEF Few
<1> QED BY <1>2, <1>3, Names

\* process_tx_cq and process_rx_cq then find every entry that is named in the ring
\* with its buffer.
LEMMA CompletionsInRing ==
  ASSUME NicInv, Few, ReadCompletions PROVE raised' = raised
<1>1. PICK d \in Dirs : d = Dir
  BY DirIs DEF NicInv
<1>2. PICK A \in Nat, C \in Nat :
        /\ A = Freed(d) /\ C = Completed(d) /\ A <= C /\ C <= Size
        /\ Advanced(cq[d].head, q[CqOf[d]].head) = C /\ cq[d].tail = A
        /\ DOMAIN Named(d, A, C) = 1..(C - A)
        /\ \A i \in 1..(C - A) : Named(d, A, C)[i] = A + i - 1
  BY NamedIs, CompletedInRing
<1> DEFINE bad(e, nm) == \E i \in DOMAIN nm :
             \/ nm[i] \notin Slots
             \/ ring[e].info[nm[i]] = NoBuf
             \/ \E j \in 1..(i - 1) : nm[j] = nm[i]
           nm0 == Named(d, A, C)
<1>3. ~bad(Dir, Named(Dir, cq[Dir].tail, Advanced(cq[Dir].head, q[CqOf[Dir]].head)))
        => raised' = raised
  BY DEF ReadCompletions
<1>4. Named(d, cq[d].tail, Advanced(cq[d].head, q[CqOf[d]].head)) = nm0
  BY <1>2
<1>5. ~bad(d, nm0)
  <2> SUFFICES ASSUME NEW i \in DOMAIN nm0
               PROVE  /\ nm0[i] \in Slots /\ ring[d].info[nm0[i]] # NoBuf
                      /\ \A j \in 1..(i - 1) : nm0[j] # nm0[i]
    OBVIOUS
  <2>1. i \in 1..(C - A) /\ i \in Nat
    BY <1>2
  <2>2. PICK p \in Nat : p = A + i - 1 /\ nm0[i] = p
    BY <1>2, <2>1, A + i - 1 \in Nat
  <2>3. A <= p /\ p < C
    BY <1>2, <2>1, <2>2
  <2>4. p \in Slots /\ p % Size = p
    <3>1. p \in Slots
      BY <1>2, <2>2, <2>3, Sizes DEF Slots
    <3> QED BY <3>1, SlotOf
  <2>5. p \in Held(d)
    <3>1. /\ Completed(d) \in Nat /\ Moved(d) \in Nat /\ Fetched(d) \in Nat /\ Asked(d) \in Nat
          /\ Filled(d) \in Nat /\ Completed(d) <= Moved(d) /\ Moved(d) <= Fetched(d)
          /\ Fetched(d) <= Asked(d) /\ Asked(d) <= Filled(d)
      BY InOrder
    <3>2. C <= Filled(d)
      BY <1>2, <3>1
    <3> QED BY <1>2, <2>2, <2>3, <3>1, <3>2 DEF Held
  <2>6. Buf(d, p) \in Nat
    BY <2>5, HeldApart
  <2>7. ring[d].info[p] # NoBuf
    BY <2>4, <2>6, Sizes DEF Buf
  <2>8. ASSUME NEW j \in 1..(i - 1) PROVE nm0[j] # nm0[i]
    <3>1. j \in 1..(C - A) /\ j \in Nat /\ j < i
      BY <1>2, <2>1
    <3>2. nm0[j] = A + j - 1
      BY <1>2, <3>1
    <3> HIDE DEF nm0
    <3> QED BY <1>2, <2>1, <2>2, <3>1, <3>2
  <2> QED BY <2>2, <2>4, <2>7, <2>8
<1> HIDE DEF bad, nm0
<1> QED BY <1>1, <1>3, <1>4, <1>5

-----------------------------------------------------------------------------
(* Theorems. *)

\* Type correctness of the driver and its device: in every state the pointers that
\* open, start_xmit, the interrupt callback and the queue managers keep have the
\* order and the range that NicTypeOK states.
THEOREM NicTypeCorrect == NicSpec => []NicTypeOK
<1> QED BY NicInvariant, TypesHold, PTL

\* alloc_pkt, free_pkt, prepare_desc and free_desc: no packet buffer is in two
\* places, and the device works on no buffer but the one its entry holds.
THEOREM BuffersStayApart == NicSpec => []BuffersApart
<1> QED BY NicInvariant, ApartHolds, PTL

\* start_xmit and the transmit engine: frames leave in the order they were handed
\* over, each once and with its own data.
THEOREM WireFaithful == NicSpec => []WireInOrder
<1>1. NicInv => WireInOrder
  BY DEF NicInv, TxData, WireInOrder
<1> QED BY <1>1, NicInvariant, PTL

\* The receive engine and process_rx_cq: the frames that recv returns are those
\* that arrived and were not dropped, in their order, with nothing left out.
THEOREM ReceiveFaithful == NicSpec => []GotAsArrived
<1> QED BY NicInvariant, ArrivedHolds, PTL

\* process_tx_cq and process_rx_cq raise no exception while no more frames go each
\* way than a ring has entries; after that a completion carries the pointer of its
\* entry and not its index, which lies outside the ring.
THEOREM FewNeverRaise == Few /\ NicSpec => []NeverRaises
<1> SUFFICES ASSUME Few PROVE NicSpec => []NeverRaises
  OBVIOUS
<1>1. NicInit => NeverRaises
  BY DEF NicInit, NeverRaises
<1>2. NicInv /\ NeverRaises /\ [NicNext]_nicVars => NeverRaises'
  <2> SUFFICES ASSUME NicInv, NeverRaises, [NicNext]_nicVars PROVE NeverRaises'
    OBVIOUS
  <2>1. CASE ReadCompletions
    BY <2>1, CompletionsInRing DEF NeverRaises
  <2>2. CASE ~ReadCompletions
    <3>1. raised' = raised
      BY <2>2 DEF NicNext, Callback, Device, Open, StartXmit, WriteRegister, Arrive, Interrupt,
         ReadEvents, ReadRing, FinishInterrupt, TxFetch, RxFetch, SendMsi, ReadDescriptor, MoveData,
         EnqueueEvent, CommitEntry, nicVars, drvVars
    <3> QED BY <3>1 DEF NeverRaises
  <2> QED BY <2>1, <2>2
<1> QED BY <1>1, <1>2, NicInvariant, PTL DEF NicSpec
=============================================================================
