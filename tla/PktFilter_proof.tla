--------------------------- MODULE PktFilter_proof ---------------------------
(***************************************************************************)
(* Proofs about PktFilter, for every number of packets, packet length, gap *)
(* and FIFO depth.  Type correctness needs no assumption on the traffic;   *)
(* the rest holds under Calm, the conditions the testbenches keep.         *)
(*                                                                         *)
(* The heart is IInv: the filter's state machine stays in step with the    *)
(* source (InStep), the two output registers are never loaded in the same  *)
(* stretch (Switched), a packet that was let in has room left in the FIFO  *)
(* (Budget), and every beat is accounted for (Counted).                    *)
(***************************************************************************)
EXTENDS PktFilter, SequenceTheorems, TLAPS

-----------------------------------------------------------------------------
(* Type correctness, with no assumption on the traffic. *)

BusTypeOK ==
  /\ s \in Bus
  /\ pkt \in [kind : Kinds, sent : 0..(MaxBeats - 1)]
  /\ gap \in 0..MinGap /\ pkts \in 0..MaxPkts
  /\ offered \in [Kinds -> Nat]

\* A beat that the source puts on the bus has its type.
LEMMA OfferType ==
  ASSUME TypeOK, NEW k \in Kinds, NEW l \in Kinds, NEW i \in 1..MaxBeats,
         NEW last \in BOOLEAN, Offer(k, l, i, last), pkts' \in 0..MaxPkts
  PROVE  BusTypeOK'
<1> USE FilterAssumption DEF TypeOK
<1>1. s' \in Bus /\ offered' \in [Kinds -> Nat]
  <2>1. offered \in [Kinds -> Nat] /\ offered[k] \in Nat
    OBVIOUS
  <2>2. s' = [valid |-> TRUE, kind |-> k, looks |-> l, idx |-> i,
              num |-> offered[k] + 1, last |-> last]
    BY DEF Offer
  <2>3. offered' = [offered EXCEPT ![k] = @ + 1]
    BY DEF Offer
  <2>4. s' \in Bus
    <3>1. offered[k] + 1 \in Nat /\ TRUE \in BOOLEAN
      BY <2>1
    <3> QED BY <2>2, <3>1, Zenon DEF Bus
  <2> HIDE DEF TypeOK
  <2>5. offered' \in [Kinds -> Nat]
    BY <2>1, <2>3
  <2> QED BY <2>4, <2>5
<1>2. pkt' \in [kind : Kinds, sent : 0..(MaxBeats - 1)]
  <2>1. CASE last
    BY <2>1 DEF Offer, NoPkt, Kinds
  <2>2. CASE ~last
    BY <2>2 DEF Offer
  <2> QED BY <2>1, <2>2
<1>3. gap' \in 0..MinGap
  BY DEF Offer
<1> QED BY <1>1, <1>2, <1>3 DEF BusTypeOK

\* An idle bus is a beat like any other.
LEMMA NoBeatType == NoBeat \in Bus
BY FilterAssumption DEF NoBeat, Bus, Kinds

\* The bus keeps its type, whatever the source does.
LEMMA SourceType == TypeOK /\ Source => BusTypeOK'
<1> SUFFICES ASSUME TypeOK, Source PROVE BusTypeOK'
  OBVIOUS
<1> USE FilterAssumption
<1>1. CASE UNCHANGED source
  BY <1>1 DEF source, TypeOK, BusTypeOK
<1>2. CASE Pause
  BY <1>2, NoBeatType DEF Pause, TypeOK, BusTypeOK
<1>3. CASE StartPkt
  <2>1. pkts' \in 0..MaxPkts
    BY <1>3 DEF StartPkt, TypeOK
  <2>2. PICK k \in Sends, last \in BOOLEAN : Offer(k, k, 1, last)
    BY <1>3 DEF StartPkt
  <2> QED BY <2>1, <2>2, OfferType
<1>4. CASE NextBeat
  <2>1. pkts' \in 0..MaxPkts
    BY <1>4 DEF NextBeat, TypeOK
  <2>2. PICK l \in PayloadLooks, last \in BOOLEAN :
           Offer(pkt.kind, l, pkt.sent + 1, last)
    BY <1>4 DEF NextBeat
  <2>3. pkt.kind \in Kinds /\ pkt.sent + 1 \in 1..MaxBeats
    BY DEF TypeOK
  <2> QED BY <2>1, <2>2, <2>3, OfferType
<1> QED BY <1>1, <1>2, <1>3, <1>4 DEF Source

FilterTypeOK ==
  /\ m \in Bus /\ c \in Bus
  /\ state \in FilterStates /\ cSwitch \in BOOLEAN /\ sReady \in BOOLEAN

\* The steering of a beat keeps the output registers' types.
LEMMA RouteType ==
  ASSUME TypeOK, NEW sw \in BOOLEAN, NEW v \in BOOLEAN, Route(sw, v)
  PROVE  m' \in Bus /\ c' \in Bus /\ cSwitch' \in BOOLEAN /\ sReady' \in BOOLEAN
<1>1. [s EXCEPT !.valid = v] \in Bus
  BY DEF TypeOK, Bus
<1>2. CASE sw
  BY <1>1, <1>2 DEF Route, TypeOK
<1>3. CASE ~sw
  BY <1>1, <1>3, NoBeatType DEF Route, TypeOK, mReady
<1> QED BY <1>2, <1>3

\* The filter's registers keep their types in every state.
LEMMA FilterType == TypeOK /\ Filter => FilterTypeOK'
<1> SUFFICES ASSUME TypeOK, Filter PROVE FilterTypeOK'
  OBVIOUS
<1>1. s.valid \in BOOLEAN /\ cSwitch \in BOOLEAN
  BY DEF TypeOK, Bus
<1>2. \E sw, v \in BOOLEAN : Route(sw, v)
  BY <1>1 DEF Filter, WaitFirstData, WaitFirstCtl, WaitFirstOther,
              WaitFirstIdle, FlushData, FlushCtl, DropPkt
<1>3. state' \in FilterStates
  BY DEF TypeOK, Filter, WaitFirstData, WaitFirstCtl, WaitFirstOther,
         WaitFirstIdle, FlushData, FlushCtl, DropPkt, AfterBeat, FilterStates
<1> QED BY <1>2, <1>3, RouteType DEF FilterTypeOK

FifoWords == {b \in Bus : b.valid}

\* A FIFO of Depth words, written only when it is not full, never overflows.
LEMMA FifoType ==
  ASSUME TypeOK, NEW rd \in BOOLEAN, PktFifo(rd)
  PROVE  fifo' \in Seq(FifoWords) /\ Len(fifo') <= Depth /\ written' \in Nat
<1> DEFINE kept == IF rd /\ fifo # <<>> THEN Tail(fifo) ELSE fifo
<1>1. fifo \in Seq(FifoWords) /\ Len(fifo) <= Depth /\ m \in Bus
  BY DEF TypeOK, FifoWords
<1>2. kept \in Seq(FifoWords) /\ Len(kept) <= Len(fifo)
  BY <1>1
<1>3. CASE WrEn
  <2>1. m \in FifoWords /\ Len(fifo) < Depth
    BY <1>1, <1>3 DEF WrEn, mReady, FifoWords
  <2>2. fifo' = kept \o <<m>>
    BY <1>3 DEF PktFifo
  <2>3. kept \o <<m>> \in Seq(FifoWords) /\ Len(kept \o <<m>>) = Len(kept) + 1
    BY <1>2, <2>1
  <2> QED BY <1>1, <1>2, <1>3, <2>1, <2>2, <2>3, FilterAssumption DEF PktFifo, TypeOK
<1>4. CASE ~WrEn
  <2>1. fifo' = kept
    BY <1>2, <1>4 DEF PktFifo
  <2> QED BY <1>1, <1>2, <1>4, <2>1, FilterAssumption DEF PktFifo, TypeOK
<1> QED BY <1>3, <1>4

\* The types are an inductive invariant.
LEMMA TypeInductive == TypeOK /\ [Next]_vars => TypeOK'
<1> SUFFICES ASSUME TypeOK, [Next]_vars PROVE TypeOK'
  OBVIOUS
<1>1. CASE UNCHANGED vars
  BY <1>1 DEF vars, source, TypeOK
<1>2. CASE Next
  <2>1. PICK rd \in BOOLEAN : Tick(rd)
    BY <1>2 DEF Next
  <2>2. BusTypeOK' /\ FilterTypeOK'
    BY <2>1, SourceType, FilterType DEF Tick
  <2>3. fifo' \in Seq(FifoWords) /\ Len(fifo') <= Depth /\ written' \in Nat
    BY <2>1, FifoType DEF Tick
  <2>4. steered' \in Nat
    BY <2>1 DEF Tick, CtlChannel, TypeOK
  <2> QED BY <2>2, <2>3, <2>4 DEF TypeOK, BusTypeOK, FilterTypeOK, FifoWords
<1> QED BY <1>1, <1>2

\* After reset every register has its type.
LEMMA InitType == Init => TypeOK
<1> SUFFICES ASSUME Init PROVE TypeOK
  OBVIOUS
<1>1. <<>> \in Seq({b \in Bus : b.valid}) /\ Len(<<>>) = 0
  OBVIOUS
<1>2. NoPkt \in [kind : Kinds, sent : 0..(MaxBeats - 1)]
  BY FilterAssumption DEF NoPkt, Kinds
<1>3. MinGap \in 0..MinGap /\ 0 \in 0..MaxPkts /\ 0 <= Depth
  BY FilterAssumption
<1>4. "WAIT_FIRST_PKT" \in FilterStates
  BY DEF FilterStates
<1>5. offered \in [Kinds -> Nat]
  BY DEF Init
<1> QED BY <1>1, <1>2, <1>3, <1>4, <1>5, NoBeatType DEF Init, TypeOK

\* The registers, the bus and the FIFO keep their types and pkt_fifo never
\* overflows, whatever the traffic and the deparser do.
THEOREM TypeCorrect == Spec => []TypeOK
BY InitType, TypeInductive, PTL DEF Spec

-----------------------------------------------------------------------------
(* The inductive invariant under Calm. *)

One(b) == IF b THEN 1 ELSE 0

\* The state the filter is in while it handles the body of a packet of kind k.
For(k) == IF k = "udp" THEN "FLUSH_DATA"
          ELSE IF k = "ctl" THEN "FLUSH_CTL" ELSE "DROP_PKT"

Header == s.valid /\ s.idx = 1

\* The beat on the bus, the source's place in its packet and the state agree.
InStep ==
  /\ ~sReady => ~s.valid /\ state = "WAIT_FIRST_PKT"
  /\ Header => state = "WAIT_FIRST_PKT" /\ s.looks = s.kind /\ ~s.last
  /\ s.valid /\ s.idx # 1 => state = For(s.kind)
  /\ s.valid /\ ~s.last => pkt = [kind |-> s.kind, sent |-> s.idx]
  /\ s.valid /\ s.last => pkt = NoPkt
  /\ ~s.valid => ~s.last
  /\ ~s.valid /\ pkt = NoPkt => state = "WAIT_FIRST_PKT"
  /\ ~s.valid /\ pkt # NoPkt => state = For(pkt.kind)
  /\ pkt # NoPkt => pkt.sent # 0
  /\ gap # 0 => ~s.valid

\* Which of the two output registers may hold a beat.
Switched ==
  /\ Header => ~cSwitch /\ ~m.valid
  /\ state \in {"FLUSH_DATA", "DROP_PKT"} => ~cSwitch
  /\ state = "FLUSH_CTL" => ~m.valid

Udp == {b \in Bus : b.valid /\ b.kind = "udp"}

\* Only beats of the right kind are on either side.
Pure ==
  /\ m.valid => m.kind = "udp"
  /\ c.valid => c.kind = "ctl"
  /\ fifo \in Seq(Udp)

\* What the FIFO holds, and may still be sent of the packet in flight, fits.
Budget == Len(fifo) + One(m.valid) + One(s.valid)
            + (IF pkt = NoPkt THEN 0 ELSE MaxBeats - pkt.sent) < Depth

Counted ==
  /\ s.valid => s.num = offered[s.kind]
  /\ ExactlyOnce

IInv == TypeOK /\ InStep /\ Switched /\ Pure /\ Budget /\ Counted

\* After reset the inductive invariant holds.
LEMMA InitIInv == Init => IInv
<1> SUFFICES ASSUME Init PROVE IInv
  OBVIOUS
<1>1. TypeOK
  BY InitType
<1>2. ~s.valid /\ ~s.last /\ ~m.valid /\ ~c.valid /\ pkt = NoPkt
  BY DEF Init, NoBeat
<1>3. InStep /\ Switched
  BY <1>2 DEF Init, InStep, Switched, Header, For
<1>4. Pure
  BY <1>2 DEF Init, Pure
<1>5. Budget
  BY <1>2, FilterAssumption DEF Init, Budget, One
<1>6. Counted
  BY <1>2 DEF Init, Counted, ExactlyOnce, DataExactlyOnce, CtlExactlyOnce,
              Taken, Kinds
<1> QED BY <1>1, <1>3, <1>4, <1>5, <1>6 DEF IInv

\* The FIFO always has room, so the filter is always ready to be passed a beat.
LEMMA Ready == IInv => mReady
<1> SUFFICES ASSUME IInv PROVE mReady
  OBVIOUS
<1> DEFINE rest == IF pkt = NoPkt THEN 0 ELSE MaxBeats - pkt.sent
<1>1. rest \in Nat
  BY FilterAssumption DEF IInv, TypeOK
<1>2. Len(fifo) \in Nat
  BY DEF IInv, TypeOK
<1>3. Len(fifo) + One(m.valid) + One(s.valid) + rest < Depth
  BY DEF IInv, Budget
<1>4. One(m.valid) \in Nat /\ One(s.valid) \in Nat
  BY DEF One
<1> HIDE DEF rest
<1> QED BY <1>1, <1>2, <1>3, <1>4, FilterAssumption DEF mReady

\* The filter never has to hold a beat back.
LEMMA NeverHolding == IInv => ~Holding
BY DEF IInv, InStep, Holding

\* What one cycle of the filter does with the beat on the bus.
Passed ==
  /\ state' = IF ~s.valid THEN state
              ELSE IF s.last THEN "WAIT_FIRST_PKT" ELSE For(s.kind)
  /\ m'.valid <=> s.valid /\ s.kind = "udp"
  /\ m'.valid => m' = s
  /\ c'.valid <=> s.valid /\ s.kind = "ctl"
  /\ c'.valid => c' = s
  /\ sReady'
  /\ state = "WAIT_FIRST_PKT" /\ ~s.valid => ~cSwitch'
  /\ state' \in {"FLUSH_DATA", "DROP_PKT"} => ~cSwitch'

\* Every state of the filter does with a beat what Passed says.
LEMMA FilterPasses == IInv /\ Filter => Passed
<1> SUFFICES ASSUME IInv, Filter PROVE Passed
  OBVIOUS
<1> DEFINE On(v) == [s EXCEPT !.valid = v]
<1>1. s \in Bus /\ mReady
  BY Ready DEF IInv, TypeOK
<1>2. On(FALSE).valid = FALSE /\ On(TRUE).valid = TRUE
  BY <1>1 DEF Bus
<1>3. s.valid => On(TRUE) = s /\ On(s.valid) = s
  BY <1>1 DEF Bus
<1>4. s.kind \in {"udp", "ctl", "other"} /\ s.valid \in BOOLEAN
      /\ NoBeat.valid = FALSE
  BY <1>1 DEF Bus, Kinds, NoBeat
<1>5. ~s.valid => ~s.last
  BY DEF IInv, InStep
<1>6. ~sReady => ~s.valid /\ state = "WAIT_FIRST_PKT"
  BY DEF IInv, InStep
<1>7. s.valid => (s.idx = 1 /\ state = "WAIT_FIRST_PKT" /\ s.looks = s.kind
                   /\ ~s.last /\ ~cSwitch /\ ~m.valid)
                 \/ state = For(s.kind)
  BY DEF IInv, InStep, Switched, Header
<1>8. /\ state \in {"FLUSH_DATA", "DROP_PKT"} => ~cSwitch
      /\ state = "FLUSH_CTL" => ~m.valid
  BY DEF IInv, Switched
<1> HIDE DEF On
<1> USE DEF Passed, For
<1>a. CASE WaitFirstData
  <2>1. s.valid /\ s.kind = "udp" /\ ~s.last /\ state = "WAIT_FIRST_PKT"
    BY <1>a, <1>4, <1>7 DEF WaitFirstData, AtHeader
  <2>2. m' = On(TRUE) /\ c' = NoBeat /\ sReady' /\ ~cSwitch'
        /\ state' = "FLUSH_DATA"
    BY <1>a, <1>1 DEF WaitFirstData, Route, On
  <2> QED BY <2>1, <2>2, <1>2, <1>3, <1>4
<1>b. CASE WaitFirstCtl
  <2>1. s.valid /\ s.kind = "ctl" /\ ~s.last /\ ~m.valid
        /\ state = "WAIT_FIRST_PKT"
    BY <1>b, <1>4, <1>7 DEF WaitFirstCtl, AtHeader
  <2>2. c' = On(TRUE) /\ m' = m /\ sReady' = sReady /\ cSwitch'
        /\ state' = "FLUSH_CTL"
    BY <1>b DEF WaitFirstCtl, Route, On
  <2> QED BY <2>1, <2>2, <1>2, <1>3, <1>4, <1>6
<1>c. CASE WaitFirstOther
  <2>1. s.valid /\ s.kind = "other" /\ ~s.last /\ ~cSwitch
        /\ state = "WAIT_FIRST_PKT"
    BY <1>c, <1>4, <1>7 DEF WaitFirstOther, AtHeader
  <2>2. m' = On(FALSE) /\ c' = NoBeat /\ sReady' /\ ~cSwitch'
        /\ state' = "DROP_PKT"
    BY <1>c, <2>1, <1>1 DEF WaitFirstOther, Route, On
  <2> QED BY <2>1, <2>2, <1>2, <1>4
<1>d. CASE WaitFirstIdle
  <2>1. ~s.valid /\ state = "WAIT_FIRST_PKT"
    BY <1>d, <1>1 DEF WaitFirstIdle, AtHeader
  <2>2. m' = On(FALSE) /\ c' = NoBeat /\ sReady' /\ ~cSwitch'
        /\ state' = state
    BY <1>d, <2>1, <1>1, <1>4 DEF WaitFirstIdle, Route, On
  <2> QED BY <2>1, <2>2, <1>2, <1>4
<1>e. CASE FlushData
  <2>1. state = "FLUSH_DATA" /\ ~cSwitch /\ (s.valid => s.kind = "udp")
    BY <1>e, <1>4, <1>7, <1>8 DEF FlushData
  <2>2. m' = On(s.valid) /\ c' = NoBeat /\ sReady' /\ ~cSwitch'
        /\ state' = AfterBeat
    BY <1>e, <2>1, <1>1 DEF FlushData, Route, On
  <2> QED BY <2>1, <2>2, <1>2, <1>3, <1>4, <1>5 DEF AfterBeat
<1>f. CASE FlushCtl
  <2>1. state = "FLUSH_CTL" /\ ~m.valid /\ (s.valid => s.kind = "ctl") /\ sReady
    BY <1>f, <1>4, <1>6, <1>7, <1>8 DEF FlushCtl
  <2>2. c' = On(s.valid) /\ m' = m /\ sReady' = sReady /\ state' = AfterBeat
    BY <1>f DEF FlushCtl, Route, On
  <2> QED BY <2>1, <2>2, <1>2, <1>3, <1>4, <1>5 DEF AfterBeat
<1>g. CASE DropPkt
  <2>1. state = "DROP_PKT" /\ ~cSwitch /\ (s.valid => s.kind = "other")
    BY <1>g, <1>4, <1>7, <1>8 DEF DropPkt
  <2>2. m' = On(FALSE) /\ c' = NoBeat /\ sReady' /\ ~cSwitch'
        /\ state' = AfterBeat
    BY <1>g, <2>1, <1>1 DEF DropPkt, Route, On
  <2> QED BY <2>1, <2>2, <1>2, <1>4, <1>5 DEF AfterBeat
<1> QED BY <1>a, <1>b, <1>c, <1>d, <1>e, <1>f, <1>g DEF Filter

\* Under Calm the bus is idle when a packet starts.
LEMMA SourceSends ==
  ASSUME Calm, IInv, Source
  PROVE  \/ Pause
         \/ StartPkt /\ ~s.valid /\ state = "WAIT_FIRST_PKT"
         \/ NextBeat /\ (s.valid => ~s.last)
<1>1. Pause \/ StartPkt \/ NextBeat
  BY NeverHolding DEF Source
<1>2. CASE StartPkt
  <2>1. gap # 0
    BY <1>2, FilterAssumption DEF StartPkt, Calm, IInv, TypeOK
  <2> QED BY <1>2, <2>1 DEF IInv, InStep, StartPkt
<1>3. CASE NextBeat
  BY <1>3 DEF NextBeat, IInv, InStep
<1> QED BY <1>1, <1>2, <1>3

\* The filter's state goes on agreeing with the packet on the bus.
LEMMA KeepsInStep ==
  ASSUME Calm, IInv, Source, Passed
  PROVE  InStep'
<1>1. /\ s.valid /\ ~s.last => pkt = [kind |-> s.kind, sent |-> s.idx] /\ s.idx # 0
      /\ s.valid /\ s.last => pkt = NoPkt
      /\ ~s.valid /\ pkt = NoPkt => state = "WAIT_FIRST_PKT"
      /\ ~s.valid /\ pkt # NoPkt => state = For(pkt.kind)
      /\ ~s.valid => ~s.last
      /\ pkt # NoPkt => pkt.sent # 0
  BY DEF IInv, InStep, TypeOK, Bus
<1>2. sReady'
  BY DEF Passed
<1>3. NoPkt.sent = 0
  BY DEF NoPkt
<1>a. CASE Pause
  <2>1. s' = NoBeat /\ pkt' = pkt
    BY <1>a DEF Pause
  <2>2. ~s'.valid /\ ~s'.last
    BY <2>1 DEF NoBeat
  <2>3. pkt = NoPkt => state' = "WAIT_FIRST_PKT"
    BY <1>1, <1>3 DEF Passed
  <2>4. pkt # NoPkt => state' = For(pkt.kind)
    BY <1>1 DEF Passed
  <2> QED BY <1>1, <1>2, <2>1, <2>2, <2>3, <2>4 DEF InStep, Header
<1>b. CASE StartPkt /\ ~s.valid /\ state = "WAIT_FIRST_PKT"
  <2>1. PICK k \in Sends, last \in BOOLEAN : Offer(k, k, 1, last)
    BY <1>b DEF StartPkt
  <2>2. ~last
    BY <2>1, FilterAssumption DEF Offer, Calm
  <2>3. /\ s'.valid /\ s'.kind = k /\ s'.looks = k /\ s'.idx = 1 /\ ~s'.last
        /\ pkt' = [kind |-> k, sent |-> 1] /\ gap' = 0
    BY <2>1, <2>2 DEF Offer
  <2>4. state' = "WAIT_FIRST_PKT" /\ pkt'.sent # 0
    BY <1>b, <2>3 DEF Passed
  <2> QED BY <1>2, <2>3, <2>4 DEF InStep, Header
<1>c. CASE NextBeat /\ (s.valid => ~s.last)
  <2>1. PICK l \in PayloadLooks, last \in BOOLEAN :
           Offer(pkt.kind, l, pkt.sent + 1, last)
    BY <1>c DEF NextBeat
  <2>2. pkt # NoPkt /\ pkt.sent \in Nat /\ pkt.sent # 0
    BY <1>1, <1>c, FilterAssumption DEF NextBeat, IInv, TypeOK
  <2>3. /\ s'.valid /\ s'.kind = pkt.kind /\ s'.idx = pkt.sent + 1
        /\ s'.idx # 1 /\ gap' = 0 /\ s'.last = last
        /\ pkt' = IF last THEN NoPkt ELSE [kind |-> pkt.kind, sent |-> pkt.sent + 1]
    BY <2>1, <2>2 DEF Offer
  <2>4. state' = For(pkt.kind)
    BY <1>1, <1>c, <2>2 DEF Passed
  <2>5. pkt' # NoPkt => pkt'.sent # 0
    BY <2>2, <2>3
  <2> QED BY <1>2, <2>3, <2>4, <2>5 DEF InStep, Header
<1> QED BY <1>a, <1>b, <1>c, SourceSends

\* No output register is left holding a beat of the other side.
LEMMA KeepsSwitched ==
  ASSUME Calm, IInv, Source, Passed
  PROVE  Switched'
<1>1. Header' => StartPkt /\ ~s.valid /\ state = "WAIT_FIRST_PKT"
  <2>1. CASE Pause
    BY <2>1 DEF Pause, NoBeat, Header
  <2>2. CASE NextBeat
    <3>1. pkt.sent \in Nat /\ pkt.sent # 0
      BY <2>2, FilterAssumption DEF NextBeat, IInv, TypeOK, InStep
    <3>2. s'.idx = pkt.sent + 1
      BY <2>2 DEF NextBeat, Offer
    <3> QED BY <3>1, <3>2 DEF Header
  <2> QED BY <2>1, <2>2, SourceSends
<1>2. Header' => ~cSwitch' /\ ~m'.valid
  BY <1>1 DEF Passed
<1>3. state' = "FLUSH_CTL" => ~m'.valid
  BY DEF Passed, For, IInv, TypeOK, InStep, Switched, Bus, Kinds
<1> QED BY <1>2, <1>3 DEF Switched, Passed

\* What pkt_fifo holds after a cycle, and how many beats it has taken.
LEMMA FifoReads ==
  ASSUME IInv, NEW rd \in BOOLEAN, PktFifo(rd)
  PROVE  /\ fifo' \in Seq(Udp)
         /\ Len(fifo') <= Len(fifo) + One(m.valid)
         /\ written' = written + One(m.valid)
<1> DEFINE kept == IF rd /\ fifo # <<>> THEN Tail(fifo) ELSE fifo
<1>1. fifo \in Seq(Udp) /\ m \in Bus /\ (m.valid => m \in Udp)
  BY DEF IInv, TypeOK, Pure, Udp
<1>2. kept \in Seq(Udp) /\ Len(kept) <= Len(fifo)
  BY <1>1
<1>3. WrEn <=> m.valid
  BY Ready DEF WrEn
<1>4. written \in Nat
  BY DEF IInv, TypeOK
<1>5. CASE m.valid
  <2>1. fifo' = kept \o <<m>> /\ written' = written + 1
    BY <1>3, <1>5 DEF PktFifo
  <2> QED BY <1>1, <1>2, <1>5, <2>1 DEF One
<1>6. CASE ~m.valid
  <2>1. fifo' = kept \o << >> /\ written' = written
    BY <1>3, <1>6 DEF PktFifo
  <2>2. fifo' = kept
    BY <1>2, <2>1
  <2> HIDE DEF kept
  <2> QED BY <1>1, <1>2, <1>4, <1>6, <2>1, <2>2 DEF One
<1> QED BY <1>5, <1>6

\* Only beats of the right kind reach either side.
LEMMA KeepsPure ==
  ASSUME IInv, Passed, NEW rd \in BOOLEAN, PktFifo(rd)
  PROVE  Pure'
<1>1. fifo' \in Seq(Udp)
  BY FifoReads
<1> QED BY <1>1 DEF Passed, Pure, Udp, Bus, Kinds

\* The rest of the packet in flight goes on fitting in pkt_fifo.
LEMMA KeepsBudget ==
  ASSUME Calm, IInv, TypeOK', Source, Passed, NEW rd \in BOOLEAN, PktFifo(rd)
  PROVE  Budget'
<1> DEFINE rest == IF pkt = NoPkt THEN 0 ELSE MaxBeats - pkt.sent
           old == Len(fifo) + One(m.valid)
<1>1. /\ Len(fifo) \in Nat /\ Len(fifo') \in Nat /\ pkt.sent \in Nat
      /\ pkt.sent < MaxBeats /\ rest \in Nat
      /\ One(m.valid) \in {0, 1} /\ One(s.valid) \in {0, 1}
      /\ One(m'.valid) \in {0, 1} /\ One(s'.valid) \in {0, 1}
      /\ MaxBeats \in Nat /\ Depth \in Nat
  BY FilterAssumption DEF IInv, TypeOK, One
<1>2. Len(fifo') <= old
  BY FifoReads
<1>3. One(m'.valid) <= One(s.valid)
  BY DEF Passed, One
<1>4. old + One(s.valid) + rest < Depth
  BY DEF IInv, Budget
<1>a. CASE Pause
  <2>1. One(s'.valid) = 0 /\ pkt' = pkt
    BY <1>a DEF Pause, NoBeat, One
  <2> HIDE DEF rest
  <2>2. Len(fifo') + One(m'.valid) + One(s'.valid) + rest < Depth
    BY <1>1, <1>2, <1>3, <1>4, <2>1
  <2> QED BY <2>1, <2>2 DEF Budget, rest
<1>b. CASE StartPkt /\ ~s.valid /\ state = "WAIT_FIRST_PKT"
  <2>1. PICK k \in Sends, last \in BOOLEAN : Offer(k, k, 1, last)
    BY <1>b DEF StartPkt
  <2>2. ~last
    BY <2>1, FilterAssumption DEF Offer, Calm
  <2>3. pkt' = [kind |-> k, sent |-> 1] /\ pkt' # NoPkt
    BY <2>1, <2>2 DEF Offer, NoPkt
  <2>4. One(m'.valid) = 0
    BY <1>b DEF Passed, One
  <2>5. Len(fifo) + MaxBeats + 1 < Depth
    BY <1>b DEF StartPkt, Calm, Room
  <2>6. Len(fifo') + One(m'.valid) + One(s'.valid) + (MaxBeats - 1) < Depth
    BY <1>1, <1>2, <2>4, <2>5
  <2> QED BY <2>3, <2>6 DEF Budget
<1>c. CASE NextBeat /\ (s.valid => ~s.last)
  <2>1. PICK l \in PayloadLooks, last \in BOOLEAN :
           Offer(pkt.kind, l, pkt.sent + 1, last)
    BY <1>c DEF NextBeat
  <2>2. rest = MaxBeats - pkt.sent
    BY <1>c DEF NextBeat
  <2>3. pkt' = IF last THEN NoPkt ELSE [kind |-> pkt.kind, sent |-> pkt.sent + 1]
    BY <2>1 DEF Offer
  <2> DEFINE rest2 == IF pkt' = NoPkt THEN 0 ELSE MaxBeats - pkt'.sent
  <2>4. rest2 \in Int /\ rest2 + 1 <= rest
    BY <1>1, <2>2, <2>3 DEF NoPkt
  <2> HIDE DEF rest, rest2, old
  <2>5. old \in Int /\ One(s'.valid) <= 1
    BY <1>1 DEF old
  <2>6. Len(fifo') + One(m'.valid) + One(s'.valid) + rest2
          <= old + One(s.valid) + rest
    BY <1>1, <1>2, <1>3, <2>4, <2>5
  <2>7. Len(fifo') + One(m'.valid) + One(s'.valid) + rest2 < Depth
    BY <1>1, <1>4, <2>4, <2>5, <2>6
  <2> QED BY <2>7 DEF Budget, rest2
<1> QED BY <1>a, <1>b, <1>c, SourceSends

\* However the source moves, what it has handed over after the edge is what
\* it had offered before it.
LEMMA TakenNext ==
  ASSUME Calm, IInv, Source
  PROVE  /\ \A k \in Kinds : Taken(k)' = offered[k]
         /\ s'.valid => s'.num = offered'[s'.kind]
<1>1. offered \in [Kinds -> Nat]
  BY DEF IInv, TypeOK
<1>a. CASE Pause
  BY <1>1, <1>a DEF Pause, NoBeat, Taken
<1>b. ASSUME NEW j \in Kinds, NEW l, NEW i, NEW last, Offer(j, l, i, last)
      PROVE  /\ \A k \in Kinds : Taken(k)' = offered[k]
             /\ s'.valid => s'.num = offered'[s'.kind]
  <2>1. offered' = [offered EXCEPT ![j] = @ + 1] /\ s'.valid /\ s'.kind = j
        /\ s'.num = offered[j] + 1
    BY <1>b DEF Offer
  <2>2. offered'[j] = offered[j] + 1 /\ offered[j] \in Nat
    BY <1>1, <2>1
  <2>3. ASSUME NEW k \in Kinds PROVE Taken(k)' = offered[k]
    BY <1>1, <2>1, <2>2 DEF Taken
  <2> QED BY <2>1, <2>2, <2>3
<1>c. CASE StartPkt
  <2>1. PICK k \in Sends, last \in BOOLEAN : Offer(k, k, 1, last)
    BY <1>c DEF StartPkt
  <2>2. k \in Kinds
    BY FilterAssumption
  <2> QED BY <1>b, <2>1, <2>2
<1>d. CASE NextBeat
  <2>1. PICK l \in PayloadLooks, last \in BOOLEAN :
           Offer(pkt.kind, l, pkt.sent + 1, last)
    BY <1>d DEF NextBeat
  <2>2. pkt.kind \in Kinds
    BY DEF IInv, TypeOK
  <2> QED BY <1>b, <2>1, <2>2
<1> QED BY <1>a, <1>c, <1>d, SourceSends

\* Every beat that was offered is counted once on its side.
LEMMA KeepsCounted ==
  ASSUME Calm, IInv, Source, Passed, NEW rd \in BOOLEAN, PktFifo(rd), CtlChannel
  PROVE  Counted'
<1>1. /\ "udp" \in Kinds /\ "ctl" \in Kinds
      /\ offered["udp"] \in Nat /\ offered["ctl"] \in Nat
      /\ written \in Nat /\ steered \in Nat
  BY DEF IInv, TypeOK, Kinds
<1>2. /\ Taken("udp") = written + One(m.valid)
      /\ Taken("ctl") = steered + One(c.valid)
      /\ s.valid => s.num = offered[s.kind]
  BY DEF IInv, Counted, ExactlyOnce, DataExactlyOnce, CtlExactlyOnce, One
<1>3. written' = written + One(m.valid) /\ steered' = steered + One(c.valid)
  <2>1. steered <= offered["ctl"]
    BY <1>1, <1>2 DEF Taken, One
  <2> QED BY <1>1, <2>1, FifoReads DEF CtlChannel, One
<1>4. /\ Taken("udp")' = Taken("udp") + One(m'.valid)
      /\ Taken("ctl")' = Taken("ctl") + One(c'.valid)
  BY <1>1, TakenNext DEF Passed, Taken, One
<1>5. /\ Taken("udp")' = written' + One(m'.valid)
      /\ Taken("ctl")' = steered' + One(c'.valid)
  BY <1>2, <1>3, <1>4
<1>6. /\ m'.valid => m'.num = written' + 1
      /\ c'.valid => c'.num = steered' + 1
  <2>1. ASSUME m'.valid PROVE m'.num = offered["udp"] /\ Taken("udp")' = offered["udp"]
    BY <1>1, <1>2, <2>1, TakenNext DEF Passed
  <2>2. ASSUME c'.valid PROVE c'.num = offered["ctl"] /\ Taken("ctl")' = offered["ctl"]
    BY <1>1, <1>2, <2>2, TakenNext DEF Passed
  <2> QED BY <1>5, <2>1, <2>2 DEF One
<1>7. s'.valid => s'.num = offered'[s'.kind]
  BY TakenNext
<1> QED BY <1>5, <1>6, <1>7
        DEF Counted, ExactlyOnce, DataExactlyOnce, CtlExactlyOnce, One

\* Every step keeps the invariant.
LEMMA IInvInductive == Calm /\ IInv /\ [Next]_vars => IInv'
<1> SUFFICES ASSUME Calm, IInv, [Next]_vars PROVE IInv'
  OBVIOUS
<1>1. TypeOK'
  BY TypeInductive DEF IInv
<1>2. CASE UNCHANGED vars
  BY <1>1, <1>2 DEF vars, source, IInv, InStep, Header, Switched, Pure, Budget,
     Counted, ExactlyOnce, DataExactlyOnce, CtlExactlyOnce, Taken
<1>3. CASE Next
  <2>1. PICK rd \in BOOLEAN : Tick(rd)
    BY <1>3 DEF Next
  <2>2. Source /\ Passed /\ PktFifo(rd) /\ CtlChannel
    BY <2>1, FilterPasses DEF Tick
  <2> QED BY <1>1, <2>2, KeepsInStep, KeepsSwitched, KeepsPure, KeepsBudget,
             KeepsCounted DEF IInv
<1> QED BY <1>2, <1>3

\* The inductive invariant holds in every state of a calm system.
LEMMA Invariance == ASSUME Calm PROVE Spec => []IInv
<1>1. Init => IInv
  BY InitIInv
<1>2. IInv /\ [Next]_vars => IInv'
  BY IInvInductive
<1> QED BY <1>1, <1>2, PTL DEF Spec

-----------------------------------------------------------------------------
(* What follows from it. *)

\* The invariant separates the control from the data packets.
LEMMA PureSeparates == IInv => Separation
<1> SUFFICES ASSUME IInv PROVE Separation
  OBVIOUS
<1>1. \A i \in 1..Len(fifo) : fifo[i] \in Udp
  BY DEF IInv, Pure
<1> QED BY <1>1 DEF IInv, Pure, Separation, DataPathIsUdp, CtlPathIsCtl, Udp

\* Whatever a payload looks like, only beats of data packets enter the data
\* path and only beats of control packets the control channel.
THEOREM Separates == ASSUME Calm PROVE Spec => []Separation
BY Invariance, PureSeparates, PTL

\* No beat of a data or control packet is lost, repeated or reordered by the
\* filter's two registers, and every valid word is written to the FIFO.
THEOREM PassesExactlyOnce == ASSUME Calm PROVE Spec => []ExactlyOnce
<1>1. IInv => ExactlyOnce
  BY DEF IInv, Counted
<1> QED BY <1>1, Invariance, PTL

-----------------------------------------------------------------------------
(* The front end implements Steering. *)

Queue == fifo \o (IF m.valid THEN <<m>> ELSE <<>>)
Ctl == IF c.valid THEN <<c>> ELSE <<>>

\* The filter and its FIFO together are a queue of the data beats.
LEMMA QueueReads ==
  ASSUME IInv, Passed, NEW rd \in BOOLEAN, PktFifo(rd),
         NEW read \in BOOLEAN, read <=> (rd /\ fifo # <<>>)
  PROVE  /\ read => Queue # <<>>
         /\ Queue' = (IF read THEN Tail(Queue) ELSE Queue)
                     \o Steer!Only(s.valid /\ s.kind = "udp", s)
<1> DEFINE kept == IF read THEN Tail(fifo) ELSE fifo
           now == IF m.valid THEN <<m>> ELSE <<>>
           next == IF m'.valid THEN <<m'>> ELSE <<>>
<1>1. /\ fifo \in Seq(Udp) /\ m \in Bus /\ now \in Seq(Bus)
      /\ fifo \in Seq(Bus)
  BY DEF IInv, TypeOK, Pure, Udp
<1>2. next = Steer!Only(s.valid /\ s.kind = "udp", s)
  BY DEF Passed, Steer!Only
<1>3. WrEn <=> m.valid
  BY Ready DEF WrEn
<1>4. fifo' = kept \o now
  BY <1>3 DEF PktFifo
<1>5. read => Queue # <<>> /\ Tail(Queue) = Tail(fifo) \o now
  <2> SUFFICES ASSUME read PROVE Queue # <<>> /\ Tail(Queue) = Tail(fifo) \o now
    OBVIOUS
  <2> HIDE DEF now
  <2>1. fifo # <<>>
    OBVIOUS
  <2>2. Queue = fifo \o now
    BY DEF Queue, now
  <2> QED BY <1>1, <2>1, <2>2
<1>6. Queue' = fifo' \o next
  BY DEF Queue
<1>7. (IF read THEN Tail(Queue) ELSE Queue) = kept \o now
  BY <1>5 DEF Queue
<1> QED BY <1>2, <1>4, <1>5, <1>6, <1>7

\* Every step is one of the abstract steering, or none of its business.
LEMMA StepRefines ==
  ASSUME Calm, IInv, IInv', [Next]_vars
  PROVE  [Steer!Next]_(Steer!vars)
<1> USE DEF Steer!vars
<1>1. CASE UNCHANGED vars
  BY <1>1 DEF vars, source
<1>2. CASE Next
  <2>1. PICK rd \in BOOLEAN : Tick(rd)
    BY <1>2 DEF Next
  <2>2. Source /\ Passed /\ PktFifo(rd)
    BY <2>1, FilterPasses DEF Tick
  <2> DEFINE read == rd /\ fifo # <<>>
  <2>3. read \in BOOLEAN /\ s.valid \in BOOLEAN /\ s' \in Bus /\ s \in Bus
    BY DEF IInv, TypeOK, Bus
  <2>4. s.valid => s' # s
    <3>1. CASE Pause
      BY <3>1 DEF Pause, NoBeat
    <3>2. CASE NextBeat /\ s.valid /\ ~s.last
      <4>1. pkt.sent = s.idx /\ s.idx \in Nat
        BY <2>3, <3>2 DEF IInv, InStep, Bus
      <4>2. s'.idx = pkt.sent + 1
        BY <3>2 DEF NextBeat, Offer
      <4> QED BY <4>1, <4>2
    <3> QED BY <2>2, <3>1, <3>2, SourceSends
  <2>5. Ctl' = Steer!Only(s.valid /\ s.kind = "ctl", s)
    BY <2>2 DEF Ctl, Passed, Steer!Only
  <2>6. /\ read => Queue # <<>>
        /\ Queue' = (IF read THEN Tail(Queue) ELSE Queue)
                    \o Steer!Only(s.valid /\ s.kind = "udp", s)
    BY <2>2, QueueReads
  <2> HIDE DEF read
  <2>7. Steer!Step(s.valid, read)
    BY <2>4, <2>5, <2>6 DEF Steer!Step, Queue, Ctl
  <2> QED BY <2>3, <2>7 DEF Steer!Next
<1> QED BY <1>1, <1>2

\* pkt_filter.v and the packet FIFO behind it, with all their registers,
\* implement Steering: what the deparser reads and what the control channel
\* carries are the source's beats, sorted by kind, each once and in order.
THEOREM Implements == ASSUME Calm PROVE Spec => Steers
<1>1. Init => Steer!Init
  <2> SUFFICES ASSUME Init PROVE Steer!Init
    OBVIOUS
  <2> QED BY DEF Init, NoBeat, Steer!Init
<1>2. Calm /\ IInv /\ IInv' /\ [Next]_vars => [Steer!Next]_(Steer!vars)
  BY StepRefines
<1> QED BY <1>1, <1>2, Invariance, PTL DEF Spec, Steers, Steer!Spec
=============================================================================
