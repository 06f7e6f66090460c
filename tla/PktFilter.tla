------------------------------ MODULE PktFilter ------------------------------
(***************************************************************************)
(* The front end of the 512-bit RMT pipeline: the AXI-Stream source that    *)
(* feeds rmt_wrapper, pkt_filter.v, and the packet FIFO behind it.          *)
(*                                                                         *)
(* One step is one rising edge of clk: every register takes the value that  *)
(* the wires carry before the edge.  A 512-bit beat is abstracted to the    *)
(* packet it belongs to, its place in it, and what the three fields the     *)
(* filter inspects (EtherType, IP protocol, UDP destination port) would say *)
(* if the beat were a header: a payload beat may look like anything.        *)
(***************************************************************************)
EXTENDS Naturals, Sequences

CONSTANTS
  MaxPkts,    \* bound: packets the source sends
  MinBeats,   \* fewest beats of a packet (1: it fits one 64-byte beat)
  MaxBeats,   \* bound: most beats of a packet
  MinGap,     \* idle cycles the source leaves between two packets
  Depth,      \* words the packet FIFO holds (512 in fifo_generator_705b)
  LightLoad,  \* TRUE: a packet starts only when the FIFO has room for it
  Pauses,     \* TRUE: the source may leave idle cycles inside a packet
  Sends,      \* the kinds of packet the source sends
  PayloadLooks \* what a beat after the first may look like

\* udp: IPv4/UDP data; ctl: IPv4/UDP to port 0xf1f2; other: anything else.
Kinds == {"udp", "ctl", "other"}

ASSUME FilterAssumption ==
  /\ MaxPkts \in Nat /\ MinGap \in Nat
  /\ MinBeats \in Nat \ {0} /\ MaxBeats \in Nat \ {0} /\ MinBeats <= MaxBeats
  /\ Depth \in Nat \ {0}
  /\ LightLoad \in BOOLEAN /\ Pauses \in BOOLEAN
  /\ Sends \subseteq Kinds /\ PayloadLooks \subseteq Kinds

\* The conditions under which the testbenches drive the filter: packets of two
\* beats or more, an idle cycle between packets, downstream never full.
Calm == LightLoad /\ MinBeats >= 2 /\ MinGap >= 1

\* One cycle of an AXI-Stream: the num-th beat of its kind, the idx-th beat of
\* its packet.  looks is what the filter would take the beat for.
Bus == [valid : BOOLEAN, kind : Kinds, looks : Kinds, idx : 1..MaxBeats,
        num : Nat, last : BOOLEAN]

NoBeat == [valid |-> FALSE, kind |-> "other", looks |-> "other", idx |-> 1,
           num |-> 0, last |-> FALSE]

VARIABLES
  s,        \* s_axis: what the source drives
  pkt,      \* source: kind of the packet being sent and beats offered of it
  gap,      \* source: idle cycles since the last packet, up to MinGap
  offered,  \* source: beats offered so far, per kind
  pkts,     \* source: packets started so far
  state,    \* filter: state
  cSwitch,  \* filter: c_switch, a latch
  sReady,   \* filter: s_axis_tready
  m,        \* filter: m_axis
  c,        \* filter: c_m_axis
  fifo,     \* contents of pkt_fifo
  written,  \* history: words written to pkt_fifo
  steered   \* history: beats put on the control channel

source == <<s, pkt, gap, offered, pkts>>
vars == <<source, state, cSwitch, sReady, m, c, fifo, written, steered>>

-----------------------------------------------------------------------------
(* The source: a beat stays on the bus until tready is seen high. *)

NoPkt == [kind |-> "other", sent |-> 0]

Holding == s.valid /\ ~sReady

\* Room for a whole packet and for a beat the filter still holds.
Room == Len(fifo) + MaxBeats + 1 < Depth

\* The bus carries nothing after the edge: between packets, or in one.
Pause ==
  /\ pkt = NoPkt \/ Pauses
  /\ s' = NoBeat
  /\ gap' = IF pkt = NoPkt /\ gap < MinGap THEN gap + 1 ELSE gap
  /\ UNCHANGED <<pkt, offered, pkts>>

\* The bus carries the i-th beat of a packet of kind k; it looks like l.
Offer(k, l, i, last) ==
  /\ last => i >= MinBeats
  /\ i = MaxBeats => last
  /\ offered' = [offered EXCEPT ![k] = @ + 1]
  /\ s' = [valid |-> TRUE, kind |-> k, looks |-> l, idx |-> i,
           num |-> offered[k] + 1, last |-> last]
  /\ pkt' = IF last THEN NoPkt ELSE [kind |-> k, sent |-> i]
  /\ gap' = 0

StartPkt ==
  /\ pkt = NoPkt /\ gap >= MinGap /\ pkts < MaxPkts
  /\ LightLoad => Room
  /\ pkts' = pkts + 1
  /\ \E k \in Sends, last \in BOOLEAN : Offer(k, k, 1, last)

NextBeat ==
  /\ pkt # NoPkt
  /\ UNCHANGED pkts
  /\ \E l \in PayloadLooks, last \in BOOLEAN :
       Offer(pkt.kind, l, pkt.sent + 1, last)

Source ==
  \/ Holding /\ UNCHANGED source
  \/ ~Holding /\ (Pause \/ StartPkt \/ NextBeat)

-----------------------------------------------------------------------------
(* pkt_filter.v *)

\* m_axis_tready of the filter: rmt_wrapper's s_axis_tready_f.
mReady == Len(fifo) < Depth

\* Bug variant of Route: the control register is not cleared by data cycles.
RouteKeepsCtl(sw, v) ==
  /\ cSwitch' = sw
  /\ IF sw
     THEN /\ c' = [s EXCEPT !.valid = v]
          /\ UNCHANGED <<m, sReady>>
     ELSE /\ m' = [s EXCEPT !.valid = v]
          /\ sReady' = mReady
          /\ UNCHANGED c

\* The clocked half: sw is c_switch and v is r_tvalid in this cycle.
Route(sw, v) ==
  /\ cSwitch' = sw
  /\ IF sw
     THEN /\ c' = [s EXCEPT !.valid = v]
          /\ UNCHANGED <<m, sReady>>
     ELSE /\ m' = [s EXCEPT !.valid = v]
          /\ sReady' = mReady
          /\ c' = NoBeat

AtHeader == state = "WAIT_FIRST_PKT" /\ mReady /\ s.valid

WaitFirstData ==
  /\ AtHeader /\ s.looks = "udp"
  /\ state' = "FLUSH_DATA"
  /\ Route(FALSE, TRUE)

WaitFirstCtl ==
  /\ AtHeader /\ s.looks = "ctl"
  /\ state' = "FLUSH_CTL"
  /\ Route(TRUE, TRUE)

WaitFirstOther ==
  /\ AtHeader /\ s.looks = "other"
  /\ state' = "DROP_PKT"
  /\ Route(cSwitch, FALSE)

\* No header to classify; a beat that stands there while mReady is low passes.
WaitFirstIdle ==
  /\ state = "WAIT_FIRST_PKT" /\ ~AtHeader
  /\ state' = state
  /\ Route(FALSE, s.valid)

\* tlast ends a packet whether or not the beat is valid or taken.
AfterBeat == IF s.last THEN "WAIT_FIRST_PKT" ELSE state

FlushData ==
  /\ state = "FLUSH_DATA"
  /\ state' = AfterBeat
  /\ Route(cSwitch, s.valid)

\* Bug variant of FlushCtl: tlast switches back to the data path at once.
FlushCtlLosesLast ==
  /\ state = "FLUSH_CTL"
  /\ state' = AfterBeat
  /\ Route(TRUE, s.valid /\ ~s.last)

FlushCtl ==
  /\ state = "FLUSH_CTL"
  /\ state' = AfterBeat
  /\ Route(TRUE, s.valid)

\* Bug variant of DropPkt: r_tvalid keeps its default, s_axis_tvalid.
DropPktPasses ==
  /\ state = "DROP_PKT"
  /\ state' = AfterBeat
  /\ Route(cSwitch, s.valid)

DropPkt ==
  /\ state = "DROP_PKT"
  /\ state' = AfterBeat
  /\ Route(cSwitch, FALSE)

Filter ==
  \/ WaitFirstData \/ WaitFirstCtl \/ WaitFirstOther \/ WaitFirstIdle
  \/ FlushData \/ FlushCtl \/ DropPkt

-----------------------------------------------------------------------------
(* pkt_fifo, a first-word-fall-through FIFO: a word is written unless full *)
(* and rd_en takes the head unless empty.                                  *)

\* Bug variant of WrEn: wr_en is tready alone.
WrEnAlways == mReady

WrEn == m.valid /\ mReady

\* Bug variant of PktFifo: a write in the cycle of a read is lost.
PktFifoOnePort(rd) ==
  /\ fifo' = IF rd /\ fifo # <<>> THEN Tail(fifo)
             ELSE fifo \o (IF WrEn THEN <<m>> ELSE <<>>)
  /\ written' = IF WrEn THEN written + 1 ELSE written

PktFifo(rd) ==
  /\ fifo' = (IF rd /\ fifo # <<>> THEN Tail(fifo) ELSE fifo)
             \o (IF WrEn THEN <<m>> ELSE <<>>)
  /\ written' = IF WrEn THEN written + 1 ELSE written

\* The control channel has no ready: every valid beat on it is consumed.  One
\* beat more than were offered is counted, and stands for any number more.
CtlChannel ==
  steered' = IF c.valid /\ steered <= offered["ctl"] THEN steered + 1 ELSE steered

-----------------------------------------------------------------------------
Init ==
  /\ s = NoBeat /\ pkt = NoPkt /\ gap = MinGap /\ pkts = 0
  /\ offered = [k \in Kinds |-> 0]
  /\ state = "WAIT_FIRST_PKT" /\ cSwitch = FALSE /\ sReady = FALSE
  /\ m = NoBeat /\ c = NoBeat
  /\ fifo = <<>> /\ written = 0 /\ steered = 0

\* One clock edge; rd is the deparser's pkt_fifo_rd_en.
Tick(rd) == Source /\ Filter /\ PktFifo(rd) /\ CtlChannel

Next == \E rd \in BOOLEAN : Tick(rd)

\* The clock runs, and the deparser does not stop reading the FIFO.
Spec == Init /\ [][Next]_vars /\ WF_vars(Next) /\ WF_vars(Tick(TRUE))

-----------------------------------------------------------------------------
FilterStates == {"WAIT_FIRST_PKT", "DROP_PKT", "FLUSH_DATA", "FLUSH_CTL"}

\* Type correctness of the registers, the bus and the FIFO, which never holds
\* more words than it has.
TypeOK ==
  /\ s \in Bus /\ m \in Bus /\ c \in Bus
  /\ pkt \in [kind : Kinds, sent : 0..(MaxBeats - 1)]
  /\ gap \in 0..MinGap /\ pkts \in 0..MaxPkts
  /\ offered \in [Kinds -> Nat]
  /\ state \in FilterStates /\ cSwitch \in BOOLEAN /\ sReady \in BOOLEAN
  /\ fifo \in Seq({b \in Bus : b.valid}) /\ Len(fifo) <= Depth
  /\ written \in Nat /\ steered \in Nat

\* pkt_filter "to filter out control packets from data packets" and packets
\* that are not UDP/IP: whatever a payload looks like, only beats of data
\* packets enter the data path and only beats of control packets leave on the
\* control channel.
DataPathIsUdp ==
  /\ m.valid => m.kind = "udp"
  /\ \A i \in 1..Len(fifo) : fifo[i].kind = "udp"
CtlPathIsCtl == c.valid => c.kind = "ctl"
Separation == DataPathIsUdp /\ CtlPathIsCtl

\* rmt_wrapper.v:93 "to filter out packets other than UDP/IP": no beat of
\* such a packet is passed to the data path.
OnlyUdpPasses == m.valid => m.kind # "other"

\* Beats of kind k the source has handed over: all it offered but the one
\* still on the bus.
Taken(k) == offered[k] - (IF s.valid /\ s.kind = k THEN 1 ELSE 0)

\* The m_axis and c_m_axis registers neither lose, repeat nor reorder a beat:
\* what was taken has been passed on, but for the one beat in the register.
DataExactlyOnce ==
  /\ Taken("udp") = written + (IF m.valid THEN 1 ELSE 0)
  /\ m.valid => m.num = written + 1
CtlExactlyOnce ==
  /\ Taken("ctl") = steered + (IF c.valid THEN 1 ELSE 0)
  /\ c.valid => c.num = steered + 1
ExactlyOnce == DataExactlyOnce /\ CtlExactlyOnce

\* The front end implements Steering: the queue is what the FIFO and m_axis hold.
Steer == INSTANCE Steering WITH
  in <- s,
  queue <- fifo \o (IF m.valid THEN <<m>> ELSE <<>>),
  ctl <- IF c.valid THEN <<c>> ELSE <<>>
Steers == Steer!Spec

\* The filter takes every beat of a control packet that the source puts on the
\* bus (pkt_filter.v:152 sets s_axis_tready in cycles of the data branch only).
CtlTaken == \A n \in 1..(MaxPkts * MaxBeats) :
              (offered["ctl"] >= n) ~> (Taken("ctl") >= n)

\* A control packet the pipeline has been given travels on (README.md:172): each
\* of its beats is taken, and reaches the control channel.
CtlTravels == \A n \in 1..(MaxPkts * MaxBeats) :
                (offered["ctl"] >= n) ~> (Taken("ctl") >= n /\ steered >= n)
=============================================================================
