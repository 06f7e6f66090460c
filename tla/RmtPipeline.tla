------------------------------ MODULE RmtPipeline ------------------------------
(***************************************************************************)
(* rmt_wrapper.v, the data path: the filter and packet FIFO of PktFilter,   *)
(* the parser, stage 0, the PHV FIFO behind it and the deparser.  (The      *)
(* wrapper writes the PHV FIFO from stage 0; what stages 1 to 4 compute is  *)
(* not used.)                                                              *)
(*                                                                         *)
(* Every component moves on the same clock edge, from the values that the  *)
(* others' registers have before it.                                       *)
(***************************************************************************)
EXTENDS PktFilter, Parser, Stage, Deparser

CONSTANT AlwaysReady  \* TRUE: m_axis_tready is tied high

ASSUME ReadyAssumption == AlwaysReady \in BOOLEAN

VARIABLES
  phvFifo,   \* phv_fifo_1 and phv_fifo_2, written and read together
  phvs,      \* history: PHVs written to it
  delivered  \* history: beats taken from m_axis

pipeVars == <<vars, parserVars, stageVars, deparserVars, phvFifo, phvs, delivered>>

\* A FIFO's output while it is empty is not specified.
EmptyWords == {[NoWord EXCEPT !.last = b] : b \in BOOLEAN}

Word(b) == [num |-> b.num, idx |-> b.idx, last |-> b.last]

PktHeads == IF fifo = <<>> THEN EmptyWords ELSE {Word(Head(fifo))}

PhvHead == IF phvFifo = <<>> THEN 0 ELSE Head(phvFifo).val.lo

\* full is not connected: the FIFO itself drops a PHV it has no room for.
PhvFifo ==
  /\ phvFifo' = (IF rdPhv /\ phvFifo # <<>> THEN Tail(phvFifo) ELSE phvFifo)
                \o (IF outPhv.valid /\ Len(phvFifo) < Depth THEN <<outPhv>> ELSE <<>>)
  /\ phvs' = IF outPhv.valid THEN phvs + 1 ELSE phvs

Deliver(tready) ==
  delivered' = IF out.valid /\ tready THEN delivered + 1 ELSE delivered

PipeInit ==
  /\ Init /\ ParserInit /\ StageInit /\ DeparserInit
  /\ phvFifo = <<>> /\ phvs = 0 /\ delivered = 0

Edge(head, tready) ==
  /\ Tick(rdPkt)
  /\ ParserTick(m.valid /\ mReady, m.num)
  /\ StageTick(PhvOut)
  /\ PhvFifo
  /\ DeparserTick(fifo = <<>>, head, phvFifo = <<>>, PhvHead, tready)
  /\ Deliver(tready)

PipeNext ==
  \E head \in PktHeads, tready \in BOOLEAN :
    /\ AlwaysReady => tready
    /\ Edge(head, tready)

\* The clock runs.
PipeSpec == PipeInit /\ [][PipeNext]_pipeVars /\ WF_pipeVars(PipeNext)

-----------------------------------------------------------------------------
\* Type correctness of the whole data path; the PHV FIFO stays within bounds.
PipeTypeOK ==
  /\ TypeOK /\ ParserTypeOK /\ StageTypeOK /\ DeparserTypeOK
  /\ phvFifo \in Seq(KeyedPhvs) /\ Len(phvFifo) <= Depth
  /\ phvs \in Nat /\ delivered \in Nat

\* Each PHV that leaves stage 0 is made of one packet: its first two beats,
\* parsed by the instructions its own VLAN selects (README.md:59, parser.v).
PhvOfOnePacket == outPhv.valid =>
  outPhv.val.hi = outPhv.val.lo + 1 /\ outPhv.val.row = outPhv.val.lo

\* PHVs reach the FIFO in the order of their packets, and no two are of the
\* same packet.
PhvInOrder ==
  /\ \A i \in 1..(Len(phvFifo) - 1) : phvFifo[i].val.lo < phvFifo[i + 1].val.lo
  /\ outPhv.valid /\ phvFifo # <<>> =>
       phvFifo[Len(phvFifo)].val.lo < outPhv.val.lo

\* Every packet gets its PHV: none is lost on the way through stage 0.
EveryPacketHasPhv == \A n \in 1..MaxPkts : (pkts >= n) ~> (phvs >= n)

\* The deparser rebuilds each packet "using info from the original packet
\* header and PHV" (README.md:157): its beats leave once and in order, the
\* first two of them rewritten by the PHV of the same packet, the rest as
\* they came.
Rebuilt ==
  out.valid =>
    /\ out.word.num = delivered + 1
    /\ out.by = IF out.word.idx <= 2 THEN out.word.num - out.word.idx + 1 ELSE 0

\* README.md:57, the key is extracted "out of PHV": the key that is looked up
\* for a PHV was taken from its containers.
KeyOfItsPhv == act.valid => act.key = act.val

\* Every beat of a data packet leaves the pipeline.
AllDelivered == \A n \in 1..(MaxPkts * MaxBeats) :
                  (offered["udp"] >= n) ~> (delivered >= n)
=============================================================================
