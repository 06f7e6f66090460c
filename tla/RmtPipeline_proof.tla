--------------------------- MODULE RmtPipeline_proof ---------------------------
(***************************************************************************)
(* Proofs about RmtPipeline.  Type correctness holds for every traffic; the *)
(* rest for packets that are sent without pauses, of two beats or more and  *)
(* with an idle cycle between them, whatever the deparser, the CAM and the  *)
(* reader of m_axis do.                                                     *)
(***************************************************************************)
EXTENDS RmtPipeline, PktFilter_proof

-----------------------------------------------------------------------------
(* Type correctness. *)

\* The parser keeps its types, whatever beat it sees.
LEMMA ParserTypes ==
  ASSUME ParserTypeOK, NEW tvalid \in BOOLEAN, NEW num \in Nat, ParserTick(tvalid, num)
  PROVE  ParserTypeOK'
<1>1. before' \in BOOLEAN /\ seg' \in 0..15 /\ hdr' \in [lo : Nat, hi : Nat]
  BY DEF ParserTypeOK, ParserTick, Segments
<1>2. rows' \in Nat \X Nat \X Nat \X Nat
  BY DEF ParserTypeOK, ParserTick, ShiftRows
<1>3. BramOut \in Nat /\ Cleared \in Vals
  BY DEF ParserTypeOK, BramOut, Cleared, Vals
<1>4. /\ pstate' \in {"IDLE", "WAIT1", "WAIT2", "PHVGEN"}
      /\ sub' \in Vals /\ vals' \in [valid : BOOLEAN, val : Vals]
  <2>1. CASE ParseIdle(tvalid)
    BY <1>3, <2>1 DEF ParseIdle, ParserTypeOK
  <2>2. CASE ParseWait1
    BY <2>2 DEF ParseWait1, ParserTypeOK
  <2>3. CASE ParseWait2
    <3>1. sub' \in Vals
      BY <1>3, <2>3 DEF ParseWait2, ParserTypeOK, Vals
    <3> QED BY <2>3, <3>1 DEF ParseWait2, ParserTypeOK
  <2>4. CASE ParsePhvGen
    BY <2>4 DEF ParsePhvGen, ParserTypeOK
  <2> QED BY <2>1, <2>2, <2>3, <2>4 DEF ParserTick
<1> QED BY <1>1, <1>2, <1>4 DEF ParserTypeOK

\* A PHV register that is marked invalid, or valid, is one of the same type.
LEMMA Marked ==
  ASSUME NEW r \in KeyedPhvs
  PROVE  /\ Invalid(r) \in KeyedPhvs /\ ~Invalid(r).valid /\ Invalid(r).val = r.val
         /\ [r EXCEPT !.valid = TRUE] \in KeyedPhvs /\ [r EXCEPT !.valid = TRUE].valid
         /\ [r EXCEPT !.valid = TRUE].val = r.val
BY DEF Invalid, KeyedPhvs

\* So does the stage.
LEMMA StageTypes ==
  ASSUME StageTypeOK, NEW phvIn \in Phvs, StageTick(phvIn)
  PROVE  StageTypeOK'
<1>1. /\ delay \in Phvs \X Phvs /\ cont \in Phvs
      /\ key \in KeyedPhvs /\ lreg \in KeyedPhvs /\ act \in KeyedPhvs
      /\ xbar \in KeyedPhvs /\ alu \in KeyedPhvs /\ outPhv \in KeyedPhvs
  BY DEF StageTypeOK
<1>2. delay' \in Phvs \X Phvs /\ cont' \in Phvs
  BY <1>1 DEF StageTick, KeyExtract
<1>3. key' \in KeyedPhvs
  BY <1>1 DEF StageTick, KeyExtract, KeyedPhvs, Phvs, NoVal, StageVals
<1>4. lreg' \in KeyedPhvs
  BY <1>1 DEF StageTick, LookupEngine, LatchPhv
<1>5. act' \in KeyedPhvs /\ lstate' \in {"IDLE", "WAIT1", "WAIT2", "TRANS"}
  BY <1>1, Marked
     DEF StageTick, LookupEngine, LookupIdle, LookupMiss, LookupHit, LookupWait2, LookupTrans
<1>6. xbar' \in KeyedPhvs
  BY <1>1, Marked DEF StageTick, ActionEngine, Crossbar
<1>7. alu' \in KeyedPhvs /\ astate' \in {"IDLE", "OP_1", "OP_2"}
  BY <1>1, Marked DEF StageTick, ActionEngine, AluIdle, AluOp1, AluOp2
<1>8. outPhv' \in KeyedPhvs
  BY <1>1, Marked DEF StageTick, ActionEngine, Collect
<1> QED BY <1>2, <1>3, <1>4, <1>5, <1>6, <1>7, <1>8 DEF StageTypeOK

\* And the deparser.
LEMMA DeparserTypes ==
  ASSUME DeparserTypeOK, NEW pktEmpty \in BOOLEAN, NEW head \in Words,
         NEW phvEmpty \in BOOLEAN, NEW phvHead \in Nat, NEW tready \in BOOLEAN,
         DeparserTick(pktEmpty, head, phvEmpty, phvHead, tready)
  PROVE  DeparserTypeOK'
<1> USE DEF DeparserTypeOK, Emit
<1>1. CASE DepIdle(pktEmpty, phvEmpty)
  <2>1. [out EXCEPT !.valid = FALSE, !.word.last = FALSE]
          \in [valid : BOOLEAN, word : Words, by : Nat]
    BY DEF Words
  <2> QED BY <1>1, <2>1 DEF DepIdle
<1>2. CASE DepBufHdr0(head, phvHead)
  BY <1>2 DEF DepBufHdr0
<1>3. CASE DepBufHdr1(head)
  BY <1>3 DEF DepBufHdr1
<1>4. CASE DepWaitOne
  BY <1>4 DEF DepWaitOne
<1>5. CASE DepWaitSub
  BY <1>5 DEF DepWaitSub
<1>6. CASE DepReformHdr
  BY <1>6 DEF DepReformHdr
<1>7. CASE DepFlushPkt0(tready)
  BY <1>7 DEF DepFlushPkt0
<1>8. CASE DepFlushPkt1(tready)
  <2>1. rdPkt' \in BOOLEAN
    BY <1>8 DEF DepFlushPkt1, Words
  <2> QED BY <1>8, <2>1 DEF DepFlushPkt1
<1>9. CASE DepFlushPkt(pktEmpty, head, tready)
  BY <1>9 DEF DepFlushPkt
<1> QED BY <1>1, <1>2, <1>3, <1>4, <1>5, <1>6, <1>7, <1>8, <1>9 DEF DeparserTick

\* What the FIFOs' outputs may carry.
LEMMA HeadTypes ==
  ASSUME PipeTypeOK
  PROVE  PktHeads \subseteq Words /\ PhvHead \in Nat /\ PhvOut \in Phvs
<1>1. EmptyWords \subseteq Words
  BY DEF EmptyWords, NoWord, Words
<1>2. fifo # <<>> => Word(Head(fifo)) \in Words
  <2>1. SUFFICES ASSUME fifo # <<>> PROVE Word(Head(fifo)) \in Words
    OBVIOUS
  <2>2. Head(fifo) \in Bus
    BY <2>1 DEF PipeTypeOK, TypeOK
  <2> QED BY <2>2, FilterAssumption DEF Word, Words, Bus
<1>3. PhvHead \in Nat
  <2>1. CASE phvFifo = <<>>
    BY <2>1 DEF PhvHead
  <2>2. CASE phvFifo # <<>>
    <3>1. Head(phvFifo) \in KeyedPhvs
      BY <2>2 DEF PipeTypeOK
    <3> QED BY <2>2, <3>1 DEF PhvHead, KeyedPhvs, StageVals
  <2> QED BY <2>1, <2>2
<1>4. PhvOut \in Phvs
  BY DEF PipeTypeOK, ParserTypeOK, PhvOut, Phvs, CondiAction, Vals, StageVals
<1> QED BY <1>1, <1>2, <1>3, <1>4 DEF PktHeads

\* The PHV FIFO drops a PHV rather than overflow.
LEMMA PhvFifoType ==
  ASSUME PipeTypeOK, PhvFifo
  PROVE  phvFifo' \in Seq(KeyedPhvs) /\ Len(phvFifo') <= Depth /\ phvs' \in Nat
<1> DEFINE kept == IF rdPhv /\ phvFifo # <<>> THEN Tail(phvFifo) ELSE phvFifo
           new == IF outPhv.valid /\ Len(phvFifo) < Depth THEN <<outPhv>> ELSE <<>>
<1>1. /\ phvFifo \in Seq(KeyedPhvs) /\ Len(phvFifo) <= Depth
      /\ outPhv \in KeyedPhvs /\ phvs \in Nat /\ Depth \in Nat
  BY FilterAssumption DEF PipeTypeOK, StageTypeOK
<1>2. kept \in Seq(KeyedPhvs) /\ Len(kept) <= Len(phvFifo)
  BY <1>1
<1>3. phvFifo' = kept \o new /\ phvs' \in Nat
  BY <1>1 DEF PhvFifo
<1>4. CASE outPhv.valid /\ Len(phvFifo) < Depth
  <2>1. phvFifo' = kept \o <<outPhv>>
    BY <1>3, <1>4
  <2> HIDE DEF kept, new
  <2>2. phvFifo' \in Seq(KeyedPhvs) /\ Len(phvFifo') = Len(kept) + 1
    BY <1>1, <1>2, <2>1
  <2> QED BY <1>1, <1>2, <1>3, <1>4, <2>2
<1>5. CASE ~(outPhv.valid /\ Len(phvFifo) < Depth)
  <2>1. phvFifo' = kept \o <<>>
    BY <1>3, <1>5
  <2> HIDE DEF kept, new
  <2>2. phvFifo' = kept
    BY <1>2, <2>1
  <2> QED BY <1>1, <1>2, <1>3, <2>2
<1> QED BY <1>4, <1>5

\* The types are an inductive invariant.
LEMMA PipeTypeInductive == PipeTypeOK /\ [PipeNext]_pipeVars => PipeTypeOK'
<1> SUFFICES ASSUME PipeTypeOK, [PipeNext]_pipeVars PROVE PipeTypeOK'
  OBVIOUS
<1>1. CASE UNCHANGED pipeVars
  BY <1>1 DEF pipeVars, vars, source, parserVars, stageVars, deparserVars, PipeTypeOK,
     TypeOK, ParserTypeOK, StageTypeOK, DeparserTypeOK
<1>2. CASE PipeNext
  <2>1. PICK head \in PktHeads, tready \in BOOLEAN : Edge(head, tready)
    BY <1>2 DEF PipeNext
  <2>2. TypeOK'
    <3>1. Next
      BY <2>1 DEF Edge, Next, PipeTypeOK, DeparserTypeOK
    <3> QED BY <3>1, TypeInductive DEF PipeTypeOK
  <2>3. ParserTypeOK'
    <3>1. m.num \in Nat /\ (m.valid /\ mReady) \in BOOLEAN
      BY DEF PipeTypeOK, TypeOK, Bus
    <3> QED BY <2>1, <3>1, ParserTypes DEF Edge, PipeTypeOK
  <2>4. StageTypeOK'
    BY <2>1, HeadTypes, StageTypes DEF Edge, PipeTypeOK
  <2>5. DeparserTypeOK'
    <3> DEFINE noBeat == fifo = <<>>
               noPhv == phvFifo = <<>>
               phv == PhvHead
    <3>1. head \in Words /\ phv \in Nat
      BY HeadTypes
    <3>2. noBeat \in BOOLEAN /\ noPhv \in BOOLEAN
      OBVIOUS
    <3>3. DeparserTick(noBeat, head, noPhv, phv, tready)
      BY <2>1 DEF Edge
    <3>4. DeparserTypeOK
      BY DEF PipeTypeOK
    <3> HIDE DEF noBeat, noPhv, phv
    <3> QED BY <3>1, <3>2, <3>3, <3>4, DeparserTypes
  <2>6. phvFifo' \in Seq(KeyedPhvs) /\ Len(phvFifo') <= Depth /\ phvs' \in Nat
    BY <2>1, PhvFifoType DEF Edge
  <2>7. delivered' \in Nat
    BY <2>1 DEF Edge, Deliver, PipeTypeOK
  <2> QED BY <2>2, <2>3, <2>4, <2>5, <2>6, <2>7 DEF PipeTypeOK
<1> QED BY <1>1, <1>2

\* After reset every register has its type.
LEMMA PipeInitType == PipeInit => PipeTypeOK
<1> SUFFICES ASSUME PipeInit PROVE PipeTypeOK
  OBVIOUS
<1>1. TypeOK
  BY InitType DEF PipeInit
<1>2. ParserTypeOK
  <2>1. Cleared \in Vals
    BY DEF Cleared, Vals
  <2>2. <<0, 0, 0, 0>> \in Nat \X Nat \X Nat \X Nat
        /\ [lo |-> 0, hi |-> 0] \in [lo : Nat, hi : Nat] /\ 0 \in 0..15
        /\ [valid |-> FALSE, val |-> Cleared] \in [valid : BOOLEAN, val : Vals]
    BY <2>1
  <2> QED BY <2>1, <2>2, Zenon DEF PipeInit, ParserInit, ParserTypeOK
<1>3. StageTypeOK
  <2>1. NoVal \in StageVals
    BY DEF NoVal, StageVals
  <2>2. NoPhv \in Phvs /\ NoReg \in KeyedPhvs
    BY <2>1 DEF NoPhv, NoReg, Phvs, KeyedPhvs
  <2> QED BY <2>2 DEF PipeInit, StageInit, StageTypeOK
<1>4. DeparserTypeOK
  <2>1. NoWord \in Words
    BY DEF NoWord, Words
  <2> QED BY <2>1 DEF PipeInit, DeparserInit, DeparserTypeOK
<1>5. phvFifo \in Seq(KeyedPhvs) /\ Len(phvFifo) <= Depth
  BY FilterAssumption DEF PipeInit
<1> QED BY <1>1, <1>2, <1>3, <1>4, <1>5 DEF PipeInit, PipeTypeOK

\* The registers of the parser, the stage and the deparser and both FIFOs keep
\* their types, and the PHV FIFO, whose full is not connected, stays within its
\* depth: for every traffic and whatever reads the pipeline.
THEOREM PipeTypeCorrect == PipeSpec => []PipeTypeOK
BY PipeInitType, PipeTypeInductive, PTL DEF PipeSpec

-----------------------------------------------------------------------------
(* From two beats to a PHV. *)

\* The traffic of the testbenches: calm, and the beats of a packet in a row.
Steady == Calm /\ ~Pauses

\* The beats of a packet follow each other, on s_axis and behind the filter.
Front ==
  /\ pkt # NoPkt => s.valid /\ ~s.last
  /\ s.valid /\ s.idx # 1 /\ s.kind = "udp" => m.valid
  /\ m.valid /\ m.idx # 1 => before
  /\ m.valid /\ m.idx = 1 => ~m.last
  /\ m.valid /\ ~m.last => s.valid /\ s.kind = "udp" /\ s.num = m.num + 1

\* val is made of the first two beats of a packet, by the instructions of the first.
Whole(val) == val.hi = val.lo + 1 /\ val.row = val.lo

\* What the parser's registers hold when its state machine gets to them.
ParserAt ==
  /\ pstate = "WAIT1" => /\ hdr.lo = rows[1] /\ seg = 0 /\ before
                         /\ m.valid /\ m.num = hdr.lo + 1
  /\ pstate = "WAIT2" => hdr.hi = hdr.lo + 1 /\ hdr.lo = rows[2]
  /\ pstate = "PHVGEN" => Whole(sub)
  /\ vals.valid => Whole(vals.val) /\ pstate = "IDLE"

\* The source does not interrupt a packet, and the filter does not hold it up.
LEMMA KeepsFront ==
  ASSUME Steady, IInv, Front, Source, Passed, before' = m.valid
  PROVE  Front'
<1> USE DEF Steady
<1>1. /\ s.valid /\ ~s.last => pkt = [kind |-> s.kind, sent |-> s.idx] /\ s.idx # 0
      /\ s.valid /\ s.idx = 1 => ~s.last
      /\ s.valid => s.num = offered[s.kind]
      /\ NoPkt.sent = 0
  BY DEF IInv, InStep, Header, Counted, TypeOK, Bus, NoPkt
<1>2. /\ m'.valid <=> s.valid /\ s.kind = "udp"
      /\ m'.valid => m' = s
  BY DEF Passed
<1>3. /\ m'.valid /\ m'.idx # 1 => before'
      /\ m'.valid /\ m'.idx = 1 => ~m'.last
  BY <1>1, <1>2 DEF Front
<1>a. CASE Pause
  <2>1. pkt = NoPkt /\ pkt' = NoPkt /\ ~s'.valid
    BY <1>a DEF Pause, NoBeat
  <2>2. ~(s.valid /\ ~s.last)
    BY <1>1, <2>1
  <2> QED BY <1>2, <1>3, <2>1, <2>2 DEF Front
<1>b. CASE StartPkt /\ ~s.valid
  <2>1. PICK k \in Sends, last \in BOOLEAN : Offer(k, k, 1, last)
    BY <1>b DEF StartPkt
  <2>2. s'.valid /\ s'.idx = 1 /\ (pkt' # NoPkt => ~s'.last)
    BY <2>1 DEF Offer
  <2> QED BY <1>b, <1>2, <1>3, <2>2 DEF Front
<1>c. CASE NextBeat
  <2>1. PICK l \in PayloadLooks, last \in BOOLEAN :
           Offer(pkt.kind, l, pkt.sent + 1, last)
    BY <1>c DEF NextBeat
  <2>2. /\ s'.valid /\ s'.kind = pkt.kind /\ s'.num = offered[pkt.kind] + 1
        /\ pkt' # NoPkt => ~s'.last
    BY <2>1 DEF Offer
  <2>3. s.valid /\ ~s.last /\ pkt.kind = s.kind
    BY <1>c, <1>1 DEF NextBeat, Front
  <2> QED BY <1>1, <1>2, <1>3, <2>2, <2>3 DEF Front
<1> QED BY <1>a, <1>b, <1>c, SourceSends

\* The parser takes both halves of the header, and the action that parses them,
\* from one packet.
LEMMA KeepsParserAt ==
  ASSUME ParserTypeOK, Front, ParserAt, Passed, ParserTick(m.valid, m.num)
  PROVE  ParserAt'
<1>1. /\ before' = m.valid
      /\ rows' = <<m.num, rows[1], rows[2], rows[3]>>
  BY DEF ParserTick, Segments, ShiftRows
<1>2. rows'[1] = m.num /\ rows'[2] = rows[1]
  BY <1>1
<1>3. hdr \in [lo : Nat, hi : Nat]
  BY DEF ParserTypeOK
<1>a. CASE ParseIdle(m.valid)
  <2>1. ~vals'.valid
    BY <1>a DEF ParseIdle
  <2>2. CASE FirstSegment(m.valid)
    <3>1. pstate' = "WAIT1" /\ hdr' = [lo |-> m.num, hi |-> 0] /\ seg' = 0
      BY <1>a, <2>2 DEF ParseIdle, ParserTick, Segments
    <3>2. m.valid /\ ~m.last
      BY <2>2 DEF FirstSegment, Front
    <3>3. m'.valid /\ m'.num = m.num + 1
      BY <3>2 DEF Front, Passed
    <3> QED BY <1>1, <1>2, <2>1, <3>1, <3>2, <3>3 DEF ParserAt
  <2>3. CASE ~FirstSegment(m.valid)
    BY <1>a, <2>1, <2>3 DEF ParseIdle, ParserAt
  <2> QED BY <2>2, <2>3
<1>b. CASE ParseWait1
  <2>1. hdr' = [hdr EXCEPT !.hi = m.num] /\ m.num = hdr.lo + 1 /\ hdr.lo = rows[1]
    BY <1>b DEF ParseWait1, ParserTick, Segments, FirstSegment, SegNum, ParserAt
  <2>2. pstate = "WAIT1" /\ pstate' = "WAIT2" /\ vals' = vals
    BY <1>b DEF ParseWait1
  <2>3. ~vals.valid
    BY <2>2 DEF ParserAt
  <2>4. hdr'.lo = hdr.lo /\ hdr'.hi = m.num
    BY <1>3, <2>1
  <2> QED BY <1>2, <2>1, <2>2, <2>3, <2>4 DEF ParserAt
<1>c. CASE ParseWait2
  <2>1. Whole(sub') /\ ~vals'.valid /\ pstate' = "PHVGEN"
    BY <1>c DEF ParseWait2, ParserAt, Whole, BramOut
  <2> QED BY <2>1 DEF ParserAt
<1>d. CASE ParsePhvGen
  <2>1. Whole(vals'.val) /\ pstate' = "IDLE"
    BY <1>d DEF ParsePhvGen, ParserAt
  <2> QED BY <2>1 DEF ParserAt
<1> QED BY <1>a, <1>b, <1>c, <1>d DEF ParserTick

\* Where a PHV is in the lookup engine and in the ALUs.
Looking == lstate # "IDLE"
Acting == astate # "IDLE" \/ alu.valid

\* Every PHV in the stage is of one packet, wherever it is.
StageAt ==
  /\ \A r \in {delay[1], delay[2], key, act, xbar, outPhv} : r.valid => Whole(r.val)
  /\ Looking => Whole(lreg.val) /\ ~act.valid
  /\ Acting => Whole(alu.val)
  /\ astate # "IDLE" => ~alu.valid

\* The stage changes which packet a PHV is of nowhere, at whatever distance the
\* PHVs follow each other.
LEMMA KeepsStageAt ==
  ASSUME StageTypeOK, StageAt, NEW phvIn \in Phvs, phvIn.valid => Whole(phvIn.val),
         StageTick(phvIn)
  PROVE  StageAt'
<1>1. /\ key \in KeyedPhvs /\ lreg \in KeyedPhvs /\ act \in KeyedPhvs
      /\ xbar \in KeyedPhvs /\ alu \in KeyedPhvs /\ outPhv \in KeyedPhvs
  BY DEF StageTypeOK
<1>2. /\ delay[1].valid => Whole(delay[1].val)
      /\ delay[2].valid => Whole(delay[2].val)
      /\ key.valid => Whole(key.val)
      /\ act.valid => Whole(act.val)
      /\ xbar.valid => Whole(xbar.val)
      /\ outPhv.valid => Whole(outPhv.val)
      /\ Looking => Whole(lreg.val) /\ ~act.valid
      /\ Acting => Whole(alu.val)
      /\ astate # "IDLE" => ~alu.valid
  BY DEF StageAt
<1>3. /\ delay'[1].valid => Whole(delay'[1].val)
      /\ delay'[2].valid => Whole(delay'[2].val)
      /\ key'.valid => Whole(key'.val)
  <2>1. delay' = <<phvIn, delay[1]>> /\ key'.valid = delay[2].valid /\ key'.val = delay[2].val
    BY DEF StageTick, KeyExtract
  <2> QED BY <1>2, <2>1
<1>4. /\ act'.valid => Whole(act'.val)
      /\ Looking' => Whole(lreg'.val) /\ ~act'.valid
  <2>1. lreg' = IF key.valid THEN key ELSE lreg
    BY DEF StageTick, LookupEngine, LatchPhv
  <2>a. CASE LookupIdle
    BY <1>1, <1>2, <2>1, <2>a, Marked DEF LookupIdle, Looking
  <2>b. CASE LookupMiss
    BY <1>1, <1>2, <2>1, <2>b, Marked DEF LookupMiss, Looking
  <2>c. CASE LookupHit
    BY <1>2, <2>1, <2>c DEF LookupHit, Looking
  <2>d. CASE LookupWait2
    BY <1>2, <2>1, <2>d DEF LookupWait2, Looking
  <2>e. CASE LookupTrans
    BY <1>1, <1>2, <2>1, <2>e, Marked DEF LookupTrans, Looking
  <2> QED BY <2>a, <2>b, <2>c, <2>d, <2>e DEF StageTick, LookupEngine
<1>5. xbar'.valid => Whole(xbar'.val)
  BY <1>1, <1>2, Marked DEF StageTick, ActionEngine, Crossbar
<1>6. /\ Acting' => Whole(alu'.val)
      /\ astate' # "IDLE" => ~alu'.valid
  <2>a. CASE AluIdle
    BY <1>1, <1>2, <2>a, Marked DEF AluIdle, Acting
  <2>b. CASE AluOp1
    BY <1>1, <1>2, <2>b, Marked DEF AluOp1, Acting
  <2>c. CASE AluOp2
    BY <1>1, <1>2, <2>c, Marked DEF AluOp2, Acting
  <2> QED BY <2>a, <2>b, <2>c DEF StageTick, ActionEngine
<1>7. outPhv'.valid => Whole(outPhv'.val)
  BY <1>1, <1>2, Marked DEF StageTick, ActionEngine, Collect, Acting
<1> QED BY <1>3, <1>4, <1>5, <1>6, <1>7 DEF StageAt

-----------------------------------------------------------------------------
(* The order of the PHVs. *)

\* The youngest PHV at a register or behind it, towards the FIFO: live says
\* whether the register holds one.
Newer(live, lo, behind) == IF live THEN lo ELSE behind

AtFifo == Newer(phvFifo # <<>>, phvFifo[Len(phvFifo)].val.lo, 0)
AtOut == Newer(outPhv.valid, outPhv.val.lo, AtFifo)
AtAlu == Newer(Acting, alu.val.lo, AtOut)
AtXbar == Newer(xbar.valid, xbar.val.lo, AtAlu)
AtAct == Newer(act.valid, act.val.lo, AtXbar)
AtLookup == Newer(Looking, lreg.val.lo, AtAct)
AtKey == Newer(key.valid, key.val.lo, AtLookup)
AtDelay2 == Newer(delay[2].valid, delay[2].val.lo, AtKey)
AtDelay1 == Newer(delay[1].valid, delay[1].val.lo, AtDelay2)
AtVals == Newer(vals.valid, vals.val.lo, AtDelay1)
AtSub == Newer(pstate = "PHVGEN", sub.lo, AtVals)
AtHdr == Newer(pstate \in {"WAIT1", "WAIT2"}, hdr.lo, AtSub)

\* Every PHV is younger than all that went ahead of it, and no packet has been
\* parsed that the FIFO of packets has not been given.
FifoInOrder == \A i \in 1..(Len(phvFifo) - 1) : phvFifo[i].val.lo < phvFifo[i + 1].val.lo
StageInOrder ==
  /\ AtFifo <= AtOut /\ (outPhv.valid => AtFifo < AtOut)
  /\ Acting => AtOut < AtAlu
  /\ xbar.valid => AtAlu < AtXbar
  /\ act.valid => AtXbar < AtAct
  /\ Looking => AtAct < AtLookup
  /\ key.valid => AtLookup < AtKey
  /\ delay[2].valid => AtKey < AtDelay2
  /\ delay[1].valid => AtDelay2 < AtDelay1
ParserInOrder ==
  /\ vals.valid => AtDelay1 < AtVals
  /\ pstate = "PHVGEN" => AtVals < AtSub
  /\ pstate \in {"WAIT1", "WAIT2"} => AtSub < AtHdr
  /\ AtHdr <= written
Chain == FifoInOrder /\ StageInOrder /\ ParserInOrder

\* The numbers of the packets whose PHVs are on their way.
Levels ==
  /\ AtFifo \in Nat /\ AtOut \in Nat /\ AtAlu \in Nat /\ AtXbar \in Nat
  /\ AtAct \in Nat /\ AtLookup \in Nat /\ AtKey \in Nat /\ AtDelay2 \in Nat
  /\ AtDelay1 \in Nat /\ AtVals \in Nat /\ AtSub \in Nat /\ AtHdr \in Nat

\* Packets are numbered by their first beats.
LEMMA LevelsType == PipeTypeOK => Levels
<1> SUFFICES ASSUME PipeTypeOK PROVE Levels
  OBVIOUS
<1>1. \A r \in KeyedPhvs : r.val.lo \in Nat
  BY DEF KeyedPhvs, StageVals
<1>2. \A r \in Phvs : r.val.lo \in Nat
  BY DEF Phvs, StageVals
<1>3. /\ key \in KeyedPhvs /\ lreg \in KeyedPhvs /\ act \in KeyedPhvs
      /\ xbar \in KeyedPhvs /\ alu \in KeyedPhvs /\ outPhv \in KeyedPhvs
      /\ delay \in Phvs \X Phvs
  BY DEF PipeTypeOK, StageTypeOK
<1>4. AtFifo \in Nat
  <2>1. CASE phvFifo # <<>>
    <3>1. phvFifo \in Seq(KeyedPhvs) /\ Len(phvFifo) \in 1..Len(phvFifo)
      BY <2>1 DEF PipeTypeOK
    <3>2. phvFifo[Len(phvFifo)] \in KeyedPhvs
      BY <3>1, ElementOfSeq
    <3> QED BY <1>1, <2>1, <3>2 DEF AtFifo, Newer
  <2>2. CASE phvFifo = <<>>
    BY <2>2 DEF AtFifo, Newer
  <2> QED BY <2>1, <2>2
<1>5. AtOut \in Nat
  BY <1>1, <1>3, <1>4 DEF AtOut, Newer
<1>6. AtAlu \in Nat
  BY <1>1, <1>3, <1>5 DEF AtAlu, Newer
<1>7. AtXbar \in Nat
  BY <1>1, <1>3, <1>6 DEF AtXbar, Newer
<1>8. AtAct \in Nat
  BY <1>1, <1>3, <1>7 DEF AtAct, Newer
<1>9. AtLookup \in Nat
  BY <1>1, <1>3, <1>8 DEF AtLookup, Newer
<1>10. AtKey \in Nat
  BY <1>1, <1>3, <1>9 DEF AtKey, Newer
<1>11. AtDelay2 \in Nat
  BY <1>2, <1>3, <1>10 DEF AtDelay2, Newer
<1>12. AtDelay1 \in Nat
  BY <1>2, <1>3, <1>11 DEF AtDelay1, Newer
<1>13. AtVals \in Nat
  BY <1>12 DEF AtVals, Newer, PipeTypeOK, ParserTypeOK, Vals
<1>14. AtSub \in Nat
  BY <1>13 DEF AtSub, Newer, PipeTypeOK, ParserTypeOK, Vals
<1>15. AtHdr \in Nat
  BY <1>14 DEF AtHdr, Newer, PipeTypeOK, ParserTypeOK
<1> QED BY <1>4, <1>5, <1>6, <1>7, <1>8, <1>9, <1>10, <1>11, <1>12, <1>13, <1>14, <1>15
        DEF Levels

\* A PHV is no older than those behind it, and its register says which.
LEMMA Ascending ==
  ASSUME Levels, Chain
  PROVE  /\ AtFifo <= AtOut /\ AtOut <= AtAlu /\ AtAlu <= AtXbar /\ AtXbar <= AtAct
         /\ AtAct <= AtLookup /\ AtLookup <= AtKey /\ AtKey <= AtDelay2
         /\ AtDelay2 <= AtDelay1 /\ AtDelay1 <= AtVals /\ AtVals <= AtSub
         /\ AtSub <= AtHdr /\ AtHdr <= written
<1> USE DEF Levels, Chain, StageInOrder, ParserInOrder
<1>1. AtFifo <= AtOut
  OBVIOUS
<1>2. AtOut <= AtAlu
  BY DEF AtAlu, Newer
<1>3. AtAlu <= AtXbar
  BY DEF AtXbar, Newer
<1>4. AtXbar <= AtAct
  BY DEF AtAct, Newer
<1>5. AtAct <= AtLookup
  BY DEF AtLookup, Newer
<1>6. AtLookup <= AtKey
  BY DEF AtKey, Newer
<1>7. AtKey <= AtDelay2
  BY DEF AtDelay2, Newer
<1>8. AtDelay2 <= AtDelay1
  BY DEF AtDelay1, Newer
<1>9. AtDelay1 <= AtVals
  BY DEF AtVals, Newer
<1>10. AtVals <= AtSub
  BY DEF AtSub, Newer
<1>11. AtSub <= AtHdr
  BY DEF AtHdr, Newer
<1> QED BY <1>1, <1>2, <1>3, <1>4, <1>5, <1>6, <1>7, <1>8, <1>9, <1>10, <1>11

\* A PHV is appended to the FIFO behind older ones, or dropped; the head goes.
LEMMA KeepsFifoInOrder ==
  ASSUME PipeTypeOK, Levels, Chain, PhvFifo
  PROVE  FifoInOrder' /\ AtFifo' <= AtOut
<1> DEFINE kept == IF rdPhv /\ phvFifo # <<>> THEN Tail(phvFifo) ELSE phvFifo
           Lo(q, i) == q[i].val.lo
           Sorted(q) == \A i \in 1..(Len(q) - 1) : Lo(q, i) < Lo(q, i + 1)
<1>1. phvFifo \in Seq(KeyedPhvs) /\ Sorted(phvFifo)
  BY DEF PipeTypeOK, Chain, FifoInOrder
<1>2. /\ AtOut \in Nat /\ AtFifo \in Nat /\ AtFifo <= AtOut
      /\ outPhv.valid => AtFifo < AtOut /\ AtOut = outPhv.val.lo
      /\ phvFifo # <<>> => AtFifo = Lo(phvFifo, Len(phvFifo))
  BY DEF Levels, Chain, StageInOrder, AtOut, AtFifo, Newer
<1>3. AtFifo' = IF phvFifo' # <<>> THEN Lo(phvFifo', Len(phvFifo')) ELSE 0
  BY DEF AtFifo, Newer
<1>4. /\ kept \in Seq(KeyedPhvs) /\ Sorted(kept)
      /\ kept # <<>> => phvFifo # <<>> /\ Lo(kept, Len(kept)) = AtFifo
  <2>1. CASE kept = phvFifo
    BY <1>1, <1>2, <2>1
  <2>2. CASE kept # phvFifo
    <3>1. phvFifo # <<>> /\ kept = Tail(phvFifo)
      BY <2>2
    <3> HIDE DEF kept, Lo
    <3>2. /\ kept \in Seq(KeyedPhvs) /\ Len(kept) = Len(phvFifo) - 1
          /\ Len(phvFifo) \in Nat /\ Len(kept) \in Nat
          /\ \A i \in 1..Len(kept) : kept[i] = phvFifo[i + 1]
      BY <1>1, <3>1
    <3>3. \A i \in 1..Len(kept) : Lo(kept, i) = Lo(phvFifo, i + 1)
      BY <3>2 DEF Lo
    <3>4. Sorted(kept)
      BY <1>1, <3>2, <3>3
    <3>5. kept # <<>> => Lo(kept, Len(kept)) = Lo(phvFifo, Len(phvFifo))
      <4>1. kept # <<>> => Len(kept) \in 1..Len(kept)
        BY <3>2
      <4> QED BY <3>2, <3>3, <4>1
    <3> QED BY <1>2, <3>1, <3>2, <3>4, <3>5
  <2> QED BY <2>1, <2>2
<1>5. CASE outPhv.valid /\ Len(phvFifo) < Depth
  <2>1. phvFifo' = kept \o <<outPhv>> /\ outPhv \in KeyedPhvs
    BY <1>5 DEF PhvFifo, PipeTypeOK, StageTypeOK
  <2> HIDE DEF kept, Lo
  <2>2. /\ phvFifo' \in Seq(KeyedPhvs) /\ Len(phvFifo') = Len(kept) + 1
        /\ Len(kept) \in Nat /\ phvFifo' # <<>>
        /\ phvFifo'[Len(phvFifo')] = outPhv
        /\ \A i \in 1..Len(kept) : phvFifo'[i] = kept[i]
    BY <1>4, <2>1
  <2>3. Lo(phvFifo', Len(phvFifo')) = AtOut
    BY <1>2, <1>5, <2>2 DEF Lo
  <2>4. \A i \in 1..Len(kept) : Lo(phvFifo', i) = Lo(kept, i)
    BY <2>2 DEF Lo
  <2>5. kept # <<>> => Lo(kept, Len(kept)) < AtOut
    BY <1>2, <1>4, <1>5
  <2>6. ASSUME NEW i \in 1..(Len(phvFifo') - 1)
        PROVE  Lo(phvFifo', i) < Lo(phvFifo', i + 1)
    <3>1. i \in 1..Len(kept)
      BY <2>2
    <3>2. CASE i = Len(kept)
      <4>1. kept # <<>>
        BY <2>2, <3>1
      <4> QED BY <2>2, <2>3, <2>4, <2>5, <3>1, <3>2, <4>1
    <3>3. CASE i # Len(kept)
      <4>1. i \in 1..(Len(kept) - 1) /\ i + 1 \in 1..Len(kept)
        BY <2>2, <3>1, <3>3
      <4> QED BY <1>4, <2>4, <3>1, <4>1
    <3> QED BY <3>2, <3>3
  <2>7. FifoInOrder'
    BY <2>6 DEF FifoInOrder, Lo
  <2>8. AtFifo' = AtOut
    BY <1>3, <2>2, <2>3
  <2> QED BY <1>2, <2>7, <2>8
<1>6. CASE ~(outPhv.valid /\ Len(phvFifo) < Depth)
  <2>1. phvFifo' = kept \o <<>>
    BY <1>6 DEF PhvFifo
  <2> HIDE DEF kept, Lo
  <2>2. phvFifo' = kept
    BY <1>4, <2>1
  <2>3. AtFifo' <= AtOut
    BY <1>2, <1>3, <1>4, <2>2
  <2>4. FifoInOrder'
    BY <1>4, <2>2 DEF FifoInOrder, Lo
  <2> QED BY <2>3, <2>4
<1> QED BY <1>5, <1>6

\* After an edge the youngest PHV at a register is no younger than the one that
\* was at the register before it, and older than the one a register takes.
LEMMA KeepsStageInOrder ==
  ASSUME PipeTypeOK, Levels, Levels', Chain, StageAt, AtFifo' <= AtOut, StageTick(PhvOut)
  PROVE  StageInOrder' /\ AtDelay1' <= AtVals
<1>1. /\ AtFifo <= AtOut /\ AtOut <= AtAlu /\ AtAlu <= AtXbar /\ AtXbar <= AtAct
      /\ AtAct <= AtLookup /\ AtLookup <= AtKey /\ AtKey <= AtDelay2
      /\ AtDelay2 <= AtDelay1 /\ AtDelay1 <= AtVals
  BY Ascending
<1>2. /\ key \in KeyedPhvs /\ lreg \in KeyedPhvs /\ act \in KeyedPhvs
      /\ xbar \in KeyedPhvs /\ alu \in KeyedPhvs /\ outPhv \in KeyedPhvs
  BY DEF PipeTypeOK, StageTypeOK
<1>3. /\ Acting => AtOut < AtAlu /\ AtAlu = alu.val.lo
      /\ xbar.valid => AtAlu < AtXbar /\ AtXbar = xbar.val.lo
      /\ act.valid => AtXbar < AtAct /\ AtAct = act.val.lo
      /\ Looking => AtAct < AtLookup /\ AtLookup = lreg.val.lo
      /\ key.valid => AtLookup < AtKey /\ AtKey = key.val.lo
      /\ delay[2].valid => AtKey < AtDelay2 /\ AtDelay2 = delay[2].val.lo
      /\ delay[1].valid => AtDelay2 < AtDelay1 /\ AtDelay1 = delay[1].val.lo
      /\ vals.valid => AtDelay1 < AtVals /\ AtVals = vals.val.lo
  BY DEF Chain, StageInOrder, ParserInOrder, AtAlu, AtXbar, AtAct, AtLookup, AtKey, AtDelay2,
         AtDelay1, AtVals, Newer
<1> USE DEF Levels
<1>a. /\ AtFifo' <= AtOut' /\ (outPhv'.valid => AtFifo' < AtOut')
      /\ AtOut' <= AtAlu /\ (astate # "IDLE" => AtOut' <= AtOut)
  <2>1. AtOut' = IF outPhv'.valid THEN outPhv'.val.lo ELSE AtFifo'
    BY DEF AtOut, Newer
  <2>2. outPhv' = IF alu.valid THEN alu ELSE Invalid(outPhv)
    BY DEF StageTick, ActionEngine, Collect
  <2>3. CASE alu.valid
    BY <1>1, <1>3, <2>1, <2>2, <2>3 DEF Acting, StageAt
  <2>4. CASE ~alu.valid
    <3>1. ~outPhv'.valid
      BY <1>2, <2>2, <2>4, Marked
    <3> QED BY <1>1, <2>1, <3>1
  <2> QED BY <2>3, <2>4
<1>b. (Acting' => AtOut' < AtAlu') /\ AtAlu' <= AtXbar
  <2>1. AtAlu' = IF Acting' THEN alu'.val.lo ELSE AtOut'
    BY DEF AtAlu, Newer
  <2>2. CASE AluIdle
    <3>1. CASE xbar.valid
      <4>1. Acting' /\ alu'.val.lo = AtXbar
        BY <1>2, <1>3, <2>2, <3>1, Marked DEF AluIdle, Acting
      <4> QED BY <1>1, <1>3, <1>a, <2>1, <3>1, <4>1
    <3>2. CASE ~xbar.valid
      <4>1. ~Acting'
        BY <1>2, <2>2, <3>2, Marked DEF AluIdle, Acting
      <4> QED BY <1>1, <1>a, <2>1, <4>1
    <3> QED BY <3>1, <3>2
  <2>3. CASE AluOp1 \/ AluOp2
    <3>1. Acting /\ Acting' /\ alu'.val = alu.val /\ astate # "IDLE"
      BY <1>2, <2>3, Marked DEF AluOp1, AluOp2, Acting
    <3> QED BY <1>1, <1>3, <1>a, <2>1, <3>1
  <2> QED BY <2>2, <2>3 DEF StageTick, ActionEngine
<1>c. (xbar'.valid => AtAlu' < AtXbar') /\ AtXbar' <= AtAct
  <2>1. AtXbar' = IF xbar'.valid THEN xbar'.val.lo ELSE AtAlu'
    BY DEF AtXbar, Newer
  <2>2. xbar' = IF act.valid THEN act ELSE Invalid(xbar)
    BY DEF StageTick, ActionEngine, Crossbar
  <2>3. CASE act.valid
    BY <1>1, <1>3, <1>b, <2>1, <2>2, <2>3
  <2>4. CASE ~act.valid
    <3>1. ~xbar'.valid
      BY <1>2, <2>2, <2>4, Marked
    <3> QED BY <1>1, <1>b, <2>1, <3>1
  <2> QED BY <2>3, <2>4
<1>d. /\ (act'.valid => AtXbar' < AtAct') /\ AtAct' <= AtLookup
      /\ (Looking /\ Looking' => AtAct' <= AtAct)
  <2>1. AtAct' = IF act'.valid THEN act'.val.lo ELSE AtXbar'
    BY DEF AtAct, Newer
  <2>2. CASE LookupIdle
    <3>1. ~act'.valid /\ ~Looking
      BY <1>2, <2>2, Marked DEF LookupIdle, Looking
    <3> QED BY <1>1, <1>c, <2>1, <3>1
  <2>3. CASE LookupMiss \/ LookupTrans
    <3>1. act'.valid /\ act'.val = lreg.val /\ Looking /\ ~Looking'
      BY <1>2, <2>3, Marked DEF LookupMiss, LookupTrans, Looking
    <3> QED BY <1>1, <1>3, <1>c, <2>1, <3>1
  <2>4. CASE LookupHit \/ LookupWait2
    <3>1. ~act'.valid
      BY <2>4 DEF LookupHit, LookupWait2, Looking, StageAt
    <3> QED BY <1>1, <1>c, <2>1, <3>1
  <2> QED BY <2>2, <2>3, <2>4 DEF StageTick, LookupEngine
<1>e. (Looking' => AtAct' < AtLookup') /\ AtLookup' <= AtKey
  <2>1. AtLookup' = IF Looking' THEN lreg'.val.lo ELSE AtAct'
    BY DEF AtLookup, Newer
  <2>2. lreg' = IF key.valid THEN key ELSE lreg
    BY DEF StageTick, LookupEngine, LatchPhv
  <2>3. ~key.valid /\ Looking' => Looking
    BY DEF StageTick, LookupEngine, LookupIdle, LookupMiss, LookupHit, LookupWait2,
           LookupTrans, Looking
  <2> QED BY <1>1, <1>3, <1>d, <2>1, <2>2, <2>3
<1>f. (key'.valid => AtLookup' < AtKey') /\ AtKey' <= AtDelay2
  <2>1. AtKey' = IF key'.valid THEN key'.val.lo ELSE AtLookup'
    BY DEF AtKey, Newer
  <2>2. key'.valid = delay[2].valid /\ key'.val = delay[2].val
    BY DEF StageTick, KeyExtract
  <2> QED BY <1>1, <1>3, <1>e, <2>1, <2>2
<1>g. delay'[1] = PhvOut /\ delay'[2] = delay[1]
  BY DEF StageTick, KeyExtract
<1>h. (delay'[2].valid => AtKey' < AtDelay2') /\ AtDelay2' <= AtDelay1
  <2>1. AtDelay2' = IF delay'[2].valid THEN delay'[2].val.lo ELSE AtKey'
    BY DEF AtDelay2, Newer
  <2> QED BY <1>1, <1>3, <1>f, <1>g, <2>1
<1>i. (delay'[1].valid => AtDelay2' < AtDelay1') /\ AtDelay1' <= AtVals
  <2>1. AtDelay1' = IF delay'[1].valid THEN delay'[1].val.lo ELSE AtDelay2'
    BY DEF AtDelay1, Newer
  <2>2. PhvOut.valid = vals.valid /\ PhvOut.val = vals.val
    BY DEF PhvOut
  <2> QED BY <1>1, <1>3, <1>h, <1>g, <2>1, <2>2
<1> QED BY <1>a, <1>b, <1>c, <1>d, <1>e, <1>f, <1>h, <1>i DEF StageInOrder

\* The parser starts on a packet that is younger than all before it.
LEMMA KeepsParserInOrder ==
  ASSUME PipeTypeOK, Levels, Levels', Chain, ParserAt, AtDelay1' <= AtVals,
         ParserTick(m.valid, m.num), m.valid => m.num = written + 1,
         written' = written + One(m.valid)
  PROVE  ParserInOrder'
<1>1. /\ AtDelay1 <= AtVals /\ AtVals <= AtSub /\ AtSub <= AtHdr /\ AtHdr <= written
  BY Ascending
<1>2. /\ pstate = "PHVGEN" => AtVals < AtSub /\ AtSub = sub.lo
      /\ pstate \in {"WAIT1", "WAIT2"} => AtSub < AtHdr /\ AtHdr = hdr.lo
  BY DEF Chain, ParserInOrder, AtSub, AtHdr, Newer
<1>3. /\ AtVals' = IF vals'.valid THEN vals'.val.lo ELSE AtDelay1'
      /\ AtSub' = IF pstate' = "PHVGEN" THEN sub'.lo ELSE AtVals'
      /\ AtHdr' = IF pstate' \in {"WAIT1", "WAIT2"} THEN hdr'.lo ELSE AtSub'
  BY DEF AtVals, AtSub, AtHdr, Newer
<1>4. written \in Nat /\ One(m.valid) \in {0, 1} /\ hdr \in [lo : Nat, hi : Nat]
  BY DEF PipeTypeOK, TypeOK, ParserTypeOK, One
<1> USE DEF Levels
<1>a. CASE ParseIdle(m.valid)
  <2>1. ~vals'.valid /\ pstate' # "PHVGEN"
    BY <1>a DEF ParseIdle
  <2>2. CASE FirstSegment(m.valid)
    <3>1. pstate' = "WAIT1" /\ hdr'.lo = written + 1 /\ written' = written + 1
      BY <1>a, <2>2 DEF ParseIdle, ParserTick, Segments, FirstSegment, One
    <3> QED BY <1>1, <1>3, <1>4, <2>1, <3>1 DEF ParserInOrder
  <2>3. CASE ~FirstSegment(m.valid)
    <3>1. pstate' = "IDLE"
      BY <1>a, <2>3 DEF ParseIdle
    <3> QED BY <1>1, <1>3, <1>4, <2>1, <3>1 DEF ParserInOrder
  <2> QED BY <2>2, <2>3
<1>b. CASE ParseWait1
  <2>1. pstate = "WAIT1" /\ pstate' = "WAIT2" /\ ~vals'.valid
    BY <1>b DEF ParseWait1, ParserAt
  <2>2. hdr'.lo = hdr.lo
    <3>1. hdr' = [hdr EXCEPT !.hi = m.num]
      BY <2>1 DEF ParserTick, Segments, FirstSegment, SegNum, ParserAt
    <3> QED BY <1>4, <3>1
  <2> QED BY <1>1, <1>2, <1>3, <1>4, <2>1, <2>2 DEF ParserInOrder
<1>c. CASE ParseWait2
  <2>1. pstate = "WAIT2" /\ pstate' = "PHVGEN" /\ ~vals'.valid /\ sub'.lo = hdr.lo
    BY <1>c DEF ParseWait2, ParserAt
  <2> QED BY <1>1, <1>2, <1>3, <1>4, <2>1 DEF ParserInOrder
<1>d. CASE ParsePhvGen
  <2>1. pstate = "PHVGEN" /\ pstate' = "IDLE" /\ vals'.valid /\ vals'.val.lo = sub.lo
    BY <1>d DEF ParsePhvGen
  <2> QED BY <1>1, <1>2, <1>3, <1>4, <2>1 DEF ParserInOrder
<1> QED BY <1>a, <1>b, <1>c, <1>d DEF ParserTick

-----------------------------------------------------------------------------
(* The inductive invariant of the data path. *)

PipeInv == PipeTypeOK /\ IInv /\ Front /\ ParserAt /\ StageAt /\ Chain

\* After reset nothing is on its way.
LEMMA InitPipeInv == PipeInit => PipeInv
<1> SUFFICES ASSUME PipeInit PROVE PipeInv
  OBVIOUS
<1> USE DEF PipeInit, ParserInit, StageInit
<1>1. PipeTypeOK /\ IInv
  BY PipeInitType, InitIInv
<1>2. /\ ~s.valid /\ ~m.valid /\ pkt = NoPkt /\ written = 0
  BY DEF Init, NoBeat
<1>3. /\ pstate = "IDLE" /\ ~vals.valid /\ phvFifo = <<>> /\ ~Looking /\ ~Acting
      /\ ~delay[1].valid /\ ~delay[2].valid /\ ~key.valid /\ ~act.valid
      /\ ~xbar.valid /\ ~outPhv.valid /\ astate = "IDLE"
  BY DEF NoPhv, NoReg, Looking, Acting
<1>4. Front
  BY <1>2 DEF Front
<1>5. ParserAt /\ StageAt
  BY <1>3 DEF ParserAt, StageAt
<1>6. AtHdr = 0 /\ AtOut = 0 /\ AtFifo = 0
  BY <1>3 DEF AtHdr, AtSub, AtVals, AtDelay1, AtDelay2, AtKey, AtLookup, AtAct, AtXbar,
     AtAlu, AtOut, AtFifo, Newer
<1>7. Chain
  BY <1>2, <1>3, <1>6 DEF Chain, FifoInOrder, StageInOrder, ParserInOrder
<1> QED BY <1>1, <1>4, <1>5, <1>7 DEF PipeInv

\* Every clock edge keeps the invariant.
LEMMA PipeInvInductive == Steady /\ PipeInv /\ [PipeNext]_pipeVars => PipeInv'
<1> SUFFICES ASSUME Steady, PipeInv, [PipeNext]_pipeVars PROVE PipeInv'
  OBVIOUS
<1>1. PipeTypeOK'
  BY PipeTypeInductive DEF PipeInv
<1>2. Levels /\ Levels'
  BY <1>1, LevelsType, PTL DEF PipeInv
<1>3. CASE UNCHANGED pipeVars
  <2> USE <1>3 DEF pipeVars, vars, source, parserVars, stageVars
  <2>1. IInv'
    BY IInvInductive DEF PipeInv, Steady
  <2>2. Front' /\ ParserAt' /\ StageAt'
    BY DEF PipeInv, Front, ParserAt, StageAt, Looking, Acting
  <2>3. Chain'
    BY DEF PipeInv, Chain, FifoInOrder, StageInOrder, ParserInOrder, Acting, Looking,
       AtHdr, AtSub, AtVals, AtDelay1, AtDelay2, AtKey, AtLookup, AtAct, AtXbar, AtAlu,
       AtOut, AtFifo, Newer
  <2> QED BY <1>1, <2>1, <2>2, <2>3 DEF PipeInv
<1>4. CASE PipeNext
  <2>1. PICK head \in PktHeads, tready \in BOOLEAN : Edge(head, tready)
    BY <1>4 DEF PipeNext
  <2>2. rdPkt \in BOOLEAN
    BY DEF PipeInv, PipeTypeOK, DeparserTypeOK
  <2>3. Source /\ Passed /\ PktFifo(rdPkt) /\ Next
    BY <2>1, <2>2, FilterPasses DEF Edge, Tick, Next, PipeInv
  <2>4. IInv'
    BY <2>3, IInvInductive DEF PipeInv, Steady
  <2>5. ParserTick(m.valid, m.num)
    <3>1. (m.valid /\ mReady) = m.valid
      BY Ready DEF PipeInv, PipeTypeOK, TypeOK, Bus
    <3> QED BY <2>1, <3>1 DEF Edge
  <2>6. Front'
    <3>1. before' = m.valid
      BY <2>5 DEF ParserTick, Segments
    <3> QED BY <2>3, <3>1, KeepsFront DEF PipeInv
  <2>7. ParserAt'
    BY <2>3, <2>5, KeepsParserAt DEF PipeInv, PipeTypeOK
  <2>8. StageTick(PhvOut) /\ PhvFifo
    BY <2>1 DEF Edge
  <2>9. StageAt'
    <3>1. PhvOut \in Phvs /\ (PhvOut.valid => Whole(PhvOut.val))
      <4>1. PhvOut \in Phvs
        BY HeadTypes DEF PipeInv
      <4> QED BY <4>1 DEF PipeInv, ParserAt, PhvOut
    <3> QED BY <2>8, <3>1, KeepsStageAt DEF PipeInv, PipeTypeOK
  <2>10. FifoInOrder' /\ AtFifo' <= AtOut
    BY <1>2, <2>8, KeepsFifoInOrder DEF PipeInv
  <2>11. StageInOrder' /\ AtDelay1' <= AtVals
    BY <1>2, <2>8, <2>10, KeepsStageInOrder DEF PipeInv
  <2>12. ParserInOrder'
    <3>1. written' = written + One(m.valid)
      BY <2>2, <2>3, FifoReads DEF PipeInv
    <3>2. m.valid => m.num = written + 1
      BY DEF PipeInv, IInv, Counted, ExactlyOnce, DataExactlyOnce
    <3> QED BY <1>2, <2>5, <2>11, <3>1, <3>2, KeepsParserInOrder DEF PipeInv
  <2> QED BY <1>1, <2>4, <2>6, <2>7, <2>9, <2>10, <2>11, <2>12 DEF PipeInv, Chain
<1> QED BY <1>3, <1>4

\* The invariant holds in every state of a data path with steady traffic.
LEMMA PipeInvariance == ASSUME Steady PROVE PipeSpec => []PipeInv
<1>1. PipeInv /\ [PipeNext]_pipeVars => PipeInv'
  BY PipeInvInductive
<1> QED BY <1>1, InitPipeInv, PTL DEF PipeSpec

\* Each PHV that leaves stage 0 is made of the first two beats of one packet,
\* parsed by the instructions its own VLAN selects, however close the packets
\* follow each other.
THEOREM PhvsOfOnePacket == ASSUME Steady PROVE PipeSpec => []PhvOfOnePacket
<1>1. PipeInv => PhvOfOnePacket
  BY DEF PipeInv, StageAt, Whole, PhvOfOnePacket
<1> QED BY <1>1, PipeInvariance, PTL

\* PHVs reach the FIFO in the order of their packets and no two are of one
\* packet, even where the stage loses one that follows too close.
THEOREM PhvsInOrder == ASSUME Steady PROVE PipeSpec => []PhvInOrder
<1>1. PipeInv => PhvInOrder
  BY DEF PipeInv, Chain, FifoInOrder, StageInOrder, AtOut, AtFifo, Newer, PhvInOrder
<1> QED BY <1>1, PipeInvariance, PTL
=============================================================================
