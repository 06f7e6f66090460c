---------------------------- MODULE Rebuilt_proof ----------------------------
(***************************************************************************)
(* Proof that the data path rebuilds every packet when the packets are far  *)
(* enough apart, whatever their length and whatever the CAM answers.        *)
(*                                                                         *)
(* The invariant is a timetable.  One packet is in flight, age is the       *)
(* cycles since its first beat stood behind the filter, and every register  *)
(* of the parser, the stage, the PHV FIFO and the deparser is where the     *)
(* timetable has it at that age.  With a gap of Latency cycles the next     *)
(* packet comes when the deparser is done with this one: between two        *)
(* packets the pipeline is vacant.                                         *)
(***************************************************************************)
EXTENDS RmtPipeline_proof

\* The longest way of a PHV, from the first beat of its packet to the deparser,
\* and the cycles the deparser needs on top of those of the packet's beats.
Latency == 22

\* One packet at a time: it is out of the deparser before the next one is in.
Spaced == Steady /\ AlwaysReady /\ MinGap >= Latency

-----------------------------------------------------------------------------
(* The timetable of a packet of len beats that comes after base beats.  The  *)
(* lookup engine is done with its PHV at age hit, 9 or 11.                   *)

Hits == {9, 11}
\* When the PHV is at the deparser.
Arrival(hit) == hit + 6
\* When the deparser has emitted the packet.
Over(len, hit) == Arrival(hit) + len + 5

\* The beat on s_axis follows the one behind the filter.
Follows == m.valid /\ ~m.last => s.idx = m.idx + 1

\* The source and the filter.
BeatsAt(base, age, len) ==
  /\ age < len => m.valid /\ m.idx = age + 1 /\ (m.last <=> age + 1 = len)
  /\ age >= len => ~m.valid
  /\ written = base + (IF age < len THEN age ELSE len)
  /\ before <=> age # 0 /\ age <= len
  /\ age + 1 < len => (s.last <=> age + 2 = len)
  /\ age + 1 >= len => (s.valid => s.idx = 1)
  /\ age + 1 >= len /\ age + 2 <= len + Latency => ~s.valid /\ pkt = NoPkt /\ gap = age + 2 - len

ParsedAt(base, age) ==
  /\ pstate = IF age = 1 THEN "WAIT1" ELSE IF age = 2 THEN "WAIT2"
              ELSE IF age = 3 THEN "PHVGEN" ELSE "IDLE"
  /\ age \in {1, 2} => hdr.lo = base + 1
  /\ age = 3 => sub.lo = base + 1
  /\ vals.valid <=> age = 4
  /\ age = 4 => vals.val.lo = base + 1

LookedUpAt(base, age, hit) ==
  /\ delay[1].valid <=> age = 5
  /\ delay[2].valid <=> age = 6
  /\ key.valid <=> age = 7
  /\ lstate = IF age = 8 THEN "WAIT1"
              ELSE IF age = 9 /\ hit = 11 THEN "WAIT2"
              ELSE IF age = 10 /\ hit = 11 THEN "TRANS" ELSE "IDLE"
  /\ act.valid <=> age = hit
  /\ age = 5 => delay[1].val.lo = base + 1
  /\ age = 6 => delay[2].val.lo = base + 1
  /\ age = 7 => key.val.lo = base + 1
  /\ 8 <= age /\ age < hit => lreg.val.lo = base + 1
  /\ age = hit => act.val.lo = base + 1

ActedAt(base, age, hit) ==
  /\ xbar.valid <=> age = hit + 1
  /\ astate = IF age = hit + 2 THEN "OP_1" ELSE IF age = hit + 3 THEN "OP_2" ELSE "IDLE"
  /\ alu.valid <=> age = hit + 4
  /\ outPhv.valid <=> age = hit + 5
  /\ age = hit + 1 => xbar.val.lo = base + 1
  /\ hit + 2 <= age /\ age <= hit + 4 => alu.val.lo = base + 1
  /\ age = hit + 5 => outPhv.val.lo = base + 1

\* The PHV FIFO.
QueuedAt(base, age, from) ==
  IF from <= age /\ age <= from + 5 THEN Len(phvFifo) = 1 /\ phvFifo[1].val.lo = base + 1
                                    ELSE phvFifo = <<>>

\* The deparser has taken so many words off the packet FIFO.
Popped(age, from) ==
  IF age <= from + 1 THEN 0
  ELSE IF age = from + 2 THEN 1
  ELSE IF age <= from + 7 THEN 2 ELSE age - from - 5

\* The packet FIFO.
StoredAt(base, age, len, from) ==
  LET popped == Popped(age, from)
  IN /\ Len(fifo) = (IF age < len THEN age ELSE len) - popped
     /\ \A i \in 1..Len(fifo) : /\ fifo[i].num = base + popped + i
                                /\ fifo[i].idx = popped + i
                                /\ fifo[i].last <=> popped + i = len

\* The deparser.
DeparseState(age, from) ==
  CASE age <= from -> "IDLE"
    [] age = from + 1 -> "BUF_HDR_0"
    [] age = from + 2 -> "BUF_HDR_1"
    [] age = from + 3 -> "WAIT_SUB"
    [] age = from + 4 -> "REFORM_HDR"
    [] age = from + 5 -> "FLUSH_PKT_0"
    [] age = from + 6 -> "FLUSH_PKT_1"
    [] OTHER -> "FLUSH_PKT"

Pops(age, from) == age \in {from + 1, from + 2} \/ age >= from + 7

DeparsedAt(base, age, len, from) ==
  /\ dstate = DeparseState(age, from)
  /\ rdPkt <=> Pops(age, from)
  /\ rdPhv <=> age = from + 5
  /\ age >= from + 2 => beat0.num = base + 1 /\ beat0.idx = 1 /\ ~beat0.last /\ usedPhv = base + 1
  /\ age >= from + 3 => beat1.num = base + 2 /\ beat1.idx = 2 /\ (beat1.last <=> len = 2)

\* What has left, and what is leaving.
EmittedAt(base, age, from) ==
  /\ out.valid <=> age >= from + 6
  /\ out.valid => /\ out.word.num = base + age - from - 5 /\ out.word.idx = age - from - 5
                  /\ out.by = IF out.word.idx <= 2 THEN base + 1 ELSE 0
  /\ delivered = base + (IF age <= from + 6 THEN 0 ELSE age - from - 6)

Flight(base, age, len, hit) ==
  /\ BeatsAt(base, age, len) /\ ParsedAt(base, age)
  /\ LookedUpAt(base, age, hit) /\ ActedAt(base, age, hit)
  /\ QueuedAt(base, age, Arrival(hit)) /\ StoredAt(base, age, len, Arrival(hit))
  /\ DeparsedAt(base, age, len, Arrival(hit)) /\ EmittedAt(base, age, Arrival(hit))

\* Nothing is on its way, but for the last beat of a packet on m_axis, and the
\* first of one behind the filter.
Vacant ==
  /\ m.valid => m.idx = 1
  /\ ~before /\ pstate = "IDLE" /\ ~vals.valid
  /\ ~delay[1].valid /\ ~delay[2].valid /\ ~key.valid /\ lstate = "IDLE" /\ ~act.valid
  /\ ~xbar.valid /\ astate = "IDLE" /\ ~alu.valid /\ ~outPhv.valid
  /\ phvFifo = <<>> /\ fifo = <<>>
  /\ dstate = "IDLE" /\ ~rdPhv
  /\ written = delivered + (IF out.valid THEN 1 ELSE 0)
  /\ Rebuilt

\* A packet of len beats is in flight.
Flying(len) ==
  \E base \in Nat, hit \in Hits : \E age \in 1..(Over(len, hit) - 1) : Flight(base, age, len, hit)

OneAtATime == Follows /\ (Vacant \/ \E len \in 2..(MaxBeats + 1) : Flying(len))

-----------------------------------------------------------------------------
(* The source and the filter. *)

\* The beats of a packet stay in a row.
LEMMA KeepsFollows ==
  ASSUME Steady, PipeInv, Follows, Source, Passed
  PROVE  Follows'
<1> SUFFICES ASSUME m'.valid, ~m'.last PROVE s'.idx = m'.idx + 1
  BY DEF Follows
<1>1. s.valid /\ m' = s /\ ~s.last
  BY DEF Passed
<1>2. pkt = [kind |-> s.kind, sent |-> s.idx] /\ s.idx \in 1..MaxBeats
  BY <1>1 DEF PipeInv, IInv, InStep, TypeOK, Bus
<1>3. pkt # NoPkt
  <2>1. pkt.sent # 0
    BY <1>2
  <2> QED BY <2>1 DEF NoPkt
<1>4. NextBeat
  BY <1>3, SourceSends DEF Steady, Calm, Pause, StartPkt, PipeInv
<1>5. PICK l \in PayloadLooks, last \in BOOLEAN : Offer(pkt.kind, l, pkt.sent + 1, last)
  BY <1>4 DEF NextBeat
<1> QED BY <1>1, <1>2, <1>5 DEF Offer

\* While a packet comes, the next beat is on the bus.
LEMMA NextBeatComes ==
  ASSUME PipeInv, Follows, NEW base \in Nat, NEW age \in Nat, NEW len \in Nat,
         BeatsAt(base, age, len), age + 1 < len
  PROVE  s.valid /\ s.kind = "udp" /\ s.idx = age + 2
<1>1. m.valid /\ ~m.last /\ m.idx = age + 1
  BY DEF BeatsAt
<1> QED BY <1>1 DEF PipeInv, Front, Follows

\* A clock edge at the source: how long the packet is may be decided at it.
LEMMA BeatsAdvance ==
  ASSUME Spaced, PipeInv, Follows, Source, Passed, before' = m.valid,
         written' = written + One(m.valid),
         NEW base \in Nat, NEW age \in Nat, NEW len \in 2..(MaxBeats + 1),
         age + 1 < len + Latency, BeatsAt(base, age, len)
  PROVE  \E l \in 2..(MaxBeats + 1) :
           /\ l = len \/ (age < len /\ age < l)
           /\ BeatsAt(base, age, l) /\ BeatsAt(base, age + 1, l)'
<1> USE FilterAssumption
<1>1. /\ m'.valid <=> s.valid /\ s.kind = "udp"
      /\ m'.valid => m' = s
  BY DEF Passed
<1>2. /\ MaxBeats \in Nat /\ MinGap \in Nat /\ MinGap >= Latency /\ Latency = 22
      /\ written \in Nat /\ gap \in Nat /\ len \in Nat /\ len >= 2
      /\ m.valid \in BOOLEAN
  BY DEF Spaced, Latency, PipeInv, PipeTypeOK, TypeOK, Bus
<1>3. One(m.valid) = IF age < len THEN 1 ELSE 0
  BY <1>2 DEF BeatsAt, One
<1>4. (before' <=> age < len) /\ written' = base + (IF age + 1 < len THEN age + 1 ELSE len)
  <2>1. written = base + (IF age < len THEN age ELSE len)
    BY DEF BeatsAt
  <2>2. (before' <=> age < len)
    BY DEF BeatsAt
  <2> QED BY <1>2, <1>3, <2>1, <2>2
<1>a. CASE age + 2 < len
  <2>1. s.valid /\ s.kind = "udp" /\ s.idx = age + 2 /\ ~s.last
    <3>1. age + 1 < len /\ age + 2 # len
      BY <1>2, <1>a
    <3> QED BY <3>1, NextBeatComes DEF BeatsAt
  <2>2. pkt = [kind |-> s.kind, sent |-> s.idx] /\ pkt # NoPkt
    <3>1. pkt = [kind |-> s.kind, sent |-> s.idx]
      BY <2>1 DEF PipeInv, IInv, InStep
    <3>2. pkt.sent # 0
      BY <1>2, <2>1, <3>1
    <3> QED BY <3>1, <3>2 DEF NoPkt
  <2>3. NextBeat
    BY <2>2, SourceSends DEF Spaced, Steady, Calm, Pause, StartPkt, PipeInv
  <2>4. PICK look \in PayloadLooks, last \in BOOLEAN : Offer(pkt.kind, look, pkt.sent + 1, last)
    BY <2>3 DEF NextBeat
  <2>5. s'.last = last /\ (age + 3 = MaxBeats => last) /\ age + 3 <= MaxBeats
    <3>1. pkt.sent = age + 2 /\ pkt.sent + 1 = age + 3
      BY <2>1, <2>2
    <3>2. s.idx \in 1..MaxBeats /\ pkt.sent <= MaxBeats - 1
      BY <2>2 DEF PipeInv, PipeTypeOK, TypeOK, Bus
    <3>3. age + 3 <= MaxBeats
      BY <1>2, <3>1, <3>2
    <3> QED BY <2>4, <3>1, <3>3 DEF Offer
  <2>6. PICK l \in 2..(MaxBeats + 1) : l = IF last THEN age + 3 ELSE age + 4
    BY <1>2, <2>5
  <2>7. /\ age < l /\ age + 1 < l /\ age + 2 < l /\ ~(age + 1 = l) /\ ~(age + 2 = l)
        /\ age <= l /\ age + 1 <= l /\ age < len /\ age + 1 < len /\ age + 1 # len
        /\ (last <=> age + 3 = l) /\ age + 1 # 0 /\ age + 1 + 2 = age + 3 /\ age + 1 + 1 = age + 2
    BY <1>2, <1>a, <2>6
  <2>8. BeatsAt(base, age, l)
    BY <2>1, <2>7 DEF BeatsAt
  <2>9. BeatsAt(base, age + 1, l)'
    <3>1. m'.valid /\ m' = s
      BY <1>1, <2>1
    <3>2. m'.valid /\ m'.idx = age + 1 + 1 /\ ~m'.last /\ age + 1 < l /\ age + 1 + 1 # l
      BY <1>2, <2>1, <2>7, <3>1
    <3>3. written' = base + (age + 1) /\ before' /\ age + 1 <= l
      BY <1>2, <1>4, <2>7
    <3>4. ~(age + 1 >= l) /\ ~(age + 1 + 1 >= l) /\ (s'.last <=> age + 1 + 2 = l)
      BY <1>2, <2>5, <2>7
    <3> QED BY <2>7, <3>2, <3>3, <3>4 DEF BeatsAt
  <2> QED BY <2>7, <2>8, <2>9
<1>b. CASE age + 2 = len
  <2>1. s.valid /\ s.kind = "udp" /\ s.idx = age + 2 /\ s.last
    <3>1. age + 1 < len
      BY <1>2, <1>b
    <3>2. s.last
      BY <1>b, <3>1 DEF BeatsAt
    <3> QED BY <3>1, <3>2, NextBeatComes
  <2>2. pkt = NoPkt /\ gap = 0
    BY <2>1 DEF PipeInv, IInv, InStep
  <2>3. Pause
    BY <1>2, <2>2, SourceSends DEF Spaced, Steady, Calm, NextBeat, StartPkt, PipeInv
  <2>4. ~s'.valid /\ pkt' = NoPkt /\ gap' = 1
    BY <1>2, <2>2, <2>3 DEF Pause, NoBeat
  <2>5. BeatsAt(base, age + 1, len)'
    <3>1. m'.valid /\ m' = s
      BY <1>1, <2>1
    <3>2. /\ age < len /\ age + 1 < len /\ age + 1 + 1 = len /\ age + 1 <= len /\ ~(age + 1 + 1 < len)
          /\ age + 1 + 2 - len = 1 /\ age + 1 # 0 /\ ~(age + 1 >= len)
      BY <1>2, <1>b
    <3>3. m'.idx = age + 1 + 1 /\ written' = base + (age + 1) /\ before'
      BY <1>2, <1>4, <2>1, <3>1, <3>2
    <3> QED BY <2>1, <2>4, <3>1, <3>2, <3>3 DEF BeatsAt
  <2> QED BY <2>5
<1>c. CASE age + 2 > len
  <2>1. ~s.valid /\ pkt = NoPkt /\ gap = age + 2 - len /\ ~m'.valid
    <3>1. age + 1 >= len /\ age + 2 <= len + Latency
      BY <1>2, <1>c
    <3> QED BY <1>1, <3>1 DEF BeatsAt
  <2>2. /\ s'.valid => s'.idx = 1
        /\ age + 3 <= len + Latency => ~s'.valid /\ pkt' = NoPkt /\ gap' = age + 3 - len
    <3>1. CASE Pause
      BY <1>2, <1>c, <2>1, <3>1 DEF Pause, NoBeat
    <3>2. CASE StartPkt
      <4>1. gap >= MinGap
        BY <3>2 DEF StartPkt
      <4>2. age + 2 - len >= 22
        BY <1>2, <2>1, <4>1
      <4>3. ~(age + 3 <= len + Latency)
        BY <1>2, <4>2
      <4>4. PICK k \in Sends, last \in BOOLEAN : Offer(k, k, 1, last)
        BY <3>2 DEF StartPkt
      <4> QED BY <4>3, <4>4 DEF Offer
    <3> QED BY <2>1, <3>1, <3>2, SourceSends DEF Spaced, Steady, NextBeat, PipeInv
  <2>3. BeatsAt(base, age + 1, len)'
    <3>1. /\ ~(age + 1 < len) /\ ~(age + 1 + 1 < len) /\ age + 1 + 1 + 1 = age + 3
          /\ age + 1 + 2 = age + 3 /\ age + 1 # 0
      BY <1>2, <1>c
    <3>2. written' = base + len /\ (before' <=> age + 1 <= len)
      BY <1>2, <1>4, <1>c
    <3> QED BY <2>1, <2>2, <3>1, <3>2 DEF BeatsAt
  <2> QED BY <2>3
<1> QED BY <1>2, <1>a, <1>b, <1>c

-----------------------------------------------------------------------------
(* The parser and the stage. *)

\* A clock edge at the parser: it starts on the first beat, and on no other.
LEMMA ParsedAdvance ==
  ASSUME ParserTypeOK, NEW base \in Nat, NEW age \in Nat, ParsedAt(base, age),
         ParserTick(m.valid, m.num), FirstSegment(m.valid) <=> age = 0,
         age = 0 => m.num = base + 1
  PROVE  ParsedAt(base, age + 1)'
<1>1. hdr \in [lo : Nat, hi : Nat] /\ vals \in [valid : BOOLEAN, val : Vals]
  BY DEF ParserTypeOK
<1>a. CASE age = 0
  <2>1. pstate = "IDLE" /\ FirstSegment(m.valid) /\ m.num = base + 1
    BY <1>a DEF ParsedAt
  <2>2. pstate' = "WAIT1" /\ hdr'.lo = base + 1 /\ ~vals'.valid
    BY <2>1 DEF ParserTick, Segments, ParseIdle, ParseWait1, ParseWait2, ParsePhvGen
  <2> QED BY <1>a, <2>2 DEF ParsedAt
<1>b. CASE age = 1
  <2>1. pstate = "WAIT1" /\ ~FirstSegment(m.valid) /\ hdr.lo = base + 1 /\ ~vals.valid
    BY <1>b DEF ParsedAt
  <2>2. pstate' = "WAIT2" /\ hdr'.lo = base + 1 /\ ~vals'.valid
    BY <1>1, <2>1 DEF ParserTick, Segments, ParseIdle, ParseWait1, ParseWait2, ParsePhvGen
  <2> QED BY <1>b, <2>2 DEF ParsedAt
<1>c. CASE age = 2
  <2>1. pstate = "WAIT2" /\ hdr.lo = base + 1 /\ ~vals.valid
    BY <1>c DEF ParsedAt
  <2>2. pstate' = "PHVGEN" /\ sub'.lo = base + 1 /\ ~vals'.valid
    BY <2>1 DEF ParserTick, ParseIdle, ParseWait1, ParseWait2, ParsePhvGen
  <2> QED BY <1>c, <2>2 DEF ParsedAt
<1>d. CASE age = 3
  <2>1. pstate = "PHVGEN" /\ sub.lo = base + 1
    BY <1>d DEF ParsedAt
  <2>2. pstate' = "IDLE" /\ vals'.valid /\ vals'.val.lo = base + 1
    BY <2>1 DEF ParserTick, ParseIdle, ParseWait1, ParseWait2, ParsePhvGen
  <2> QED BY <1>d, <2>2 DEF ParsedAt
<1>e. CASE age > 3
  <2>1. pstate = "IDLE" /\ ~FirstSegment(m.valid)
    BY <1>e DEF ParsedAt
  <2>2. pstate' = "IDLE" /\ ~vals'.valid
    BY <2>1 DEF ParserTick, ParseIdle, ParseWait1, ParseWait2, ParsePhvGen
  <2> QED BY <1>e, <2>2 DEF ParsedAt
<1> QED BY <1>a, <1>b, <1>c, <1>d, <1>e

\* The lookup takes the longer way when the CAM matches.
LEMMA LookedUpAdvance ==
  ASSUME StageTypeOK, NEW base \in Nat, NEW age \in Nat, NEW hit \in Hits,
         ParsedAt(base, age), LookedUpAt(base, age, hit), StageTick(PhvOut)
  PROVE  \E h \in Hits : /\ h = hit \/ age <= 8
                         /\ LookedUpAt(base, age, h) /\ LookedUpAt(base, age + 1, h)'
<1>1. act \in KeyedPhvs /\ lreg \in KeyedPhvs
  BY DEF StageTypeOK
<1>2. ~Invalid(act).valid /\ [lreg EXCEPT !.valid = TRUE].valid
      /\ [lreg EXCEPT !.valid = TRUE].val = lreg.val
  BY <1>1, Marked
<1>3. /\ delay'[1].valid <=> age + 1 = 5
      /\ delay'[2].valid <=> age + 1 = 6
      /\ key'.valid <=> age + 1 = 7
      /\ age + 1 = 5 => delay'[1].val.lo = base + 1
      /\ age + 1 = 6 => delay'[2].val.lo = base + 1
      /\ age + 1 = 7 => key'.val.lo = base + 1
  BY DEF StageTick, KeyExtract, PhvOut, LookedUpAt, ParsedAt
<1>4. lreg' = IF key.valid THEN key ELSE lreg
  BY DEF StageTick, LookupEngine, LatchPhv
<1>5. LookupIdle \/ LookupMiss \/ LookupHit \/ LookupWait2 \/ LookupTrans
  BY DEF StageTick, LookupEngine
<1>a. CASE age < 7 \/ age > 11 \/ (age > 8 /\ lstate = "IDLE")
  <2>1. lstate = "IDLE" /\ ~key.valid
    BY <1>a DEF LookedUpAt
  <2>2. lstate' = "IDLE" /\ ~act'.valid
    BY <1>2, <1>5, <2>1 DEF LookupIdle, LookupMiss, LookupHit, LookupWait2, LookupTrans
  <2>3. LookedUpAt(base, age + 1, hit)'
    <3>1. age + 1 # 8 /\ age + 1 # hit /\ ~(age + 1 = 9 /\ hit = 11) /\ ~(age + 1 = 10 /\ hit = 11)
          /\ ~(8 <= age + 1 /\ age + 1 < hit)
      BY <1>a DEF LookedUpAt, Hits
    <3> QED BY <1>3, <2>2, <3>1 DEF LookedUpAt
  <2> QED BY <2>3
<1>b. CASE age = 7
  <2>1. lstate = "IDLE" /\ key.valid /\ key.val.lo = base + 1
    BY <1>b DEF LookedUpAt
  <2>2. lstate' = "WAIT1" /\ ~act'.valid /\ lreg'.val.lo = base + 1
    BY <1>2, <1>4, <1>5, <2>1 DEF LookupIdle, LookupMiss, LookupHit, LookupWait2, LookupTrans
  <2>3. LookedUpAt(base, age + 1, hit)'
    BY <1>b, <1>3, <2>2 DEF LookedUpAt, Hits
  <2> QED BY <2>3
<1>c. CASE age = 8
  <2>1. lstate = "WAIT1" /\ ~key.valid /\ ~act.valid /\ lreg.val.lo = base + 1
    BY <1>c DEF LookedUpAt, Hits
  <2>2. \A h \in Hits : LookedUpAt(base, age, h)
    BY <1>c, <2>1 DEF LookedUpAt, Hits
  <2>3. CASE LookupMiss
    <3>1. lstate' = "IDLE" /\ act'.valid /\ act'.val.lo = base + 1 /\ lreg'.val.lo = base + 1
      BY <1>2, <1>4, <2>1, <2>3 DEF LookupMiss
    <3>2. LookedUpAt(base, age + 1, 9)'
      BY <1>c, <1>3, <3>1 DEF LookedUpAt
    <3> QED BY <1>c, <2>2, <3>2 DEF Hits
  <2>4. CASE LookupHit
    <3>1. lstate' = "WAIT2" /\ ~act'.valid /\ lreg'.val.lo = base + 1
      BY <1>4, <2>1, <2>4 DEF LookupHit
    <3>2. LookedUpAt(base, age + 1, 11)'
      BY <1>c, <1>3, <3>1 DEF LookedUpAt
    <3> QED BY <1>c, <2>2, <3>2 DEF Hits
  <2> QED BY <1>5, <2>1, <2>3, <2>4 DEF LookupIdle, LookupWait2, LookupTrans
<1>d. CASE lstate = "WAIT2" /\ age > 8
  <2>1. age = 9 /\ hit = 11 /\ ~key.valid /\ ~act.valid /\ lreg.val.lo = base + 1
    BY <1>d DEF LookedUpAt
  <2>2. lstate' = "TRANS" /\ ~act'.valid /\ lreg'.val.lo = base + 1
    BY <1>d, <1>4, <1>5, <2>1 DEF LookupIdle, LookupMiss, LookupHit, LookupWait2, LookupTrans
  <2>3. LookedUpAt(base, age + 1, hit)'
    BY <1>3, <2>1, <2>2 DEF LookedUpAt
  <2> QED BY <2>3
<1>e. CASE lstate = "TRANS" /\ age > 8
  <2>1. age = 10 /\ hit = 11 /\ ~key.valid /\ lreg.val.lo = base + 1
    BY <1>e DEF LookedUpAt
  <2>2. lstate' = "IDLE" /\ act'.valid /\ act'.val.lo = base + 1
    BY <1>e, <1>2, <1>4, <1>5, <2>1 DEF LookupIdle, LookupMiss, LookupHit, LookupWait2, LookupTrans
  <2>3. LookedUpAt(base, age + 1, hit)'
    BY <1>3, <2>1, <2>2 DEF LookedUpAt
  <2> QED BY <2>3
<1> QED BY <1>a, <1>b, <1>c, <1>d, <1>e DEF LookedUpAt, Hits

\* The crossbar, the ALUs and the PHV they make.
LEMMA ActedAdvance ==
  ASSUME StageTypeOK, NEW base \in Nat, NEW age \in Nat, NEW hit \in Hits,
         LookedUpAt(base, age, hit), ActedAt(base, age, hit), StageTick(PhvOut)
  PROVE  ActedAt(base, age + 1, hit)'
<1>1. /\ ~Invalid(xbar).valid /\ Invalid(xbar).val = xbar.val
      /\ ~Invalid(alu).valid /\ Invalid(alu).val = alu.val
      /\ ~Invalid(outPhv).valid
      /\ [alu EXCEPT !.valid = TRUE].valid /\ [alu EXCEPT !.valid = TRUE].val = alu.val
  <2>1. xbar \in KeyedPhvs /\ alu \in KeyedPhvs /\ outPhv \in KeyedPhvs
    BY DEF StageTypeOK
  <2> QED BY <2>1, Marked
<1>2. /\ xbar'.valid <=> age = hit
      /\ age = hit => xbar'.val.lo = base + 1
  BY <1>1 DEF StageTick, ActionEngine, Crossbar, LookedUpAt
<1>3. /\ outPhv'.valid <=> age = hit + 4
      /\ age = hit + 4 => outPhv'.val.lo = base + 1
  <2>1. hit \in Nat /\ hit + 2 <= hit + 4 /\ hit + 4 <= hit + 4
    BY DEF Hits
  <2>2. outPhv' = IF alu.valid THEN alu ELSE Invalid(outPhv)
    BY DEF StageTick, ActionEngine, Collect
  <2> QED BY <1>1, <2>1, <2>2 DEF ActedAt
<1>4. /\ astate' = IF age = hit + 1 THEN "OP_1" ELSE IF age = hit + 2 THEN "OP_2" ELSE "IDLE"
      /\ alu'.valid <=> age = hit + 3
      /\ hit + 1 <= age /\ age <= hit + 3 => alu'.val.lo = base + 1
  <2>1. hit \in Nat
    BY DEF Hits
  <2>2. AluIdle \/ AluOp1 \/ AluOp2
    BY DEF StageTick, ActionEngine
  <2>a. CASE age = hit + 1
    <3>1. xbar.valid /\ astate = "IDLE" /\ xbar.val.lo = base + 1
      BY <2>1, <2>a DEF ActedAt
    <3>2. astate' = "OP_1" /\ ~alu'.valid /\ alu'.val.lo = base + 1
      BY <1>1, <2>2, <3>1 DEF AluIdle, AluOp1, AluOp2
    <3> QED BY <2>1, <2>a, <3>2
  <2>b. CASE age = hit + 2
    <3>1. astate = "OP_1" /\ alu.val.lo = base + 1
      BY <2>1, <2>b DEF ActedAt
    <3>2. astate' = "OP_2" /\ ~alu'.valid /\ alu'.val.lo = base + 1
      BY <1>1, <2>2, <3>1 DEF AluIdle, AluOp1, AluOp2
    <3> QED BY <2>1, <2>b, <3>2
  <2>c. CASE age = hit + 3
    <3>1. astate = "OP_2" /\ alu.val.lo = base + 1
      BY <2>1, <2>c DEF ActedAt
    <3>2. astate' = "IDLE" /\ alu'.valid /\ alu'.val.lo = base + 1
      BY <1>1, <2>2, <3>1 DEF AluIdle, AluOp1, AluOp2
    <3> QED BY <2>1, <2>c, <3>2
  <2>d. CASE ~(hit + 1 <= age /\ age <= hit + 3)
    <3>1. astate = "IDLE" /\ ~xbar.valid
      BY <2>1, <2>d DEF ActedAt
    <3>2. astate' = "IDLE" /\ ~alu'.valid
      BY <1>1, <2>2, <3>1 DEF AluIdle, AluOp1, AluOp2
    <3> QED BY <2>1, <2>d, <3>2
  <2> QED BY <2>1, <2>a, <2>b, <2>c, <2>d
<1>5. /\ hit \in Nat /\ (age + 1 = hit + 1 <=> age = hit) /\ (age + 1 = hit + 2 <=> age = hit + 1)
      /\ (age + 1 = hit + 3 <=> age = hit + 2) /\ (age + 1 = hit + 4 <=> age = hit + 3)
      /\ (age + 1 = hit + 5 <=> age = hit + 4)
      /\ (hit + 2 <= age + 1 <=> hit + 1 <= age) /\ (age + 1 <= hit + 4 <=> age <= hit + 3)
  BY DEF Hits
<1> QED BY <1>2, <1>3, <1>4, <1>5 DEF ActedAt

-----------------------------------------------------------------------------
(* The two FIFOs and the deparser. *)

\* The PHV FIFO holds the packet's PHV from its arrival until the deparser has
\* taken it.
LEMMA QueuedAdvance ==
  ASSUME PipeTypeOK, PhvFifo, NEW base \in Nat, NEW age \in Nat, NEW hit \in Hits,
         ActedAt(base, age, hit), QueuedAt(base, age, Arrival(hit)),
         rdPhv <=> age = Arrival(hit) + 5
  PROVE  QueuedAt(base, age + 1, Arrival(hit))'
<1>1. hit \in Nat /\ Arrival(hit) = hit + 6 /\ Depth \in Nat /\ Depth > 0
  BY FilterAssumption DEF Hits, Arrival
<1>2. phvFifo \in Seq(KeyedPhvs) /\ outPhv \in KeyedPhvs
  BY DEF PipeTypeOK, StageTypeOK
<1>a. CASE age = hit + 5
  <2>1. outPhv.valid /\ outPhv.val.lo = base + 1 /\ phvFifo = <<>> /\ ~rdPhv
    BY <1>1, <1>a DEF ActedAt, QueuedAt
  <2>2. phvFifo' = phvFifo \o <<outPhv>>
    BY <1>1, <2>1 DEF PhvFifo
  <2>3. Len(phvFifo') = 1 /\ phvFifo'[1] = outPhv
    BY <1>2, <2>1, <2>2
  <2>4. Arrival(hit) <= age + 1 /\ age + 1 <= Arrival(hit) + 5
    BY <1>1, <1>a
  <2> QED BY <2>1, <2>3, <2>4 DEF QueuedAt
<1>b. CASE age # hit + 5
  <2>1. ~outPhv.valid
    BY <1>b DEF ActedAt
  <2>2. phvFifo' = IF rdPhv /\ phvFifo # <<>> THEN Tail(phvFifo) ELSE phvFifo
    <3>1. phvFifo' = (IF rdPhv /\ phvFifo # <<>> THEN Tail(phvFifo) ELSE phvFifo) \o <<>>
      BY <2>1 DEF PhvFifo
    <3> QED BY <1>2, <3>1
  <2>3. CASE Arrival(hit) <= age /\ age < Arrival(hit) + 5
    <3>1. Len(phvFifo) = 1 /\ phvFifo[1].val.lo = base + 1 /\ ~rdPhv
      BY <1>1, <2>3 DEF QueuedAt
    <3>2. Arrival(hit) <= age + 1 /\ age + 1 <= Arrival(hit) + 5
      BY <1>1, <2>3
    <3> QED BY <2>2, <3>1, <3>2 DEF QueuedAt
  <2>4. CASE age = Arrival(hit) + 5
    <3>1. Len(phvFifo) = 1 /\ rdPhv
      BY <1>1, <2>4 DEF QueuedAt
    <3>2. phvFifo' = <<>>
      BY <1>2, <2>2, <3>1
    <3>3. ~(age + 1 <= Arrival(hit) + 5)
      BY <1>1, <2>4
    <3> QED BY <3>2, <3>3 DEF QueuedAt
  <2>5. CASE age > Arrival(hit) + 5 \/ age < Arrival(hit)
    <3>1. phvFifo = <<>>
      BY <1>1, <2>5 DEF QueuedAt
    <3>2. ~(Arrival(hit) <= age + 1 /\ age + 1 <= Arrival(hit) + 5)
      BY <1>1, <1>b, <2>5
    <3> QED BY <2>2, <3>1, <3>2 DEF QueuedAt
  <2> QED BY <1>1, <2>3, <2>4, <2>5
<1> QED BY <1>a, <1>b

\* The beat behind the filter goes into the packet FIFO, and a beat that the
\* deparser takes out is one of this packet.
LEMMA StoredAdvance ==
  ASSUME PipeInv, PktFifo(rdPkt), NEW base \in Nat, NEW age \in Nat, NEW len \in Nat,
         NEW from \in Nat, 2 <= len, 2 <= from, age < from + len + 5,
         age # 0 => (rdPkt <=> Pops(age, from)),
         BeatsAt(base, age, len), StoredAt(base, age, len, from)
  PROVE  StoredAt(base, age + 1, len, from)'
<1> DEFINE in == IF age < len THEN age ELSE len
           in1 == IF age + 1 < len THEN age + 1 ELSE len
           q == Popped(age, from)
           q1 == Popped(age + 1, from)
           kept == IF rdPkt /\ fifo # <<>> THEN Tail(fifo) ELSE fifo
<1>1. fifo \in Seq(Bus) /\ rdPkt \in BOOLEAN /\ m \in Bus /\ written \in Nat
  BY DEF PipeInv, PipeTypeOK, TypeOK, DeparserTypeOK
<1>2. /\ Len(fifo) = in - q
      /\ \A i \in 1..Len(fifo) : /\ fifo[i].num = base + q + i /\ fifo[i].idx = q + i
                                 /\ fifo[i].last <=> q + i = len
  BY DEF StoredAt
<1>3. /\ q \in Nat /\ q1 \in Nat /\ in \in Nat /\ in1 \in Nat /\ q <= in
      /\ age # 0 /\ Pops(age, from) => q1 = q + 1 /\ q < in
      /\ ~(age # 0 /\ Pops(age, from)) => q1 = q
  <2>1. CASE age <= from
    BY <2>1 DEF Popped, Pops
  <2>2. CASE age = from + 1
    BY <2>2 DEF Popped, Pops
  <2>3. CASE age = from + 2
    BY <2>3 DEF Popped, Pops
  <2>4. CASE from + 3 <= age /\ age <= from + 6
    BY <2>4 DEF Popped, Pops
  <2>5. CASE from + 7 <= age
    BY <2>5 DEF Popped, Pops
  <2> QED BY <2>1, <2>2, <2>3, <2>4, <2>5
<1>4. kept \in Seq(Bus) /\ Len(kept) = in - q1
      /\ \A i \in 1..Len(kept) : /\ kept[i].num = base + q1 + i /\ kept[i].idx = q1 + i
                                 /\ kept[i].last <=> q1 + i = len
  <2> HIDE DEF in, in1, q, q1
  <2>1. CASE age # 0 /\ Pops(age, from)
    <3>1. Len(fifo) > 0 /\ fifo # <<>>
      BY <1>1, <1>2, <1>3, <2>1
    <3>2. kept = Tail(fifo)
      BY <2>1, <3>1
    <3>3. Len(kept) = Len(fifo) - 1 /\ kept \in Seq(Bus) /\ \A i \in 1..Len(kept) : kept[i] = fifo[i + 1]
      BY <1>1, <3>1, <3>2
    <3>4. ASSUME NEW i \in 1..Len(kept)
          PROVE  /\ kept[i].num = base + q1 + i /\ kept[i].idx = q1 + i
                 /\ kept[i].last <=> q1 + i = len
      <4>1. i + 1 \in 1..Len(fifo) /\ kept[i] = fifo[i + 1]
        BY <1>1, <3>3
      <4>2. /\ kept[i].num = base + q + (i + 1) /\ kept[i].idx = q + (i + 1)
            /\ kept[i].last <=> q + (i + 1) = len
        BY <1>2, <4>1
      <4>3. q1 + i = q + (i + 1) /\ base + q1 + i = base + q + (i + 1)
        BY <1>3, <2>1
      <4> QED BY <4>2, <4>3
    <3>5. Len(kept) = in - q1
      <4>1. q1 = q + 1 /\ q \in Nat /\ in \in Nat /\ Len(fifo) = in - q /\ Len(kept) = Len(fifo) - 1
        BY <1>2, <1>3, <2>1, <3>3
      <4> HIDE DEF kept
      <4> QED BY <4>1
    <3> HIDE DEF kept
    <3> QED BY <3>3, <3>4, <3>5
  <2>2. CASE ~(age # 0 /\ Pops(age, from))
    <3>1. kept = fifo
      <4>1. age = 0 => fifo = <<>>
        BY <1>1, <1>2, <1>3 DEF in
      <4> QED BY <2>2, <4>1
    <3> QED BY <1>1, <1>2, <1>3, <2>2, <3>1
  <2> QED BY <2>1, <2>2
<1>5. WrEn <=> age < len
  BY Ready DEF WrEn, PipeInv, BeatsAt
<1>6. m.valid => m.num = written + 1
  BY DEF PipeInv, IInv, Counted, ExactlyOnce, DataExactlyOnce
<1> HIDE DEF q, q1, kept
<1>a. CASE age < len
  <2>1. m.num = base + age + 1 /\ m.idx = age + 1 /\ (m.last <=> age + 1 = len)
    BY <1>1, <1>6, <1>a DEF BeatsAt
  <2>2. fifo' = kept \o <<m>>
    BY <1>5, <1>a DEF PktFifo, kept
  <2>3. Len(fifo') = Len(kept) + 1 /\ fifo'[Len(kept) + 1] = m
        /\ \A i \in 1..Len(kept) : fifo'[i] = kept[i]
    BY <1>1, <1>4, <2>2
  <2>4. Len(kept) = age - q1 /\ in1 = age + 1
    BY <1>4, <1>a
  <2> HIDE DEF in, in1
  <2>5. ASSUME NEW i \in 1..Len(fifo')
        PROVE  /\ fifo'[i].num = base + q1 + i /\ fifo'[i].idx = q1 + i
               /\ fifo'[i].last <=> q1 + i = len
    <3>1. CASE i \in 1..Len(kept)
      BY <1>4, <2>3, <3>1
    <3>2. CASE i = Len(kept) + 1
      <4>1. fifo'[i] = m
        BY <2>3, <3>2
      <4>2. q1 + i = age + 1 /\ base + q1 + i = base + age + 1
        BY <1>3, <2>4, <3>2
      <4> QED BY <2>1, <4>1, <4>2
    <3> QED BY <1>3, <2>3, <2>4, <3>1, <3>2
  <2>6. Len(fifo') = in1 - q1
    BY <1>3, <2>3, <2>4
  <2> QED BY <2>5, <2>6 DEF StoredAt, in1, q1
<1>b. CASE ~(age < len)
  <2>1. fifo' = kept
    <3>1. fifo' = kept \o <<>>
      BY <1>5, <1>b DEF PktFifo, kept
    <3> QED BY <1>4, <3>1
  <2>2. in1 = in
    BY <1>b
  <2> HIDE DEF in, in1
  <2> QED BY <1>4, <2>1, <2>2 DEF StoredAt, in1, q1
<1> QED BY <1>a, <1>b

\* The words at the heads of the two FIFOs.
LEMMA HeadsAt ==
  ASSUME PipeTypeOK, NEW base \in Nat, NEW age \in Nat, NEW len \in Nat, NEW from \in Nat,
         2 <= len, age < from + len + 5, 2 <= from, StoredAt(base, age, len, from),
         QueuedAt(base, age, from), NEW head \in PktHeads
  PROVE  /\ fifo = <<>> <=> Popped(age, from) = (IF age < len THEN age ELSE len)
         /\ fifo # <<>> => /\ head.num = base + Popped(age, from) + 1
                           /\ head.idx = Popped(age, from) + 1
                           /\ head.last <=> Popped(age, from) + 1 = len
         /\ from <= age /\ age <= from + 5 => phvFifo # <<>> /\ PhvHead = base + 1
         /\ ~(from <= age /\ age <= from + 5) => phvFifo = <<>>
<1>1. fifo \in Seq({b \in Bus : b.valid}) /\ phvFifo \in Seq(KeyedPhvs)
  BY DEF PipeTypeOK, TypeOK
<1>2. Len(fifo) = (IF age < len THEN age ELSE len) - Popped(age, from) /\ Popped(age, from) \in Nat
  BY DEF StoredAt, Popped
<1>3. fifo = <<>> <=> Len(fifo) = 0
  BY <1>1
<1>4. ASSUME fifo # <<>>
      PROVE  /\ head.num = base + Popped(age, from) + 1
             /\ head.idx = Popped(age, from) + 1
             /\ head.last <=> Popped(age, from) + 1 = len
  <2>1. head = Word(Head(fifo)) /\ Head(fifo) = fifo[1] /\ 1 \in 1..Len(fifo)
    BY <1>1, <1>4 DEF PktHeads
  <2>2. /\ fifo[1].num = base + Popped(age, from) + 1 /\ fifo[1].idx = Popped(age, from) + 1
        /\ fifo[1].last <=> Popped(age, from) + 1 = len
    BY <2>1 DEF StoredAt
  <2> QED BY <2>1, <2>2 DEF Word
<1>5. from <= age /\ age <= from + 5 => phvFifo # <<>> /\ PhvHead = base + 1
  <2>1. SUFFICES ASSUME from <= age, age <= from + 5 PROVE phvFifo # <<>> /\ PhvHead = base + 1
    OBVIOUS
  <2>2. Len(phvFifo) = 1 /\ phvFifo[1].val.lo = base + 1
    BY <2>1 DEF QueuedAt
  <2>3. phvFifo # <<>>
    <3>1. Len(phvFifo) # 0
      BY <2>2
    <3> QED BY <3>1
  <2>4. Head(phvFifo) = phvFifo[1]
    BY <1>1, <2>3
  <2> QED BY <2>2, <2>3, <2>4 DEF PhvHead
<1>6. ~(from <= age /\ age <= from + 5) => phvFifo = <<>>
  BY DEF QueuedAt
<1> QED BY <1>2, <1>3, <1>4, <1>5, <1>6

\* A clock edge at the deparser in the middle of a packet, when m_axis is read.
LEMMA DeparsedAdvance ==
  ASSUME DeparserTypeOK, NEW base \in Nat, NEW age \in Nat, NEW len \in Nat, NEW from \in Nat,
         2 <= len, 2 <= from, 1 <= age, age + 1 < from + len + 5,
         DeparsedAt(base, age, len, from),
         NEW head \in Words, NEW pktEmpty \in BOOLEAN, NEW phvEmpty \in BOOLEAN, NEW phvHead \in Nat,
         ~phvEmpty <=> from <= age /\ age <= from + 5, ~phvEmpty => phvHead = base + 1,
         pktEmpty <=> Popped(age, from) = (IF age < len THEN age ELSE len),
         ~pktEmpty => /\ head.num = base + Popped(age, from) + 1
                      /\ head.idx = Popped(age, from) + 1
                      /\ head.last <=> Popped(age, from) + 1 = len,
         DeparserTick(pktEmpty, head, phvEmpty, phvHead, TRUE)
  PROVE  DeparsedAt(base, age + 1, len, from)'
<1> DEFINE Q == Popped(age, from)
<1>1. beat0 \in Words /\ beat1 \in Words
  BY DEF DeparserTypeOK
<1> USE DEF DeparserTick, DepIdle, DepBufHdr0, DepBufHdr1, DepWaitOne, DepWaitSub, DepReformHdr,
            DepFlushPkt0, DepFlushPkt1, DepFlushPkt
<1>a. CASE age < from
  <2>1. dstate = "IDLE" /\ phvEmpty /\ ~rdPkt /\ ~rdPhv
    BY <1>a DEF DeparsedAt, DeparseState, Pops
  <2>2. dstate' = "IDLE" /\ ~rdPkt' /\ ~rdPhv'
    BY <2>1
  <2> QED BY <1>a, <2>2 DEF DeparsedAt, DeparseState, Pops
<1>b. CASE age = from
  <2>1. dstate = "IDLE" /\ ~phvEmpty /\ ~pktEmpty /\ ~rdPhv
    BY <1>b DEF DeparsedAt, DeparseState, Popped
  <2>2. dstate' = "BUF_HDR_0" /\ rdPkt' /\ ~rdPhv'
    BY <2>1
  <2> QED BY <1>b, <2>2 DEF DeparsedAt, DeparseState, Pops
<1>c. CASE age = from + 1
  <2>1. dstate = "BUF_HDR_0" /\ ~phvEmpty /\ ~pktEmpty /\ ~rdPhv /\ Q = 0
    BY <1>c DEF DeparsedAt, DeparseState, Popped
  <2>2. head.num = base + 1 /\ head.idx = 1 /\ ~head.last
    BY <2>1
  <2>3. dstate' = "BUF_HDR_1" /\ rdPkt' /\ ~rdPhv' /\ beat0' = head /\ usedPhv' = base + 1
    BY <2>1, <2>2
  <2> QED BY <1>c, <2>2, <2>3 DEF DeparsedAt, DeparseState, Pops
<1>d. CASE age = from + 2
  <2>1. dstate = "BUF_HDR_1" /\ ~pktEmpty /\ ~rdPhv /\ Q = 1
    BY <1>d DEF DeparsedAt, DeparseState, Popped
  <2>2. head.num = base + 2 /\ head.idx = 2 /\ (head.last <=> len = 2)
    BY <2>1
  <2>3. dstate' = "WAIT_SUB" /\ ~rdPkt' /\ ~rdPhv' /\ beat1' = head /\ UNCHANGED <<beat0, usedPhv>>
    BY <2>1
  <2> QED BY <1>d, <2>2, <2>3 DEF DeparsedAt, DeparseState, Pops
<1>e. CASE age = from + 3
  <2>1. dstate = "WAIT_SUB" /\ ~rdPhv
    BY <1>e DEF DeparsedAt, DeparseState
  <2>2. dstate' = "REFORM_HDR" /\ ~rdPkt' /\ ~rdPhv' /\ UNCHANGED <<beat0, beat1, usedPhv>>
    BY <2>1
  <2> QED BY <1>e, <2>2 DEF DeparsedAt, DeparseState, Pops
<1>f. CASE age = from + 4
  <2>1. dstate = "REFORM_HDR"
    BY <1>f DEF DeparsedAt, DeparseState
  <2>2. dstate' = "FLUSH_PKT_0" /\ ~rdPkt' /\ rdPhv' /\ UNCHANGED <<beat0, beat1, usedPhv>>
    BY <2>1
  <2> QED BY <1>f, <2>2 DEF DeparsedAt, DeparseState, Pops
<1>g. CASE age = from + 5
  <2>1. dstate = "FLUSH_PKT_0" /\ ~rdPkt /\ ~beat0.last
    BY <1>g DEF DeparsedAt, DeparseState, Pops
  <2>2. dstate' = "FLUSH_PKT_1" /\ ~rdPkt' /\ ~rdPhv' /\ UNCHANGED <<beat0, beat1, usedPhv>>
    BY <2>1
  <2> QED BY <1>g, <2>2 DEF DeparsedAt, DeparseState, Pops
<1>h. CASE age = from + 6
  <2>1. dstate = "FLUSH_PKT_1" /\ ~rdPhv /\ ~beat1.last
    BY <1>h DEF DeparsedAt, DeparseState, Pops
  <2>2. dstate' = "FLUSH_PKT" /\ (rdPkt' = (rdPkt \/ ~beat1.last)) /\ UNCHANGED <<rdPhv, beat0, beat1, usedPhv>>
    BY <2>1
  <2>3. rdPkt'
    BY <2>1, <2>2
  <2> QED BY <1>h, <2>1, <2>2, <2>3 DEF DeparsedAt, DeparseState, Pops
<1>i. CASE age >= from + 7
  <2>1. dstate = "FLUSH_PKT" /\ ~rdPhv /\ rdPkt
    BY <1>i DEF DeparsedAt, DeparseState, Pops
  <2>2. Q = age - from - 5 /\ Q + 1 < len /\ Q < age
    BY <1>i DEF Popped
  <2>3. ~pktEmpty /\ ~head.last
    BY <2>2
  <2>4. dstate' = "FLUSH_PKT" /\ rdPkt' /\ ~rdPhv' /\ UNCHANGED <<beat0, beat1, usedPhv>>
    BY <2>1, <2>3
  <2> QED BY <1>i, <2>4 DEF DeparsedAt, DeparseState, Pops
<1> QED BY <1>a, <1>b, <1>c, <1>d, <1>e, <1>f, <1>g, <1>h, <1>i

\* What the deparser emits at an edge in the middle of a packet, or at its end.
LEMMA EmittedAdvance ==
  ASSUME DeparserTypeOK, NEW base \in Nat, NEW age \in Nat, NEW len \in Nat, NEW from \in Nat,
         2 <= len, 2 <= from, 1 <= age, age < from + len + 5,
         DeparsedAt(base, age, len, from), EmittedAt(base, age, from), Deliver(TRUE),
         NEW head \in Words, NEW pktEmpty \in BOOLEAN, NEW phvEmpty \in BOOLEAN, NEW phvHead \in Nat,
         pktEmpty <=> Popped(age, from) = (IF age < len THEN age ELSE len),
         ~pktEmpty => /\ head.num = base + Popped(age, from) + 1
                      /\ head.idx = Popped(age, from) + 1,
         DeparserTick(pktEmpty, head, phvEmpty, phvHead, TRUE)
  PROVE  EmittedAt(base, age + 1, from)'
<1> DEFINE Q == Popped(age, from)
<1>1. out \in [valid : BOOLEAN, word : Words, by : Nat] /\ beat0 \in Words /\ beat1 \in Words
  BY DEF DeparserTypeOK
<1>2. delivered' = base + (IF age + 1 <= from + 6 THEN 0 ELSE age + 1 - from - 6)
  <2>1. delivered = base + (IF age <= from + 6 THEN 0 ELSE age - from - 6) /\ (out.valid <=> age >= from + 6)
    BY DEF EmittedAt
  <2>2. delivered' = IF age >= from + 6 THEN delivered + 1 ELSE delivered
    BY <2>1 DEF Deliver
  <2> QED BY <2>1, <2>2
<1> USE DEF DeparserTick, DepIdle, DepBufHdr0, DepBufHdr1, DepWaitOne, DepWaitSub, DepReformHdr,
            DepFlushPkt0, DepFlushPkt1, DepFlushPkt
<1>a. CASE age <= from + 4
  <2>1. /\ dstate \in {"IDLE", "BUF_HDR_0", "BUF_HDR_1", "WAIT_SUB", "REFORM_HDR"} /\ ~out.valid
    BY <1>a DEF DeparsedAt, DeparseState, EmittedAt
  <2>2. [out EXCEPT !.valid = FALSE, !.word.last = FALSE].valid = FALSE
    BY <1>1 DEF Words
  <2> DEFINE cleared == [out EXCEPT !.valid = FALSE, !.word.last = FALSE]
  <2> HIDE DEF cleared
  <2>3. out' = out \/ out' = cleared
    <3>1. DepIdle(pktEmpty, phvEmpty) => out' = out \/ out' = cleared
      BY DEF cleared
    <3> QED BY <2>1, <3>1
  <2>4. ~out'.valid
    BY <2>1, <2>2, <2>3 DEF cleared
  <2> QED BY <1>a, <1>2, <2>4 DEF EmittedAt
<1>b. CASE age = from + 5
  <2>1. dstate = "FLUSH_PKT_0" /\ beat0.num = base + 1 /\ beat0.idx = 1 /\ usedPhv = base + 1
    BY <1>b DEF DeparsedAt, DeparseState
  <2>2. out' = [valid |-> TRUE, word |-> beat0, by |-> usedPhv]
    BY <2>1 DEF Emit
  <2> QED BY <1>b, <1>2, <2>1, <2>2 DEF EmittedAt
<1>c. CASE age = from + 6
  <2>1. dstate = "FLUSH_PKT_1" /\ beat1.num = base + 2 /\ beat1.idx = 2 /\ usedPhv = base + 1
    BY <1>c DEF DeparsedAt, DeparseState
  <2>2. out' = [valid |-> TRUE, word |-> beat1, by |-> usedPhv]
    BY <2>1 DEF Emit
  <2> QED BY <1>c, <1>2, <2>1, <2>2 DEF EmittedAt
<1>d. CASE age >= from + 7
  <2>1. dstate = "FLUSH_PKT"
    BY <1>d DEF DeparsedAt, DeparseState
  <2>2. Q = age - from - 5 /\ Q < len /\ Q < age
    BY <1>d DEF Popped
  <2>3. head.num = base + Q + 1 /\ head.idx = Q + 1
    BY <2>2
  <2>4. out' = [valid |-> TRUE, word |-> head, by |-> 0]
    BY <2>1 DEF Emit
  <2>5. Q + 1 = age + 1 - from - 5 /\ base + Q + 1 = base + (age + 1) - from - 5 /\ Q + 1 > 2
    BY <1>d, <2>2
  <2> QED BY <1>d, <1>2, <2>3, <2>4, <2>5 DEF EmittedAt
<1> QED BY <1>a, <1>b, <1>c, <1>d

-----------------------------------------------------------------------------
(* A clock edge of the whole data path. *)

\* Its parts, with a filter that passes every beat and m_axis read.
LEMMA AtEdge ==
  ASSUME PipeInv, NEW head \in PktHeads, Edge(head, TRUE)
  PROVE  /\ Source /\ Passed /\ PktFifo(rdPkt) /\ before' = m.valid
         /\ written' = written + One(m.valid)
         /\ ParserTick(m.valid, m.num) /\ StageTick(PhvOut) /\ PhvFifo
         /\ DeparserTick(fifo = <<>>, head, phvFifo = <<>>, PhvHead, TRUE) /\ Deliver(TRUE)
         /\ head \in Words /\ PhvHead \in Nat
<1>1. rdPkt \in BOOLEAN /\ m.valid \in BOOLEAN
  BY DEF PipeInv, PipeTypeOK, DeparserTypeOK, TypeOK, Bus
<1>2. Source /\ Passed /\ PktFifo(rdPkt)
  BY FilterPasses DEF Edge, Tick, PipeInv
<1>3. ParserTick(m.valid, m.num)
  <2>1. (m.valid /\ mReady) = m.valid
    BY <1>1, Ready DEF PipeInv
  <2> QED BY <2>1 DEF Edge
<1>4. before' = m.valid
  BY <1>3 DEF ParserTick, Segments
<1>5. written' = written + One(m.valid)
  BY <1>1, <1>2, FifoReads DEF PipeInv
<1>6. head \in Words /\ PhvHead \in Nat
  BY HeadTypes DEF PipeInv
<1> QED BY <1>2, <1>3, <1>4, <1>5, <1>6 DEF Edge

\* Before a packet's length has been seen it may be any longer one.
LEMMA LengthOpen ==
  ASSUME NEW base \in Nat, NEW age \in Nat, NEW len \in Nat, NEW l \in Nat, NEW from \in Nat,
         2 <= from, l = len \/ (age < len /\ age < l),
         StoredAt(base, age, len, from), DeparsedAt(base, age, len, from)
  PROVE  StoredAt(base, age, l, from) /\ DeparsedAt(base, age, l, from)
<1>1. CASE l = len
  BY <1>1
<1>2. CASE age < len /\ age < l
  <2>1. Popped(age, from) \in Nat /\ Len(fifo) = age - Popped(age, from)
    BY <1>2 DEF StoredAt, Popped
  <2>2. \A i \in 1..Len(fifo) : Popped(age, from) + i # len /\ Popped(age, from) + i # l
    BY <1>2, <2>1
  <2>3. StoredAt(base, age, l, from)
    BY <1>2, <2>1, <2>2 DEF StoredAt
  <2>4. age >= from + 3 => len # 2 /\ l # 2
    BY <1>2
  <2>5. DeparsedAt(base, age, l, from)
    BY <2>4 DEF DeparsedAt
  <2> QED BY <2>3, <2>5
<1> QED BY <1>1, <1>2

\* Before the CAM has answered either answer may come.
LEMMA AnswerOpen ==
  ASSUME NEW base \in Nat, NEW age \in Nat, NEW len \in Nat, NEW hit \in Hits, NEW h \in Hits,
         h = hit \/ age <= 8, ActedAt(base, age, hit), QueuedAt(base, age, Arrival(hit)),
         StoredAt(base, age, len, Arrival(hit)), DeparsedAt(base, age, len, Arrival(hit)),
         EmittedAt(base, age, Arrival(hit))
  PROVE  /\ ActedAt(base, age, h) /\ QueuedAt(base, age, Arrival(h))
         /\ StoredAt(base, age, len, Arrival(h)) /\ DeparsedAt(base, age, len, Arrival(h))
         /\ EmittedAt(base, age, Arrival(h))
<1>1. CASE h = hit
  BY <1>1
<1>2. CASE age <= 8
  <2> DEFINE from == Arrival(hit)
             f == Arrival(h)
  <2>1. hit \in {9, 11} /\ h \in {9, 11} /\ from \in {15, 17} /\ f \in {15, 17}
    BY DEF Hits, Arrival
  <2> HIDE DEF from, f
  <2>2. ActedAt(base, age, h)
    BY <1>2, <2>1 DEF ActedAt
  <2>3. QueuedAt(base, age, f)
    <3>1. QueuedAt(base, age, from)
      BY DEF from
    <3> QED BY <1>2, <2>1, <3>1 DEF QueuedAt
  <2>4. StoredAt(base, age, len, f)
    <3>1. StoredAt(base, age, len, from)
      BY DEF from
    <3>2. Popped(age, from) = 0 /\ Popped(age, f) = 0
      BY <1>2, <2>1 DEF Popped
    <3> QED BY <3>1, <3>2 DEF StoredAt
  <2>5. DeparsedAt(base, age, len, f)
    <3>1. DeparsedAt(base, age, len, from)
      BY DEF from
    <3> QED BY <1>2, <2>1, <3>1 DEF DeparsedAt, DeparseState, Pops
  <2>6. EmittedAt(base, age, f)
    <3>1. EmittedAt(base, age, from)
      BY DEF from
    <3> QED BY <1>2, <2>1, <3>1 DEF EmittedAt
  <2> QED BY <2>2, <2>3, <2>4, <2>5, <2>6 DEF f
<1> QED BY <1>1, <1>2

\* In flight, a packet goes by the timetable.
LEMMA FlightAdvance ==
  ASSUME Spaced, PipeInv, Follows, NEW head \in PktHeads, Edge(head, TRUE),
         NEW base \in Nat, NEW age \in Nat, NEW len \in 2..(MaxBeats + 1), NEW hit \in Hits,
         1 <= age, age + 1 < Over(len, hit), Flight(base, age, len, hit)
  PROVE  \E l \in 2..(MaxBeats + 1), h \in Hits :
           age + 1 < Over(l, h) /\ Flight(base, age + 1, l, h)'
<1>1. /\ Source /\ Passed /\ PktFifo(rdPkt) /\ before' = m.valid
      /\ written' = written + One(m.valid)
      /\ ParserTick(m.valid, m.num) /\ StageTick(PhvOut) /\ PhvFifo
      /\ DeparserTick(fifo = <<>>, head, phvFifo = <<>>, PhvHead, TRUE) /\ Deliver(TRUE)
      /\ head \in Words /\ PhvHead \in Nat
  BY AtEdge
<1>2. /\ BeatsAt(base, age, len) /\ ParsedAt(base, age)
      /\ LookedUpAt(base, age, hit) /\ ActedAt(base, age, hit)
      /\ QueuedAt(base, age, Arrival(hit)) /\ StoredAt(base, age, len, Arrival(hit))
      /\ DeparsedAt(base, age, len, Arrival(hit)) /\ EmittedAt(base, age, Arrival(hit))
  BY DEF Flight
<1>3. PipeTypeOK /\ ParserTypeOK /\ StageTypeOK /\ DeparserTypeOK
  BY DEF PipeInv, PipeTypeOK
<1>4. PICK l \in 2..(MaxBeats + 1) :
        /\ l = len \/ (age < len /\ age < l)
        /\ BeatsAt(base, age, l) /\ BeatsAt(base, age + 1, l)'
  <2>1. age + 1 < len + Latency
    BY FilterAssumption DEF Over, Arrival, Hits, Latency
  <2> QED BY <1>1, <1>2, <2>1, BeatsAdvance
<1>5. PICK h \in Hits :
        /\ h = hit \/ age <= 8
        /\ LookedUpAt(base, age, h) /\ LookedUpAt(base, age + 1, h)'
  BY <1>1, <1>2, <1>3, LookedUpAdvance
<1>6. /\ l \in Nat /\ len \in Nat /\ 2 <= l /\ 2 <= len /\ Arrival(h) \in Nat /\ 2 <= Arrival(h)
      /\ Arrival(hit) \in Nat /\ 2 <= Arrival(hit)
      /\ Over(l, h) = Arrival(h) + l + 5 /\ age + 1 < Over(l, h)
      /\ age < Arrival(h) + l + 5 /\ age + 1 < Arrival(h) + l + 5
  BY <1>4, <1>5, FilterAssumption DEF Over, Arrival, Hits
<1>7. StoredAt(base, age, l, Arrival(hit)) /\ DeparsedAt(base, age, l, Arrival(hit))
  BY <1>2, <1>4, <1>6, LengthOpen
<1>8. /\ ActedAt(base, age, h) /\ QueuedAt(base, age, Arrival(h))
      /\ StoredAt(base, age, l, Arrival(h)) /\ DeparsedAt(base, age, l, Arrival(h))
      /\ EmittedAt(base, age, Arrival(h))
  BY <1>2, <1>5, <1>6, <1>7, AnswerOpen
<1>9. ParsedAt(base, age + 1)'
  <2>1. FirstSegment(m.valid) <=> age = 0
    BY <1>4, <1>6 DEF BeatsAt, FirstSegment
  <2> QED BY <1>1, <1>2, <1>3, <2>1, ParsedAdvance
<1>10. ActedAt(base, age + 1, h)'
  BY <1>1, <1>3, <1>5, <1>8, ActedAdvance
<1>11. QueuedAt(base, age + 1, Arrival(h))'
  <2>1. rdPhv <=> age = Arrival(h) + 5
    BY <1>8 DEF DeparsedAt
  <2> QED BY <1>1, <1>3, <1>8, <2>1, QueuedAdvance
<1>12. StoredAt(base, age + 1, l, Arrival(h))'
  <2>1. age # 0 => (rdPkt <=> Pops(age, Arrival(h)))
    BY <1>8 DEF DeparsedAt
  <2> QED BY <1>1, <1>4, <1>6, <1>8, <2>1, StoredAdvance
<1>13. /\ fifo = <<>> <=> Popped(age, Arrival(h)) = (IF age < l THEN age ELSE l)
       /\ fifo # <<>> => /\ head.num = base + Popped(age, Arrival(h)) + 1
                         /\ head.idx = Popped(age, Arrival(h)) + 1
                         /\ head.last <=> Popped(age, Arrival(h)) + 1 = l
       /\ Arrival(h) <= age /\ age <= Arrival(h) + 5 => phvFifo # <<>> /\ PhvHead = base + 1
       /\ ~(Arrival(h) <= age /\ age <= Arrival(h) + 5) => phvFifo = <<>>
  BY <1>3, <1>6, <1>8, HeadsAt
<1>14. (fifo = <<>>) \in BOOLEAN /\ (phvFifo = <<>>) \in BOOLEAN
  OBVIOUS
<1>15. DeparsedAt(base, age + 1, l, Arrival(h))'
  BY <1>1, <1>3, <1>6, <1>8, <1>13, <1>14, DeparsedAdvance
<1>16. EmittedAt(base, age + 1, Arrival(h))'
  BY <1>1, <1>3, <1>6, <1>8, <1>13, <1>14, EmittedAdvance
<1> QED BY <1>4, <1>5, <1>6, <1>9, <1>10, <1>11, <1>12, <1>15, <1>16 DEF Flight

\* With no PHV to take, the deparser only lets the last beat go.
LEMMA DeparserRests ==
  ASSUME PipeTypeOK, Vacant, NEW head, Deliver(TRUE),
         DeparserTick(fifo = <<>>, head, phvFifo = <<>>, PhvHead, TRUE)
  PROVE  /\ dstate' = "IDLE" /\ ~rdPkt' /\ ~rdPhv' /\ ~out'.valid
         /\ delivered' = written
<1>1. DepIdle(fifo = <<>>, phvFifo = <<>>)
  BY DEF Vacant, DeparserTick, DepBufHdr0, DepBufHdr1, DepWaitOne, DepWaitSub, DepReformHdr,
     DepFlushPkt0, DepFlushPkt1, DepFlushPkt
<1>2. /\ dstate' = "IDLE" /\ ~rdPkt' /\ ~rdPhv'
      /\ out' = [out EXCEPT !.valid = FALSE, !.word.last = FALSE]
  BY <1>1 DEF DepIdle, Vacant
<1>3. ~out'.valid
  <2>1. out \in [valid : BOOLEAN, word : Words, by : Nat]
    BY DEF PipeTypeOK, DeparserTypeOK
  <2> QED BY <1>2, <2>1 DEF Words
<1>4. delivered' = written
  <2>1. delivered \in Nat
    BY DEF PipeTypeOK
  <2> QED BY <2>1 DEF Deliver, Vacant
<1> QED BY <1>2, <1>3, <1>4

\* A vacant pipeline is where the timetable has it long after any packet.
LEMMA VacantAt ==
  ASSUME Vacant
  PROVE  ParsedAt(0, 40) /\ LookedUpAt(0, 40, 9) /\ ActedAt(0, 40, 9) /\ QueuedAt(0, 40, Arrival(9))
BY DEF Vacant, ParsedAt, LookedUpAt, ActedAt, QueuedAt, Arrival

\* While no packet comes, a vacant pipeline stays vacant.
LEMMA StaysVacant ==
  ASSUME Spaced, PipeInv, NEW head \in PktHeads, Edge(head, TRUE), Vacant, ~m.valid
  PROVE  Vacant'
<1>1. /\ Source /\ Passed /\ PktFifo(rdPkt) /\ before' = m.valid
      /\ written' = written + One(m.valid)
      /\ ParserTick(m.valid, m.num) /\ StageTick(PhvOut) /\ PhvFifo
      /\ DeparserTick(fifo = <<>>, head, phvFifo = <<>>, PhvHead, TRUE) /\ Deliver(TRUE)
  BY AtEdge
<1>2. PipeTypeOK /\ ParserTypeOK /\ StageTypeOK
  BY DEF PipeInv, PipeTypeOK
<1>3. /\ ParsedAt(0, 40) /\ LookedUpAt(0, 40, 9) /\ ActedAt(0, 40, 9) /\ QueuedAt(0, 40, Arrival(9))
      /\ 9 \in Hits /\ 0 \in Nat /\ 40 \in Nat
  BY VacantAt DEF Hits
<1>4. ParsedAt(0, 41)'
  <2>1. FirstSegment(m.valid) <=> 40 = 0
    BY DEF FirstSegment
  <2>2. ParsedAt(0, 40 + 1)'
    BY <1>1, <1>2, <1>3, <2>1, ParsedAdvance
  <2> QED BY <2>2
<1>5. LookedUpAt(0, 41, 9)'
  <2>1. \E h \in Hits : /\ h = 9 \/ 40 <= 8
                        /\ LookedUpAt(0, 40, h) /\ LookedUpAt(0, 40 + 1, h)'
    BY <1>1, <1>2, <1>3, LookedUpAdvance
  <2> QED BY <2>1
<1>6. ActedAt(0, 41, 9)'
  <2>1. ActedAt(0, 40 + 1, 9)'
    BY <1>1, <1>2, <1>3, ActedAdvance
  <2> QED BY <2>1
<1>7. QueuedAt(0, 41, Arrival(9))'
  <2>1. rdPhv <=> 40 = Arrival(9) + 5
    BY DEF Vacant, Arrival
  <2>2. QueuedAt(0, 40 + 1, Arrival(9))'
    BY <1>1, <1>2, <1>3, <2>1, QueuedAdvance
  <2> QED BY <2>2
<1>8. /\ dstate' = "IDLE" /\ ~rdPkt' /\ ~rdPhv' /\ ~out'.valid
      /\ delivered' = written
  BY <1>1, <1>2, DeparserRests
<1>9. written' = delivered' + (IF out'.valid THEN 1 ELSE 0)
  <2>1. written \in Nat
    BY <1>2 DEF PipeTypeOK, TypeOK
  <2> QED BY <1>1, <1>8, <2>1 DEF One
<1>10. fifo' = <<>>
  BY <1>1 DEF PktFifo, WrEn, Vacant
<1>11. m'.valid => m'.idx = 1
  <2>1. SUFFICES ASSUME m'.valid PROVE m'.idx = 1
    OBVIOUS
  <2>2. s.valid /\ s.kind = "udp" /\ m' = s
    BY <1>1, <2>1 DEF Passed
  <2> QED BY <2>2 DEF PipeInv, Front
<1>12. /\ pstate' = "IDLE" /\ ~vals'.valid
       /\ ~delay'[1].valid /\ ~delay'[2].valid /\ ~key'.valid /\ lstate' = "IDLE" /\ ~act'.valid
       /\ ~xbar'.valid /\ astate' = "IDLE" /\ ~alu'.valid /\ ~outPhv'.valid /\ phvFifo' = <<>>
  BY <1>4, <1>5, <1>6, <1>7 DEF ParsedAt, LookedUpAt, ActedAt, QueuedAt, Arrival
<1> QED BY <1>1, <1>8, <1>9, <1>10, <1>11, <1>12 DEF Vacant, Rebuilt

\* The first beat behind the filter starts a flight.
LEMMA Departs ==
  ASSUME Spaced, PipeInv, Follows, NEW head \in PktHeads, Edge(head, TRUE), Vacant, m.valid
  PROVE  \E base \in Nat, l \in 2..(MaxBeats + 1), h \in Hits : Flight(base, 1, l, h)'
<1>1. /\ Source /\ Passed /\ PktFifo(rdPkt) /\ before' = m.valid
      /\ written' = written + One(m.valid)
      /\ ParserTick(m.valid, m.num) /\ StageTick(PhvOut) /\ PhvFifo
      /\ DeparserTick(fifo = <<>>, head, phvFifo = <<>>, PhvHead, TRUE) /\ Deliver(TRUE)
  BY AtEdge
<1>2. /\ PipeTypeOK /\ ParserTypeOK /\ StageTypeOK /\ MaxBeats \in Nat /\ MaxBeats >= 2
      /\ 0 \in Nat /\ 9 \in Hits
  BY FilterAssumption DEF PipeInv, PipeTypeOK, Hits, Spaced, Steady, Calm
<1>3. PICK base \in Nat : base = written
  BY <1>2 DEF PipeTypeOK, TypeOK
<1>4. PICK len \in 2..(MaxBeats + 1) : len = IF s.last THEN 2 ELSE 3
  BY <1>2
<1>5. BeatsAt(base, 0, len)
  <2>1. m.idx = 1 /\ ~m.last /\ ~before
    BY DEF Vacant, PipeInv, Front
  <2>2. (s.last <=> 2 = len) /\ 0 < len /\ 1 < len
    BY <1>4
  <2> QED BY <1>3, <2>1, <2>2 DEF BeatsAt
<1>6. /\ ParsedAt(base, 0) /\ LookedUpAt(base, 0, 9) /\ ActedAt(base, 0, 9)
      /\ QueuedAt(base, 0, Arrival(9))
  BY DEF Vacant, ParsedAt, LookedUpAt, ActedAt, QueuedAt, Arrival
<1>7. PICK l \in 2..(MaxBeats + 1) : /\ l = len \/ (0 < len /\ 0 < l)
                                     /\ BeatsAt(base, 0, l) /\ BeatsAt(base, 0 + 1, l)'
  <2>1. 0 + 1 < len + Latency
    BY DEF Latency
  <2> QED BY <1>1, <1>2, <1>5, <2>1, BeatsAdvance
<1>8. ParsedAt(base, 0 + 1)'
  <2>1. FirstSegment(m.valid) <=> 0 = 0
    BY DEF FirstSegment, Vacant
  <2>2. m.num = base + 1
    BY <1>3 DEF PipeInv, IInv, Counted, ExactlyOnce, DataExactlyOnce
  <2> QED BY <1>1, <1>2, <1>6, <2>1, <2>2, ParsedAdvance
<1>9. PICK h \in Hits : /\ h = 9 \/ 0 <= 8
                        /\ LookedUpAt(base, 0, h) /\ LookedUpAt(base, 0 + 1, h)'
  BY <1>1, <1>2, <1>6, LookedUpAdvance
<1>10. ActedAt(base, 0, h) /\ QueuedAt(base, 0, Arrival(h))
  BY DEF Vacant, ActedAt, QueuedAt, Arrival, Hits
<1>11. ActedAt(base, 0 + 1, h)'
  BY <1>1, <1>2, <1>9, <1>10, ActedAdvance
<1>12. Arrival(h) \in Nat /\ 2 <= Arrival(h) /\ 9 <= Arrival(h) /\ l \in Nat /\ 2 <= l
  BY DEF Arrival, Hits
<1>13. QueuedAt(base, 0 + 1, Arrival(h))'
  <2>1. rdPhv <=> 0 = Arrival(h) + 5
    BY <1>12 DEF Vacant
  <2> QED BY <1>1, <1>2, <1>10, <2>1, QueuedAdvance
<1>14. StoredAt(base, 0 + 1, l, Arrival(h))'
  <2>1. StoredAt(base, 0, l, Arrival(h))
    <3>1. Len(fifo) = 0 /\ Popped(0, Arrival(h)) = 0
      BY <1>12 DEF Vacant, Popped
    <3> QED BY <1>12, <3>1 DEF StoredAt
  <2>2. 0 < Arrival(h) + l + 5
    BY <1>12
  <2> QED BY <1>1, <1>2, <1>7, <1>12, <2>1, <2>2, StoredAdvance
<1>15. /\ dstate' = "IDLE" /\ ~rdPkt' /\ ~rdPhv' /\ ~out'.valid
       /\ delivered' = base
  BY <1>1, <1>2, <1>3, DeparserRests
<1>16. DeparsedAt(base, 1, l, Arrival(h))'
  BY <1>12, <1>15 DEF DeparsedAt, DeparseState, Pops
<1>17. EmittedAt(base, 1, Arrival(h))'
  BY <1>12, <1>15 DEF EmittedAt
<1>18. 0 + 1 = 1
  OBVIOUS
<1>19. /\ BeatsAt(base, 1, l)' /\ ParsedAt(base, 1)' /\ LookedUpAt(base, 1, h)'
       /\ ActedAt(base, 1, h)' /\ QueuedAt(base, 1, Arrival(h))' /\ StoredAt(base, 1, l, Arrival(h))'
  BY <1>7, <1>8, <1>9, <1>11, <1>13, <1>14, <1>18
<1>20. Flight(base, 1, l, h)'
  BY <1>16, <1>17, <1>19 DEF Flight
<1> QED BY <1>20

\* With its last beat on m_axis a packet leaves the pipeline vacant.
LEMMA Arrives ==
  ASSUME Spaced, PipeInv, NEW head \in PktHeads, Edge(head, TRUE),
         NEW base \in Nat, NEW age \in Nat, NEW len \in 2..(MaxBeats + 1), NEW hit \in Hits,
         age + 1 = Over(len, hit), Flight(base, age, len, hit)
  PROVE  Vacant'
<1> DEFINE from == Arrival(hit)
<1>1. /\ Source /\ Passed /\ PktFifo(rdPkt) /\ before' = m.valid
      /\ written' = written + One(m.valid)
      /\ ParserTick(m.valid, m.num) /\ StageTick(PhvOut) /\ PhvFifo
      /\ DeparserTick(fifo = <<>>, head, phvFifo = <<>>, PhvHead, TRUE) /\ Deliver(TRUE)
      /\ head \in Words /\ PhvHead \in Nat
  BY AtEdge
<1>2. PipeTypeOK /\ ParserTypeOK /\ StageTypeOK /\ DeparserTypeOK
  BY DEF PipeInv, PipeTypeOK
<1>3. /\ BeatsAt(base, age, len) /\ ParsedAt(base, age)
      /\ LookedUpAt(base, age, hit) /\ ActedAt(base, age, hit)
      /\ QueuedAt(base, age, from) /\ StoredAt(base, age, len, from)
      /\ DeparsedAt(base, age, len, from) /\ EmittedAt(base, age, from)
  BY DEF Flight
<1>4. /\ hit \in {9, 11} /\ from = hit + 6 /\ from \in Nat /\ 2 <= from /\ len \in Nat /\ 2 <= len
      /\ age = from + len + 4 /\ age >= len /\ age >= 1 /\ age < from + len + 5
  BY FilterAssumption DEF Hits, Arrival, Over
<1> HIDE DEF from
<1>5. ~m.valid /\ (s.valid => s.idx = 1) /\ written = base + len
  BY <1>3, <1>4 DEF BeatsAt
<1>6. m'.valid => m'.idx = 1
  BY <1>1, <1>5 DEF Passed
<1>7. ~before' /\ written' = base + len
  BY <1>1, <1>5 DEF One
<1>8. pstate' = "IDLE" /\ ~vals'.valid
  <2>1. FirstSegment(m.valid) <=> age = 0
    BY <1>4, <1>5 DEF FirstSegment
  <2>2. ParsedAt(base, age + 1)'
    BY <1>1, <1>2, <1>3, <1>4, <2>1, ParsedAdvance
  <2>3. age + 1 > 4
    BY <1>4
  <2> QED BY <2>2, <2>3 DEF ParsedAt
<1>9. /\ ~delay'[1].valid /\ ~delay'[2].valid /\ ~key'.valid /\ lstate' = "IDLE" /\ ~act'.valid
  <2>1. PICK h \in Hits : /\ h = hit \/ age <= 8
                          /\ LookedUpAt(base, age, h) /\ LookedUpAt(base, age + 1, h)'
    BY <1>1, <1>2, <1>3, LookedUpAdvance
  <2>2. LookedUpAt(base, age + 1, hit)' /\ age + 1 > 11 /\ age + 1 > hit
    BY <1>4, <2>1
  <2> QED BY <2>2 DEF LookedUpAt
<1>10. ~xbar'.valid /\ astate' = "IDLE" /\ ~alu'.valid /\ ~outPhv'.valid
  <2>1. ActedAt(base, age + 1, hit)'
    BY <1>1, <1>2, <1>3, ActedAdvance
  <2>2. age + 1 > hit + 5
    BY <1>4
  <2> QED BY <1>4, <2>1, <2>2 DEF ActedAt
<1>11. phvFifo' = <<>>
  <2>1. rdPhv <=> age = Arrival(hit) + 5
    BY <1>3 DEF DeparsedAt, from
  <2>2. QueuedAt(base, age + 1, from)'
    BY <1>1, <1>2, <1>3, <2>1, QueuedAdvance DEF from
  <2>3. ~(age + 1 <= from + 5)
    BY <1>4
  <2> QED BY <2>2, <2>3 DEF QueuedAt
<1>12. fifo' = <<>>
  <2>1. age # 0 => (rdPkt <=> Pops(age, from))
    BY <1>3 DEF DeparsedAt
  <2>2. StoredAt(base, age + 1, len, from)'
    BY <1>1, <1>3, <1>4, <2>1, StoredAdvance
  <2>3. Popped(age + 1, from) = len /\ ~(age + 1 < len) /\ len - len = 0
    BY <1>4 DEF Popped
  <2>4. Len(fifo') = 0
    BY <2>2, <2>3 DEF StoredAt
  <2>5. fifo' \in Seq(Udp)
    BY <1>1, <1>2, FifoReads DEF PipeInv, DeparserTypeOK
  <2> QED BY <2>4, <2>5
<1>13. /\ fifo = <<>> <=> Popped(age, from) = (IF age < len THEN age ELSE len)
       /\ fifo # <<>> => /\ head.num = base + Popped(age, from) + 1
                         /\ head.idx = Popped(age, from) + 1
                         /\ head.last <=> Popped(age, from) + 1 = len
  BY <1>2, <1>3, <1>4, HeadsAt
<1>14. dstate' = "IDLE" /\ ~rdPhv'
  <2>1. CASE len = 2
    <3>1. age = from + 6
      BY <1>4, <2>1
    <3>2. dstate = "FLUSH_PKT_1" /\ ~rdPhv /\ beat1.last
      BY <1>3, <1>4, <2>1, <3>1 DEF DeparsedAt, DeparseState
    <3> QED BY <1>1, <3>2 DEF DeparserTick, DepIdle, DepBufHdr0, DepBufHdr1, DepWaitOne,
               DepWaitSub, DepReformHdr, DepFlushPkt0, DepFlushPkt1, DepFlushPkt
  <2>2. CASE len > 2
    <3>1. age >= from + 7 /\ age # from + 5
      BY <1>4, <2>2
    <3>2. dstate = "FLUSH_PKT" /\ ~rdPhv
      BY <1>3, <1>4, <3>1 DEF DeparsedAt, DeparseState
    <3>3. Popped(age, from) + 1 = len /\ Popped(age, from) # len /\ ~(age < len)
      BY <1>4, <3>1 DEF Popped
    <3>4. head.last
      BY <1>13, <3>3
    <3> QED BY <1>1, <3>2, <3>4 DEF DeparserTick, DepIdle, DepBufHdr0, DepBufHdr1, DepWaitOne,
               DepWaitSub, DepReformHdr, DepFlushPkt0, DepFlushPkt1, DepFlushPkt
  <2> QED BY <1>4, <2>1, <2>2
<1>15. EmittedAt(base, age + 1, from)'
  <2>1. (fifo = <<>>) \in BOOLEAN /\ (phvFifo = <<>>) \in BOOLEAN
    OBVIOUS
  <2>2. 1 <= age /\ 2 <= from /\ 2 <= len /\ age < from + len + 5 /\ from \in Nat /\ len \in Nat
    BY <1>4
  <2>3. DeparsedAt(base, age, len, from) /\ EmittedAt(base, age, from)
    BY <1>3
  <2> QED BY <1>1, <1>2, <1>13, <2>1, <2>2, <2>3, EmittedAdvance
<1>16. /\ out'.valid /\ delivered' = base + len - 1
       /\ out'.word.num = base + len /\ out'.word.idx = len
       /\ out'.by = IF len <= 2 THEN base + 1 ELSE 0
  <2>1. /\ age + 1 >= from + 6 /\ age + 1 - from - 5 = len /\ base + (age + 1) - from - 5 = base + len
        /\ base + (IF age + 1 <= from + 6 THEN 0 ELSE age + 1 - from - 6) = base + len - 1
    BY <1>4
  <2>2. out'.valid /\ delivered' = base + len - 1
    BY <1>4, <1>15, <2>1 DEF EmittedAt
  <2>3. out'.word.num = base + len /\ out'.word.idx = len
    BY <1>4, <1>15, <2>1, <2>2 DEF EmittedAt
  <2>4. out'.by = IF out'.word.idx <= 2 THEN base + 1 ELSE 0
    BY <1>15, <2>2 DEF EmittedAt
  <2> QED BY <2>2, <2>3, <2>4
<1>17. Rebuilt'
  <2>1. base + len = base + len - 1 + 1 /\ (len <= 2 => base + len - len + 1 = base + 1)
    BY <1>4
  <2> QED BY <1>16, <2>1 DEF Rebuilt
<1>18. written' = delivered' + (IF out'.valid THEN 1 ELSE 0)
  BY <1>4, <1>7, <1>16
<1> QED BY <1>6, <1>7, <1>8, <1>9, <1>10, <1>11, <1>12, <1>14, <1>17, <1>18 DEF Vacant

-----------------------------------------------------------------------------
(* One packet at a time. *)

\* After reset the pipeline is vacant.
LEMMA InitOneAtATime == PipeInit => OneAtATime
BY DEF PipeInit, Init, ParserInit, StageInit, DeparserInit, NoBeat, NoPhv, NoReg, OneAtATime,
   Follows, Vacant, Rebuilt

\* Every clock edge keeps it vacant, or one packet to the timetable.
LEMMA OneAtATimeInductive ==
  Spaced /\ PipeInv /\ OneAtATime /\ [PipeNext]_pipeVars => OneAtATime'
<1> SUFFICES ASSUME Spaced, PipeInv, OneAtATime, [PipeNext]_pipeVars PROVE OneAtATime'
  OBVIOUS
<1>1. CASE UNCHANGED pipeVars
  <2> USE <1>1 DEF pipeVars, vars, source, parserVars, stageVars, deparserVars
  <2>1. Follows'
    BY DEF OneAtATime, Follows
  <2>2. CASE Vacant
    <3>1. Vacant'
      BY <2>2 DEF Vacant, Rebuilt
    <3> QED BY <2>1, <3>1 DEF OneAtATime
  <2>3. ASSUME NEW len \in 2..(MaxBeats + 1), NEW base \in Nat, NEW hit \in Hits,
               NEW age \in 1..(Over(len, hit) - 1), Flight(base, age, len, hit)
        PROVE  Flight(base, age, len, hit)'
    <3>1. BeatsAt(base, age, len)' /\ ParsedAt(base, age)'
      BY <2>3 DEF Flight, BeatsAt, ParsedAt
    <3>2. LookedUpAt(base, age, hit)' /\ ActedAt(base, age, hit)'
      BY <2>3 DEF Flight, LookedUpAt, ActedAt
    <3>3. QueuedAt(base, age, Arrival(hit))' /\ StoredAt(base, age, len, Arrival(hit))'
      BY <2>3 DEF Flight, QueuedAt, StoredAt
    <3>4. DeparsedAt(base, age, len, Arrival(hit))' /\ EmittedAt(base, age, Arrival(hit))'
      BY <2>3 DEF Flight, DeparsedAt, EmittedAt
    <3> QED BY <3>1, <3>2, <3>3, <3>4 DEF Flight
  <2> QED BY <2>1, <2>2, <2>3 DEF OneAtATime, Flying
<1>2. CASE PipeNext
  <2>1. PICK head \in PktHeads : Edge(head, TRUE)
    BY <1>2 DEF PipeNext, Spaced
  <2>2. Follows'
    BY <2>1, AtEdge, KeepsFollows DEF OneAtATime, Spaced
  <2>3. CASE Vacant /\ ~m.valid
    BY <2>1, <2>2, <2>3, StaysVacant DEF OneAtATime
  <2>4. CASE Vacant /\ m.valid
    <3>1. PICK base \in Nat, l \in 2..(MaxBeats + 1), h \in Hits : Flight(base, 1, l, h)'
      BY <2>1, <2>4, Departs DEF OneAtATime
    <3>2. 1 \in 1..(Over(l, h) - 1)
      BY <3>1, FilterAssumption DEF Over, Arrival, Hits
    <3>3. Flying(l)'
      BY <3>1, <3>2 DEF Flying
    <3> QED BY <2>2, <3>3 DEF OneAtATime
  <2>5. CASE \E len \in 2..(MaxBeats + 1) : Flying(len)
    <3>1. PICK len \in 2..(MaxBeats + 1), base \in Nat, hit \in Hits :
            \E age \in 1..(Over(len, hit) - 1) : Flight(base, age, len, hit)
      BY <2>5 DEF Flying
    <3>2. PICK age \in 1..(Over(len, hit) - 1) : Flight(base, age, len, hit)
      BY <3>1
    <3>3. Over(len, hit) \in Nat /\ age \in Nat /\ 1 <= age /\ age + 1 <= Over(len, hit)
      BY FilterAssumption DEF Over, Arrival, Hits
    <3>4. CASE age + 1 = Over(len, hit)
      BY <2>1, <2>2, <3>2, <3>3, <3>4, Arrives DEF OneAtATime
    <3>5. CASE age + 1 < Over(len, hit)
      <4>1. PICK l \in 2..(MaxBeats + 1), h \in Hits :
              age + 1 < Over(l, h) /\ Flight(base, age + 1, l, h)'
        BY <2>1, <3>2, <3>3, <3>5, FlightAdvance DEF OneAtATime
      <4>2. age + 1 \in 1..(Over(l, h) - 1)
        BY <3>3, <4>1, FilterAssumption DEF Over, Arrival, Hits
      <4>3. Flying(l)'
        BY <4>1, <4>2 DEF Flying
      <4> QED BY <2>2, <4>3 DEF OneAtATime
    <3> QED BY <3>3, <3>4, <3>5
  <2> QED BY <2>3, <2>4, <2>5 DEF OneAtATime
<1> QED BY <1>1, <1>2

\* The timetable has every beat leave in its turn.
LEMMA OnTime == PipeInv /\ OneAtATime => Rebuilt
<1> SUFFICES ASSUME PipeInv, OneAtATime PROVE Rebuilt
  OBVIOUS
<1>1. CASE Vacant
  BY <1>1 DEF Vacant
<1>2. ASSUME NEW base \in Nat, NEW age \in Nat, NEW hit \in Hits, EmittedAt(base, age, Arrival(hit))
      PROVE  Rebuilt
  <2>1. SUFFICES ASSUME out.valid
                 PROVE  /\ out.word.num = delivered + 1
                        /\ out.by = IF out.word.idx <= 2 THEN out.word.num - out.word.idx + 1 ELSE 0
    BY DEF Rebuilt
  <2> DEFINE from == Arrival(hit)
  <2>2. from \in Nat
    BY DEF Arrival, Hits
  <2>3. /\ age >= from + 6 /\ out.word.num = base + age - from - 5 /\ out.word.idx = age - from - 5
        /\ out.by = IF out.word.idx <= 2 THEN base + 1 ELSE 0
        /\ delivered = base + (IF age <= from + 6 THEN 0 ELSE age - from - 6)
    BY <1>2, <2>1 DEF EmittedAt
  <2> HIDE DEF from
  <2>4. base + age - from - 5 = delivered + 1 /\ base + age - from - 5 - (age - from - 5) + 1 = base + 1
    BY <2>2, <2>3
  <2>5. out.word.num = delivered + 1 /\ out.word.num - out.word.idx + 1 = base + 1
    <3>1. out.word.num = base + age - from - 5 /\ out.word.idx = age - from - 5
      BY <2>3
    <3>2. out.word.num \in Nat /\ out.word.idx \in Nat
      BY DEF PipeInv, PipeTypeOK, DeparserTypeOK, Words
    <3>3. PICK n \in Nat, i \in Nat : n = out.word.num /\ i = out.word.idx
      BY <3>2
    <3>4. n = delivered + 1 /\ n - i + 1 = base + 1
      BY <2>2, <2>3, <3>1, <3>3
    <3> QED BY <3>3, <3>4
  <2>6. CASE out.word.idx <= 2
    BY <2>3, <2>5, <2>6
  <2>7. CASE ~(out.word.idx <= 2)
    BY <2>3, <2>5, <2>7
  <2> QED BY <2>6, <2>7
<1>3. CASE \E len \in 2..(MaxBeats + 1) : Flying(len)
  <2>1. PICK len \in 2..(MaxBeats + 1), base \in Nat, hit \in Hits :
          \E age \in 1..(Over(len, hit) - 1) : Flight(base, age, len, hit)
    BY <1>3 DEF Flying
  <2>2. PICK age \in 1..(Over(len, hit) - 1) : Flight(base, age, len, hit)
    BY <2>1
  <2>3. age \in Nat /\ EmittedAt(base, age, Arrival(hit))
    BY <2>2, FilterAssumption DEF Flight, Over, Arrival, Hits
  <2> QED BY <1>2, <2>3
<1> QED BY <1>1, <1>3 DEF OneAtATime

\* The deparser rebuilds every packet, of any length and whatever the CAM
\* answers, when the next one comes Latency idle cycles after it: the beats
\* leave once and in order, the first two rewritten by the PHV of their own
\* packet.
THEOREM RebuildsFarApart == ASSUME Spaced PROVE PipeSpec => []Rebuilt
<1>1. Spaced => Steady
  BY DEF Spaced
<1>2. PipeInv /\ OneAtATime /\ [PipeNext]_pipeVars => OneAtATime'
  BY OneAtATimeInductive
<1>3. PipeSpec => []PipeInv
  BY <1>1, PipeInvariance
<1> QED BY <1>2, <1>3, InitOneAtATime, OnTime, PTL DEF PipeSpec
=============================================================================
