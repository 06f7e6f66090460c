------------------------------- MODULE UsStream -------------------------------
(***************************************************************************)
(* The AXI streams between an UltraScale PCI Express core and the user's     *)
(* logic (fpga/lib/pcie/tb/pcie_us.py): completer requests (CQ) and          *)
(* completions (CC), requester requests (RQ) and completions (RC).           *)
(*                                                                         *)
(* A frame is a sequence of words.  The first stands for the fields of the   *)
(* descriptor and of tuser, those up to the data are the rest of the         *)
(* descriptor.  A word knows the number of its frame in its stream, its own  *)
(* number in the frame, and how many words the frame has.                    *)
(***************************************************************************)
EXTENDS PcieTlp

CONSTANT Width  \* dwords of the data bus (2, 4, 8 or 16)

ASSUME StreamAssumption == Width \in Nat \ {0}

(***************************************************************************)
(* Packing.                                                                 *)
(***************************************************************************)
Frame(no, t, words) ==
  LET of == words + (Len(t.data) \div Dw)
  IN [k \in 1..of |->
        [no |-> no, at |-> k, of |-> of,
         load |-> IF k = 1 THEN [t EXCEPT !.data = <<>>]
                  ELSE IF k <= words THEN <<>>
                  ELSE SubSeq(t.data, (k - words - 1) * Dw + 1, (k - words) * Dw)]]
PackCq(no, t) == Frame(no, t, 4)
PackCc(no, t) == Frame(no, t, 3)
PackRq(no, t) == Frame(no, t, 4)
PackRc(no, t) == Frame(no, t, 3)

Unpack(frame, words) ==
  [frame[1].load EXCEPT !.data =
     FlattenSeq([i \in 1..(Len(frame) - words) |-> frame[words + i].load])]
UnpackCq(frame) == Unpack(frame, 4)
UnpackCc(frame) == Unpack(frame, 3)
UnpackRq(frame) == Unpack(frame, 4)
UnpackRc(frame) == Unpack(frame, 3)

(***************************************************************************)
(* A stream.                                                                *)
(***************************************************************************)
NoStream ==
  [queue |-> <<>>,   \* frames queued at the source
   left |-> <<>>,    \* words of the frame being sent, not on the bus yet
   active |-> FALSE, valid |-> FALSE, last |-> FALSE, beat |-> <<>>,
   part |-> <<>>,    \* words of a frame at the sink
   out |-> <<>>,     \* frames queued at the sink
   sent |-> 0, taken |-> 0]

Sent(s, frame) == [s EXCEPT !.queue = Append(@, frame), !.sent = @ + 1]
SentAll(s, frames) == [s EXCEPT !.queue = @ \o frames, !.sent = @ + Len(frames)]
Received(s) == [s EXCEPT !.out = Tail(@), !.taken = @ + 1]

\* Bug variant of SourceEdge: the next beat does not wait for the last one.
SourceEdgeRuns(s, pause, take) ==
  LET pop == s.left = <<>> /\ s.queue # <<>>
      left == IF pop THEN Head(s.queue) ELSE s.left
      load == left # <<>>
  IN [s EXCEPT !.queue = IF pop THEN Tail(@) ELSE @,
               !.left = IF load THEN SubSeq(left, Width + 1, Len(left)) ELSE left,
               !.beat = IF load THEN SubSeq(left, 1, Least(Width, Len(left))) ELSE @,
               !.last = IF load THEN Len(left) <= Width ELSE @,
               !.active = (s.active /\ ~take) \/ load,
               !.valid = IF load THEN ~pause ELSE ~take /\ s.active /\ (s.valid \/ ~pause)]
\* A clock edge at a source.  A beat is shown unless the source is paused, and
\* stays until it is taken.
SourceEdge(s, pause, take) ==
  LET pop == s.left = <<>> /\ s.queue # <<>>
      left == IF pop THEN Head(s.queue) ELSE s.left
      load == left # <<>> /\ (take \/ ~s.active)
  IN [s EXCEPT !.queue = IF pop THEN Tail(@) ELSE @,
               !.left = IF load THEN SubSeq(left, Width + 1, Len(left)) ELSE left,
               !.beat = IF load THEN SubSeq(left, 1, Least(Width, Len(left))) ELSE @,
               !.last = IF load THEN Len(left) <= Width ELSE @,
               !.active = (s.active /\ ~take) \/ load,
               !.valid = IF load THEN ~pause ELSE ~take /\ s.active /\ (s.valid \/ ~pause)]

\* A clock edge at a sink.  Ready is low while the sink is paused.
Taken(s, pause) == s.valid /\ ~pause
SinkEdge(s, pause) ==
  IF ~Taken(s, pause) THEN s
  ELSE IF s.last THEN [s EXCEPT !.out = Append(@, s.part \o s.beat), !.part = <<>>]
  ELSE [s EXCEPT !.part = @ \o s.beat]

\* The classes differ in the layout of tuser.
CQSource(s, pause, take) == SourceEdge(s, pause, take)
CCSource(s, pause, take) == SourceEdge(s, pause, take)
RQSource(s, pause, take) == SourceEdge(s, pause, take)
RCSource(s, pause, take) == SourceEdge(s, pause, take)
CQSink(s, pause) == SinkEdge(s, pause)
CCSink(s, pause) == SinkEdge(s, pause)
RQSink(s, pause) == SinkEdge(s, pause)
RCSink(s, pause) == SinkEdge(s, pause)

\* Both ends of a stream at an edge.
CqEdge(s, here, there) == CQSource(CQSink(s, there), here, Taken(s, there))
CcEdge(s, here, there) == CCSource(CCSink(s, there), here, Taken(s, there))
RqEdge(s, here, there) == RQSource(RQSink(s, there), here, Taken(s, there))
RcEdge(s, here, there) == RCSource(RCSink(s, there), here, Taken(s, there))

(***************************************************************************)
(* Every word of the frames sent and not taken is in one place, in order,    *)
(* and the frames at the sink are whole.                                    *)
(***************************************************************************)
WordsOf(s) ==
  FlattenSeq(s.out) \o s.part \o (IF s.active THEN s.beat ELSE <<>>) \o s.left
    \o FlattenSeq(s.queue)
Whole(s) ==
  LET w == WordsOf(s)
      n == Len(w)
  IN /\ IF n = 0 THEN s.taken = s.sent
        ELSE /\ w[1].no = s.taken + 1 /\ w[1].at = 1
             /\ w[n].no = s.sent /\ w[n].at = w[n].of
     /\ \A i \in 1..(n - 1) :
          IF w[i].at < w[i].of THEN w[i + 1].no = w[i].no /\ w[i + 1].at = w[i].at + 1
                               ELSE w[i + 1].no = w[i].no + 1 /\ w[i + 1].at = 1
     /\ \A i \in DOMAIN s.out : Last(s.out[i]).at = Last(s.out[i]).of
=============================================================================
