------------------------------- MODULE Steering -------------------------------
(***************************************************************************)
(* What the front end promises, whatever its registers: each beat the      *)
(* source hands over goes, once and in order, to the queue of the data     *)
(* path or to the control channel, by the kind of its packet alone, and    *)
(* beats of other packets vanish.  PktFilter implements it (PktFilter!     *)
(* Steers) under calm traffic.                                             *)
(***************************************************************************)
EXTENDS Sequences

CONSTANT Bus  \* what the stream from the source can carry in a cycle

VARIABLES
  in,     \* the beat the source offers
  queue,  \* data beats taken and not yet read by the deparser
  ctl     \* the beat on the control channel, if any

vars == <<in, queue, ctl>>

Only(P, b) == IF P THEN <<b>> ELSE <<>>

Init == ~in.valid /\ queue = <<>> /\ ctl = <<>>

\* Take says whether the offered beat is taken, read whether the reader takes
\* the head of the queue.
Step(take, read) ==
  /\ in.valid => (take <=> in' # in)
  /\ take => in.valid
  /\ read => queue # <<>>
  /\ queue' = (IF read THEN Tail(queue) ELSE queue)
              \o Only(take /\ in.kind = "udp", in)
  /\ ctl' = Only(take /\ in.kind = "ctl", in)

Next == in' \in Bus /\ \E take, read \in BOOLEAN : Step(take, read)

Spec == Init /\ [][Next]_vars
=============================================================================
