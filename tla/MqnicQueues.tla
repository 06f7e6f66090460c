------------------------------ MODULE MqnicQueues ------------------------------
(***************************************************************************)
(* The queues of an interface as its queue managers keep them               *)
(* (fpga/common/rtl/queue_manager.v and cpl_queue_manager.v): a queue is a   *)
(* record of its RAM entry and of its operations in the operation table.     *)
(*                                                                         *)
(* The pipeline of a manager starts no operation on a queue that another     *)
(* operation of the pipeline is about, so an operation is one step here.     *)
(***************************************************************************)
EXTENDS Integers, Sequences, SequencesExt

CONSTANTS
  Size,    \* entries of a ring and of a completion queue, a power of two (1024)
  EvSize,  \* entries of an event queue (1024)
  PtrMod,  \* pointers are 16 bits (2^16)
  OpTable  \* operations a manager has in flight (16)

ASSUME QueueAssumption ==
  /\ Size \in Nat \ {0} /\ EvSize \in Nat \ {0} /\ OpTable \in Nat \ {0}
  /\ PtrMod \in Nat /\ PtrMod > 2 * Size /\ PtrMod > 2 * EvSize

Plus1(ptr) == (ptr + 1) % PtrMod

(***************************************************************************)
(* ops holds the operations in flight, the oldest first: the pointer each    *)
(* will set when it is committed, and what it carries.                       *)
(***************************************************************************)
EmptyQueue == [active |-> FALSE, armed |-> FALSE, head |-> 0, tail |-> 0, ops |-> <<>>]

Latest(q, ptr) == IF q.ops = <<>> THEN ptr ELSE Last(q.ops).ptr
Started(q, ptr, data) == [q EXCEPT !.ops = Append(@, [ptr |-> Plus1(ptr), data |-> data])]
Startable(q) == Len(q.ops) < OpTable

\* queue_manager: a descriptor is handed out at the tail, beyond those that are
\* being fetched, and the tail moves when its fetch is committed.
\* Bug variant of ActiveTail: fetches that are not committed are forgotten.
ActiveTailCommitted(q) == q.tail
ActiveTail(q) == Latest(q, q.tail)
HasDescriptor(q) == q.active /\ q.head # ActiveTail(q)
Dequeue(q) == Started(q, ActiveTail(q), ActiveTail(q))
DequeueCommit(q) == [q EXCEPT !.tail = Head(q.ops).ptr, !.ops = Tail(@)]

\* cpl_queue_manager: an entry is reserved at the head; the head moves when the
\* entry is in memory, and raises an event if the queue is armed.
ActiveHead(q) == Latest(q, q.head)
Full(q, size) == (ActiveHead(q) - q.tail) % PtrMod >= size
Accepts(q, size) == q.active /\ ~Full(q, size)
Enqueue(q, data) == Started(q, ActiveHead(q), data)
EnqueueCommit(q) == [q EXCEPT !.head = Head(q.ops).ptr, !.ops = Tail(@), !.armed = FALSE]

\* Writes of the driver.  Arming a queue that is not empty raises an event.
Activate(q, head, tail) ==
  [q EXCEPT !.active = TRUE, !.armed = FALSE, !.head = head, !.tail = tail]
\* Bug variant of RaisesEvent: arming looks at later entries only.
RaisesEventNever(q) == FALSE
RaisesEvent(q) == q.head # q.tail
Arm(q) == [q EXCEPT !.armed = ~RaisesEvent(q)]
=============================================================================
