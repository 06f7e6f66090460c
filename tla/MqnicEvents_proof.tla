--------------------------- MODULE MqnicEvents_proof ---------------------------
(***************************************************************************)
(* Proof that the completion queues and the event queue of MqnicDriver never *)
(* overflow: NoCompletionLost, for event queues of four entries and more.    *)
(***************************************************************************)
EXTENDS MqnicDriver_proof

-----------------------------------------------------------------------------
(* Pointers that have wrapped. *)

\* Whole turns of a pointer do not show in it.
LEMMA Turns ==
  ASSUME NEW N \in Nat \ {0}, NEW a \in Int, NEW k \in Int
  PROVE  (N * k + a) % N = a % N
<1> DEFINE p == a \div N
           m == a % N
           z == N * k + a
           s == z \div N
           r == z % N
<1>1. p \in Int /\ m \in Int /\ 0 <= m /\ m < N /\ a = N * p + m
  OBVIOUS
<1>2. z \in Int
  OBVIOUS
<1>3. s \in Int /\ r \in Int /\ 0 <= r /\ r < N /\ z = N * s + r
  <2> HIDE DEF z
  <2> QED BY <1>2
<1>4. z = N * (k + p) + m
  <2> HIDE DEF p, m
  <2>1. N * (k + p) = N * k + N * p
    BY <1>1
  <2> QED BY <1>1, <2>1
<1> HIDE DEF p, m, z, s, r
<1>5. PICK b \in Int : b = k + p
  BY <1>1
<1>6. N * s + r = N * b + m
  BY <1>3, <1>4, <1>5
<1>7. s = b
  <2>1. ASSUME s > b PROVE FALSE
    <3>1. PICK c \in Nat : s = b + 1 + c
      BY <1>3, <1>5, <2>1, s - b - 1 \in Nat
    <3>2. N * s = N * b + N + N * c /\ N * c >= 0 /\ N * b \in Int
      BY <3>1
    <3> QED BY <1>1, <1>3, <1>6, <3>2
  <2>2. ASSUME s < b PROVE FALSE
    <3>1. PICK c \in Nat : b = s + 1 + c
      BY <1>3, <1>5, <2>2, b - s - 1 \in Nat
    <3>2. N * b = N * s + N + N * c /\ N * c >= 0 /\ N * s \in Int
      BY <1>3, <3>1
    <3> QED BY <1>1, <1>3, <1>6, <3>2
  <2> QED BY <1>3, <2>1, <2>2
<1>8. r = m
  <2>1. N * b \in Int
    OBVIOUS
  <2> QED BY <1>1, <1>3, <1>6, <1>7, <2>1
<1> QED BY <1>8 DEF m, r, z

\* What the driver and cpl_queue_manager compute of pointers that have wrapped is
\* right while less than a turn lies between them.
LEMMA Wrapped ==
  /\ \A x \in Nat : x % PtrMod \in Pointers /\ Plus1(x % PtrMod) = (x + 1) % PtrMod
  /\ \A x, y \in Nat : y <= x /\ x - y < PtrMod => Advanced(y, x % PtrMod) = x
  /\ \A x, y \in Nat : y <= x /\ x - y < PtrMod =>
       ((x % PtrMod) - (y % PtrMod)) % PtrMod = x - y
<1>1. PtrMod \in Nat \ {0}
  BY Sizes
<1> DEFINE P(k) == PtrMod * k
<1>2. ASSUME NEW x \in Nat
      PROVE  \E k \in Int, m \in Pointers : m = x % PtrMod /\ x = P(k) + m
  <2>1. x \div PtrMod \in Int /\ x % PtrMod \in Pointers /\ x = PtrMod * (x \div PtrMod) + (x % PtrMod)
    BY <1>1 DEF Pointers
  <2> QED BY <2>1
<1>3. \A d \in Nat : d < PtrMod => d % PtrMod = d
  BY <1>1
<1>4. \A k, a \in Int : (P(k) + a) % PtrMod = a % PtrMod
  BY <1>1, Turns
<1>5. /\ \A k \in Int : P(k) \in Int /\ -k \in Int /\ P(-k) = -P(k)
      /\ \A k, j \in Int : j - k \in Int /\ P(j - k) = P(j) - P(k)
  <2>1. \A k \in Int : P(k) \in Int /\ -k \in Int /\ P(-k) = -P(k)
    BY <1>1
  <2>2. ASSUME NEW k \in Int, NEW j \in Int PROVE j - k \in Int /\ P(j - k) = P(j) - P(k)
    <3>1. PtrMod * (j - k) = PtrMod * j - PtrMod * k
      BY <1>1
    <3> QED BY <3>1
  <2> QED BY <2>1, <2>2
<1> HIDE DEF P
<1>6. \A n \in Pointers : n \in Int
  BY DEF Pointers
<1>7. ASSUME NEW x \in Nat PROVE x % PtrMod \in Pointers /\ Plus1(x % PtrMod) = (x + 1) % PtrMod
  <2>1. PICK k \in Int, m \in Pointers : m = x % PtrMod /\ x = P(k) + m
    BY <1>2
  <2>2. PICK a \in Int : a = m + 1
    BY <1>6
  <2>3. x + 1 = P(k) + a
    <3>1. PICK u \in Int : u = P(k)
      BY <1>5
    <3>2. m \in Int /\ x = u + m
      BY <1>6, <2>1, <3>1
    <3>3. x + 1 = u + a
      BY <2>2, <3>2
    <3> QED BY <3>1, <3>3
  <2>4. (P(k) + a) % PtrMod = a % PtrMod
    BY <1>4
  <2> QED BY <2>1, <2>2, <2>3, <2>4 DEF Plus1
<1>8. ASSUME NEW x \in Nat, NEW y \in Nat, y <= x, x - y < PtrMod
      PROVE  /\ ((x % PtrMod) - y) % PtrMod = x - y
             /\ ((x % PtrMod) - (y % PtrMod)) % PtrMod = x - y
  <2>1. PICK k \in Int, m \in Pointers : m = x % PtrMod /\ x = P(k) + m
    BY <1>2
  <2>2. PICK j \in Int, n \in Pointers : n = y % PtrMod /\ y = P(j) + n
    BY <1>2
  <2>3. PICK d \in Nat : d = x - y
    BY <1>8, x - y \in Nat
  <2>4. d % PtrMod = d
    BY <1>3, <1>8, <2>3
  <2>5. ((x % PtrMod) - y) % PtrMod = x - y
    <3>1. PICK i \in Int : i = -k
      OBVIOUS
    <3>2. (P(i) + d) % PtrMod = d % PtrMod
      BY <1>4
    <3>3. P(i) + d = m - y
      <4>1. PICK u \in Int : u = P(k) /\ P(i) = -u
        BY <1>5, <3>1
      <4>2. m \in Int /\ x = u + m
        BY <1>6, <2>1, <4>1
      <4>3. -u + d = m - y
        BY <2>3, <4>2
      <4> QED BY <4>1, <4>3
    <3> QED BY <2>1, <2>3, <2>4, <3>2, <3>3
  <2>6. ((x % PtrMod) - (y % PtrMod)) % PtrMod = x - y
    <3>1. PICK i \in Int : i = j - k
      OBVIOUS
    <3>2. (P(i) + d) % PtrMod = d % PtrMod
      BY <1>4
    <3>3. P(i) + d = m - n
      <4>1. PICK u \in Int, v \in Int : u = P(k) /\ v = P(j) /\ P(i) = v - u
        <5>1. P(k) \in Int /\ P(j) \in Int
          BY <1>5
        <5>2. P(i) = P(j) - P(k)
          BY <1>5, <3>1
        <5> QED BY <5>1, <5>2
      <4>2. m \in Int /\ n \in Int /\ x = u + m /\ y = v + n
        BY <1>6, <2>1, <2>2, <4>1
      <4>3. (v - u) + d = m - n
        BY <2>3, <4>2
      <4> QED BY <4>1, <4>3
    <3> QED BY <2>1, <2>2, <2>3, <2>4, <3>2, <3>3
  <2> QED BY <2>5, <2>6
<1>9. ASSUME NEW x \in Nat, NEW y \in Nat, y <= x, x - y < PtrMod
      PROVE  Advanced(y, x % PtrMod) = x
  <2>1. ((x % PtrMod) - y) % PtrMod = x - y
    BY <1>8, <1>9
  <2> QED BY <2>1 DEF Advanced
<1> QED BY <1>7, <1>8, <1>9

-----------------------------------------------------------------------------
(* Arm writes on their way. *)

\* The writes that arm a completion queue, and their number.
ArmsCq(w) == w.op = "arm" /\ w.q # "eq"
ArmsIn(s) == {i \in 1..Len(s) : ArmsCq(s[i])}
Arms(s) == Cardinality(ArmsIn(s))
One(b) == IF b THEN 1 ELSE 0

\* The number is finite, zero where nothing arms, and one for a write that arms.
LEMMA ArmsFew ==
  ASSUME NEW s \in Seq(Writes)
  PROVE  /\ IsFiniteSet(ArmsIn(s)) /\ Arms(s) \in Nat
         /\ (\A i \in DOMAIN s : ~ArmsCq(s[i])) => Arms(s) = 0
         /\ Len(s) = 1 /\ ArmsCq(s[1]) => Arms(s) = 1
<1>1. ArmsIn(s) \subseteq 1..Len(s) /\ Len(s) \in Nat
  BY DEF ArmsIn
<1>2. IsFiniteSet(ArmsIn(s)) /\ Arms(s) \in Nat
  <2>1. IsFiniteSet(1..Len(s))
    BY <1>1, FS_Interval
  <2> QED BY <1>1, <2>1, FS_Subset, FS_CardinalityType DEF Arms
<1>3. ASSUME \A i \in DOMAIN s : ~ArmsCq(s[i]) PROVE Arms(s) = 0
  <2>1. ArmsIn(s) = {}
    BY <1>3 DEF ArmsIn
  <2> QED BY <2>1, FS_EmptySet DEF Arms
<1>4. ASSUME Len(s) = 1, ArmsCq(s[1]) PROVE Arms(s) = 1
  <2>1. ArmsIn(s) = {1}
    BY <1>4 DEF ArmsIn
  <2> QED BY <2>1, FS_Singleton DEF Arms
<1> QED BY <1>2, <1>3, <1>4

\* Writes posted after others add to their number.
LEMMA ArmsConcat ==
  ASSUME NEW s \in Seq(Writes), NEW w \in Seq(Writes)
  PROVE  s \o w \in Seq(Writes) /\ Arms(s \o w) = Arms(s) + Arms(w)
<1> DEFINE n == Len(s)
           t == s \o w
           S == ArmsIn(s)
           T == ArmsIn(w)
           R == {i \in ArmsIn(t) : i > n}
           f == [i \in T |-> n + i]
<1>1. /\ n \in Nat /\ Len(w) \in Nat /\ t \in Seq(Writes) /\ Len(t) = n + Len(w)
      /\ \A i \in 1..n : t[i] = s[i]
      /\ \A i \in 1..Len(w) : t[n + i] = w[i]
  OBVIOUS
<1> HIDE DEF t
<1>2. /\ IsFiniteSet(S) /\ IsFiniteSet(T) /\ Cardinality(S) \in Nat /\ Cardinality(T) \in Nat
      /\ Arms(s) = Cardinality(S) /\ Arms(w) = Cardinality(T) /\ Arms(t) = Cardinality(ArmsIn(t))
  BY ArmsFew DEF Arms
<1>3. \A i \in T : i \in 1..Len(w) /\ n + i \in R
  BY <1>1 DEF ArmsIn
<1>4. ASSUME NEW r \in R PROVE r - n \in T /\ n + (r - n) = r
  <2>1. r \in 1..(n + Len(w)) /\ r > n /\ ArmsCq(t[r])
    BY <1>1 DEF ArmsIn
  <2>2. r - n \in 1..Len(w) /\ n + (r - n) = r
    BY <1>1, <2>1
  <2>3. w[r - n] = t[r]
    BY <1>1, <2>2
  <2> QED BY <2>1, <2>2, <2>3 DEF ArmsIn
<1>5. ArmsIn(t) = S \cup R /\ S \cap R = {}
  <2>1. \A i \in S : i \in 1..n /\ i \in ArmsIn(t)
    BY <1>1 DEF ArmsIn
  <2>2. \A i \in ArmsIn(t) : ~(i > n) => i \in S
    BY <1>1 DEF ArmsIn
  <2>3. \A i \in 1..n : ~(i > n)
    BY <1>1
  <2> QED BY <2>1, <2>2, <2>3
<1> HIDE DEF S, T, R
<1>6. f \in Bijection(T, R)
  <2>1. f \in [T -> R]
    BY <1>3
  <2>2. \A i, j \in T : i # j => f[i] # f[j]
    BY <1>1, <1>3
  <2>3. \A r \in R : \E i \in T : f[i] = r
    BY <1>4
  <2> HIDE DEF f
  <2>4. f \in Injection(T, R) /\ f \in Surjection(T, R)
    BY <2>1, <2>2, <2>3 DEF Injection, Surjection, IsInjective
  <2> QED BY <2>4 DEF Bijection
<1>7. IsFiniteSet(R) /\ Cardinality(R) = Cardinality(T)
  <2>1. ExistsBijection(T, R)
    BY <1>6 DEF ExistsBijection
  <2> QED BY <1>2, <2>1, FS_Bijection
<1>8. Cardinality(S \cup R) = Cardinality(S) + Cardinality(T)
  <2>1. Cardinality(S \cup R) = Cardinality(S) + Cardinality(R) - Cardinality(S \cap R)
    BY <1>2, <1>7, FS_Union
  <2>2. Cardinality(S \cap R) = 0
    BY <1>5, FS_EmptySet
  <2> QED BY <1>2, <1>7, <2>1, <2>2
<1> QED BY <1>1, <1>2, <1>5, <1>8 DEF t

\* A write that reaches the device is counted no more.
LEMMA ArmsTail ==
  ASSUME NEW s \in Seq(Writes), s # <<>>
  PROVE  /\ ArmsCq(Head(s)) => Arms(s) = Arms(Tail(s)) + 1
         /\ ~ArmsCq(Head(s)) => Arms(s) = Arms(Tail(s))
<1>1. PICK h \in Seq(Writes), t \in Seq(Writes) :
        h = <<Head(s)>> /\ t = Tail(s) /\ s = h \o t /\ Len(h) = 1 /\ h[1] = Head(s)
  <2>1. <<Head(s)>> \in Seq(Writes) /\ Tail(s) \in Seq(Writes) /\ s = <<Head(s)>> \o Tail(s)
    OBVIOUS
  <2> QED BY <2>1
<1>2. Arms(s) = Arms(h) + Arms(t) /\ Arms(h) \in Nat /\ Arms(t) \in Nat
  <2>1. Arms(h \o t) = Arms(h) + Arms(t)
    BY ArmsConcat
  <2>2. Arms(h) \in Nat /\ Arms(t) \in Nat
    BY ArmsFew
  <2> QED BY <1>1, <2>1, <2>2
<1>3. ArmsCq(Head(s)) => Arms(h) = 1
  BY <1>1, ArmsFew
<1>4. ~ArmsCq(Head(s)) => Arms(h) = 0
  <2>1. DOMAIN h = {1}
    BY <1>1
  <2> QED BY <1>1, <2>1, ArmsFew
<1> QED BY <1>1, <1>2, <1>3, <1>4

-----------------------------------------------------------------------------
(* The events.  C is the number of events that the event queue has in memory, t *)
(* where its tail pointer is; both pointers are of 16 bits.  The driver has the *)
(* events up to Handled behind it.                                            *)

EQ == q["eq"]
EqTail(w) == w.op = "tail" /\ w.q = "eq"
Handling == {"cq", "ring", "finish"}
Handled == IF intr.pc \in Handling THEN intr.at ELSE eq.tail

EventRing(C, t) ==
  /\ EQ.head = Ptr(C) /\ EQ.tail = Ptr(t) /\ \A j \in DOMAIN EQ.ops : EQ.ops[j].ptr = Ptr(C + j)
  /\ eq.head <= C /\ t <= eq.tail /\ eq.head <= t + 2

\* The tail pointer that the driver writes is where it has got to, and it has
\* reached the device before the driver reads other events.
EventTail(t) ==
  /\ \A i \in DOMAIN posted : EqTail(posted[i]) => posted[i].val = Ptr(eq.tail)
  /\ (\A i \in DOMAIN posted : ~EqTail(posted[i])) => t = eq.tail
  /\ intr.pc \in Handling => \A i \in DOMAIN posted : ~EqTail(posted[i])
EventsRead ==
  /\ intr.pc = "finish" => intr.at = eq.head
  /\ intr.pc \notin Handling => eq.tail = eq.head

\* No completion queue is armed before the event queue is active.
EventsActive(C) ==
  /\ ~EQ.active => C = 0 /\ EQ.ops = <<>>
  /\ \A d \in Dirs : CQ(d).armed \/ events[d] > 0 => EQ.active
  /\ \A i \in DOMAIN posted : ArmsCq(posted[i]) => EQ.active \/ Due("eq", i - 1)

\* A completion queue that is armed raises one event and is armed again when
\* the driver has handled it: of arming to come, arm writes on their way, armed
\* queues and events there are two at most.
ToArm == IF Len(main) >= 5 THEN 2 ELSE IF Len(main) >= 2 THEN 1 ELSE 0
Armed == One(CQ("tx").armed) + One(CQ("rx").armed) + events["tx"] + events["rx"]
Armings(C) == ToArm + Arms(posted) + Armed + ((C + Len(EQ.ops)) - Handled)

EventsOK(C, t) ==
  EventRing(C, t) /\ EventTail(t) /\ EventsRead /\ EventsActive(C) /\ Armings(C) <= 2
EventInv == \E C, t \in Nat : EventsOK(C, t)

\* What the parts of the count are, and how far the events are apart.
LEMMA ArmingsAre ==
  ASSUME NicInv, NEW C \in Nat, NEW t \in Nat, EventsOK(C, t)
  PROVE  /\ ToArm \in Nat /\ Arms(posted) \in Nat /\ Armed \in Nat
         /\ One(CQ("tx").armed) \in Nat /\ One(CQ("rx").armed) \in Nat
         /\ events["tx"] \in Nat /\ events["rx"] \in Nat /\ Len(EQ.ops) \in Nat
         /\ Handled \in Nat /\ Handled <= eq.head /\ eq.head \in Nat /\ eq.tail \in Nat
         /\ eq.head <= C /\ eq.tail <= Handled
         /\ Armings(C) <= 2 /\ (C + Len(EQ.ops)) - Handled \in Nat /\ C + Len(EQ.ops) <= Handled + 2
<1>1. Types /\ AtEvent /\ "tx" \in Dirs /\ "rx" \in Dirs /\ "eq" \in Queues
  BY Names DEF NicInv, Queues
<1>2. /\ intr.at \in Nat /\ eq.head \in Nat /\ eq.tail \in Nat /\ eq.tail <= eq.head
      /\ EQ.ops \in Seq(Operations) /\ Len(EQ.ops) \in Nat /\ posted \in Seq(Writes)
      /\ events["tx"] \in Nat /\ events["rx"] \in Nat
  BY <1>1, RecordTypes, WriteTypes DEF EQ
<1>3. ToArm \in Nat /\ Arms(posted) \in Nat
      /\ One(CQ("tx").armed) \in Nat /\ One(CQ("rx").armed) \in Nat /\ Armed \in Nat
  <2>1. ToArm \in Nat /\ Arms(posted) \in Nat
    BY <1>2, ArmsFew DEF ToArm
  <2>2. PICK y, z \in Nat : y = One(CQ("tx").armed) /\ z = One(CQ("rx").armed)
    BY DEF One
  <2>3. PICK u, v \in Nat : u = events["tx"] /\ v = events["rx"]
    BY <1>2
  <2>4. Armed = y + z + u + v
    BY <2>2, <2>3 DEF Armed
  <2>5. y + z + u + v \in Nat
    OBVIOUS
  <2>6. Armed \in Nat
    BY <2>4, <2>5
  <2> QED BY <2>1, <2>2, <2>6
<1>4. Handled \in Nat /\ Handled <= eq.head /\ eq.tail <= Handled
  BY <1>1, <1>2 DEF Handled, Handling, AtEvent, EventsOK, EventsRead
<1>5. eq.head <= C /\ Armings(C) <= 2
  BY DEF EventsOK, EventRing
<1>6. (C + Len(EQ.ops)) - Handled \in Nat
  BY <1>2, <1>4, <1>5
<1>7. C + Len(EQ.ops) <= Handled + 2
  <2>1. PICK x1, x2, x3 \in Nat : x1 = ToArm /\ x2 = Arms(posted) /\ x3 = Armed
    BY <1>3
  <2>2. PICK z \in Nat : z = (C + Len(EQ.ops)) - Handled
    BY <1>6
  <2>3. x1 + x2 + x3 + z <= 2
    BY <1>5, <2>1, <2>2 DEF Armings
  <2>4. z <= 2
    BY <2>3
  <2> QED BY <1>2, <1>4, <2>2, <2>4
<1> QED BY <1>2, <1>3, <1>4, <1>5, <1>6, <1>7

\* Steps that touch neither the event queue nor what is armed or posted.
LEMMA EventsStill ==
  ASSUME NEW C, NEW t, EventsOK(C, t), UNCHANGED <<eq, posted, main, events, intr>>,
         EQ' = EQ, \A d \in Dirs : CQ(d)'.armed = CQ(d).armed
  PROVE  EventsOK(C, t)'
<1>1. EventRing(C, t)' /\ EventTail(t)' /\ EventsRead'
  BY DEF EventsOK, EventRing, EventTail, EventsRead
<1>2. EventsActive(C)'
  BY DEF EventsOK, EventsActive, Due
<1>3. Armings(C)' = Armings(C)
  BY Names DEF Armings, Armed, ToArm, Handled
<1> QED BY <1>1, <1>2, <1>3 DEF EventsOK

\* What is armed more is handled more, or was to be armed.
LEMMA SameTotal ==
  ASSUME NEW x1 \in Nat, NEW x2 \in Nat, NEW x3 \in Nat, NEW m \in Nat, NEW h \in Nat,
         NEW y \in Nat, NEW b \in Nat, NEW g \in Nat, (y + b) + h = x1 + g
  PROVE  x1 + x2 + x3 + (m - h) = y + (x2 + b) + x3 + (m - g)
OBVIOUS

\* Writes are posted; one that arms a completion queue is due, or follows an event
\* that is handled.
LEMMA PostedArmings ==
  ASSUME NicInv, NEW C \in Nat, NEW t \in Nat, EventsOK(C, t),
         NEW ws \in Seq(Writes), posted' = posted \o ws, UNCHANGED <<q, events>>,
         \A i \in DOMAIN ws : ArmsCq(ws[i]) => EQ.active \/ Due("eq", Len(posted)),
         ToArm' \in Nat, Handled' \in Nat, (ToArm' + Arms(ws)) + Handled = ToArm + Handled'
  PROVE  EventsActive(C)' /\ Armings(C)' = Armings(C)
<1>1. Types /\ posted \in Seq(Writes) /\ Len(posted) \in Nat
  BY WriteTypes DEF NicInv
<1>2. /\ Len(ws) \in Nat /\ DOMAIN posted' = 1..(Len(posted) + Len(ws))
      /\ \A i \in 1..Len(posted) : posted'[i] = posted[i]
      /\ \A i \in DOMAIN posted' : i > Len(posted) =>
           i - Len(posted) \in DOMAIN ws /\ posted'[i] = ws[i - Len(posted)]
      /\ DOMAIN posted = 1..Len(posted)
  BY <1>1, PostedIs, WriteTypes
<1>3. \A i \in DOMAIN posted' : i \in DOMAIN posted \/ i > Len(posted)
  BY <1>1, <1>2
<1>4. EQ' = EQ /\ \A d \in Dirs : CQ(d)' = CQ(d)
  BY DEF EQ, CQ
<1>5. EventsActive(C)'
  <2>1. ASSUME NEW i \in DOMAIN posted', ArmsCq(posted'[i])
        PROVE  EQ.active \/ Due("eq", i - 1)'
    <3>1. CASE i \in DOMAIN posted
      <4>1. EQ.active \/ Due("eq", i - 1)
        BY <1>2, <2>1, <3>1 DEF EventsOK, EventsActive
      <4>2. \A j \in 1..(i - 1) : posted'[j] = posted[j]
        BY <1>1, <1>2, <3>1
      <4> QED BY <4>1, <4>2 DEF Due
    <3>2. CASE i > Len(posted)
      <4>1. EQ.active \/ Due("eq", Len(posted))
        BY <1>2, <2>1, <3>2
      <4>2. \A j \in 1..Len(posted) : j \in 1..(i - 1) /\ posted'[j] = posted[j]
        BY <1>1, <1>2, <3>2
      <4> QED BY <4>1, <4>2 DEF Due
    <3> QED BY <1>3, <3>1, <3>2
  <2> QED BY <1>4, <2>1 DEF EventsOK, EventsActive
<1>6. Armings(C)' = Armings(C)
  <2>1. Arms(posted)' = Arms(posted) + Arms(ws) /\ Arms(ws) \in Nat
    BY <1>1, ArmsConcat, ArmsFew
  <2>2. PICK x1, x2, x3 \in Nat : x1 = ToArm /\ x2 = Arms(posted) /\ x3 = Armed
    BY ArmingsAre
  <2>3. PICK b, h, m \in Nat : b = Arms(ws) /\ h = Handled /\ m = C + Len(EQ.ops)
    <3>1. Len(EQ.ops) \in Nat /\ Handled \in Nat
      BY ArmingsAre
    <3>2. C + Len(EQ.ops) \in Nat
      BY <3>1
    <3> QED BY <2>1, <3>1, <3>2
  <2>4. PICK y, g \in Nat : y = ToArm' /\ g = Handled' /\ (y + b) + h = x1 + g
    BY <2>2, <2>3
  <2>5. Armings(C) = x1 + x2 + x3 + (m - h)
    BY <2>2, <2>3 DEF Armings
  <2>6. Armings(C)' = y + (x2 + b) + x3 + (m - g)
    <3>1. Armed' = x3 /\ (C + Len(EQ.ops))' = m /\ Arms(posted)' = x2 + b
      BY <1>4, <2>1, <2>2, <2>3, Names DEF Armed
    <3> QED BY <2>4, <3>1 DEF Armings
  <2>7. x1 + x2 + x3 + (m - h) = y + (x2 + b) + x3 + (m - g)
    <3>1. (y + b) + h = x1 + g
      BY <2>4
    <3> QED BY <3>1, SameTotal
  <2> QED BY <2>5, <2>6, <2>7
<1> QED BY <1>5, <1>6

\* Writes are posted that leave the event queue alone.
LEMMA EventsPosted ==
  ASSUME NicInv, NEW C \in Nat, NEW t \in Nat, EventsOK(C, t),
         NEW ws \in Seq(Writes), posted' = posted \o ws, UNCHANGED <<eq, q, events>>,
         \A i \in DOMAIN ws : ~EqTail(ws[i]),
         \A i \in DOMAIN ws : ArmsCq(ws[i]) => EQ.active \/ Due("eq", Len(posted)),
         intr'.pc \in Handling => intr.pc \in Handling, EventsRead',
         ToArm' \in Nat, Handled' \in Nat, (ToArm' + Arms(ws)) + Handled = ToArm + Handled'
  PROVE  EventsOK(C, t)'
<1>1. Types /\ posted \in Seq(Writes) /\ Len(posted) \in Nat
  BY WriteTypes DEF NicInv
<1>2. /\ Len(ws) \in Nat /\ DOMAIN posted' = 1..(Len(posted) + Len(ws))
      /\ \A i \in 1..Len(posted) : posted'[i] = posted[i]
      /\ \A i \in DOMAIN posted' : i > Len(posted) =>
           i - Len(posted) \in DOMAIN ws /\ posted'[i] = ws[i - Len(posted)]
      /\ DOMAIN posted = 1..Len(posted)
  BY <1>1, PostedIs, WriteTypes
<1>3. \A i \in DOMAIN posted' : i \in DOMAIN posted \/ i > Len(posted)
  BY <1>1, <1>2
<1>4. EQ' = EQ /\ \A d \in Dirs : CQ(d)' = CQ(d)
  BY DEF EQ, CQ
<1>5. EventRing(C, t)'
  BY <1>4 DEF EventsOK, EventRing
<1>6. EventTail(t)'
  <2>1. \A i \in DOMAIN posted' : EqTail(posted'[i]) => i \in DOMAIN posted /\ posted'[i] = posted[i]
    BY <1>2, <1>3
  <2>2. \A i \in DOMAIN posted : i \in DOMAIN posted' /\ posted'[i] = posted[i]
    BY <1>1, <1>2
  <2> QED BY <2>1, <2>2 DEF EventsOK, EventTail
<1>7. EventsActive(C)' /\ Armings(C)' = Armings(C)
  BY PostedArmings
<1> QED BY <1>5, <1>6, <1>7 DEF EventsOK

\* The interrupt callback starts.
LEMMA InterruptEvents ==
  ASSUME NicInv, NEW C \in Nat, NEW t \in Nat, EventsOK(C, t), Interrupt
  PROVE  EventsOK(C, t)'
<1>1. UNCHANGED <<eq, posted, main, events, q>> /\ intr = [pc |-> intr.pc, at |-> intr.at, pending |-> intr.pending]
  BY RecordTypes DEF NicInv, Interrupt
<1>2. /\ intr.pc = "idle" => intr'.pc = "events" /\ intr'.at = intr.at
      /\ intr.pc # "idle" => intr'.pc = intr.pc /\ intr'.at = intr.at
  BY <1>1 DEF Interrupt
<1>3. /\ intr'.pc \in Handling <=> intr.pc \in Handling
      /\ intr'.at = intr.at /\ (intr'.pc = "finish" <=> intr.pc = "finish")
  BY <1>2 DEF Handling
<1>4. EQ' = EQ /\ \A d \in Dirs : CQ(d)' = CQ(d)
  BY <1>1 DEF EQ, CQ
<1>5. EventRing(C, t)' /\ EventTail(t)' /\ EventsRead'
  BY <1>1, <1>3, <1>4 DEF EventsOK, EventRing, EventTail, EventsRead
<1>6. EventsActive(C)'
  BY <1>1, <1>4 DEF EventsOK, EventsActive, Due
<1>7. Armings(C)' = Armings(C)
  BY <1>1, <1>3, <1>4, Names DEF Armings, Armed, ToArm, Handled
<1> QED BY <1>5, <1>6, <1>7 DEF EventsOK

\* The head pointer that a refill writes is one write, or none.
LEMMA HeadWriteIs ==
  ASSUME NEW r \in RingRecords
  PROVE  HeadWrite(r) \in Seq(Writes) /\ \A i \in DOMAIN HeadWrite(r) : HeadWrite(r)[i].op = "head"
<1>1. r.head + RefillCount(r) \in Int
  BY Sizes DEF RefillCount, Missing, RingRecords
<1>2. SetHead("rxq", r.head + RefillCount(r)) \in Writes
      /\ SetHead("rxq", r.head + RefillCount(r)).op = "head"
  BY <1>1, WriteIs DEF Queues
<1>3. PICK w \in Writes : w = SetHead("rxq", r.head + RefillCount(r)) /\ w.op = "head"
  BY <1>2
<1>4. HeadWrite(r) = <<>> \/ HeadWrite(r) = <<w>>
  BY <1>3 DEF HeadWrite
<1>5. <<w>> \in Seq(Writes) /\ \A i \in DOMAIN <<w>> : <<w>>[i].op = "head"
  BY <1>3
<1>6. <<>> \in Seq(Writes) /\ DOMAIN <<>> = {}
  OBVIOUS
<1> QED BY <1>4, <1>5, <1>6

\* Which step of open is which.
ArmsStep(step) == step = "arm rxcq" \/ step = "arm txcq"
LEMMA OpenWhich ==
  ASSUME Types, Activation, main # <<>>, NEW step, step = Head(main)
  PROVE  \E L \in 1..8 :
           /\ L = Len(main) /\ Len(Tail(main)) = L - 1 /\ step \in Steps
           /\ ArmsStep(step) <=> (L = 5 \/ L = 2)
           /\ step = "eq" <=> L = 8
<1>1. PICK L \in Nat : L = Len(main) /\ main \in Seq(Steps) /\ L <= 8
  BY DEF Activation
<1>2. L \in 1..8 /\ step = main[1] /\ step \in Steps /\ Len(Tail(main)) = L - 1
  <2>1. /\ Head(main) = main[1] /\ Head(main) \in Steps /\ Len(main) >= 1
        /\ Len(Tail(main)) = Len(main) - 1
    BY <1>1, TailIs
  <2>2. L \in 1..8 /\ Len(Tail(main)) = L - 1
    <3>1. L >= 1 /\ L <= 8 /\ Len(Tail(main)) = L - 1
      BY <1>1, <2>1, Zenon
    <3>2. L \in 1..8
      BY <3>1
    <3> QED BY <3>1, <3>2
  <2>3. step = main[1] /\ step \in Steps
    BY <2>1, Zenon
  <2> QED BY <2>2, <2>3
<1>3. 1 \in 1..L /\ 8 - L + 1 = 9 - L
  BY <1>2
<1>4. main[1] = ToDo[9 - L]
  BY <1>1, <1>3 DEF Activation
<1>5. /\ ToDo[1] = "eq" /\ ToDo[2] = "arm eq" /\ ToDo[3] = "rxcq" /\ ToDo[4] = "arm rxcq"
      /\ ToDo[5] = "rxq" /\ ToDo[6] = "txcq" /\ ToDo[7] = "arm txcq" /\ ToDo[8] = "txq"
  BY DEF ToDo
<1>6. PICK s \in 1..8 : s = 9 - L /\ L = 9 - s
  <2>1. 9 - L \in 1..8 /\ L = 9 - (9 - L)
    BY <1>2
  <2> QED BY <2>1
<1>7. step = ToDo[s]
  BY <1>2, <1>4, <1>6
<1>8. s = 1 \/ s = 2 \/ s = 3 \/ s = 4 \/ s = 5 \/ s = 6 \/ s = 7 \/ s = 8
  BY <1>6
<1>9. /\ ArmsStep(step) <=> (s = 4 \/ s = 7)
      /\ step = "eq" <=> s = 1
  <2>1. s = 4 \/ s = 7 => ArmsStep(step)
    BY <1>5, <1>7 DEF ArmsStep
  <2>2. s # 4 /\ s # 7 => ~ArmsStep(step)
    BY <1>5, <1>7, <1>8, ZenonT(60) DEF ArmsStep
  <2>3. s = 1 <=> step = "eq"
    BY <1>5, <1>7, <1>8, ZenonT(60)
  <2> QED BY <2>1, <2>2, <2>3
<1>10. /\ (s = 4 \/ s = 7) <=> (L = 5 \/ L = 2)
       /\ s = 1 <=> L = 8
  BY <1>6
<1> QED BY <1>1, <1>2, <1>9, <1>10

\* open takes a step.
LEMMA OpenEvents ==
  ASSUME NicInv, NEW C \in Nat, NEW t \in Nat, EventsOK(C, t), Open
  PROVE  EventsOK(C, t)'
<1>1. PICK step : step = Head(main)
  OBVIOUS
<1>2. /\ main # <<>> /\ main' = Tail(main) /\ Types /\ Activation
      /\ UNCHANGED <<cq, eq, intr, q, events>>
  BY <1>1, OpenIs DEF NicInv
<1>3. PICK L \in 1..8 : /\ L = Len(main) /\ Len(Tail(main)) = L - 1 /\ step \in Steps
                        /\ ArmsStep(step) <=> (L = 5 \/ L = 2)
                        /\ step = "eq" <=> L = 8
  BY <1>1, <1>2, OpenWhich
<1>4. EventsRead' /\ Handled' = Handled /\ Handled \in Nat /\ (intr'.pc \in Handling => intr.pc \in Handling)
  BY <1>2, ArmingsAre DEF Handled, EventsOK, EventsRead
<1>5. /\ ArmsStep(step) => ToArm = ToArm' + 1
      /\ ~ArmsStep(step) => ToArm = ToArm'
      /\ ToArm' \in Nat
  <2>1. Len(main)' = L - 1
    BY <1>2, <1>3
  <2> QED BY <1>3, <2>1 DEF ToArm
<1>6. step # "eq" => EQ.active \/ Due("eq", Len(posted))
  <2> SUFFICES ASSUME step # "eq" PROVE EQ.active \/ Due("eq", Len(posted))
    OBVIOUS
  <2>1. "eq" \in Queues /\ Turn["eq"] = 1
    BY DEF Queues, Turn
  <2>2. ~(L > 8 - 1)
    BY <1>3
  <2>3. ~ToCome("eq")
    BY <1>3, <2>1, <2>2 DEF ToCome
  <2> QED BY <1>2, <2>1, <2>3 DEF Activation, EQ
<1>7. CASE ArmsStep(step)
  <2>1. PICK x \in Queues : x # "eq" /\ posted' = posted \o <<ArmQ(x)>>
    <3>1. posted' = posted \o <<ArmQ("rxcq")>> \/ posted' = posted \o <<ArmQ("txcq")>>
      BY <1>1, <1>7, OpenIs, Zenon DEF ArmsStep
    <3>2. "rxcq" \in Queues /\ "txcq" \in Queues /\ "rxcq" # "eq" /\ "txcq" # "eq"
      BY DEF Queues
    <3> QED BY <3>1, <3>2
  <2>2. PICK w \in Writes : w = ArmQ(x) /\ w.op = "arm" /\ w.q = x
    <3>1. ArmQ(x) \in Writes /\ ArmQ(x).op = "arm"
      BY WriteIs
    <3>2. ArmQ(x).q = x
      BY DEF ArmQ
    <3> QED BY <3>1, <3>2
  <2>3. PICK ws \in Seq(Writes) : ws = <<w>> /\ Len(ws) = 1 /\ ws[1] = w /\ DOMAIN ws = {1}
    <3>1. <<w>> \in Seq(Writes) /\ Len(<<w>>) = 1 /\ <<w>>[1] = w /\ DOMAIN <<w>> = {1}
      OBVIOUS
    <3> QED BY <3>1
  <2>4. ArmsCq(w) /\ ~EqTail(w)
    BY <2>1, <2>2 DEF ArmsCq, EqTail
  <2>5. Arms(ws) = 1
    BY <2>3, <2>4, ArmsFew
  <2>6. (ToArm' + Arms(ws)) + Handled = ToArm + Handled'
    BY <1>4, <1>5, <1>7, <2>5
  <2>7. EQ.active \/ Due("eq", Len(posted))
    <3>1. L = 5 \/ L = 2
      BY <1>3, <1>7, Zenon
    <3>2. L # 8
      BY <3>1
    <3>3. step # "eq"
      BY <1>3, <3>2, Zenon
    <3> QED BY <1>6, <3>3
  <2> QED BY <1>2, <1>4, <1>5, <2>1, <2>2, <2>3, <2>4, <2>6, <2>7, EventsPosted
<1>8. CASE ~ArmsStep(step)
  <2>1. PICK ws \in Seq(Writes) :
          posted' = posted \o ws /\ \A i \in DOMAIN ws : ~ArmsCq(ws[i]) /\ ~EqTail(ws[i])
    <3>1. CASE step = "arm eq"
      <4>1. ArmQ("eq") \in Writes /\ ~ArmsCq(ArmQ("eq")) /\ ~EqTail(ArmQ("eq"))
        <5>1. ArmQ("eq") \in Writes
          BY WriteIs DEF Queues
        <5> QED BY <5>1 DEF ArmQ, ArmsCq, EqTail
      <4>2. PICK w \in Writes : w = ArmQ("eq") /\ ~ArmsCq(w) /\ ~EqTail(w)
        BY <4>1
      <4>3. <<w>> \in Seq(Writes) /\ \A i \in DOMAIN <<w>> : <<w>>[i] = w
        OBVIOUS
      <4>4. posted' = posted \o <<w>>
        BY <1>1, <3>1, <4>2, OpenIs
      <4> QED BY <4>2, <4>3, <4>4
    <3>2. CASE step # "arm eq"
      <4>1. step \in Queues
        BY <1>3, <1>8, <3>2, Zenon DEF Steps, Queues, ArmsStep
      <4>2. PICK w \in Writes : w = ActivateQ(step) /\ ~ArmsCq(w) /\ ~EqTail(w)
        BY <4>1, WriteIs DEF ArmsCq, EqTail
      <4>3. PICK hw \in Seq(Writes) :
              posted' = posted \o (<<w>> \o hw) /\ \A i \in DOMAIN hw : hw[i].op = "head"
        <5>1. CASE step = "rxq"
          <6>1. ring["rx"] \in RingRecords
            BY <1>2, Names DEF Types, DriverTypes
          <6>2. posted' = posted \o (<<w>> \o HeadWrite(ring["rx"]))
            BY <1>1, <4>2, <5>1, OpenIs DEF ActivateRx
          <6> QED BY <6>1, <6>2, HeadWriteIs
        <5>2. CASE step # "rxq"
          <6>1. posted' = posted \o <<w>>
            BY <1>1, <4>1, <4>2, <5>2, OpenIs DEF Queues
          <6>2. <<w>> \o <<>> = <<w>> /\ <<>> \in Seq(Writes) /\ \A i \in DOMAIN <<>> : FALSE
            OBVIOUS
          <6> QED BY <6>1, <6>2
        <5> QED BY <5>1, <5>2
      <4>4. PICK ws \in Seq(Writes) : ws = <<w>> \o hw
        <5>1. <<w>> \o hw \in Seq(Writes)
          OBVIOUS
        <5> QED BY <5>1
      <4>5. \A i \in DOMAIN ws : ws[i] = w \/ ws[i].op = "head"
        BY <4>3, <4>4
      <4>6. \A i \in DOMAIN ws : ~ArmsCq(ws[i]) /\ ~EqTail(ws[i])
        BY <4>2, <4>5 DEF ArmsCq, EqTail
      <4> QED BY <4>3, <4>4, <4>6
    <3> QED BY <3>1, <3>2
  <2>2. Arms(ws) = 0
    BY <2>1, ArmsFew
  <2>3. (ToArm' + Arms(ws)) + Handled = ToArm + Handled'
    BY <1>4, <1>5, <1>8, <2>2
  <2> QED BY <1>2, <1>4, <1>5, <2>1, <2>3, EventsPosted
<1> QED BY <1>7, <1>8

\* A frame is handed to start_xmit.
LEMMA StartXmitEvents ==
  ASSUME NicInv, NEW C \in Nat, NEW t \in Nat, EventsOK(C, t), StartXmit
  PROVE  EventsOK(C, t)'
<1>1. PICK h : h = Fill("tx", ring["tx"], 1).ring.head
  OBVIOUS
<1>2. /\ posted' = Append(posted, SetHead("txq", h))
      /\ UNCHANGED <<cq, eq, main, intr, q, events>>
  BY <1>1 DEF StartXmit
<1>3. h \in Int
  <2>1. Types /\ Spare /\ ring["tx"] \in RingRecords /\ 1 \in 0..Size /\ "tx" \in Dirs
    BY Sizes, Names DEF NicInv, PoolOK, Spare, Types, DriverTypes
  <2>2. h = ring["tx"].head + 1
    BY <1>1, <2>1, FillFacts
  <2> QED BY <2>1, <2>2 DEF RingRecords
<1>4. PICK w \in Writes : w = SetHead("txq", h) /\ ~ArmsCq(w) /\ ~EqTail(w)
  BY <1>3, WriteIs DEF Queues, ArmsCq, EqTail
<1>5. PICK ws \in Seq(Writes) : ws = <<w>> /\ DOMAIN ws = {1} /\ ws[1] = w
  <2>1. <<w>> \in Seq(Writes) /\ DOMAIN <<w>> = {1} /\ <<w>>[1] = w
    OBVIOUS
  <2> QED BY <2>1
<1>6. posted' = posted \o ws
  BY <1>2, <1>4, <1>5, AppendIsConcat, WriteTypes DEF NicInv
<1>7. Arms(ws) = 0 /\ \A i \in DOMAIN ws : ~ArmsCq(ws[i]) /\ ~EqTail(ws[i])
  BY <1>4, <1>5, ArmsFew
<1>8. EventsRead' /\ Handled' = Handled /\ ToArm' = ToArm
  BY <1>2 DEF EventsOK, EventsRead, Handled, ToArm
<1>9. Handled \in Nat /\ ToArm \in Nat /\ (ToArm' + Arms(ws)) + Handled = ToArm + Handled'
  BY <1>7, <1>8, ArmingsAre
<1> QED BY <1>2, <1>6, <1>7, <1>8, <1>9, EventsPosted

\* The driver reads how far the event queue has got.
LEMMA ReadEventsEvents ==
  ASSUME NicInv, NEW C \in Nat, NEW t \in Nat, EventsOK(C, t), EvSize >= 4, ReadEvents
  PROVE  EventsOK(C, t)'
<1>1. /\ intr = [pc |-> intr.pc, at |-> intr.at, pending |-> intr.pending] /\ intr.pc = "events"
      /\ eq = [head |-> eq.head, tail |-> eq.tail]
      /\ UNCHANGED <<posted, main, q, events>>
  BY RecordTypes DEF NicInv, ReadEvents
<1>2. EQ' = EQ /\ \A d \in Dirs : CQ(d)' = CQ(d)
  BY <1>1 DEF EQ, CQ
<1>3. eq.tail = eq.head /\ Handled = eq.tail
  BY <1>1 DEF EventsOK, EventsRead, Handled, Handling
<1>4. EventsActive(C)'
  BY <1>1, <1>2 DEF EventsOK, EventsActive, Due
<1>5. CASE ~portUp
  <2>1. intr'.pc = "arm" /\ eq' = eq
    BY <1>1, <1>5 DEF ReadEvents
  <2>2. EventRing(C, t)' /\ EventTail(t)' /\ EventsRead'
    BY <1>1, <1>2, <1>3, <2>1 DEF EventsOK, EventRing, EventTail, EventsRead, Handling
  <2>3. Handled' = Handled
    BY <1>3, <2>1 DEF Handled, Handling
  <2>4. Armings(C)' = Armings(C)
    BY <1>1, <1>2, <2>3, Names DEF Armings, Armed, ToArm
  <2> QED BY <1>4, <2>2, <2>4 DEF EventsOK
<1>6. CASE portUp
  <2>1. posted = <<>> /\ eq' = [eq EXCEPT !.head = Advanced(eq.head, EQ.head)]
        /\ intr' = [intr EXCEPT !.pc = IF eq'.head = eq.tail THEN "finish" ELSE "cq", !.at = eq.tail]
    BY <1>6 DEF ReadEvents, ReadDone, EQ
  <2>2. t = eq.tail
    <3>1. DOMAIN posted = {}
      BY <2>1
    <3> QED BY <3>1 DEF EventsOK, EventTail
  <2>3. Advanced(eq.head, EQ.head) = C
    <3>1. C \in Nat /\ eq.head \in Nat /\ eq.head <= C /\ C - eq.head < PtrMod
      <4>1. /\ eq.head \in Nat /\ eq.head <= C /\ Len(EQ.ops) \in Nat
            /\ C + Len(EQ.ops) <= Handled + 2
        BY ArmingsAre
      <4> QED BY <1>3, <4>1, Sizes
    <3>2. EQ.head = C % PtrMod
      BY DEF EventsOK, EventRing, Ptr
    <3> QED BY <3>1, <3>2, Wrapped
  <2>4. eq'.head = C /\ eq'.tail = eq.tail
    BY <1>1, <2>1, <2>3
  <2>5. intr'.pc = (IF C = eq.tail THEN "finish" ELSE "cq") /\ intr'.at = eq.tail
    BY <1>1, <2>1, <2>4
  <2>6. EventRing(C, t)'
    <3>1. C <= t + 2
      <4>1. C + Len(EQ.ops) <= Handled + 2 /\ Len(EQ.ops) \in Nat /\ Handled \in Nat
        BY ArmingsAre
      <4> QED BY <1>3, <2>2, <4>1
    <3>2. C <= C /\ t <= t
      OBVIOUS
    <3> QED BY <1>2, <2>2, <2>4, <3>1, <3>2 DEF EventsOK, EventRing
  <2>7. EventTail(t)'
    <3>1. DOMAIN posted' = {} /\ eq'.tail = t
      BY <1>1, <2>1, <2>2, <2>4
    <3> QED BY <3>1 DEF EventTail
  <2>8. EventsRead'
    BY <2>4, <2>5 DEF EventsRead, Handling
  <2>9. Handled' = Handled
    BY <1>3, <2>4, <2>5 DEF Handled, Handling
  <2>10. Armings(C)' = Armings(C)
    BY <1>1, <1>2, <2>9, Names DEF Armings, Armed, ToArm
  <2> QED BY <1>4, <2>6, <2>7, <2>8, <2>10 DEF EventsOK
<1> QED BY <1>5, <1>6

\* The driver takes completions: it writes the tail pointer of their queue.
LEMMA ReadCompletionsEvents ==
  ASSUME NicInv, NEW C \in Nat, NEW t \in Nat, EventsOK(C, t), ReadCompletions
  PROVE  EventsOK(C, t)'
<1>1. PICK d \in Dirs : d = Dir
  BY DirIs DEF NicInv
<1>2. PICK head : head = Advanced(cq[d].head, q[CqOf[d]].head)
  OBVIOUS
<1>3. /\ intr = [pc |-> intr.pc, at |-> intr.at, pending |-> intr.pending] /\ intr.pc = "cq"
      /\ UNCHANGED <<eq, main, q, events>>
  BY RecordTypes DEF NicInv, ReadCompletions
<1>4. \/ UNCHANGED <<posted, intr>>
      \/ posted' = Append(posted, SetTail(CqOf[d], head)) /\ intr' = [intr EXCEPT !.pc = "ring"]
  BY <1>1, <1>2 DEF ReadCompletions
<1>5. CASE UNCHANGED <<posted, intr>>
  BY <1>3, <1>5, EventsStill DEF EQ, CQ
<1>6. CASE posted' = Append(posted, SetTail(CqOf[d], head)) /\ intr' = [intr EXCEPT !.pc = "ring"]
  <2>1. head \in Int
    <3>1. cq[d].head \in Nat /\ q[CqOf[d]].head \in Nat
      BY RecordTypes, Names DEF NicInv, Types, DriverTypes
    <3>2. Advanced(cq[d].head, q[CqOf[d]].head) \in Nat
      BY <3>1, AdvancedIs, Zenon
    <3> QED BY <1>2, <3>2
  <2>2. PICK w \in Writes : w = SetTail(CqOf[d], head) /\ ~ArmsCq(w) /\ ~EqTail(w)
    BY <2>1, WriteIs, Names DEF ArmsCq, EqTail
  <2>3. PICK ws \in Seq(Writes) : ws = <<w>> /\ DOMAIN ws = {1} /\ ws[1] = w
    <3>1. <<w>> \in Seq(Writes) /\ DOMAIN <<w>> = {1} /\ <<w>>[1] = w
      OBVIOUS
    <3> QED BY <3>1
  <2>4. posted' = posted \o ws
    BY <1>6, <2>2, <2>3, AppendIsConcat, WriteTypes DEF NicInv
  <2>5. Arms(ws) = 0 /\ \A i \in DOMAIN ws : ~ArmsCq(ws[i]) /\ ~EqTail(ws[i])
    BY <2>2, <2>3, ArmsFew
  <2>6. intr'.pc = "ring" /\ intr'.at = intr.at
    BY <1>3, <1>6
  <2>7. EventsRead' /\ Handled' = Handled /\ ToArm' = ToArm /\ intr.pc \in Handling
    BY <1>3, <2>6 DEF EventsRead, Handled, ToArm, Handling
  <2>8. Handled \in Nat /\ ToArm \in Nat /\ (ToArm' + Arms(ws)) + Handled = ToArm + Handled'
    BY <2>5, <2>7, ArmingsAre
  <2> QED BY <1>3, <2>4, <2>5, <2>7, <2>8, EventsPosted
<1> QED BY <1>4, <1>5, <1>6

\* The driver has handled an event and arms its queue again.
LEMMA ReadRingEvents ==
  ASSUME NicInv, NEW C \in Nat, NEW t \in Nat, EventsOK(C, t), ReadRing
  PROVE  EventsOK(C, t)'
<1>1. PICK d \in Dirs : d = Dir
  BY DirIs DEF NicInv
<1>2. PICK r : r = [ring[d] EXCEPT !.tail = Advanced(ring[d].tail, q[RingQ[d]].tail),
                                   !.clean = Cleaned(ring[d], Advanced(ring[d].tail, q[RingQ[d]].tail))]
  OBVIOUS
<1>3. /\ intr = [pc |-> intr.pc, at |-> intr.at, pending |-> intr.pending] /\ intr.pc = "ring"
      /\ intr.at \in Nat /\ eq.head \in Nat /\ intr.at < eq.head
      /\ posted = <<>> /\ UNCHANGED <<eq, main, q, events>>
  BY RecordTypes DEF NicInv, AtEvent, ReadRing, ReadDone
<1>4. /\ posted' = (posted \o (IF d = "rx" THEN HeadWrite(r) ELSE <<>>)) \o <<ArmQ(CqOf[d])>>
      /\ intr' = [intr EXCEPT !.at = @ + 1, !.pc = IF intr.at + 1 = eq.head THEN "finish" ELSE "cq"]
  BY <1>1, <1>2 DEF ReadRing
<1>5. r \in RingRecords
  <2>1. ring[d] \in RingRecords /\ RQ(d).tail = q[RingQ[d]].tail
    BY DEF NicInv, Types, DriverTypes, RQ
  <2>2. PICK F \in Nat, A \in Nat : r = [ring[d] EXCEPT !.tail = F, !.clean = A]
    BY <1>2, <1>3, <2>1, CleanedIs
  <2>3. PICK h \in Nat, l \in Nat, c \in Nat, info \in [Slots -> MaybeBuf] :
          ring[d] = [head |-> h, tail |-> l, clean |-> c, info |-> info]
    BY <2>1 DEF RingRecords
  <2>4. r = [head |-> h, tail |-> F, clean |-> A, info |-> info]
    <3> DEFINE x == [head |-> h, tail |-> l, clean |-> c, info |-> info]
               y == [x EXCEPT !.tail = F]
    <3>1. y = [head |-> h, tail |-> F, clean |-> c, info |-> info]
      OBVIOUS
    <3>2. [x EXCEPT !.tail = F, !.clean = A] = [y EXCEPT !.clean = A]
      OBVIOUS
    <3>3. r = [x EXCEPT !.tail = F, !.clean = A]
      BY <2>2, <2>3
    <3> HIDE DEF x, y
    <3> QED BY <3>1, <3>2, <3>3
  <2> QED BY <2>4 DEF RingRecords
<1>6. PICK hw \in Seq(Writes) :
        /\ hw = IF d = "rx" THEN HeadWrite(r) ELSE <<>>
        /\ \A i \in DOMAIN hw : hw[i].op = "head"
  <2>1. <<>> \in Seq(Writes) /\ DOMAIN <<>> = {}
    OBVIOUS
  <2> QED BY <1>5, <2>1, HeadWriteIs
<1>7. PICK a \in Writes : a = ArmQ(CqOf[d]) /\ ArmsCq(a) /\ ~EqTail(a)
  <2>1. ArmQ(CqOf[d]) \in Writes /\ ArmQ(CqOf[d]).op = "arm" /\ CqOf[d] # "eq"
    BY WriteIs, Names
  <2>2. ArmQ(CqOf[d]).q = CqOf[d]
    BY DEF ArmQ
  <2> QED BY <2>1, <2>2 DEF ArmsCq, EqTail
<1>8. PICK one \in Seq(Writes) : one = <<a>> /\ Len(one) = 1 /\ DOMAIN one = {1} /\ one[1] = a
  <2>1. <<a>> \in Seq(Writes) /\ Len(<<a>>) = 1 /\ DOMAIN <<a>> = {1} /\ <<a>>[1] = a
    OBVIOUS
  <2> QED BY <2>1
<1>9. PICK ws \in Seq(Writes) : ws = hw \o one
  <2>1. hw \o one \in Seq(Writes)
    BY ArmsConcat
  <2> QED BY <2>1
<1>10. posted' = posted \o ws
  <2>1. posted' = (posted \o hw) \o one
    BY <1>4, <1>6, <1>7, <1>8
  <2>2. posted \o hw = hw /\ posted \o ws = ws
    BY <1>3
  <2> QED BY <1>9, <2>1, <2>2
<1>11. \A i \in DOMAIN ws : ws[i].op = "head" \/ ws[i] = a
  <2>1. \A i \in DOMAIN ws : (i \in DOMAIN hw /\ ws[i] = hw[i]) \/ ws[i] = a
    BY <1>8, <1>9
  <2> QED BY <1>6, <2>1
<1>12. \A i \in DOMAIN ws : ~EqTail(ws[i])
  BY <1>7, <1>11 DEF EqTail
<1>13. Arms(ws) = 1
  <2>1. Arms(hw) = 0
    <3>1. \A i \in DOMAIN hw : ~ArmsCq(hw[i])
      BY <1>6 DEF ArmsCq
    <3> QED BY <3>1, ArmsFew
  <2>2. Arms(one) = 1
    BY <1>7, <1>8, ArmsFew
  <2> QED BY <1>9, <2>1, <2>2, ArmsConcat
<1>14. EQ.active
  <2>1. C # 0
    BY <1>3 DEF EventsOK, EventRing
  <2> QED BY <2>1 DEF EventsOK, EventsActive
<1>15. /\ intr'.at = intr.at + 1 /\ intr'.pc \in {"finish", "cq"}
       /\ intr'.pc = "finish" => intr.at + 1 = eq.head
  BY <1>3, <1>4
<1>16. EventsRead' /\ Handled' = Handled + 1 /\ Handled' \in Nat /\ ToArm' = ToArm /\ intr.pc \in Handling
  BY <1>3, <1>15 DEF EventsRead, Handled, ToArm, Handling
<1>17. ToArm \in Nat /\ (ToArm' + Arms(ws)) + Handled = ToArm + Handled'
  BY <1>13, <1>16, ArmingsAre
<1> QED BY <1>3, <1>10, <1>12, <1>14, <1>16, <1>17, EventsPosted

\* The driver writes how far it has handled the events, and arms the queue.
LEMMA FinishEvents ==
  ASSUME NicInv, NEW C \in Nat, NEW t \in Nat, EventsOK(C, t), FinishInterrupt
  PROVE  EventsOK(C, t)'
<1>1. /\ intr.pc \in {"finish", "arm"} /\ intr.at \in Nat
      /\ eq = [head |-> eq.head, tail |-> eq.tail]
      /\ UNCHANGED <<main, q, events>> /\ posted \in Seq(Writes) /\ Len(posted) \in Nat
  BY RecordTypes, WriteTypes DEF NicInv, FinishInterrupt
<1>2. intr'.pc \notin Handling /\ intr'.pc # "finish"
  BY DEF FinishInterrupt, Handling
<1>3. /\ ArmQ("eq") \in Writes /\ ~ArmsCq(ArmQ("eq")) /\ ~EqTail(ArmQ("eq"))
  <2>1. ArmQ("eq") \in Writes
    BY WriteIs DEF Queues
  <2> QED BY <2>1 DEF ArmQ, ArmsCq, EqTail
<1>4. PICK a \in Writes : a = ArmQ("eq") /\ ~ArmsCq(a) /\ ~EqTail(a)
  BY <1>3
<1>5. EQ' = EQ /\ ToArm' = ToArm /\ ToArm \in Nat /\ Handled \in Nat
  BY <1>1, ArmingsAre DEF EQ, ToArm
<1>6. CASE intr.pc = "arm"
  <2>1. PICK ws \in Seq(Writes) : ws = <<a>> /\ DOMAIN ws = {1} /\ ws[1] = a
    <3>1. <<a>> \in Seq(Writes) /\ DOMAIN <<a>> = {1} /\ <<a>>[1] = a
      OBVIOUS
    <3> QED BY <3>1
  <2>2. posted' = posted \o ws /\ eq' = eq
    BY <1>1, <1>4, <1>6, <2>1, AppendIsConcat DEF FinishInterrupt
  <2>3. Arms(ws) = 0 /\ \A i \in DOMAIN ws : ~ArmsCq(ws[i]) /\ ~EqTail(ws[i])
    BY <1>4, <2>1, ArmsFew
  <2>4. EventsRead' /\ Handled' = Handled
    BY <1>2, <1>6, <2>2 DEF EventsOK, EventsRead, Handled, Handling
  <2>5. (ToArm' + Arms(ws)) + Handled = ToArm + Handled'
    BY <1>5, <2>3, <2>4
  <2> QED BY <1>1, <1>2, <1>5, <2>2, <2>3, <2>4, <2>5, EventsPosted
<1>7. CASE intr.pc = "finish"
  <2>1. intr.at = eq.head /\ intr.pc \in Handling /\ Handled = intr.at
    BY <1>7 DEF EventsOK, EventsRead, Handling, Handled
  <2>2. PICK s \in Writes : s = SetTail("eq", intr.at) /\ EqTail(s) /\ ~ArmsCq(s) /\ s.val = Ptr(intr.at)
    <3>1. "eq" \in Queues /\ intr.at \in Int
      BY <1>1 DEF Queues
    <3>2. /\ SetTail("eq", intr.at) \in Writes /\ SetTail("eq", intr.at).op = "tail"
          /\ SetTail("eq", intr.at).q = "eq" /\ SetTail("eq", intr.at).val = Ptr(intr.at)
      BY <3>1, WriteIs
    <3> QED BY <3>2 DEF EqTail, ArmsCq
  <2>3. PICK ws \in Seq(Writes) : ws = <<s, a>> /\ DOMAIN ws = {1, 2} /\ ws[1] = s /\ ws[2] = a /\ Len(ws) = 2
    <3>1. /\ <<s, a>> \in Seq(Writes) /\ DOMAIN <<s, a>> = {1, 2} /\ <<s, a>>[1] = s
          /\ <<s, a>>[2] = a /\ Len(<<s, a>>) = 2
      OBVIOUS
    <3> QED BY <3>1
  <2>4. posted' = posted \o ws /\ eq'.tail = eq.head /\ eq'.head = eq.head
    BY <1>1, <1>4, <1>7, <2>1, <2>2, <2>3 DEF FinishInterrupt
  <2>5. Arms(ws) = 0 /\ \A i \in DOMAIN ws : ~ArmsCq(ws[i])
    BY <1>4, <2>2, <2>3, ArmsFew
  <2>6. (\A i \in DOMAIN posted : ~EqTail(posted[i])) /\ t = eq.tail
    BY <2>1 DEF EventsOK, EventTail
  <2>7. /\ DOMAIN posted' = 1..(Len(posted) + Len(ws))
        /\ \A i \in 1..Len(posted) : posted'[i] = posted[i]
        /\ \A i \in DOMAIN posted' : i > Len(posted) =>
             i - Len(posted) \in DOMAIN ws /\ posted'[i] = ws[i - Len(posted)]
        /\ DOMAIN posted = 1..Len(posted)
    BY <2>4, PostedIs, WriteTypes DEF NicInv
  <2>8. EventTail(t)'
    <3>1. ASSUME NEW i \in DOMAIN posted', EqTail(posted'[i]) PROVE posted'[i].val = Ptr(eq'.tail)
      <4>1. i > Len(posted)
        <5>1. ~(i > Len(posted)) => i \in DOMAIN posted /\ posted'[i] = posted[i]
          BY <1>1, <2>7
        <5> QED BY <2>6, <3>1, <5>1
      <4>2. posted'[i] = s \/ posted'[i] = a
        BY <2>3, <2>7, <4>1
      <4> QED BY <1>4, <2>1, <2>2, <2>4, <3>1, <4>2
    <3>2. \E i \in DOMAIN posted' : EqTail(posted'[i])
      <4>1. PICK n \in Nat : n = Len(posted)
        BY <1>1
      <4>2. n + 1 \in 1..(n + 2) /\ n + 1 > n /\ (n + 1) - n = 1
        OBVIOUS
      <4>3. n + 1 \in DOMAIN posted' /\ posted'[n + 1] = s
        BY <2>3, <2>7, <4>1, <4>2
      <4> QED BY <2>2, <4>3
    <3> QED BY <1>2, <3>1, <3>2 DEF EventTail
  <2>9. EventRing(C, t)'
    <3>1. t <= eq.head
      BY <2>6, RecordTypes DEF NicInv
    <3> QED BY <1>5, <2>4, <3>1 DEF EventsOK, EventRing
  <2>10. EventsRead' /\ Handled' = Handled
    BY <1>2, <2>1, <2>4 DEF EventsRead, Handled
  <2>11. (ToArm' + Arms(ws)) + Handled = ToArm + Handled'
    BY <1>5, <2>5, <2>10
  <2>12. EventsActive(C)' /\ Armings(C)' = Armings(C)
    BY <1>1, <1>5, <2>4, <2>5, <2>10, <2>11, PostedArmings
  <2> QED BY <2>8, <2>9, <2>10, <2>12 DEF EventsOK
<1> QED BY <1>1, <1>6, <1>7

\* A write that arms a completion queue arms it, or raises its event.
LEMMA WriteArms ==
  ASSUME NicInv, WriteRegister, NEW d \in Dirs
  PROVE  LET w == posted[1]
         IN /\ events'[d] \in Nat
            /\ ~(ArmsCq(w) /\ DirOf(w.q) = d) => events'[d] = events[d] /\ (CQ(d)'.armed => CQ(d).armed)
            /\ ArmsCq(w) => One(CQ(d)'.armed) + events'[d] <= One(CQ(d).armed) + events[d] + 1
<1> DEFINE w == posted[1]
           x == q[w.q]
           v == CASE w.op = "head" -> [x EXCEPT !.head = w.val]
                  [] w.op = "tail" -> [x EXCEPT !.tail = w.val]
                  [] w.op = "arm" -> Arm(x)
                  [] w.op = "activate" -> Activate(x, 0, 0)
           rises == ArmsCq(w) /\ RaisesEvent(x) /\ DirOf(w.q) = d
<1>1. w \in Writes /\ w = Head(posted)
  BY WriteIsOldest
<1>2. /\ w.q \in Queues /\ w.op \in {"head", "tail", "arm", "activate"}
      /\ q \in [Queues -> QueueRecords] /\ events \in [Dirs -> Nat] /\ events[d] \in Nat
  BY <1>1 DEF Writes, NicInv, Types, QueueTypes, FrameTypes
<1>3. q' = [q EXCEPT ![w.q] = v]
  BY <1>1 DEF WriteRegister
<1>4. IF w.op = "arm" /\ RaisesEvent(x) THEN Raise(w.q) ELSE UNCHANGED events
  BY <1>1 DEF WriteRegister
<1>5. x \in QueueRecords
  BY <1>2
<1>6. DirOf(w.q) \in Dirs /\ CqOf[d] # "eq" /\ CqOf[d] \in Queues /\ DirOf(CqOf[d]) = d
  BY Names DEF DirOf
<1>7. events'[d] = IF rises THEN events[d] + 1 ELSE events[d]
  BY <1>2, <1>4, <1>6 DEF Raise, ArmsCq
<1>8. CQ(d)' = (IF w.q = CqOf[d] THEN v ELSE CQ(d)) /\ (w.q = CqOf[d] => CQ(d) = x)
  BY <1>2, <1>3, <1>6 DEF CQ
<1> HIDE DEF w, x
<1>9. /\ w.op \in {"head", "tail"} => v.armed = x.armed
      /\ w.op = "arm" => (v.armed = ~RaisesEvent(x))
      /\ w.op = "activate" => v.armed = FALSE
  BY <1>5 DEF QueueRecords, Arm, Activate
<1>10. v.armed => x.armed \/ (w.op = "arm" /\ ~RaisesEvent(x))
  BY <1>2, <1>9
<1> HIDE DEF v
<1>11. ~(ArmsCq(w) /\ DirOf(w.q) = d) => events'[d] = events[d] /\ (CQ(d)'.armed => CQ(d).armed)
  BY <1>6, <1>7, <1>8, <1>10 DEF ArmsCq
<1>12. ArmsCq(w) => One(CQ(d)'.armed) + events'[d] <= One(CQ(d).armed) + events[d] + 1
  <2>1. PICK n \in Nat : n = events[d]
    BY <1>2
  <2>2. PICK y, z \in {0, 1} : y = One(CQ(d)'.armed) /\ z = One(CQ(d).armed)
    BY DEF One
  <2>3. rises => (CQ(d)'.armed => CQ(d).armed)
    BY <1>8, <1>10
  <2>4. rises => y <= z
    BY <2>2, <2>3 DEF One
  <2>5. CASE rises
    <3>1. events'[d] = n + 1
      BY <1>7, <2>1, <2>5
    <3>2. y + (n + 1) <= z + n + 1
      BY <2>4, <2>5
    <3> QED BY <2>1, <2>2, <3>1, <3>2
  <2>6. CASE ~rises
    <3>1. events'[d] = n
      BY <1>7, <2>1, <2>6
    <3>2. y + n <= z + n + 1
      OBVIOUS
    <3> QED BY <2>1, <2>2, <3>1, <3>2
  <2> QED BY <2>5, <2>6
<1>13. events'[d] \in Nat
  BY <1>2, <1>7
<1> QED BY <1>11, <1>12, <1>13 DEF w

\* A write reaches the device.
LEMMA WriteRegisterEvents ==
  ASSUME NicInv, NEW C \in Nat, NEW t \in Nat, EventsOK(C, t), WriteRegister
  PROVE  \E u \in Nat : EventsOK(C, u)'
<1> DEFINE w == posted[1]
           now == w.op = "activate" /\ w.q = "eq"
<1>1. /\ w = Head(posted) /\ w \in Writes /\ 1 \in DOMAIN posted /\ posted # <<>>
      /\ \A i \in DOMAIN posted' : i + 1 \in DOMAIN posted /\ posted'[i] = posted[i + 1]
      /\ \A i \in DOMAIN posted : i # 1 => i - 1 \in DOMAIN posted' /\ posted'[i - 1] = posted[i]
      /\ posted \in Seq(Writes) /\ posted' = Tail(posted)
      /\ UNCHANGED <<eq, main, intr>>
  BY WriteIsOldest, WriteTypes DEF NicInv, WriteRegister
<1>2. /\ w.q \in Queues /\ "eq" \in Queues
      /\ EQ'.ops = EQ.ops
      /\ w.q # "eq" => EQ' = EQ
      /\ w.q = "eq" =>
           /\ w.op = "tail" => EQ'.head = EQ.head /\ EQ'.tail = w.val /\ EQ'.active = EQ.active
           /\ w.op = "arm" => EQ'.head = EQ.head /\ EQ'.tail = EQ.tail /\ EQ'.active = EQ.active
           /\ w.op = "activate" => EQ'.head = 0 /\ EQ'.tail = 0 /\ EQ'.active = TRUE
      /\ w.op \in {"head", "tail", "arm", "activate"}
  BY WriteQueue DEF Queues, EQ
<1>3. w.op = "head" => w.q # "eq"
  BY <1>1 DEF NicInv, WritesOK, WhichWrites
<1>4. /\ EventRing(C, t) /\ EventTail(t) /\ EventsRead /\ EventsActive(C)
      /\ t <= eq.tail /\ eq.tail <= eq.head /\ eq.head <= C /\ eq.tail \in Nat /\ eq.head \in Nat
      /\ EQ.active \in BOOLEAN
  BY RecordTypes DEF NicInv, EventsOK, EventRing, Queues, EQ, QueueRecords
<1>5. now => ~EQ.active /\ C = 0 /\ t = 0
  <2>1. ASSUME now PROVE ~EQ.active
    <3>1. posted[1].op = "activate" /\ posted[1].q = "eq" /\ 1 \in DOMAIN posted
      BY <1>1, <2>1
    <3>2. ~q["eq"].active
      BY <1>2, <3>1 DEF NicInv, Activation
    <3> QED BY <3>2 DEF EQ
  <2>2. ~EQ.active => C = 0
    BY <1>4 DEF EventsActive
  <2>3. C = 0 => t = 0
    BY <1>4
  <2> QED BY <2>1, <2>2, <2>3
<1>6. EqTail(w) => w.val = Ptr(eq.tail)
  BY <1>1, <1>4 DEF EventTail
<1>7. Ptr(0) = 0
  BY PtrIs, Sizes DEF Pointers
<1>8. PICK u \in Nat : u = IF EqTail(w) THEN eq.tail ELSE t
  BY <1>4
<1>9. /\ EQ'.head = EQ.head /\ EQ'.tail = Ptr(u)
      /\ EQ'.active = (EQ.active \/ now)
  <2>1. CASE w.q # "eq"
    BY <1>2, <1>4, <2>1, <1>8 DEF EqTail, EventRing
  <2>2. CASE w.q = "eq"
    <3>1. CASE w.op = "tail"
      BY <1>2, <1>4, <1>6, <2>2, <3>1, <1>8 DEF EqTail
    <3>2. CASE w.op = "arm"
      BY <1>2, <1>4, <2>2, <3>2, <1>8 DEF EqTail, EventRing
    <3>3. CASE w.op = "activate"
      BY <1>2, <1>4, <1>5, <1>7, <2>2, <3>3, <1>8 DEF EqTail, EventRing
    <3> QED BY <1>2, <1>3, <2>2, <3>1, <3>2, <3>3
  <2> QED BY <2>1, <2>2
<1>10. EventRing(C, u)'
  <2>1. u <= eq.tail /\ eq.head <= u + 2
    BY <1>4, <1>8 DEF EventRing
  <2> QED BY <1>1, <1>2, <1>4, <1>9, <2>1 DEF EventRing
<1>11. EventTail(u)'
  <2>1. \A i \in DOMAIN posted' : EqTail(posted'[i]) => posted'[i].val = Ptr(eq.tail)
    BY <1>1, <1>4 DEF EventTail
  <2>2. ASSUME \A i \in DOMAIN posted' : ~EqTail(posted'[i]) PROVE u = eq.tail
    <3>1. CASE EqTail(w)
      BY <1>8, <3>1
    <3>2. CASE ~EqTail(w)
      <4>1. \A i \in DOMAIN posted : ~EqTail(posted[i])
        BY <1>1, <2>2, <3>2
      <4> QED BY <1>4, <1>8, <3>2, <4>1 DEF EventTail
    <3> QED BY <3>1, <3>2
  <2>3. intr.pc \in Handling => \A i \in DOMAIN posted' : ~EqTail(posted'[i])
    BY <1>1, <1>4 DEF EventTail
  <2> HIDE DEF w
  <2> QED BY <1>1, <2>1, <2>2, <2>3 DEF EventTail
<1>12. EventsRead'
  BY <1>1, <1>4 DEF EventsRead
<1>13. \A d \in Dirs : /\ events'[d] \in Nat
                       /\ ~(ArmsCq(w) /\ DirOf(w.q) = d) =>
                            events'[d] = events[d] /\ (CQ(d)'.armed => CQ(d).armed)
                       /\ ArmsCq(w) =>
                            One(CQ(d)'.armed) + events'[d] <= One(CQ(d).armed) + events[d] + 1
  BY WriteArms
<1>14. ArmsCq(w) => EQ.active
  <2> SUFFICES ASSUME ArmsCq(w) PROVE EQ.active
    OBVIOUS
  <2>1. EQ.active \/ Due("eq", 1 - 1)
    BY <1>1, <1>4 DEF EventsActive
  <2>2. ~Due("eq", 1 - 1)
    BY DEF Due
  <2> QED BY <2>1, <2>2
<1>15. EventsActive(C)'
  <2>1. ~EQ'.active => C = 0 /\ EQ'.ops = <<>>
    BY <1>2, <1>4, <1>9 DEF EventsActive
  <2>2. ASSUME NEW d \in Dirs, CQ(d)'.armed \/ events'[d] > 0 PROVE EQ'.active
    <3>1. ArmsCq(w) \/ CQ(d).armed \/ events[d] > 0
      BY <1>13, <2>2
    <3> QED BY <1>4, <1>9, <1>14, <3>1 DEF EventsActive
  <2>3. ASSUME NEW i \in DOMAIN posted', ArmsCq(posted'[i]) PROVE EQ'.active \/ Due("eq", i - 1)'
    <3>1. i + 1 \in DOMAIN posted /\ posted'[i] = posted[i + 1] /\ i \in Nat /\ (i + 1) - 1 = i
      BY <1>1
    <3>2. EQ.active \/ Due("eq", i)
      BY <1>4, <2>3, <3>1 DEF EventsActive
    <3>3. ASSUME Due("eq", i), ~now PROVE Due("eq", i - 1)'
      <4>1. PICK j \in 1..i : posted[j].op = "activate" /\ posted[j].q = "eq"
        BY <3>3 DEF Due
      <4>2. j # 1
        BY <3>3, <4>1
      <4>3. j \in DOMAIN posted /\ j - 1 \in 1..(i - 1)
        <5>1. PICK n \in Nat : DOMAIN posted = 1..n
          <6>1. Len(posted) \in Nat /\ DOMAIN posted = 1..Len(posted)
            BY <1>1
          <6> QED BY <6>1
        <5>2. i + 1 \in 1..n
          BY <3>1, <5>1
        <5>3. j \in 1..n /\ j - 1 \in 1..(i - 1)
          BY <3>1, <4>2, <5>2
        <5> QED BY <5>1, <5>3
      <4>4. posted'[j - 1] = posted[j]
        BY <1>1, <4>2, <4>3
      <4> QED BY <4>1, <4>3, <4>4 DEF Due
    <3> HIDE DEF now
    <3> QED BY <1>9, <3>2, <3>3
  <2> HIDE DEF w
  <2> QED BY <2>1, <2>2, <2>3 DEF EventsActive
<1>16. \E m, n \in Nat : m = Armings(C)' /\ n = Armings(C) /\ m <= n
  <2>1. PICK b \in {0, 1} : b = One(ArmsCq(w))
    BY DEF One
  <2>2. /\ Arms(posted) = Arms(posted)' + b /\ Arms(posted)' \in Nat
    <3>1. /\ ArmsCq(Head(posted)) => Arms(posted) = Arms(Tail(posted)) + 1
          /\ ~ArmsCq(Head(posted)) => Arms(posted) = Arms(Tail(posted))
      BY <1>1, ArmsTail
    <3>2. Tail(posted) \in Seq(Writes)
      BY <1>1
    <3>3. Arms(Tail(posted)) \in Nat
      BY <3>2, ArmsFew
    <3>4. Arms(posted)' = Arms(Tail(posted))
      BY <1>1
    <3> QED BY <1>1, <2>1, <3>1, <3>3, <3>4 DEF One
  <2>3. Armed' <= Armed + b /\ Armed' \in Nat
    <3>1. PICK x1, x2, x3, x4 \in Nat : /\ x1 = One(CQ("tx").armed) /\ x2 = One(CQ("rx").armed)
                                        /\ x3 = events["tx"] /\ x4 = events["rx"]
      BY ArmingsAre
    <3>2. PICK y1, y2, y3, y4 \in Nat : /\ y1 = One(CQ("tx")'.armed) /\ y2 = One(CQ("rx")'.armed)
                                        /\ y3 = events'["tx"] /\ y4 = events'["rx"]
      <4>1. One(CQ("tx")'.armed) \in Nat /\ One(CQ("rx")'.armed) \in Nat
        BY DEF One
      <4>2. events'["tx"] \in Nat /\ events'["rx"] \in Nat
        BY <1>13, Names
      <4> QED BY <4>1, <4>2
    <3>3. Armed = x1 + x2 + x3 + x4 /\ Armed' = y1 + y2 + y3 + y4
      BY <3>1, <3>2 DEF Armed
    <3>4. ~(ArmsCq(w) /\ DirOf(w.q) = "tx") => y3 = x3 /\ y1 <= x1
      BY <1>13, <3>1, <3>2, Names DEF One
    <3>5. ~(ArmsCq(w) /\ DirOf(w.q) = "rx") => y4 = x4 /\ y2 <= x2
      BY <1>13, <3>1, <3>2, Names DEF One
    <3>6. ArmsCq(w) => y1 + y3 <= x1 + x3 + 1 /\ y2 + y4 <= x2 + x4 + 1
      BY <1>13, <3>1, <3>2, Names
    <3> HIDE DEF w
    <3>7. y1 + y2 + y3 + y4 <= x1 + x2 + x3 + x4 + b
      <4>1. CASE ArmsCq(w)
        <5>1. b = 1 /\ (DirOf(w.q) # "tx" \/ DirOf(w.q) # "rx")
          BY <2>1, <4>1 DEF One
        <5>2. (y3 = x3 /\ y1 <= x1) \/ (y4 = x4 /\ y2 <= x2)
          BY <3>4, <3>5, <5>1
        <5>3. y1 + y3 <= x1 + x3 + 1 /\ y2 + y4 <= x2 + x4 + 1
          BY <3>6, <4>1
        <5> QED BY <5>1, <5>2, <5>3
      <4>2. CASE ~ArmsCq(w)
        <5>1. y3 = x3 /\ y1 <= x1 /\ y4 = x4 /\ y2 <= x2
          BY <3>4, <3>5, <4>2
        <5> QED BY <5>1
      <4> QED BY <4>1, <4>2
    <3>8. y1 + y2 + y3 + y4 \in Nat
      OBVIOUS
    <3> QED BY <3>3, <3>7, <3>8
  <2>4. PICK x1, x2, x3, z \in Nat :
          x1 = ToArm /\ x2 = Arms(posted) /\ x3 = Armed /\ z = (C + Len(EQ.ops)) - Handled
    BY ArmingsAre
  <2>5. PICK y2, y3 \in Nat : y2 = Arms(posted)' /\ y3 = Armed'
    BY <2>2, <2>3
  <2>6. Armings(C)' = x1 + y2 + y3 + z
    <3>1. ToArm' = x1 /\ ((C + Len(EQ.ops)) - Handled)' = z
      BY <1>1, <1>2, <2>4 DEF ToArm, Handled
    <3> QED BY <2>5, <3>1 DEF Armings
  <2>7. Armings(C) = x1 + x2 + x3 + z
    BY <2>4 DEF Armings
  <2>8. x2 = y2 + b /\ y3 <= x3 + b
    BY <2>2, <2>3, <2>4, <2>5
  <2>9. x1 + y2 + y3 + z <= x1 + x2 + x3 + z
    BY <2>8
  <2>10. x1 + y2 + y3 + z \in Nat /\ x1 + x2 + x3 + z \in Nat
    OBVIOUS
  <2> QED BY <2>6, <2>7, <2>9, <2>10
<1>17. Armings(C)' <= 2
  <2>1. Armings(C) <= 2
    BY DEF EventsOK
  <2> QED BY <1>16, <2>1
<1> HIDE DEF w
<1>18. EventsOK(C, u)'
  BY <1>10, <1>11, <1>12, <1>15, <1>17 DEF EventsOK
<1> QED BY <1>8, <1>18

\* An event is in memory.
LEMMA CommitEventEvents ==
  ASSUME NicInv, NEW C \in Nat, NEW t \in Nat, EventsOK(C, t), CommitEntry("eq")
  PROVE  EventsOK(C + 1, t)'
<1>1. /\ EQ \in QueueRecords /\ EQ.ops # <<>> /\ "eq" \in Queues /\ EQ.ops \in Seq(Operations)
      /\ q' = [q EXCEPT !["eq"] = EnqueueCommit(EQ)] /\ q \in [Queues -> QueueRecords]
      /\ UNCHANGED <<eq, posted, main, intr, events>>
  BY RecordTypes DEF NicInv, Types, QueueTypes, Queues, CommitEntry, EQ, drvVars, Raise
<1>2. /\ EnqueueCommit(EQ) = [active |-> EQ.active, armed |-> FALSE, head |-> Head(EQ.ops).ptr,
                              tail |-> EQ.tail, ops |-> Tail(EQ.ops)]
  BY <1>1, CommittedType
<1>3. EQ' = EnqueueCommit(EQ) /\ \A d \in Dirs : CQ(d)' = CQ(d)
  BY <1>1, Names DEF EQ, CQ
<1>4. PICK n \in Nat : /\ Len(EQ.ops) = n + 1 /\ DOMAIN EQ.ops = 1..(n + 1)
                       /\ Head(EQ.ops) = EQ.ops[1] /\ Len(Tail(EQ.ops)) = n
                       /\ DOMAIN Tail(EQ.ops) = 1..n
                       /\ \A j \in 1..n : Tail(EQ.ops)[j] = EQ.ops[j + 1]
  <2>1. /\ Len(EQ.ops) \in Nat /\ Len(EQ.ops) >= 1 /\ DOMAIN EQ.ops = 1..Len(EQ.ops)
        /\ Head(EQ.ops) = EQ.ops[1] /\ Len(Tail(EQ.ops)) = Len(EQ.ops) - 1
        /\ Tail(EQ.ops) \in Seq(Operations)
        /\ \A j \in 1..(Len(EQ.ops) - 1) : Tail(EQ.ops)[j] = EQ.ops[j + 1]
    BY <1>1, TailIs
  <2>2. PICK n \in Nat : n = Len(EQ.ops) - 1
    <3>1. PICK k \in Nat : k = Len(EQ.ops) /\ k >= 1
      BY <2>1
    <3>2. k - 1 \in Nat
      BY <3>1
    <3> QED BY <3>1, <3>2
  <2>3. Len(EQ.ops) = n + 1
    BY <2>1, <2>2
  <2>4. DOMAIN Tail(EQ.ops) = 1..n
    BY <2>1, <2>2
  <2> QED BY <2>1, <2>2, <2>3, <2>4
<1>5. /\ EQ'.active = EQ.active /\ EQ'.head = EQ.ops[1].ptr /\ EQ'.tail = EQ.tail
      /\ EQ'.ops = Tail(EQ.ops)
  BY <1>2, <1>3, <1>4
<1>6. \A j \in DOMAIN EQ.ops : EQ.ops[j].ptr = Ptr(C + j)
  BY DEF EventsOK, EventRing
<1>7. EventRing(C + 1, t)'
  <2>1. EQ'.head = Ptr(C + 1)
    BY <1>4, <1>5, <1>6
  <2>2. ASSUME NEW j \in DOMAIN EQ'.ops PROVE EQ'.ops[j].ptr = Ptr((C + 1) + j)
    <3>1. j \in 1..n /\ j + 1 \in DOMAIN EQ.ops /\ EQ'.ops[j] = EQ.ops[j + 1] /\ C + (j + 1) = (C + 1) + j
      BY <1>4, <1>5, <2>2
    <3> QED BY <1>6, <3>1
  <2>3. eq.head <= C + 1
    <3>1. eq.head \in Nat /\ eq.head <= C
      BY ArmingsAre
    <3> QED BY <3>1
  <2> QED BY <1>1, <1>5, <2>1, <2>2, <2>3 DEF EventsOK, EventRing
<1>8. EventTail(t)' /\ EventsRead'
  BY <1>1 DEF EventsOK, EventTail, EventsRead
<1>9. EventsActive(C + 1)'
  <2>1. EQ.active
    BY <1>1 DEF EventsOK, EventsActive
  <2> QED BY <1>5, <2>1 DEF EventsActive
<1>10. Armings(C + 1)' <= 2
  <2>1. PICK h \in Nat : h = Handled
    BY ArmingsAre
  <2>2. (C + 1) + n = C + (n + 1)
    OBVIOUS
  <2>3. /\ ToArm' = ToArm /\ Arms(posted)' = Arms(posted) /\ Armed' = Armed /\ Handled' = Handled
        /\ (C + 1) + Len(EQ'.ops) = C + Len(EQ.ops)
    BY <1>1, <1>3, <1>4, <1>5, <2>2, Names DEF ToArm, Armed, Handled
  <2>4. Armings(C + 1)' = Armings(C)
    BY <2>3 DEF Armings
  <2> QED BY <2>4 DEF EventsOK
<1> QED BY <1>7, <1>8, <1>9, <1>10 DEF EventsOK

\* A completion is in memory: an armed queue raises its event.
LEMMA CommitCplEvents ==
  ASSUME NicInv, NEW C \in Nat, NEW t \in Nat, EventsOK(C, t), NEW d \in Dirs, CommitEntry(CqOf[d])
  PROVE  EventsOK(C, t)'
<1>1. /\ CQ(d) \in QueueRecords /\ CQ(d).ops # <<>> /\ CqOf[d] \in Queues /\ CqOf[d] # "eq"
      /\ q' = [q EXCEPT ![CqOf[d]] = EnqueueCommit(CQ(d))] /\ q \in [Queues -> QueueRecords]
      /\ UNCHANGED <<eq, posted, main, intr>>
  BY Names DEF NicInv, Types, QueueTypes, CommitEntry, CQ, drvVars
<1>2. EnqueueCommit(CQ(d)) = [active |-> CQ(d).active, armed |-> FALSE, head |-> Head(CQ(d).ops).ptr,
                              tail |-> CQ(d).tail, ops |-> Tail(CQ(d).ops)]
  BY <1>1, CommittedType
<1>3. /\ EQ' = EQ /\ CQ(d)'.armed = FALSE /\ \A e \in Dirs : e # d => CQ(e)' = CQ(e)
  <2>1. CQ(d)' = EnqueueCommit(CQ(d))
    BY <1>1 DEF CQ
  <2>2. \A e \in Dirs : e # d => CqOf[e] # CqOf[d] /\ CqOf[e] \in Queues
    BY Names
  <2> QED BY <1>1, <1>2, <2>1, <2>2 DEF EQ, CQ, Queues
<1>4. /\ events'[d] = IF CQ(d).armed THEN events[d] + 1 ELSE events[d]
      /\ \A e \in Dirs : e # d => events'[e] = events[e]
  <2>1. events \in [Dirs -> Nat] /\ DirOf(CqOf[d]) = d
    BY Names DEF NicInv, Types, FrameTypes
  <2>2. IF CQ(d).armed THEN events' = [events EXCEPT ![d] = events[d] + 1] ELSE events' = events
    BY <1>1, <2>1 DEF CommitEntry, Raise, CQ
  <2> QED BY <2>1, <2>2
<1>5. EventRing(C, t)' /\ EventTail(t)' /\ EventsRead'
  BY <1>1, <1>3 DEF EventsOK, EventRing, EventTail, EventsRead
<1>6. EventsActive(C)'
  <2>1. ASSUME NEW e \in Dirs, CQ(e)'.armed \/ events'[e] > 0 PROVE CQ(e).armed \/ events[e] > 0
    BY <1>3, <1>4, <2>1
  <2> QED BY <1>1, <1>3, <2>1 DEF EventsOK, EventsActive, Due
<1>7. Armed' = Armed
  <2>1. PICK x1, x2, x3, x4 \in Nat : /\ x1 = One(CQ("tx").armed) /\ x2 = One(CQ("rx").armed)
                                      /\ x3 = events["tx"] /\ x4 = events["rx"]
    BY ArmingsAre
  <2>2. CASE d = "tx"
    <3>1. CQ("rx")' = CQ("rx") /\ events'["rx"] = x4
      BY <1>3, <1>4, <2>1, <2>2, Names
    <3>2. One(CQ("tx")'.armed) = 0
      BY <1>3, <2>2 DEF One
    <3>3. events'["tx"] = x3 + x1
      BY <1>4, <2>1, <2>2 DEF One
    <3>4. Armed = x1 + x2 + x3 + x4 /\ Armed' = 0 + x2 + (x3 + x1) + x4
      BY <2>1, <3>1, <3>2, <3>3 DEF Armed
    <3> QED BY <3>4
  <2>3. CASE d = "rx"
    <3>1. CQ("tx")' = CQ("tx") /\ events'["tx"] = x3
      BY <1>3, <1>4, <2>1, <2>3, Names
    <3>2. One(CQ("rx")'.armed) = 0
      BY <1>3, <2>3 DEF One
    <3>3. events'["rx"] = x4 + x2
      BY <1>4, <2>1, <2>3 DEF One
    <3>4. Armed = x1 + x2 + x3 + x4 /\ Armed' = x1 + 0 + x3 + (x4 + x2)
      BY <2>1, <3>1, <3>2, <3>3 DEF Armed
    <3> QED BY <3>4
  <2> QED BY <2>2, <2>3, Names
<1>8. Armings(C)' = Armings(C)
  BY <1>1, <1>3, <1>7 DEF Armings, ToArm, Handled
<1> QED BY <1>5, <1>6, <1>8 DEF EventsOK

\* The event queue has room for an event: those in it are less than four.
LEMMA EventRoom ==
  ASSUME NicInv, NEW C \in Nat, NEW t \in Nat, EventsOK(C, t), EvSize >= 4,
         NEW d \in Dirs, events[d] > 0
  PROVE  ActiveHead(EQ) = Ptr(C + Len(EQ.ops)) /\ Accepts(EQ, EvSize)
<1>1. /\ EQ.ops \in Seq(Operations) /\ events["tx"] \in Nat /\ events["rx"] \in Nat
  BY RecordTypes, Names DEF NicInv, EQ, Queues
<1>2. PICK n \in Nat : n = Len(EQ.ops)
  BY <1>1
<1>3. ActiveHead(EQ) = Ptr(C + n)
  <2>1. CASE EQ.ops = <<>>
    <3>1. n = 0 /\ C + n = C
      BY <1>2, <2>1
    <3> QED BY <2>1, <3>1 DEF ActiveHead, Latest, EventsOK, EventRing
  <2>2. CASE EQ.ops # <<>>
    <3>1. n \in DOMAIN EQ.ops /\ Last(EQ.ops) = EQ.ops[n]
      BY <1>1, <1>2, <2>2 DEF Last
    <3> QED BY <2>2, <3>1 DEF ActiveHead, Latest, EventsOK, EventRing
  <2> QED BY <2>1, <2>2
<1>4. PICK h, e \in Nat : /\ h = Handled /\ e = eq.head /\ h <= e /\ e <= C /\ e <= t + 2 /\ t <= e
                          /\ (C + n) - h \in Nat
  <2>1. eq.head <= t + 2 /\ t <= eq.tail
    BY DEF EventsOK, EventRing
  <2>2. /\ Handled \in Nat /\ eq.head \in Nat /\ eq.tail \in Nat /\ Handled <= eq.head
        /\ eq.head <= C /\ eq.tail <= Handled /\ (C + n) - Handled \in Nat
    BY <1>2, ArmingsAre
  <2>3. t <= eq.head
    BY <2>1, <2>2
  <2> QED BY <2>1, <2>2, <2>3
<1>5. C + n <= h + 1
  <2>1. PICK x1, x2, x3, z \in Nat : x1 = ToArm /\ x2 = Arms(posted) /\ x3 = Armed /\ z = (C + n) - h
    BY <1>2, <1>4, ArmingsAre
  <2>2. x1 + x2 + x3 + z <= 2
    BY <1>2, <1>4, <2>1 DEF EventsOK, Armings
  <2>3. x3 >= 1
    <3>1. PICK y1, y2, y3, y4 \in Nat : /\ y1 = One(CQ("tx").armed) /\ y2 = One(CQ("rx").armed)
                                        /\ y3 = events["tx"] /\ y4 = events["rx"]
      BY ArmingsAre
    <3>2. x3 = y1 + y2 + y3 + y4
      BY <2>1, <3>1 DEF Armed
    <3>3. y3 > 0 \/ y4 > 0
      BY <3>1, Names
    <3> QED BY <3>2, <3>3
  <2>4. z <= 1
    BY <2>2, <2>3
  <2> QED BY <1>4, <2>1, <2>4
<1>6. ~Full(EQ, EvSize)
  <2>1. PICK m \in Nat : m = C + n /\ t <= m /\ m - t < EvSize /\ m - t < PtrMod
    <3>1. C + n \in Nat /\ t <= C + n /\ C + n <= t + 3
      BY <1>4, <1>5
    <3>2. (C + n) - t < EvSize
      BY <3>1, Sizes
    <3>3. (C + n) - t < PtrMod
      BY <3>1, <3>2, Sizes
    <3> QED BY <3>1, <3>2, <3>3
  <2>2. ActiveHead(EQ) = m % PtrMod /\ EQ.tail = t % PtrMod
    BY <1>3, <2>1 DEF Ptr, EventsOK, EventRing
  <2>3. ((m % PtrMod) - (t % PtrMod)) % PtrMod = m - t
    BY <2>1, Wrapped
  <2>4. ~(m - t >= EvSize)
    BY <2>1, Sizes
  <2> QED BY <2>2, <2>3, <2>4 DEF Full
<1>7. EQ.active
  BY DEF EventsOK, EventsActive
<1> QED BY <1>2, <1>3, <1>6, <1>7 DEF Accepts

\* An event gets its entry.
LEMMA EnqueueEventEvents ==
  ASSUME NicInv, NEW C \in Nat, NEW t \in Nat, EventsOK(C, t), EvSize >= 4,
         NEW d \in Dirs, EnqueueEvent(d)
  PROVE  EventsOK(C, t)' /\ lost' = lost
<1> DEFINE op == [ptr |-> Plus1(ActiveHead(EQ)), data |-> d]
<1>1. /\ EQ \in QueueRecords /\ EQ.ops \in Seq(Operations) /\ "eq" \in Queues
      /\ events[d] > 0 /\ events \in [Dirs -> Nat] /\ events' = [events EXCEPT ![d] = @ - 1]
      /\ UNCHANGED <<eq, posted, main, intr>> /\ q \in [Queues -> QueueRecords]
  BY RecordTypes DEF NicInv, Types, FrameTypes, QueueTypes, EQ, Queues, EnqueueEvent, drvVars
<1>2. ActiveHead(EQ) = Ptr(C + Len(EQ.ops)) /\ Accepts(EQ, EvSize)
  BY <1>1, EventRoom
<1>3. q' = [q EXCEPT !["eq"] = Enqueue(EQ, d)] /\ lost' = lost
  BY <1>2 DEF EnqueueEvent, EQ
<1>4. PICK n \in Nat : n = Len(EQ.ops) /\ DOMAIN EQ.ops = 1..n
  BY <1>1
<1>5. op \in Operations /\ op.ptr = Ptr(C + (n + 1))
  <2>1. C + n \in Nat /\ (C + n) + 1 = C + (n + 1)
    OBVIOUS
  <2>2. Plus1((C + n) % PtrMod) = ((C + n) + 1) % PtrMod
    BY <2>1, Wrapped
  <2>3. op.ptr = Ptr(C + (n + 1))
    BY <1>2, <1>4, <2>1, <2>2 DEF Ptr
  <2>4. Ptr(C + (n + 1)) \in Pointers
    BY PtrIs
  <2> QED BY <2>3, <2>4 DEF Operations
<1>6. Enqueue(EQ, d) = [EQ EXCEPT !.ops = Append(EQ.ops, op)]
  BY DEF Enqueue, Started
<1>7. EQ' = Enqueue(EQ, d) /\ \A e \in Dirs : CQ(e)' = CQ(e)
  BY <1>1, <1>3, Names DEF EQ, CQ
<1>8. /\ EQ'.active = EQ.active /\ EQ'.head = EQ.head /\ EQ'.tail = EQ.tail
      /\ EQ'.ops = Append(EQ.ops, op)
  BY <1>1, <1>6, <1>7 DEF QueueRecords
<1>9. /\ Len(EQ'.ops) = n + 1 /\ DOMAIN EQ'.ops = 1..(n + 1) /\ EQ'.ops[n + 1] = op
      /\ \A j \in 1..n : EQ'.ops[j] = EQ.ops[j]
  <2> HIDE DEF op
  <2> QED BY <1>1, <1>4, <1>5, <1>8
<1>10. EventRing(C, t)'
  <2>1. ASSUME NEW j \in DOMAIN EQ'.ops PROVE EQ'.ops[j].ptr = Ptr(C + j)
    <3>1. j = n + 1 \/ j \in 1..n
      BY <1>9
    <3> HIDE DEF op
    <3> QED BY <1>4, <1>5, <1>9, <3>1 DEF EventsOK, EventRing
  <2> HIDE DEF op
  <2> QED BY <1>1, <1>8, <2>1 DEF EventsOK, EventRing
<1> HIDE DEF op
<1>11. EventTail(t)' /\ EventsRead'
  BY <1>1 DEF EventsOK, EventTail, EventsRead
<1>12. EventsActive(C)'
  <2>1. EQ.active
    BY <1>1 DEF EventsOK, EventsActive
  <2> QED BY <1>8, <2>1 DEF EventsActive
<1>13. Armings(C)' = Armings(C)
  <2>1. PICK x1, x2, x3, x4 \in Nat : /\ x1 = One(CQ("tx").armed) /\ x2 = One(CQ("rx").armed)
                                      /\ x3 = events["tx"] /\ x4 = events["rx"]
    BY ArmingsAre
  <2>2. Armed = x1 + x2 + x3 + x4 /\ Armed' = x1 + x2 + x3 + x4 - 1
    <3>1. events'["tx"] = (IF d = "tx" THEN x3 - 1 ELSE x3) /\ events'["rx"] = (IF d = "tx" THEN x4 ELSE x4 - 1)
      BY <1>1, <2>1, Names
    <3>2. Armed' = x1 + x2 + events'["tx"] + events'["rx"]
      BY <1>7, <2>1, Names DEF Armed
    <3>3. Armed = x1 + x2 + x3 + x4
      BY <2>1 DEF Armed
    <3>4. CASE d = "tx"
      <4>1. Armed' = x1 + x2 + (x3 - 1) + x4
        BY <3>1, <3>2, <3>4
      <4> QED BY <3>3, <4>1
    <3>5. CASE d # "tx"
      <4>1. Armed' = x1 + x2 + x3 + (x4 - 1)
        BY <3>1, <3>2, <3>5
      <4> QED BY <3>3, <4>1
    <3> QED BY <3>4, <3>5
  <2>3. PICK s, a, h, m \in Nat : /\ s = ToArm /\ a = Arms(posted) /\ h = Handled
                                  /\ m = x1 + x2 + x3 + x4
    <3>1. x1 + x2 + x3 + x4 \in Nat
      OBVIOUS
    <3> QED BY <3>1, ArmingsAre
  <2>4. Armings(C) = s + a + m + ((C + n) - h)
    BY <1>4, <2>2, <2>3 DEF Armings
  <2>5. Armings(C)' = s + a + (m - 1) + ((C + (n + 1)) - h)
    BY <1>1, <1>9, <2>2, <2>3 DEF Armings, ToArm, Handled
  <2>6. s + a + m + ((C + n) - h) = s + a + (m - 1) + ((C + (n + 1)) - h)
    OBVIOUS
  <2> QED BY <2>4, <2>5, <2>6
<1> QED BY <1>3, <1>10, <1>11, <1>12, <1>13 DEF EventsOK

\* The data of a frame is moved: its completion has an entry.
LEMMA MoveDataEvents ==
  ASSUME NicInv, NEW C \in Nat, NEW t \in Nat, EventsOK(C, t), NEW d \in Dirs, MoveData(d)
  PROVE  EventsOK(C, t)' /\ lost' = lost
<1>1. /\ lost' = lost /\ CQ(d) \in QueueRecords /\ CqOf[d] \in Queues /\ CqOf[d] # "eq"
      /\ \A x \in Queues : x # CqOf[d] => q'[x] = q[x]
      /\ UNCHANGED <<eq, posted, main, events, intr>> /\ q \in [Queues -> QueueRecords]
      /\ \A e \in Dirs : e # d => CQ(e)' = CQ(e)
  BY MoveJobs, Names DEF NicInv, Types, QueueTypes, CQ, MoveData, drvVars
<1>2. CQ(d)'.armed = CQ(d).armed
  <2>1. Accepts(CQ(d), Size)
    BY MoveWhere
  <2>2. q' = [q EXCEPT ![CqOf[d]] = Enqueue(CQ(d), Head(work[d]).ptr)]
    BY <2>1 DEF MoveData, CQ
  <2>3. CQ(d)' = Enqueue(CQ(d), Head(work[d]).ptr)
    BY <1>1, <2>2 DEF CQ
  <2>4. Enqueue(CQ(d), Head(work[d]).ptr).armed = CQ(d).armed
    BY <1>1 DEF Enqueue, Started, QueueRecords
  <2> QED BY <2>3, <2>4
<1>3. EQ' = EQ
  BY <1>1 DEF EQ, Queues
<1>4. \A e \in Dirs : CQ(e)'.armed = CQ(e).armed
  BY <1>1, <1>2
<1> QED BY <1>1, <1>3, <1>4, EventsStill

\* Descriptors are fetched, frames arrive and interrupts are sent.
LEMMA OtherEvents ==
  ASSUME NicInv, NEW C \in Nat, NEW t \in Nat, EventsOK(C, t),
         \/ TxFetch \/ RxFetch \/ SendMsi \/ Arrive
         \/ \E d \in Dirs : ReadDescriptor(d)
         \/ UNCHANGED nicVars
  PROVE  EventsOK(C, t)' /\ lost' = lost
<1>1. /\ q \in [Queues -> QueueRecords]
      /\ RingQ["tx"] = "txq" /\ RingQ["rx"] = "rxq" /\ "tx" \in Dirs /\ "rx" \in Dirs
  BY Names DEF NicInv, Types, QueueTypes, RingQ
<1>2. UNCHANGED <<eq, posted, main, events, intr, lost>>
  BY DEF TxFetch, RxFetch, SendMsi, Arrive, ReadDescriptor, nicVars, drvVars
<1>3. q' = q \/ \E d \in Dirs : \E y : q' = [q EXCEPT ![RingQ[d]] = y]
  <2>1. CASE TxFetch
    BY <1>1, <2>1 DEF TxFetch
  <2>2. CASE RxFetch
    BY <1>1, <2>2 DEF RxFetch
  <2>3. CASE SendMsi \/ Arrive \/ UNCHANGED nicVars
    BY <2>3 DEF SendMsi, Arrive, nicVars
  <2>4. CASE \E d \in Dirs : ReadDescriptor(d)
    BY <2>4 DEF ReadDescriptor
  <2> QED BY <2>1, <2>2, <2>3, <2>4
<1>4. EQ' = EQ /\ \A d \in Dirs : CQ(d)' = CQ(d)
  BY <1>1, <1>3, Names DEF EQ, CQ, Queues
<1>5. EventsOK(C, t)'
  BY <1>2, <1>4, EventsStill
<1> QED BY <1>2, <1>5

-----------------------------------------------------------------------------
(* No completion and no event is lost. *)

\* In the initial state nothing is armed and open has two queues to arm.
LEMMA EventInit == NicInit => EventInv /\ lost = 0
<1> SUFFICES ASSUME NicInit PROVE EventInv /\ lost = 0
  OBVIOUS
<1>1. /\ EQ = EmptyQueue /\ \A d \in Dirs : CQ(d) = EmptyQueue /\ events[d] = 0
      /\ posted = <<>> /\ DOMAIN posted = {} /\ eq = NewEq /\ lost = 0 /\ main = ToDo
      /\ intr.pc = "idle"
  BY Names DEF NicInit, EQ, CQ, Queues
<1>2. Ptr(0) = 0
  BY PtrIs, Sizes DEF Pointers
<1>3. EventRing(0, 0) /\ EventTail(0) /\ EventsRead
  BY <1>1, <1>2 DEF EventRing, EventTail, EventsRead, EmptyQueue, NewEq, Handling
<1>4. EventsActive(0)
  BY <1>1 DEF EventsActive, EmptyQueue
<1>5. Armings(0) <= 2
  <2>1. ToArm \in 0..2
    BY DEF ToArm
  <2>2. Arms(posted) = 0
    <3>1. <<>> \in Seq(Writes)
      OBVIOUS
    <3>2. posted \in Seq(Writes)
      BY <1>1, <3>1
    <3> QED BY <1>1, <3>2, ArmsFew
  <2>3. Armed = 0
    BY <1>1, Names DEF Armed, One, EmptyQueue
  <2>4. Handled = 0 /\ Len(EQ.ops) = 0
    BY <1>1 DEF Handled, Handling, NewEq, EmptyQueue
  <2> QED BY <2>1, <2>2, <2>3, <2>4 DEF Armings
<1>6. EventsOK(0, 0)
  BY <1>3, <1>4, <1>5 DEF EventsOK
<1> QED BY <1>1, <1>6 DEF EventInv

\* Every step of open, start_xmit, the interrupt callback and the device.
LEMMA EventNext ==
  ASSUME EvSize >= 4, NicInv, EventInv, [NicNext]_nicVars
  PROVE  EventInv' /\ lost' = lost
<1>1. PICK C \in Nat, t \in Nat : EventsOK(C, t)
  BY DEF EventInv
<1>2. ASSUME NEW B \in Nat, NEW u \in Nat, EventsOK(B, u)' PROVE EventInv'
  BY <1>2 DEF EventInv
<1>3. CASE Open
  BY <1>1, <1>2, <1>3, OpenEvents DEF Open
<1>4. CASE StartXmit
  BY <1>1, <1>2, <1>4, StartXmitEvents DEF StartXmit
<1>5. CASE Callback
  <2>1. lost' = lost
    BY <1>5 DEF Callback, Interrupt, ReadEvents, ReadCompletions, ReadRing, FinishInterrupt
  <2>2. EventsOK(C, t)'
    BY <1>1, <1>5, InterruptEvents, ReadEventsEvents, ReadCompletionsEvents, ReadRingEvents,
       FinishEvents DEF Callback
  <2> QED BY <1>2, <2>1, <2>2
<1>6. CASE WriteRegister
  <2>1. lost' = lost
    BY <1>6 DEF WriteRegister
  <2> QED BY <1>1, <1>2, <1>6, <2>1, WriteRegisterEvents
<1>7. CASE Device
  <2>1. CASE TxFetch \/ RxFetch \/ SendMsi \/ \E d \in Dirs : ReadDescriptor(d)
    BY <1>1, <1>2, <2>1, OtherEvents
  <2>2. ASSUME NEW d \in Dirs, MoveData(d) PROVE EventInv' /\ lost' = lost
    BY <1>1, <1>2, <2>2, MoveDataEvents
  <2>3. ASSUME NEW d \in Dirs, EnqueueEvent(d) PROVE EventInv' /\ lost' = lost
    BY <1>1, <1>2, <2>3, EnqueueEventEvents
  <2>4. ASSUME NEW queue \in {"eq", "txcq", "rxcq"}, CommitEntry(queue)
        PROVE  EventInv' /\ lost' = lost
    <3>1. lost' = lost
      BY <2>4 DEF CommitEntry
    <3>2. CASE queue = "eq"
      <4>1. C + 1 \in Nat
        OBVIOUS
      <4>2. EventsOK(C + 1, t)'
        BY <1>1, <2>4, <3>2, CommitEventEvents
      <4> QED BY <1>2, <3>1, <4>1, <4>2
    <3>3. CASE queue # "eq"
      <4>1. PICK d \in Dirs : CqOf[d] = queue
        BY <2>4, <3>3 DEF CqOf, Dirs
      <4>2. EventsOK(C, t)'
        BY <1>1, <2>4, <4>1, CommitCplEvents
      <4> QED BY <1>2, <3>1, <4>2
    <3> QED BY <3>2, <3>3
  <2> QED BY <1>7, <2>1, <2>2, <2>3, <2>4 DEF Device
<1>8. CASE Arrive \/ UNCHANGED nicVars
  BY <1>1, <1>2, <1>8, OtherEvents
<1> QED BY <1>3, <1>4, <1>5, <1>6, <1>7, <1>8 DEF NicNext

\* NoCompletionLost: with an event queue of four entries or more, every completion
\* and every event finds its queue active and an entry free, whatever the order of
\* accesses, DMA and interrupts (cpl_queue_manager.v refuses the others, and
\* the engines go on without them).
THEOREM EventsNotLost == EvSize >= 4 /\ NicSpec => []NoCompletionLost
<1> SUFFICES ASSUME EvSize >= 4 PROVE NicSpec => []NoCompletionLost
  OBVIOUS
<1> DEFINE Inv == NicInv /\ EventInv /\ lost = 0
<1>1. NicInit => Inv
  BY NicInvInit, EventInit
<1>2. Inv /\ [NicNext]_nicVars => Inv'
  <2> SUFFICES ASSUME Inv, [NicNext]_nicVars PROVE Inv'
    OBVIOUS
  <2>1. NicInv'
    BY NicInvNext
  <2>2. EventInv' /\ lost' = lost
    BY EventNext
  <2> QED BY <2>1, <2>2
<1>3. Inv => NoCompletionLost
  BY DEF NoCompletionLost
<1> QED BY <1>1, <1>2, <1>3, PTL DEF NicSpec
=============================================================================
