---------------------------- MODULE PcieBuses_proof ----------------------------
(***************************************************************************)
(* Proofs about PcieEnum for every tree that can be built: the bus numbers  *)
(* of bridges stay nested while they are enumerated, configuration requests *)
(* and completions find their functions by them, and the walk of the tree   *)
(* leaves no function out.                                                  *)
(***************************************************************************)
EXTENDS PcieEnum_proof, FiniteSetTheorems, WellFoundedInduction

(***************************************************************************)
(* Recursive definitions.                                                   *)
(***************************************************************************)
\* A set of numbers that is not empty has a least one.
LEMMA LeastNumber ==
  ASSUME NEW T, T \subseteq Nat, T # {}
  PROVE  \E x \in T : \A y \in T : x <= y
<1>1. IsWellFoundedOn(OpToRel(<, Nat), Nat)
  BY NatLessThanWellFounded
<1>2. PICK x \in T : \A y \in T : ~ (<<y, x>> \in OpToRel(<, Nat))
  BY <1>1, WFMin
<1>3. \A y \in T : ~(y < x)
  BY <1>2, Zenon DEF OpToRel
<1> QED
  BY <1>3

\* The first function of a set is in it, and no other comes before it.
LEMMA FirstIsLeast ==
  ASSUME NEW T, T \subseteq Nat, T # {}
  PROVE  First(T) \in T /\ \A y \in T : First(T) <= y
  BY LeastNumber DEF First, Min

\* F gives the value at d of a function on D from the function itself, of which
\* it uses the values of lower rank only.
Recursion(D, V, n, rank, F) ==
  /\ n \in Nat /\ V # {} /\ rank \in [D -> 0..n] /\ F \in [D \X [D -> V] -> V]
  /\ \A d \in D : \A g, h \in [D -> V] :
       (\A e \in D : rank[e] < rank[d] => g[e] = h[e]) => F[<<d, g>>] = F[<<d, h>>]

\* Such a recursion defines a function.
LEMMA RecursionExists ==
  ASSUME NEW D, NEW V, NEW n, NEW rank, NEW F, Recursion(D, V, n, rank, F)
  PROVE  \E g \in [D -> V] : \A d \in D : g[d] = F[<<d, g>>]
<1> USE DEF Recursion
<1> DEFINE Good(m) == \E g \in [D -> V] : \A d \in D : rank[d] < m => g[d] = F[<<d, g>>]
           T == {m \in 0..(n + 1) : ~Good(m)}
<1>1. Good(0)
  <2>1. PICK v \in V : TRUE
    OBVIOUS
  <2>2. [d \in D |-> v] \in [D -> V] /\ \A d \in D : ~(rank[d] < 0)
    OBVIOUS
  <2> QED
    BY <2>2
<1>2. ASSUME NEW m \in 0..n, Good(m)
      PROVE  Good(m + 1)
  <2>1. PICK g \in [D -> V] : \A d \in D : rank[d] < m => g[d] = F[<<d, g>>]
    BY <1>2
  <2> DEFINE h == [d \in D |-> IF rank[d] = m THEN F[<<d, g>>] ELSE g[d]]
  <2>2. h \in [D -> V]
    OBVIOUS
  <2>3. ASSUME NEW d \in D, rank[d] < m + 1
        PROVE  h[d] = F[<<d, h>>]
    <3>1. ASSUME NEW e \in D, rank[e] < rank[d]
          PROVE  g[e] = h[e]
      <4>1. rank[e] \in 0..n /\ rank[d] \in 0..n /\ rank[d] < m + 1
        BY <2>3
      <4>2. rank[e] # m
        BY <3>1, <4>1
      <4> QED
        BY <4>2
    <3>2. F[<<d, g>>] = F[<<d, h>>]
      BY <2>2, <3>1
    <3>3. rank[d] \in 0..n
      OBVIOUS
    <3>4. rank[d] = m \/ rank[d] < m
      BY <2>3, <3>3
    <3> QED
      BY <2>1, <3>2, <3>4
  <2> QED
    BY <2>2, <2>3
<1> HIDE DEF Good
<1>3. T = {}
  <2> SUFFICES ASSUME T # {}
               PROVE  FALSE
    OBVIOUS
  <2>1. T \subseteq Nat
    OBVIOUS
  <2>2. PICK m \in T : \A y \in T : m <= y
    BY <2>1, LeastNumber
  <2>3. m \in 1..(n + 1)
    BY <1>1
  <2>4. m - 1 \in 0..n /\ m - 1 \notin T
    BY <2>2, <2>3
  <2>5. Good(m - 1)
    BY <2>4
  <2>6. m = (m - 1) + 1
    BY <2>3
  <2>7. Good(m)
    BY <1>2, <2>4, <2>5, <2>6
  <2> QED
    BY <2>7
<1>4. Good(n + 1)
  BY <1>3
<1> QED
  BY <1>4 DEF Good

(***************************************************************************)
(* The stack.                                                               *)
(***************************************************************************)
\* A sequence is one of what it holds.
IsStack(s) == s \in Seq({s[i] : i \in DOMAIN s})
LEMMA StackOf ==
  ASSUME NEW S, NEW s \in Seq(S)
  PROVE  IsStack(s)
<1>1. Len(s) \in Nat /\ DOMAIN s = 1..Len(s) /\ s = [i \in 1..Len(s) |-> s[i]]
  OBVIOUS
<1> DEFINE R == {s[i] : i \in DOMAIN s}
<1>2. \A i \in 1..Len(s) : s[i] \in R
  BY <1>1
<1> HIDE DEF R
<1>3. s \in Seq(R)
  BY <1>1, <1>2
<1> QED
  BY <1>3 DEF IsStack, R

\* What is behind the head of a stack.
LEMMA TailOf ==
  ASSUME NEW s, IsStack(s), s # <<>>
  PROVE  /\ IsStack(Tail(s)) /\ Len(s) \in Nat \ {0} /\ Len(Tail(s)) = Len(s) - 1
         /\ Head(s) = s[1] /\ \A i \in 1..(Len(s) - 1) : Tail(s)[i] = s[i + 1]
<1> DEFINE S == {s[i] : i \in DOMAIN s}
<1>1. s \in Seq(S)
  BY DEF IsStack
<1> HIDE DEF S
<1>2. Tail(s) \in Seq(S) /\ Len(s) \in Nat \ {0} /\ Len(Tail(s)) = Len(s) - 1
  BY <1>1
<1>3. \A i \in 1..(Len(s) - 1) : Tail(s)[i] = s[i + 1]
  BY <1>1
<1>4. IsStack(Tail(s))
  BY <1>2, StackOf
<1>5. Head(s) = s[1]
  BY <1>1
<1> QED
  BY <1>2, <1>3, <1>4, <1>5

\* The elements of a sequence.
LEMMA ElementsOf ==
  ASSUME NEW S, NEW s \in Seq(S)
  PROVE  /\ Len(s) \in Nat /\ \A i \in 1..Len(s) : s[i] \in S
         /\ s # <<>> => Len(s) \in Nat \ {0} /\ 1 \in 1..Len(s) /\ s[1] \in S
  OBVIOUS

\* A stack with one more on it.
LEMMA Pushed ==
  ASSUME NEW s, IsStack(s), NEW x
  PROVE  LET q == <<x>> \o s IN
         /\ IsStack(q) /\ q # <<>> /\ Len(s) \in Nat /\ Len(q) = Len(s) + 1 /\ q[1] = x /\ Head(q) = x
         /\ \A i \in 1..Len(s) : q[i + 1] = s[i]
<1> DEFINE q == <<x>> \o s
           S == {s[i] : i \in DOMAIN s}
           R == S \cup {x}
<1>1. s \in Seq(S)
  BY DEF IsStack
<1> HIDE DEF S
<1>2. s \in Seq(R) /\ x \in R
  BY <1>1
<1> HIDE DEF R
<1>3. q \in Seq(R) /\ Len(s) \in Nat /\ Len(q) = Len(s) + 1
  BY <1>2
<1>4. q[1] = x
  BY <1>2
<1>5. \A i \in 1..Len(s) : q[i + 1] = s[i]
  BY <1>2
<1>6. IsStack(q)
  BY <1>3, StackOf
<1>7. q # <<>>
  BY <1>3
<1>8. Head(q) = q[1]
  BY <1>3, <1>7
<1> QED
  BY <1>3, <1>4, <1>5, <1>6, <1>7, <1>8

\* A stack with another on top.
LEMMA Topped ==
  ASSUME NEW s, IsStack(s), s # <<>>, NEW x
  PROVE  LET q == <<x>> \o Tail(s) IN
         /\ IsStack(q) /\ q # <<>> /\ Len(q) = Len(s) /\ q[1] = x /\ Head(q) = x
         /\ \A i \in 2..Len(s) : q[i] = s[i]
<1>1. /\ IsStack(Tail(s)) /\ Len(s) \in Nat \ {0} /\ Len(Tail(s)) = Len(s) - 1
      /\ \A i \in 1..(Len(s) - 1) : Tail(s)[i] = s[i + 1]
  BY TailOf
<1> DEFINE t == Tail(s)
           q == <<x>> \o t
<1> HIDE DEF t
<1>2. /\ IsStack(q) /\ q # <<>> /\ Len(q) = Len(t) + 1 /\ q[1] = x /\ Head(q) = x
      /\ \A i \in 1..Len(t) : q[i + 1] = t[i]
  <2>1. IsStack(t)
    BY <1>1 DEF t
  <2> QED
    BY <2>1, Pushed
<1> HIDE DEF q
<1>3. Len(q) = Len(s)
  BY <1>1, <1>2 DEF t
<1>4. ASSUME NEW i \in 2..Len(s)
      PROVE  q[i] = s[i]
  <2>1. i - 1 \in 1..(Len(s) - 1) /\ (i - 1) + 1 = i
    BY <1>1
  <2>2. q[(i - 1) + 1] = t[i - 1] /\ t[i - 1] = s[(i - 1) + 1]
    BY <1>1, <1>2, <2>1 DEF t
  <2> QED
    BY <2>1, <2>2
<1> QED
  BY <1>2, <1>3, <1>4 DEF q, t

(***************************************************************************)
(* The invariant.  A bridge is open once it has a secondary bus.  The       *)
(* activations of enumerate_segment are those of a chain of open bridges    *)
(* down from the host bridge, the innermost first.                          *)
(***************************************************************************)
Opened(b) == b = 0 \/ regs[b].sec # 0
IsRegs(r) == r \in [bus : 0..LastBus, sec : 0..LastBus, sub : 0..LastBus, win : {r.win}, bar : {r.bar},
                    caps : {r.caps}, master : {r.master}, msi : {r.msi}]
Steps == {"device", "function", "bars", "caps", "bridge", "children"}
IsActivation(fr) ==
  fr \in [bus : Nat, sec : Nat, sub : Nat, dev : Nat, fn : Nat, all : BOOLEAN,
          at : Steps, bar : Nat \ {0}, ptr : {fr.ptr}, win : {fr.win}]

\* Types of what enumeration keeps.
TypesInv ==
  /\ WellBuilt(tree) /\ phase \in {"off", "on", "done"}
  /\ DOMAIN regs = 0..tree.n /\ \A f \in 0..tree.n : IsRegs(regs[f])
  /\ \A f \in Fun : DOMAIN regs[f].bar = DOMAIN tree.bars[f]
  /\ lim \in [Spaces -> Nat] /\ msiLimit \in Nat

\* Bus numbers: those behind a bridge are inside the numbers of the bridge
\* above it and behind its secondary bus, and apart from those of the bridges
\* beside it.  A bridge that is not open has none.
Inside(f, b) ==
  /\ regs[b].sec < regs[f].sec /\ regs[f].sec <= regs[f].sub /\ regs[f].sub <= regs[b].sub
Apart(f, g) == regs[f].sub < regs[g].sec \/ regs[g].sub < regs[f].sec
BusesInv ==
  /\ regs[0].sec = 0 /\ regs[0].sub = LastBus
  /\ \A f \in Fun : ~Opened(f) => regs[f].sub = 0
  /\ \A f \in Fun : Opened(f) => f \in Bridges /\ Opened(tree.up[f]) /\ Inside(f, tree.up[f])
  /\ \A f, g \in Fun : f # g /\ tree.up[f] = tree.up[g] /\ Opened(f) /\ Opened(g) => Apart(f, g)

\* What was found is at the bus behind its bridge.
Place(f) == Id(regs[tree.up[f]].sec, tree.dev[f], tree.fn[f])
FoundInv == \A p \in found : \E f \in Fun : Opened(tree.up[f]) /\ p = <<Place(f), f>>

\* The function is at the position of the scan, or before it.
At(k, fr) == tree.dev[k] = fr.dev /\ tree.fn[k] = fr.fn
Before(k, fr) == tree.dev[k] < fr.dev \/ (tree.dev[k] = fr.dev /\ tree.fn[k] < fr.fn)

ChainInv(ch) ==
  /\ ch \in Seq(0..tree.n) /\ ch # <<>> /\ ch[Len(ch)] = 0
  /\ \A i, j \in 1..Len(ch) : i < j => ch[j] < ch[i]
  /\ \A i \in 1..Len(ch) : Opened(ch[i]) /\ regs[ch[i]].sub = LastBus
  /\ \A i \in 1..(Len(ch) - 1) : tree.up[ch[i]] = ch[i + 1]

\* Open bridges below one on the chain are before the position of its scan, but
\* for the next on the chain, which is at it.
StackInv(ch) ==
  /\ IsStack(stack) /\ Len(stack) = Len(ch)
  /\ \A i \in 1..Len(ch) : IsActivation(stack[i]) /\ stack[i].bus = regs[ch[i]].sec
  /\ \A i \in 1..(Len(ch) - 1) : At(ch[i], stack[i + 1])
  /\ \A i \in 1..Len(ch) : \A k \in Kids(ch[i]) :
       Opened(k) => Before(k, stack[i]) \/ (i > 1 /\ k = ch[i - 1])

\* The next number is that of the open bridges, behind every number in use but
\* those of the bridges on the chain.
NumbersInv(ch) ==
  /\ Frame.sec = Frame.sub + 1 /\ Frame.sub = Cardinality({f \in Fun : Opened(f)})
  /\ \A f \in 0..tree.n : Opened(f) => regs[f].sec < Frame.sec
  /\ \A f \in 0..tree.n : Opened(f) /\ (\A i \in 1..Len(ch) : ch[i] # f) => regs[f].sub < Frame.sec
  /\ Frame.at = "bridge" => \E k \in Kids(ch[1]) : k \in Bridges /\ At(k, Frame)

EnumInv(ch) ==
  /\ TypesInv /\ BusesInv /\ FoundInv
  /\ phase = "on" => ChainInv(ch) /\ StackInv(ch) /\ NumbersInv(ch)
  /\ phase # "on" => stack = <<>>
  /\ phase = "off" => \A f \in Fun : ~Opened(f)

(***************************************************************************)
(* Routing of configuration requests.                                       *)
(***************************************************************************)
\* A function is behind the bridge above it, which is one.
LEMMA Above ==
  ASSUME WellBuilt(tree), NEW f \in Fun
  PROVE  /\ tree.up[f] \in 0..tree.n /\ tree.up[f] < f /\ f \in 1..tree.n /\ tree.n \in Nat
         /\ tree.up[f] # 0 => tree.up[f] \in Bridges
<1>1. tree.n \in Nat /\ f \in 1..tree.n /\ tree.up[f] \in 0..tree.n
  BY DEF WellBuilt, Fun
<1>2. tree.up[f] # 0 => tree.up[f] < f /\ tree.kind[tree.up[f]] # "ep"
  BY <1>1 DEF WellBuilt
<1> QED
  BY <1>1, <1>2 DEF Bridges, Fun

\* The function routing falls to is one below the bridge.
LEMMA FirstKid ==
  ASSUME WellBuilt(tree), NEW b \in 0..tree.n, NEW T, T \subseteq Kids(b), T # {}
  PROVE  First(T) \in T /\ First(T) \in Kids(b) /\ First(T) \in Fun /\ b < First(T)
<1>1. T \subseteq Nat
  BY DEF Kids, Fun, WellBuilt
<1>2. First(T) \in T
  BY <1>1, FirstIsLeast
<1>3. First(T) \in Fun /\ tree.up[First(T)] = b
  BY <1>2 DEF Kids
<1> QED
  BY <1>2, <1>3, Above

\* The routing of configuration requests is well defined: it goes down only.
LEMMA CfgDownDefined ==
  ASSUME WellBuilt(tree), NEW id
  PROVE  \E down : /\ CfgDown(id) = down[0]
                   /\ \A b \in 0..tree.n : down[b] = CfgStep(id, down, b)
<1> DEFINE D == 0..tree.n
           rank == [b \in D |-> tree.n - b]
           F == [p \in D \X [D -> Int] |-> CfgStep(id, p[2], p[1])]
<1>1. tree.n \in Nat
  BY DEF WellBuilt
<1>2. rank \in [D -> 0..tree.n]
  BY <1>1
<1>3. ASSUME NEW b \in D, NEW g \in [D -> Int]
      PROVE  CfgStep(id, g, b) \in Int
  <2>1. CfgHits(id, b) # {} => First(CfgHits(id, b)) \in Fun
    BY FirstKid DEF CfgHits
  <2>2. \A k \in Fun : k \in Int /\ g[k] \in Int
    BY <1>1 DEF Fun
  <2> QED
    BY <2>1, <2>2 DEF CfgStep, UR, Lost, Failed
<1>4. F \in [D \X [D -> Int] -> Int]
  BY <1>3
<1>5. ASSUME NEW b \in D, NEW g \in [D -> Int], NEW h \in [D -> Int],
             \A e \in D : rank[e] < rank[b] => g[e] = h[e]
      PROVE  F[<<b, g>>] = F[<<b, h>>]
  <2>1. ASSUME CfgHits(id, b) # {}
        PROVE  g[First(CfgHits(id, b))] = h[First(CfgHits(id, b))]
    <3> DEFINE k == First(CfgHits(id, b))
    <3>1. k \in Fun /\ b < k
      BY <2>1, FirstKid DEF CfgHits
    <3> HIDE DEF k
    <3>2. k \in D /\ rank[k] < rank[b]
      BY <1>1, <3>1 DEF Fun
    <3>3. g[k] = h[k]
      BY <1>5, <3>2
    <3> QED
      BY <3>3 DEF k
  <2>2. CfgStep(id, g, b) = CfgStep(id, h, b)
    BY <2>1 DEF CfgStep
  <2> QED
    BY <2>2
<1> HIDE DEF D, rank, F
<1>6. PICK down \in [D -> Int] : \A b \in D : down[b] = F[<<b, down>>]
  <2>1. Int # {}
    OBVIOUS
  <2>2. \A b \in D : \A g, h \in [D -> Int] :
          (\A e \in D : rank[e] < rank[b] => g[e] = h[e]) => F[<<b, g>>] = F[<<b, h>>]
    BY <1>5
  <2>3. Recursion(D, Int, tree.n, rank, F)
    BY <1>1, <1>2, <1>4, <2>1, <2>2, Zenon DEF Recursion
  <2> QED
    BY <2>3, RecursionExists
<1>7. \A b \in D : down[b] = CfgStep(id, down, b)
  BY <1>6 DEF F
<1> DEFINE f == CHOOSE g : g = [b \in 0..tree.n |-> CfgStep(id, g, b)]
<1>8. f = [b \in 0..tree.n |-> CfgStep(id, f, b)]
  <2>1. down = [b \in 0..tree.n |-> CfgStep(id, down, b)]
    BY <1>6, <1>7 DEF D
  <2> QED
    BY <2>1
<1>9. CfgDown(id) = f[0]
  BY DEF CfgDown
<1> HIDE DEF f
<1> QED
  BY <1>8, <1>9

\* Bus numbers are numbers.
LEMMA BusTypes ==
  ASSUME TypesInv, NEW f \in 0..tree.n
  PROVE  /\ regs[f].bus \in 0..LastBus /\ regs[f].sec \in 0..LastBus /\ regs[f].sub \in 0..LastBus
         /\ regs[f].bus \in Nat /\ regs[f].sec \in Nat /\ regs[f].sub \in Nat /\ LastBus \in Nat
<1>1. IsRegs(regs[f]) /\ LastBus \in Nat
  BY EnumAssumption DEF TypesInv
<1> QED
  BY <1>1 DEF IsRegs

\* An open bridge takes its own secondary bus.
LEMMA OwnBusInRange ==
  ASSUME TypesInv, BusesInv, NEW b \in 0..tree.n, Opened(b)
  PROVE  InRange(b, regs[b].sec)
<1>1. CASE b = 0
  BY <1>1, BusTypes DEF BusesInv, InRange
<1>2. CASE b # 0
  <2>1. b \in Fun
    BY <1>2 DEF TypesInv, WellBuilt, Fun
  <2> QED
    BY <2>1, BusTypes DEF BusesInv, Inside, InRange
<1> QED
  BY <1>1, <1>2

\* A bus that an open bridge takes is taken by the bridge above it, which hands
\* requests for it to this bridge and no other.
LEMMA OneTakes ==
  ASSUME TypesInv, BusesInv, NEW c \in Fun, Opened(c), NEW bus \in Nat, InRange(c, bus)
  PROVE  /\ Opened(tree.up[c]) /\ InRange(tree.up[c], bus) /\ regs[tree.up[c]].sec < bus
         /\ c \in Bridges
         /\ \A k \in Kids(tree.up[c]) : InRange(k, bus) => k = c
<1> DEFINE u == tree.up[c]
<1>1. u \in 0..tree.n /\ c \in 0..tree.n
  BY Above DEF TypesInv
<1>2. Opened(u) /\ Inside(c, u) /\ c \in Bridges
  BY DEF BusesInv
<1>3. /\ regs[c].sec \in Nat /\ regs[c].sub \in Nat
      /\ regs[u].sec \in Nat /\ regs[u].sub \in Nat
  BY <1>1, BusTypes
<1> HIDE DEF u
<1>4. InRange(u, bus) /\ regs[u].sec < bus
  BY <1>2, <1>3 DEF Inside, InRange
<1>5. ASSUME NEW k \in Kids(u), InRange(k, bus)
      PROVE  k = c
  <2>1. k \in Fun /\ tree.up[k] = u
    BY DEF Kids
  <2>2. k \in 0..tree.n
    BY <2>1, Above DEF TypesInv
  <2>3. regs[k].sec \in Nat /\ regs[k].sub \in Nat
    BY <2>2, BusTypes
  <2>4. Opened(k)
    <3>1. bus > 0
      BY <1>3, <1>4
    <3> QED
      BY <1>5, <2>1, <2>3, <3>1 DEF BusesInv, InRange
  <2>5. k # c => Apart(k, c)
    BY <2>1, <2>4 DEF BusesInv, u
  <2> QED
    BY <1>3, <1>5, <2>3, <2>5 DEF Apart, InRange
<1> QED
  BY <1>2, <1>4, <1>5 DEF u

\* r is where a request for device d, function e behind bridge b ends.
EndsAt(b, d, e, r) == r = CfgDown(Id(regs[b].sec, d, e))

\* A request for the secondary bus of an open bridge finds the function with
\* that number behind the bridge, and no other function.
LEMMA CfgRouted ==
  ASSUME TypesInv, BusesInv, NEW b \in 0..tree.n, Opened(b), NEW d, NEW e,
         NEW r, EndsAt(b, d, e, r)
  PROVE  /\ r \in Fun => r \in Kids(b) /\ tree.dev[r] = d /\ tree.fn[r] = e
         /\ \A k \in Kids(b) : tree.dev[k] = d /\ tree.fn[k] = e => r = k
<1> DEFINE bus == regs[b].sec
           id == Id(bus, d, e)
<1>0. r = CfgDown(id)
  BY DEF EndsAt
<1>1. WellBuilt(tree) /\ bus \in Nat
  BY BusTypes DEF TypesInv
<1>2. PICK down : CfgDown(id) = down[0] /\ \A c \in 0..tree.n : down[c] = CfgStep(id, down, c)
  BY <1>1, CfgDownDefined
<1>3. id[1] = bus /\ id[2] = d /\ id[3] = e
  BY DEF Id
<1> HIDE DEF id
<1> DEFINE T == {c \in 0..tree.n : Opened(c) /\ InRange(c, bus) /\ down[c] # down[0]}
<1>4. T = {}
  <2> SUFFICES ASSUME T # {}
               PROVE  FALSE
    OBVIOUS
  <2>1. T \subseteq Nat
    BY <1>1 DEF WellBuilt
  <2>2. PICK c \in T : \A y \in T : c <= y
    BY <2>1, LeastNumber
  <2>3. c \in Fun /\ Opened(c) /\ InRange(c, bus) /\ down[c] # down[0]
    BY <1>1, <2>2 DEF WellBuilt, Fun
  <2> DEFINE u == tree.up[c]
  <2>4. u \in 0..tree.n /\ u < c /\ c \in Nat
    BY <1>1, <2>3, Above
  <2>5. /\ Opened(u) /\ InRange(u, bus) /\ regs[u].sec < bus /\ c \in Bridges
        /\ \A k \in Kids(u) : InRange(k, bus) => k = c
    BY <1>1, <2>3, OneTakes
  <2>6. down[u] = down[0]
    <3>1. ~(c <= u)
      BY <2>4
    <3> QED
      BY <2>2, <2>4, <2>5, <3>1
  <2>7. ~Type0(id, u)
    <3>1. regs[u].sec \in Nat
      BY <2>4, BusTypes
    <3> QED
      BY <1>1, <1>3, <2>5, <3>1 DEF Type0
  <2>8. CfgHits(id, u) = {c}
    <3>1. c \in Kids(u) /\ tree.kind[c] # "ep"
      BY <2>3, <2>5 DEF Kids, Bridges
    <3> QED
      BY <1>3, <2>3, <2>5, <2>7, <3>1 DEF CfgHits
  <2>9. First({c}) = c
    BY <2>1, FirstIsLeast, <2>2
  <2>10. down[u] = down[c]
    BY <1>2, <2>4, <2>7, <2>8, <2>9 DEF CfgStep
  <2> QED
    BY <2>3, <2>6, <2>10
<1>5. CfgDown(id) = CfgStep(id, down, b)
  BY <1>2, <1>4, OwnBusInRange
<1>6. Type0(id, b)
  BY <1>3 DEF Type0
<1>7. CfgHits(id, b) = {k \in Kids(b) : tree.dev[k] = d /\ tree.fn[k] = e}
  BY <1>3, <1>6 DEF CfgHits
<1>8. CASE CfgHits(id, b) = {}
  <2>1. CfgDown(id) \in {-1, -2, -3}
    BY <1>5, <1>6, <1>8 DEF CfgStep, UR, Lost, Failed
  <2>2. CfgDown(id) \notin Fun
    BY <2>1 DEF Fun
  <2> QED
    BY <1>0, <1>7, <1>8, <2>2
<1>9. CASE CfgHits(id, b) # {}
  <2>1. CfgDown(id) = First(CfgHits(id, b))
    BY <1>5, <1>6, <1>9 DEF CfgStep
  <2>2. CfgDown(id) \in CfgHits(id, b)
    BY <1>1, <1>9, <2>1, FirstKid DEF CfgHits
  <2>3. ASSUME NEW k \in Kids(b), tree.dev[k] = d, tree.fn[k] = e
        PROVE  CfgDown(id) = k
    BY <1>1, <1>7, <2>2, <2>3 DEF WellBuilt, Kids, Fun
  <2> QED
    BY <1>0, <1>7, <2>2, <2>3
<1> QED
  BY <1>8, <1>9

(***************************************************************************)
(* Steps that leave the bus numbers of bridges alone.                       *)
(***************************************************************************)
\* The activation at hand is that of the innermost bridge, and its requests
\* arrive at the function that its scan has come to.
LEMMA TargetIsNext ==
  ASSUME NEW ch, EnumInv(ch), phase = "on"
  PROVE  /\ Len(ch) \in Nat \ {0} /\ ch[1] \in 0..tree.n /\ Opened(ch[1]) /\ Bus = regs[ch[1]].sec
         /\ IsStack(stack) /\ stack # <<>> /\ Len(stack) = Len(ch) /\ Frame = stack[1] /\ IsActivation(Frame)
         /\ Target \in Fun => Target \in Kids(ch[1]) /\ At(Target, Frame)
         /\ \A k \in Kids(ch[1]) : At(k, Frame) => Target = k
<1>1. TypesInv /\ BusesInv /\ ChainInv(ch) /\ StackInv(ch)
  BY DEF EnumInv
<1>2. ch \in Seq(0..tree.n) /\ ch # <<>>
  BY <1>1 DEF ChainInv
<1>3. Len(ch) \in Nat \ {0} /\ 1 \in 1..Len(ch) /\ ch[1] \in 0..tree.n
  BY <1>2, ElementsOf
<1>4. IsStack(stack) /\ Len(stack) = Len(ch)
  BY <1>1 DEF StackInv
<1>5. stack # <<>>
  BY <1>3, <1>4
<1>6. Frame = stack[1]
  BY <1>4, <1>5, TailOf DEF Frame
<1>7. Opened(ch[1]) /\ IsActivation(Frame) /\ Bus = regs[ch[1]].sec
  BY <1>1, <1>3, <1>6 DEF ChainInv, StackInv, Bus
<1>8. EndsAt(ch[1], Frame.dev, Frame.fn, Target)
  BY <1>7 DEF EndsAt, Target, Here
<1> QED
  BY <1>1, <1>3, <1>4, <1>5, <1>6, <1>7, <1>8, CfgRouted DEF At

\* The bus numbers of bridges stay as they are.
SameBuses ==
  /\ tree' = tree
  /\ \A f \in 0..tree.n : regs'[f].sec = regs[f].sec /\ regs'[f].sub = regs[f].sub

\* What is said of them then stays true.
LEMMA SameBusesKeeps ==
  ASSUME TypesInv, BusesInv, FoundInv, SameBuses
  PROVE  /\ BusesInv' /\ (found' = found => FoundInv')
         /\ Fun' = Fun /\ \A b : Kids(b)' = Kids(b)
         /\ \A f \in 0..tree.n : Opened(f)' <=> Opened(f)
<1>1. /\ tree' = tree /\ Fun' = Fun /\ Fun \subseteq 0..tree.n /\ Bridges' = Bridges
      /\ \A f \in Fun : tree.up[f] \in 0..tree.n
      /\ 0 \in 0..tree.n
  <2>1. tree' = tree /\ tree.n \in Nat
    BY DEF SameBuses, TypesInv, WellBuilt
  <2>2. \A f \in Fun : tree.up[f] \in 0..tree.n
    BY Above DEF TypesInv
  <2>3. Fun' = Fun /\ Bridges' = Bridges
    BY <2>1 DEF Fun, Bridges
  <2>4. Fun \subseteq 0..tree.n /\ 0 \in 0..tree.n
    BY <2>1 DEF Fun
  <2> QED
    BY <2>1, <2>2, <2>3, <2>4
<1>2. \A b : Kids(b)' = Kids(b)
  BY <1>1 DEF Kids
<1>3. \A f \in 0..tree.n : /\ regs'[f].sec = regs[f].sec /\ regs'[f].sub = regs[f].sub
                           /\ (Opened(f)' <=> Opened(f))
  BY DEF SameBuses, Opened
<1>4. BusesInv'
  <2>1. regs'[0].sec = 0 /\ regs'[0].sub = LastBus
    BY <1>1, <1>3 DEF BusesInv
  <2>2. \A f \in Fun : ~Opened(f)' => regs'[f].sub = 0
    BY <1>1, <1>3 DEF BusesInv
  <2>3. \A f \in Fun : Opened(f)' => f \in Bridges /\ Opened(tree.up[f])' /\ Inside(f, tree.up[f])'
    BY <1>1, <1>3 DEF BusesInv, Inside
  <2>4. \A f, g \in Fun : f # g /\ tree.up[f] = tree.up[g] /\ Opened(f)' /\ Opened(g)' => Apart(f, g)'
    BY <1>1, <1>3 DEF BusesInv, Apart
  <2> QED
    BY <1>1, <2>1, <2>2, <2>3, <2>4 DEF BusesInv
<1>5. ASSUME found' = found
      PROVE  FoundInv'
  <2>1. \A f \in Fun : Place(f)' = Place(f)
    BY <1>1, <1>3 DEF Place
  <2> QED
    BY <1>1, <1>3, <1>5, <2>1 DEF FoundInv
<1> QED
  BY <1>1, <1>2, <1>3, <1>4, <1>5

\* The scan of the innermost activation goes on.
Onward(ch, fr) ==
  /\ IsActivation(fr) /\ fr.bus = Frame.bus /\ fr.sec = Frame.sec /\ fr.sub = Frame.sub
  /\ \A k \in Kids(ch[1]) : Before(k, Frame) => Before(k, fr)
  /\ fr.at = "bridge" => \E k \in Kids(ch[1]) : k \in Bridges /\ At(k, fr)

LEMMA OnwardKeeps ==
  ASSUME NEW ch, EnumInv(ch), phase = "on", SameBuses, UNCHANGED phase, TypesInv',
         NEW fr, Onward(ch, fr), stack' = Top(fr), found' = found \/ FoundInv'
  PROVE  EnumInv(ch)'
<1>1. TypesInv /\ BusesInv /\ FoundInv /\ ChainInv(ch) /\ StackInv(ch) /\ NumbersInv(ch)
  BY DEF EnumInv
<1>2. /\ BusesInv' /\ (found' = found => FoundInv') /\ Fun' = Fun /\ \A b : Kids(b)' = Kids(b)
      /\ \A f \in 0..tree.n : Opened(f)' <=> Opened(f)
  BY <1>1, SameBusesKeeps
<1>3. /\ Len(ch) \in Nat \ {0} /\ Opened(ch[1]) /\ Bus = regs[ch[1]].sec
      /\ IsStack(stack) /\ stack # <<>> /\ Len(stack) = Len(ch) /\ Frame = stack[1]
  BY TargetIsNext
<1>4. /\ IsStack(stack') /\ Len(stack') = Len(stack) /\ stack'[1] = fr /\ Frame' = fr
      /\ \A i \in 2..Len(stack) : stack'[i] = stack[i]
  BY <1>3, Topped DEF Top, Frame
<1>5. /\ tree' = tree /\ \A f \in 0..tree.n : regs'[f].sec = regs[f].sec /\ regs'[f].sub = regs[f].sub
  BY DEF SameBuses
<1>6. ch \in Seq(0..tree.n) /\ \A i \in 1..Len(ch) : ch[i] \in 0..tree.n
  <2>1. ch \in Seq(0..tree.n)
    BY <1>1 DEF ChainInv
  <2> QED
    BY <2>1, ElementsOf
<1>7. ChainInv(ch)'
  BY <1>1, <1>2, <1>5, <1>6 DEF ChainInv
<1>8. StackInv(ch)'
  <2>1. ASSUME NEW i \in 1..Len(ch)
        PROVE  IsActivation(stack'[i]) /\ stack'[i].bus = regs'[ch[i]].sec
    <3>1. CASE i = 1
      BY <1>3, <1>4, <1>5, <1>6, <3>1 DEF Onward, Bus
    <3>2. CASE i # 1
      <4>1. stack'[i] = stack[i]
        BY <1>3, <1>4, <3>2
      <4> QED
        BY <1>1, <1>5, <1>6, <4>1 DEF StackInv
    <3> QED
      BY <3>1, <3>2
  <2>2. ASSUME NEW i \in 1..(Len(ch) - 1)
        PROVE  At(ch[i], stack[i + 1])'
    <3>1. i + 1 \in 2..Len(stack)
      BY <1>3
    <3> QED
      BY <1>1, <1>4, <1>5, <3>1 DEF StackInv, At
  <2>3. ASSUME NEW i \in 1..Len(ch), NEW k \in Kids(ch[i]), Opened(k)
        PROVE  Before(k, stack'[i]) \/ (i > 1 /\ k = ch[i - 1])
    <3>1. Before(k, stack[i]) \/ (i > 1 /\ k = ch[i - 1])
      BY <1>1, <2>3 DEF StackInv
    <3>2. CASE i = 1
      BY <1>3, <1>4, <3>1, <3>2 DEF Onward
    <3>3. CASE i # 1
      <4>1. stack'[i] = stack[i]
        BY <1>3, <1>4, <3>3
      <4> QED
        BY <3>1, <4>1
    <3> QED
      BY <3>2, <3>3
  <2>4. \A b : \A k \in Kids(b) : k \in 0..tree.n
    BY <1>1 DEF Kids, Fun, TypesInv, WellBuilt
  <2>5. \A k, x : Before(k, x)' <=> Before(k, x)'
    OBVIOUS
  <2>6. ASSUME NEW i \in 1..Len(ch), NEW k \in Kids(ch[i]), Opened(k)'
        PROVE  Before(k, stack[i])' \/ (i > 1 /\ k = ch[i - 1])
    <3>1. Opened(k)
      BY <1>2, <2>4, <2>6
    <3>2. Before(k, stack'[i]) => Before(k, stack[i])'
      BY <1>5 DEF Before
    <3> QED
      BY <2>3, <3>1, <3>2
  <2> QED
    BY <1>2, <1>3, <1>4, <2>1, <2>2, <2>6 DEF StackInv
<1>9. NumbersInv(ch)'
  <2>1. Fun \subseteq 0..tree.n
    BY <1>1 DEF Fun, TypesInv, WellBuilt
  <2>2. {f \in Fun' : Opened(f)'} = {f \in Fun : Opened(f)}
    BY <1>2, <2>1
  <2>3. fr.sec = fr.sub + 1 /\ fr.sub = Cardinality({f \in Fun : Opened(f)})
    BY <1>1 DEF NumbersInv, Onward
  <2>4. \A f \in 0..tree.n : Opened(f)' => regs'[f].sec < fr.sec
    BY <1>1, <1>2, <1>5 DEF NumbersInv, Onward
  <2>5. \A f \in 0..tree.n : Opened(f)' /\ (\A i \in 1..Len(ch) : ch[i] # f) => regs'[f].sub < fr.sec
    BY <1>1, <1>2, <1>5 DEF NumbersInv, Onward
  <2>6. fr.at = "bridge" => \E k \in Kids(ch[1])' : k \in Bridges' /\ At(k, fr)'
    BY <1>2, <1>5 DEF Onward, At, Bridges
  <2> QED
    BY <1>4, <1>5, <2>2, <2>3, <2>4, <2>5, <2>6 DEF NumbersInv
<1> QED
  BY <1>1, <1>2, <1>7, <1>8, <1>9 DEF EnumInv

\* Limits that are aligned are numbers.
LEMMA AlignedTypes ==
  ASSUME TypesInv
  PROVE  AlignedLimits \in [Spaces -> Nat]
<1>1. \A s \in Spaces : lim[s] \in Nat
  BY DEF TypesInv
<1>2. \A s \in Spaces : AlignUp(lim[s], Granule) \in Nat
  BY <1>1, EnumAssumption, AlignUpBounds
<1> QED
  BY <1>2 DEF AlignedLimits

\* Registers that keep their bus numbers.
Kept(r, q) == /\ IsRegs(q) /\ q.sec = r.sec /\ q.sub = r.sub
              /\ DOMAIN q.bar = DOMAIN r.bar
LEMMA RegsKept ==
  ASSUME TypesInv, tree' = tree, DOMAIN regs' = DOMAIN regs,
         \A f \in 0..tree.n : Kept(regs[f], regs'[f]),
         phase' \in {"off", "on", "done"}, lim' \in [Spaces -> Nat], msiLimit' \in Nat
  PROVE  TypesInv' /\ SameBuses
<1>1. SameBuses
  BY DEF SameBuses, Kept
<1>2. tree.n \in Nat /\ Fun' = Fun /\ Fun \subseteq 0..tree.n
  BY DEF TypesInv, WellBuilt, Fun
<1>3. WellBuilt(tree)'
  BY DEF TypesInv, WellBuilt
<1>4. /\ DOMAIN regs' = 0..tree.n /\ \A f \in 0..tree.n : IsRegs(regs'[f])
      /\ \A f \in Fun : DOMAIN regs'[f].bar = DOMAIN tree.bars[f]
  BY <1>2 DEF TypesInv, Kept
<1>5. \A f \in 0..tree.n : IsRegs(regs[f])' <=> IsRegs(regs'[f])
  BY DEF IsRegs
<1> QED
  BY <1>1, <1>2, <1>3, <1>4, <1>5 DEF TypesInv

\* The registers of other functions, and a function that takes a bus number.
LEMMA KeptSame ==
  ASSUME NEW r, IsRegs(r)
  PROVE  Kept(r, r)
  BY DEF Kept

LEMMA KeptBus ==
  ASSUME NEW r, IsRegs(r), NEW bus \in 0..LastBus
  PROVE  Kept(r, [r EXCEPT !.bus = bus])
  BY DEF Kept, IsRegs

\* A function that takes the bus of a request: all bridges keep theirs.
LEMMA CapturedKeeps ==
  ASSUME TypesInv, Bus \in 0..LastBus, NEW t, regs' = Captured(t),
         UNCHANGED <<tree, phase, lim, msiLimit>>
  PROVE  TypesInv' /\ SameBuses
<1>1. DOMAIN regs' = DOMAIN regs
  BY DEF Captured, TypesInv
<1>2. ASSUME NEW f \in 0..tree.n
      PROVE  Kept(regs[f], regs'[f])
  <2>1. IsRegs(regs[f])
    BY DEF TypesInv
  <2>2. regs'[f] = regs[f] \/ regs'[f] = [regs[f] EXCEPT !.bus = Bus]
    BY DEF Captured
  <2> QED
    BY <2>1, <2>2, KeptSame, KeptBus
<1> QED
  BY <1>1, <1>2, RegsKept DEF TypesInv

\* Nothing changes in the registers.
LEMMA SameRegsKeep ==
  ASSUME TypesInv, UNCHANGED <<tree, regs, phase, lim, msiLimit>>
  PROVE  TypesInv' /\ SameBuses
<1>1. \A f \in 0..tree.n : Kept(regs[f], regs'[f])
  BY KeptSame DEF TypesInv
<1> QED
  BY <1>1, RegsKept DEF TypesInv

\* The scan goes on with the next function or the next device.
LEMMA NextOnward ==
  ASSUME NEW fr, IsActivation(fr), NEW q, q = NextFunction(fr)
  PROVE  /\ IsActivation(q) /\ q.bus = fr.bus /\ q.sec = fr.sec /\ q.sub = fr.sub
         /\ q.at \in {"device", "function"}
         /\ fr.dev < q.dev \/ (fr.dev = q.dev /\ fr.fn < q.fn)
<1>1. /\ fr \in [bus : Nat, sec : Nat, sub : Nat, dev : Nat, fn : Nat, all : BOOLEAN,
                at : Steps, bar : Nat \ {0}, ptr : {fr.ptr}, win : {fr.win}]
      /\ fr.dev \in Nat /\ fr.fn \in Nat
  BY DEF IsActivation
<1>2. /\ "function" \in Steps /\ "device" \in Steps /\ FALSE \in BOOLEAN
      /\ fr.dev + 1 \in Nat /\ fr.fn + 1 \in Nat /\ 0 \in Nat
  BY <1>1 DEF Steps
<1>3. CASE fr.all /\ fr.fn < LastFn
  <2>1. q = [fr EXCEPT !.at = "function", !.fn = fr.fn + 1]
    BY <1>3 DEF NextFunction
  <2>2. /\ q.bus = fr.bus /\ q.sec = fr.sec /\ q.sub = fr.sub /\ q.at = "function"
        /\ q.dev = fr.dev /\ q.fn = fr.fn + 1 /\ q.ptr = fr.ptr /\ q.win = fr.win
    BY <1>1, <2>1
  <2>3. q \in [bus : Nat, sec : Nat, sub : Nat, dev : Nat, fn : Nat, all : BOOLEAN,
              at : Steps, bar : Nat \ {0}, ptr : {fr.ptr}, win : {fr.win}]
    BY <1>1, <2>1, <1>2
  <2>4. IsActivation(q)
    BY <2>2, <2>3 DEF IsActivation
  <2> QED
    BY <1>1, <2>2, <2>4
<1>4. CASE ~(fr.all /\ fr.fn < LastFn)
  <2>1. q = [fr EXCEPT !.at = "device", !.fn = 0, !.all = FALSE, !.dev = fr.dev + 1]
    BY <1>4 DEF NextFunction
  <2>2. /\ q.bus = fr.bus /\ q.sec = fr.sec /\ q.sub = fr.sub /\ q.at = "device"
        /\ q.dev = fr.dev + 1 /\ q.ptr = fr.ptr /\ q.win = fr.win
    BY <1>1, <2>1
  <2>3. q \in [bus : Nat, sec : Nat, sub : Nat, dev : Nat, fn : Nat, all : BOOLEAN,
              at : Steps, bar : Nat \ {0}, ptr : {fr.ptr}, win : {fr.win}]
    BY <1>1, <2>1, <1>2
  <2>4. IsActivation(q)
    BY <2>2, <2>3 DEF IsActivation
  <2> QED
    BY <1>1, <2>2, <2>4
<1> QED
  BY <1>3, <1>4

\* Device and function numbers are numbers.
LEMMA PlaceTypes ==
  ASSUME TypesInv, NEW k \in Fun
  PROVE  /\ tree.dev[k] \in 0..LastDev /\ tree.fn[k] \in 0..LastFn
         /\ tree.dev[k] \in Nat /\ tree.fn[k] \in Nat
<1>1. tree.dev[k] \in 0..LastDev /\ tree.fn[k] \in 0..LastFn
  BY DEF TypesInv, WellBuilt, Fun
<1> QED
  BY <1>1, EnumAssumption

\* What is before a position is before those behind it.
LEMMA BeforeOnward ==
  ASSUME TypesInv, NEW k \in Fun, NEW fr, NEW q, IsActivation(fr), IsActivation(q),
         fr.dev < q.dev \/ (fr.dev = q.dev /\ fr.fn <= q.fn), Before(k, fr)
  PROVE  Before(k, q)
<1>1. tree.dev[k] \in Nat /\ tree.fn[k] \in Nat
  BY PlaceTypes
<1>2. fr.dev \in Nat /\ fr.fn \in Nat /\ q.dev \in Nat /\ q.fn \in Nat
  BY DEF IsActivation
<1> QED
  BY <1>1, <1>2 DEF Before

\* An activation that has got further keeps its bus numbers and its position.
SamePlace(fr, q) ==
  /\ q.bus = fr.bus /\ q.sec = fr.sec /\ q.sub = fr.sub /\ q.dev = fr.dev /\ q.fn = fr.fn
\* The activations that the steps make of one.
LooksAtFunctions(fr, all) == [fr EXCEPT !.at = "function", !.all = all]
LooksAtBars(fr) == [fr EXCEPT !.at = "bars", !.bar = 1]
LooksAtBar(fr, bar) == [fr EXCEPT !.bar = bar]
Walks(fr, ptr) == [fr EXCEPT !.at = "caps", !.ptr = ptr]
WalksOn(fr, ptr) == [fr EXCEPT !.ptr = ptr]
TurnsToBridge(fr) == [fr EXCEPT !.at = "bridge"]
Waits(fr) == [fr EXCEPT !.at = "children"]

LEMMA LooksAtFunctionsType ==
  ASSUME NEW fr, IsActivation(fr), NEW all \in BOOLEAN
  PROVE  LET q == LooksAtFunctions(fr, all) IN
         IsActivation(q) /\ SamePlace(fr, q) /\ q.at = "function" /\ q.all = all
<1> DEFINE q == LooksAtFunctions(fr, all)
<1>1. fr \in [bus : Nat, sec : Nat, sub : Nat, dev : Nat, fn : Nat, all : BOOLEAN,
             at : Steps, bar : Nat \ {0}, ptr : {fr.ptr}, win : {fr.win}]
  BY DEF IsActivation
<1>2. SamePlace(fr, q) /\ q.at = "function" /\ q.all = all /\ q.win = fr.win
  BY <1>1 DEF SamePlace, LooksAtFunctions
<1>3. {"function", "bars", "caps", "bridge", "children"} \subseteq Steps /\ 1 \in Nat \ {0}
  BY DEF Steps
<1>4. q \in [bus : Nat, sec : Nat, sub : Nat, dev : Nat, fn : Nat, all : BOOLEAN,
            at : Steps, bar : Nat \ {0}, ptr : {q.ptr}, win : {fr.win}]
  BY <1>1, <1>3 DEF LooksAtFunctions
<1> QED
  BY <1>2, <1>4 DEF IsActivation

LEMMA LooksAtBarsType ==
  ASSUME NEW fr, IsActivation(fr)
  PROVE  LET q == LooksAtBars(fr) IN
         IsActivation(q) /\ SamePlace(fr, q) /\ q.at = "bars" /\ q.all = fr.all
<1> DEFINE q == LooksAtBars(fr)
<1>1. fr \in [bus : Nat, sec : Nat, sub : Nat, dev : Nat, fn : Nat, all : BOOLEAN,
             at : Steps, bar : Nat \ {0}, ptr : {fr.ptr}, win : {fr.win}]
  BY DEF IsActivation
<1>2. SamePlace(fr, q) /\ q.at = "bars" /\ q.all = fr.all /\ q.win = fr.win
  BY <1>1 DEF SamePlace, LooksAtBars
<1>3. {"function", "bars", "caps", "bridge", "children"} \subseteq Steps /\ 1 \in Nat \ {0}
  BY DEF Steps
<1>4. q \in [bus : Nat, sec : Nat, sub : Nat, dev : Nat, fn : Nat, all : BOOLEAN,
            at : Steps, bar : Nat \ {0}, ptr : {q.ptr}, win : {fr.win}]
  BY <1>1, <1>3 DEF LooksAtBars
<1> QED
  BY <1>2, <1>4 DEF IsActivation

LEMMA LooksAtBarType ==
  ASSUME NEW fr, IsActivation(fr), NEW bar \in Nat \ {0}
  PROVE  LET q == LooksAtBar(fr, bar) IN
         IsActivation(q) /\ SamePlace(fr, q) /\ q.at = fr.at /\ q.all = fr.all
<1> DEFINE q == LooksAtBar(fr, bar)
<1>1. fr \in [bus : Nat, sec : Nat, sub : Nat, dev : Nat, fn : Nat, all : BOOLEAN,
             at : Steps, bar : Nat \ {0}, ptr : {fr.ptr}, win : {fr.win}]
  BY DEF IsActivation
<1>2. SamePlace(fr, q) /\ q.at = fr.at /\ q.all = fr.all /\ q.win = fr.win
  BY <1>1 DEF SamePlace, LooksAtBar
<1>3. {"function", "bars", "caps", "bridge", "children"} \subseteq Steps /\ 1 \in Nat \ {0}
  BY DEF Steps
<1>4. q \in [bus : Nat, sec : Nat, sub : Nat, dev : Nat, fn : Nat, all : BOOLEAN,
            at : Steps, bar : Nat \ {0}, ptr : {q.ptr}, win : {fr.win}]
  BY <1>1, <1>3 DEF LooksAtBar
<1> QED
  BY <1>2, <1>4 DEF IsActivation

LEMMA WalksType ==
  ASSUME NEW fr, IsActivation(fr), NEW ptr
  PROVE  LET q == Walks(fr, ptr) IN
         IsActivation(q) /\ SamePlace(fr, q) /\ q.at = "caps" /\ q.all = fr.all
<1> DEFINE q == Walks(fr, ptr)
<1>1. fr \in [bus : Nat, sec : Nat, sub : Nat, dev : Nat, fn : Nat, all : BOOLEAN,
             at : Steps, bar : Nat \ {0}, ptr : {fr.ptr}, win : {fr.win}]
  BY DEF IsActivation
<1>2. SamePlace(fr, q) /\ q.at = "caps" /\ q.all = fr.all /\ q.win = fr.win
  BY <1>1 DEF SamePlace, Walks
<1>3. {"function", "bars", "caps", "bridge", "children"} \subseteq Steps /\ 1 \in Nat \ {0}
  BY DEF Steps
<1>4. q \in [bus : Nat, sec : Nat, sub : Nat, dev : Nat, fn : Nat, all : BOOLEAN,
            at : Steps, bar : Nat \ {0}, ptr : {q.ptr}, win : {fr.win}]
  BY <1>1, <1>3 DEF Walks
<1> QED
  BY <1>2, <1>4 DEF IsActivation

LEMMA WalksOnType ==
  ASSUME NEW fr, IsActivation(fr), NEW ptr
  PROVE  LET q == WalksOn(fr, ptr) IN
         IsActivation(q) /\ SamePlace(fr, q) /\ q.at = fr.at /\ q.all = fr.all
<1> DEFINE q == WalksOn(fr, ptr)
<1>1. fr \in [bus : Nat, sec : Nat, sub : Nat, dev : Nat, fn : Nat, all : BOOLEAN,
             at : Steps, bar : Nat \ {0}, ptr : {fr.ptr}, win : {fr.win}]
  BY DEF IsActivation
<1>2. SamePlace(fr, q) /\ q.at = fr.at /\ q.all = fr.all /\ q.win = fr.win
  BY <1>1 DEF SamePlace, WalksOn
<1>3. {"function", "bars", "caps", "bridge", "children"} \subseteq Steps /\ 1 \in Nat \ {0}
  BY DEF Steps
<1>4. q \in [bus : Nat, sec : Nat, sub : Nat, dev : Nat, fn : Nat, all : BOOLEAN,
            at : Steps, bar : Nat \ {0}, ptr : {q.ptr}, win : {fr.win}]
  BY <1>1, <1>3 DEF WalksOn
<1> QED
  BY <1>2, <1>4 DEF IsActivation

LEMMA TurnsToBridgeType ==
  ASSUME NEW fr, IsActivation(fr)
  PROVE  LET q == TurnsToBridge(fr) IN
         IsActivation(q) /\ SamePlace(fr, q) /\ q.at = "bridge" /\ q.all = fr.all
<1> DEFINE q == TurnsToBridge(fr)
<1>1. fr \in [bus : Nat, sec : Nat, sub : Nat, dev : Nat, fn : Nat, all : BOOLEAN,
             at : Steps, bar : Nat \ {0}, ptr : {fr.ptr}, win : {fr.win}]
  BY DEF IsActivation
<1>2. SamePlace(fr, q) /\ q.at = "bridge" /\ q.all = fr.all /\ q.win = fr.win
  BY <1>1 DEF SamePlace, TurnsToBridge
<1>3. {"function", "bars", "caps", "bridge", "children"} \subseteq Steps /\ 1 \in Nat \ {0}
  BY DEF Steps
<1>4. q \in [bus : Nat, sec : Nat, sub : Nat, dev : Nat, fn : Nat, all : BOOLEAN,
            at : Steps, bar : Nat \ {0}, ptr : {q.ptr}, win : {fr.win}]
  BY <1>1, <1>3 DEF TurnsToBridge
<1> QED
  BY <1>2, <1>4 DEF IsActivation

LEMMA WaitsType ==
  ASSUME NEW fr, IsActivation(fr)
  PROVE  LET q == Waits(fr) IN
         IsActivation(q) /\ SamePlace(fr, q) /\ q.at = "children" /\ q.all = fr.all
<1> DEFINE q == Waits(fr)
<1>1. fr \in [bus : Nat, sec : Nat, sub : Nat, dev : Nat, fn : Nat, all : BOOLEAN,
             at : Steps, bar : Nat \ {0}, ptr : {fr.ptr}, win : {fr.win}]
  BY DEF IsActivation
<1>2. SamePlace(fr, q) /\ q.at = "children" /\ q.all = fr.all /\ q.win = fr.win
  BY <1>1 DEF SamePlace, Waits
<1>3. {"function", "bars", "caps", "bridge", "children"} \subseteq Steps /\ 1 \in Nat \ {0}
  BY DEF Steps
<1>4. q \in [bus : Nat, sec : Nat, sub : Nat, dev : Nat, fn : Nat, all : BOOLEAN,
            at : Steps, bar : Nat \ {0}, ptr : {q.ptr}, win : {fr.win}]
  BY <1>1, <1>3 DEF Waits
<1> QED
  BY <1>2, <1>4 DEF IsActivation

LEMMA AnotherDevice ==
  ASSUME NEW fr, IsActivation(fr), NEW q, q = [fr EXCEPT !.dev = fr.dev + 1]
  PROVE  /\ IsActivation(q) /\ q.bus = fr.bus /\ q.sec = fr.sec /\ q.sub = fr.sub /\ q.at = fr.at
         /\ q.dev = fr.dev + 1 /\ q.fn = fr.fn /\ q.all = fr.all
<1>1. /\ fr \in [bus : Nat, sec : Nat, sub : Nat, dev : Nat, fn : Nat, all : BOOLEAN,
                at : Steps, bar : Nat \ {0}, ptr : {fr.ptr}, win : {fr.win}]
  BY DEF IsActivation
<1>2. fr.dev + 1 \in Nat
  BY <1>1
<1>3. q \in [bus : Nat, sec : Nat, sub : Nat, dev : Nat, fn : Nat, all : BOOLEAN,
             at : Steps, bar : Nat \ {0}, ptr : {q.ptr}, win : {q.win}]
  BY <1>1, <1>2
<1> QED
  BY <1>1, <1>3 DEF IsActivation

(***************************************************************************)
(* The steps of enumeration, one by one.                                    *)
(***************************************************************************)
\* Work on a function at the same position of the scan.
LEMMA SamePlaceOnward ==
  ASSUME NEW ch, EnumInv(ch), phase = "on", NEW q, IsActivation(q), SamePlace(Frame, q),
         q.at = "bridge" => \E k \in Kids(ch[1]) : k \in Bridges /\ At(k, q)
  PROVE  Onward(ch, q)
<1>1. \A k \in Kids(ch[1]) : Before(k, Frame) => Before(k, q)
  BY DEF SamePlace, Before
<1> QED
  BY <1>1 DEF Onward, SamePlace

\* A later function or device.
LEMMA LaterOnward ==
  ASSUME NEW ch, EnumInv(ch), phase = "on", NEW q, IsActivation(q),
         q.bus = Frame.bus, q.sec = Frame.sec, q.sub = Frame.sub, q.at # "bridge",
         Frame.dev < q.dev \/ (Frame.dev = q.dev /\ Frame.fn < q.fn)
  PROVE  Onward(ch, q)
<1>1. IsActivation(Frame) /\ TypesInv
  BY TargetIsNext DEF EnumInv
<1>2. Frame.fn < q.fn => Frame.fn <= q.fn
  BY <1>1 DEF IsActivation
<1>3. \A k \in Kids(ch[1]) : k \in Fun
  BY DEF Kids
<1>4. \A k \in Kids(ch[1]) : Before(k, Frame) => Before(k, q)
  BY <1>1, <1>2, <1>3, BeforeOnward
<1> QED
  BY <1>4 DEF Onward

\* The bus of the innermost segment is a bus number.
LEMMA BusIsOne ==
  ASSUME NEW ch, EnumInv(ch), phase = "on"
  PROVE  Bus \in 0..LastBus
<1>1. ch[1] \in 0..tree.n /\ Bus = regs[ch[1]].sec /\ TypesInv
  BY TargetIsNext DEF EnumInv
<1> QED
  BY <1>1, BusTypes

LEMMA ProbeDeviceKeeps ==
  ASSUME NEW ch, EnumInv(ch), ProbeDevice
  PROVE  EnumInv(ch)'
<1>1. /\ phase = "on" /\ phase' = phase /\ found' = found /\ Frame.at = "device"
      /\ UNCHANGED <<tree, phase, lim, msiLimit>> /\ TypesInv
  BY DEF ProbeDevice, EnumInv
<1>2. IsActivation(Frame) /\ Frame.dev \in Nat
  BY <1>1, TargetIsNext DEF IsActivation
<1>3. CASE (Bus = 0 /\ Frame.dev = 0) \/ ~Answered(Target)
  <2> DEFINE q == [Frame EXCEPT !.dev = Frame.dev + 1]
  <2>1. stack' = Top(q) /\ regs' = regs
    BY <1>3 DEF ProbeDevice
  <2> HIDE DEF q
  <2>2. /\ IsActivation(q) /\ q.bus = Frame.bus /\ q.sec = Frame.sec /\ q.sub = Frame.sub
        /\ q.at = "device" /\ q.dev = Frame.dev + 1
    BY <1>1, <1>2, AnotherDevice DEF q
  <2>3. Onward(ch, q)
    BY <1>1, <1>2, <2>2, LaterOnward
  <2>4. TypesInv' /\ SameBuses
    BY <1>1, <2>1, SameRegsKeep
  <2> QED
    BY <1>1, <2>1, <2>3, <2>4, OnwardKeeps
<1>4. CASE ~((Bus = 0 /\ Frame.dev = 0) \/ ~Answered(Target))
  <2> DEFINE q == LooksAtFunctions(Frame, tree.multi[Target])
  <2>1. stack' = Top(q) /\ regs' = Captured(Target)
    BY <1>4 DEF ProbeDevice, LooksAtFunctions
  <2>2. tree.multi[Target] \in BOOLEAN
    BY <1>1, <1>4 DEF TypesInv, WellBuilt, Answered, Fun
  <2>3. IsActivation(q) /\ SamePlace(Frame, q) /\ q.at = "function"
    BY <1>2, <2>2, LooksAtFunctionsType
  <2> HIDE DEF q
  <2>4. Onward(ch, q)
    BY <1>1, <2>3, SamePlaceOnward
  <2>5. TypesInv' /\ SameBuses
    BY <1>1, <2>1, BusIsOne, CapturedKeeps
  <2> QED
    BY <1>1, <2>1, <2>4, <2>5, OnwardKeeps
<1> QED
  BY <1>3, <1>4

\* A function that answers is found at its place.
LEMMA ProbeFunctionKeeps ==
  ASSUME NEW ch, EnumInv(ch), ProbeFunction
  PROVE  EnumInv(ch)'
<1>1. /\ phase = "on" /\ phase' = phase
      /\ UNCHANGED <<tree, phase, lim, msiLimit>> /\ TypesInv /\ BusesInv /\ FoundInv
  BY DEF ProbeFunction, EnumInv
<1>2. IsActivation(Frame)
  BY <1>1, TargetIsNext
<1>3. CASE ~Answered(Target)
  <2> DEFINE q == NextFunction(Frame)
  <2>1. stack' = Top(q) /\ regs' = regs /\ found' = found
    BY <1>3 DEF ProbeFunction
  <2> HIDE DEF q
  <2>2. /\ IsActivation(q) /\ q.bus = Frame.bus /\ q.sec = Frame.sec /\ q.sub = Frame.sub
        /\ q.at \in {"device", "function"}
        /\ Frame.dev < q.dev \/ (Frame.dev = q.dev /\ Frame.fn < q.fn)
    BY <1>2, NextOnward DEF q
  <2>3. Onward(ch, q)
    BY <1>1, <2>2, LaterOnward
  <2>4. TypesInv' /\ SameBuses
    BY <1>1, <2>1, SameRegsKeep
  <2> QED
    BY <1>1, <2>1, <2>3, <2>4, OnwardKeeps
<1>4. CASE Answered(Target)
  <2> DEFINE q == LooksAtBars(Frame)
  <2>1. stack' = Top(q) /\ regs' = Captured(Target) /\ found' = found \cup {<<Here, Target>>}
    BY <1>4 DEF ProbeFunction, LooksAtBars
  <2>2. IsActivation(q) /\ SamePlace(Frame, q) /\ q.at = "bars"
    BY <1>2, LooksAtBarsType
  <2> HIDE DEF q
  <2>3. Onward(ch, q)
    BY <1>1, <2>2, SamePlaceOnward
  <2>4. TypesInv' /\ SameBuses
    BY <1>1, <2>1, BusIsOne, CapturedKeeps
  <2>5. FoundInv'
    <3>1. Target \in Fun /\ tree.up[Target] = ch[1] /\ At(Target, Frame)
      BY <1>1, <1>4, TargetIsNext DEF Answered, Kids
    <3>2. Opened(ch[1]) /\ Bus = regs[ch[1]].sec /\ ch[1] \in 0..tree.n
      BY <1>1, TargetIsNext
    <3>3. Here = Place(Target)
      BY <3>1, <3>2 DEF Here, Place, At
    <3>4. /\ Fun' = Fun /\ tree' = tree
          /\ \A f \in 0..tree.n : (Opened(f)' <=> Opened(f)) /\ regs'[f].sec = regs[f].sec
      BY <1>1, <2>4, SameBusesKeeps DEF SameBuses
    <3>5. ASSUME NEW f \in Fun, Opened(tree.up[f])
          PROVE  Opened(tree.up[f])' /\ Place(f)' = Place(f)
      <4>1. tree.up[f] \in 0..tree.n
        BY <1>1, Above DEF TypesInv
      <4> QED
        BY <3>4, <3>5, <4>1 DEF Place
    <3>6. ASSUME NEW p \in found'
          PROVE  \E f \in Fun : Opened(tree.up[f]) /\ p = <<Place(f), f>>
      <4>1. CASE p \in found
        BY <1>1, <4>1 DEF FoundInv
      <4>2. CASE p = <<Here, Target>>
        BY <3>1, <3>2, <3>3, <4>2
      <4> QED
        BY <2>1, <4>1, <4>2
    <3>7. ASSUME NEW p \in found'
          PROVE  \E f \in Fun : Opened(tree.up[f])' /\ p = <<Place(f)', f>>
      BY <3>5, <3>6
    <3> QED
      BY <3>4, <3>7 DEF FoundInv
  <2> QED
    BY <1>1, <2>1, <2>3, <2>4, <2>5, OnwardKeeps
<1> QED
  BY <1>3, <1>4

\* A BAR is written and the limit of its space raised.
LEMMA ConfigureBarTypes ==
  ASSUME NEW ch, EnumInv(ch), ConfigureBar
  PROVE  TypesInv' /\ SameBuses
<1>1. /\ TypesInv /\ Answered(Target) /\ Frame.bar <= Len(tree.bars[Target])
      /\ UNCHANGED <<tree, phase, msiLimit>> /\ phase = "on"
  BY DEF ConfigureBar, EnumInv
<1> DEFINE t == Target
           i == Frame.bar
           bar == tree.bars[t][i]
           size == SizeRead(t, i)
           addr == AlignUp(lim[bar.space], size)
<1>2. /\ regs' = [regs EXCEPT ![t].bar[i] = addr]
      /\ lim' = [lim EXCEPT ![bar.space] = addr + size]
  BY DEF ConfigureBar
<1>3. t \in Fun /\ i \in Nat \ {0}
  BY <1>1, TargetIsNext DEF Answered, IsActivation
<1>4. tree.bars[t] \in Seq([space : Spaces, wide : BOOLEAN, size : Nat])
  BY <1>1, <1>3 DEF TypesInv, WellBuilt, Fun
<1>5. i \in DOMAIN tree.bars[t] /\ bar.space \in Spaces
  <2> DEFINE bars == tree.bars[t]
  <2>1. i <= Len(bars)
    BY <1>1
  <2> HIDE DEF bars, t, i
  <2>2. bars \in Seq([space : Spaces, wide : BOOLEAN, size : Nat])
    BY <1>4 DEF bars
  <2>3. i \in 1..Len(bars) /\ DOMAIN bars = 1..Len(bars)
    BY <1>3, <2>1, <2>2
  <2>4. bars[i] \in [space : Spaces, wide : BOOLEAN, size : Nat]
    BY <2>2, <2>3, ElementsOf
  <2> QED
    BY <2>3, <2>4 DEF bars
<1>6. size \in Nat \ {0}
  BY <1>1, <1>3, <1>5 DEF TypesInv, WellBuilt, Fun, SizeRead
<1> HIDE DEF t, i, bar, size
<1>7. lim[bar.space] \in Nat
  BY <1>1, <1>5 DEF TypesInv
<1>8. addr \in Nat
  BY <1>6, <1>7, AlignUpBounds
<1> HIDE DEF addr
<1>9. lim' \in [Spaces -> Nat]
  BY <1>1, <1>2, <1>5, <1>6, <1>8 DEF TypesInv
<1>10. ASSUME NEW f \in 0..tree.n
       PROVE  Kept(regs[f], regs'[f])
  <2>1. IsRegs(regs[f]) /\ DOMAIN regs = 0..tree.n
    BY <1>1 DEF TypesInv
  <2>2. CASE f # t
    BY <1>2, <2>1, <2>2, KeptSame
  <2>3. CASE f = t
    <3>1. regs'[f] = [regs[f] EXCEPT !.bar = [regs[f].bar EXCEPT ![i] = addr]]
      BY <1>2, <2>1, <2>3
    <3>2. DOMAIN regs'[f].bar = DOMAIN regs[f].bar
      BY <2>1, <3>1 DEF IsRegs
    <3> QED
      BY <2>1, <3>1, <3>2 DEF Kept, IsRegs
  <2> QED
    BY <2>2, <2>3
<1>11. DOMAIN regs' = DOMAIN regs
  BY <1>2
<1>12. phase' \in {"off", "on", "done"} /\ msiLimit' \in Nat
  BY <1>1 DEF TypesInv
<1> QED
  BY <1>1, <1>9, <1>10, <1>11, <1>12, RegsKept

LEMMA ConfigureBarKeeps ==
  ASSUME NEW ch, EnumInv(ch), ConfigureBar
  PROVE  EnumInv(ch)'
<1> DEFINE q == LooksAtBar(Frame, Frame.bar + 1)
<1>1. /\ phase = "on" /\ phase' = phase /\ found' = found /\ Frame.at = "bars" /\ stack' = Top(q)
  BY DEF ConfigureBar, LooksAtBar
<1>2. IsActivation(Frame)
  BY <1>1, TargetIsNext
<1>3. Frame.bar + 1 \in Nat \ {0}
  BY <1>2 DEF IsActivation
<1>4. IsActivation(q) /\ SamePlace(Frame, q) /\ q.at = "bars"
  BY <1>1, <1>2, <1>3, LooksAtBarType
<1> HIDE DEF q
<1>5. Onward(ch, q)
  BY <1>1, <1>4, SamePlaceOnward
<1> QED
  BY <1>1, <1>5, ConfigureBarTypes, OnwardKeeps

LEMMA StartWalkKeeps ==
  ASSUME NEW ch, EnumInv(ch), StartWalk
  PROVE  EnumInv(ch)'
<1> DEFINE q == Walks(Frame, First(Offsets(regs[Target].caps)))
<1>1. /\ phase = "on" /\ phase' = phase /\ found' = found /\ stack' = Top(q)
      /\ UNCHANGED <<tree, regs, phase, lim, msiLimit>>
  BY DEF StartWalk, Walks
<1>2. IsActivation(Frame) /\ TypesInv
  BY <1>1, TargetIsNext DEF EnumInv
<1>3. IsActivation(q) /\ SamePlace(Frame, q) /\ q.at = "caps"
  BY <1>2, WalksType
<1> HIDE DEF q
<1>4. Onward(ch, q)
  BY <1>1, <1>3, SamePlaceOnward
<1> QED
  BY <1>1, <1>2, <1>4, SameRegsKeep, OnwardKeeps

LEMMA WalkCapabilityKeeps ==
  ASSUME NEW ch, EnumInv(ch), WalkCapability
  PROVE  EnumInv(ch)'
<1> DEFINE q == WalksOn(Frame, Header(regs[Target].caps, Frame.ptr).next)
<1>1. /\ phase = "on" /\ phase' = phase /\ found' = found /\ stack' = Top(q) /\ Frame.at = "caps"
      /\ UNCHANGED <<tree, regs, phase, lim, msiLimit>>
  BY DEF WalkCapability, WalksOn
<1>2. IsActivation(Frame) /\ TypesInv
  BY <1>1, TargetIsNext DEF EnumInv
<1>3. IsActivation(q) /\ SamePlace(Frame, q) /\ q.at = "caps"
  BY <1>1, <1>2, WalksOnType
<1> HIDE DEF q
<1>4. Onward(ch, q)
  BY <1>1, <1>3, SamePlaceOnward
<1> QED
  BY <1>1, <1>2, <1>4, SameRegsKeep, OnwardKeeps

\* Bus mastering and the messages of a function.
LEMMA SetUpFunctionTypes ==
  ASSUME NEW ch, EnumInv(ch), SetUpFunction
  PROVE  TypesInv' /\ SameBuses
<1>1. TypesInv /\ Answered(Target) /\ UNCHANGED <<tree, phase, lim>>
  BY DEF SetUpFunction, EnumInv
<1> DEFINE t == Target
           msi == CapOffset(t, "MSI") # 0
<1>2. /\ regs' = [regs EXCEPT ![t].master = TRUE, ![t].msi = IF msi THEN msiLimit ELSE @]
      /\ msiLimit' = IF msi THEN msiLimit + Vectors ELSE msiLimit
  BY DEF SetUpFunction
<1> HIDE DEF t, msi
<1>3. msiLimit' \in Nat
  BY <1>1, <1>2, EnumAssumption DEF TypesInv
<1>4. ASSUME NEW f \in 0..tree.n
      PROVE  Kept(regs[f], regs'[f])
  <2>1. IsRegs(regs[f]) /\ DOMAIN regs = 0..tree.n
    BY <1>1 DEF TypesInv
  <2>2. CASE f # t
    BY <1>2, <2>1, <2>2, KeptSame
  <2>3. CASE f = t
    <3>1. regs'[f] = [regs[f] EXCEPT !.master = TRUE, !.msi = IF msi THEN msiLimit ELSE @]
      BY <1>2, <2>1, <2>3
    <3> QED
      BY <2>1, <3>1 DEF Kept, IsRegs
  <2> QED
    BY <2>2, <2>3
<1>5. DOMAIN regs' = DOMAIN regs
  BY <1>2
<1>6. phase' \in {"off", "on", "done"} /\ lim' \in [Spaces -> Nat]
  BY <1>1 DEF TypesInv
<1> QED
  BY <1>1, <1>3, <1>4, <1>5, <1>6, RegsKept

\* The scan turns to what is behind a bridge, and goes on behind a device.
LEMMA SetUpFunctionKeepsBuses ==
  ASSUME NEW ch, EnumInv(ch), SetUpFunction
  PROVE  EnumInv(ch)'
<1>1. phase = "on" /\ phase' = phase /\ found' = found /\ Answered(Target)
  BY DEF SetUpFunction
<1>2. /\ IsActivation(Frame) /\ Target \in Kids(ch[1]) /\ At(Target, Frame)
  BY <1>1, TargetIsNext DEF Answered
<1>3. CASE Target \in Bridges
  <2> DEFINE q == TurnsToBridge(Frame)
  <2>1. stack' = Top(q)
    BY <1>3 DEF SetUpFunction, TurnsToBridge
  <2>2. IsActivation(q) /\ SamePlace(Frame, q) /\ q.at = "bridge"
    BY <1>2, TurnsToBridgeType
  <2> HIDE DEF q
  <2>3. At(Target, q)
    BY <1>2, <2>2 DEF At, SamePlace
  <2>4. Onward(ch, q)
    BY <1>1, <1>2, <1>3, <2>2, <2>3, SamePlaceOnward
  <2> QED
    BY <1>1, <2>1, <2>4, SetUpFunctionTypes, OnwardKeeps
<1>4. CASE Target \notin Bridges
  <2> DEFINE q == NextFunction(Frame)
  <2>1. stack' = Top(q)
    BY <1>4 DEF SetUpFunction
  <2> HIDE DEF q
  <2>2. /\ IsActivation(q) /\ q.bus = Frame.bus /\ q.sec = Frame.sec /\ q.sub = Frame.sub
        /\ q.at \in {"device", "function"}
        /\ Frame.dev < q.dev \/ (Frame.dev = q.dev /\ Frame.fn < q.fn)
    BY <1>2, NextOnward DEF q
  <2>3. Onward(ch, q)
    BY <1>1, <2>2, LaterOnward
  <2> QED
    BY <1>1, <2>1, <2>3, SetUpFunctionTypes, OnwardKeeps
<1> QED
  BY <1>3, <1>4

\* The activation for a new segment.
LEMMA SegmentType ==
  ASSUME NEW b \in Nat
  PROVE  LET q == Segment(b) IN
         /\ IsActivation(q) /\ q.bus = b /\ q.sec = b + 1 /\ q.sub = b /\ q.at = "device"
         /\ q.dev = 0 /\ q.fn = 0 /\ q.all = FALSE
<1>1. "device" \in Steps /\ b + 1 \in Nat
  BY DEF Steps
<1> DEFINE w == AlignedLimits
<1> HIDE DEF w
<1> DEFINE q == [bus |-> b, sec |-> b + 1, sub |-> b, dev |-> 0, fn |-> 0, all |-> FALSE,
                 at |-> "device", bar |-> 1, ptr |-> 0, win |-> w]
<1>2. IsActivation(q)
  BY <1>1 DEF IsActivation
<1>3. Segment(b) = q
  BY DEF Segment, w
<1> QED
  BY <1>2, <1>3

\* The bridge to be opened is not open yet, and the next number is free.
LEMMA NewBridge ==
  ASSUME NEW ch, EnumInv(ch), OpenBridge
  PROVE  /\ Target \in Kids(ch[1]) /\ At(Target, Frame) /\ Target \in Bridges /\ ~Opened(Target)
         /\ Frame.sec \in 1..LastBus
         /\ IsFiniteSet({f \in Fun : Opened(f)}) /\ Cardinality({f \in Fun : Opened(f)}) \in Nat
<1>1. /\ phase = "on" /\ Frame.at = "bridge" /\ TypesInv /\ BusesInv /\ ChainInv(ch) /\ StackInv(ch)
      /\ NumbersInv(ch)
  BY DEF OpenBridge, EnumInv
<1> DEFINE t == Target
<1>2. PICK k \in Kids(ch[1]) : k \in Bridges /\ At(k, Frame)
  BY <1>1 DEF NumbersInv
<1>3. t = k
  BY <1>1, <1>2, TargetIsNext
<1>4. Len(ch) \in Nat \ {0} /\ Frame = stack[1] /\ IsActivation(Frame)
  BY <1>1, TargetIsNext
<1> HIDE DEF t
<1>5. t \in Fun /\ t \in Bridges /\ At(t, Frame) /\ t \in Kids(ch[1])
  BY <1>2, <1>3 DEF Kids
<1>6. ~Opened(t)
  <2>1. tree.dev[t] \in Nat /\ tree.fn[t] \in Nat
    BY <1>1, <1>5, PlaceTypes
  <2>2. ~Before(t, stack[1])
    BY <1>4, <1>5, <2>1 DEF At, Before
  <2>3. 1 \in 1..Len(ch) /\ ~(1 > 1)
    BY <1>4
  <2> QED
    BY <1>1, <1>5, <2>2, <2>3 DEF StackInv
<1> DEFINE O == {f \in Fun : Opened(f)}
<1>7. tree.n \in Nat /\ tree.kind \in [1..tree.n -> {"port", "switch", "ep"}]
      /\ Cardinality(Bridges) <= LastBus /\ Bridges \subseteq 1..tree.n
  BY <1>1 DEF TypesInv, WellBuilt, Bridges, Fun
<1>8. IsFiniteSet(Bridges) /\ Cardinality(Bridges) \in Nat
  <2>1. IsFiniteSet(1..tree.n)
    BY <1>7, FS_Interval
  <2>2. IsFiniteSet(Bridges)
    BY <1>7, <2>1, FS_Subset
  <2> QED
    BY <2>2, FS_CardinalityType
<1>9. O \cup {t} \subseteq Bridges /\ O \subseteq Bridges /\ t \notin O
  BY <1>1, <1>5, <1>6 DEF BusesInv
<1> HIDE DEF O
<1>10. IsFiniteSet(O) /\ Cardinality(O) \in Nat /\ Cardinality(O \cup {t}) = Cardinality(O) + 1
  <2>1. IsFiniteSet(O)
    BY <1>8, <1>9, FS_Subset
  <2> QED
    BY <1>9, <2>1, FS_AddElement, FS_CardinalityType
<1>11. Cardinality(O \cup {t}) <= Cardinality(Bridges)
  BY <1>8, <1>9, FS_Subset
<1>12. Frame.sec = Frame.sub + 1 /\ Frame.sub = Cardinality(O)
  BY <1>1 DEF NumbersInv, O
<1>13. Frame.sec \in 1..LastBus
  BY <1>7, <1>8, <1>10, <1>11, <1>12, EnumAssumption
<1> QED
  BY <1>5, <1>6, <1>10, <1>13 DEF t, O

\* A bridge is opened.
OpensAt(t, s) ==
  /\ tree' = tree /\ DOMAIN regs' = DOMAIN regs
  /\ regs'[t].sec = s /\ regs'[t].sub = LastBus
  /\ \A f \in 0..tree.n : f # t => regs'[f] = regs[f]

LEMMA OpenBridgeRegs ==
  ASSUME NEW ch, EnumInv(ch), OpenBridge
  PROVE  TypesInv' /\ OpensAt(Target, Frame.sec)
<1>1. TypesInv /\ UNCHANGED <<tree, phase, msiLimit>> /\ lim' = AlignedLimits
  BY DEF OpenBridge, EnumInv
<1> DEFINE t == Target
           s == Frame.sec
<1>2. regs' = [regs EXCEPT ![t].sec = s, ![t].sub = LastBus]
  BY DEF OpenBridge
<1>3. s \in 0..LastBus /\ t \in Fun /\ LastBus \in 0..LastBus
  <2>1. t \in Kids(ch[1]) /\ s \in 1..LastBus
    BY NewBridge
  <2> HIDE DEF t, s
  <2>2. s \in 0..LastBus /\ LastBus \in 0..LastBus
    BY <2>1, EnumAssumption
  <2> QED
    BY <2>1, <2>2 DEF Kids
<1> HIDE DEF t, s
<1>4. DOMAIN regs = 0..tree.n /\ IsRegs(regs[t]) /\ t \in 0..tree.n /\ tree.n \in Nat
  BY <1>1, <1>3 DEF TypesInv, WellBuilt, Fun
<1>5. regs'[t] = [regs[t] EXCEPT !.sec = s, !.sub = LastBus]
  BY <1>2, <1>4
<1>6. /\ IsRegs(regs'[t]) /\ regs'[t].sec = s /\ regs'[t].sub = LastBus /\ regs'[t].bar = regs[t].bar
  BY <1>3, <1>4, <1>5 DEF IsRegs
<1>7. DOMAIN regs' = DOMAIN regs /\ \A f \in 0..tree.n : f # t => regs'[f] = regs[f]
  BY <1>2, <1>4
<1>8. lim' \in [Spaces -> Nat]
  BY <1>1, AlignedTypes
<1>9. TypesInv'
  <2>1. \A f \in 0..tree.n : IsRegs(regs'[f])
    BY <1>1, <1>6, <1>7 DEF TypesInv
  <2>2. Fun' = Fun /\ Fun \subseteq 0..tree.n
    BY <1>1, <1>4 DEF Fun
  <2>3. \A f \in Fun : DOMAIN regs'[f].bar = DOMAIN tree.bars[f]
    BY <1>1, <1>6, <1>7, <2>2 DEF TypesInv
  <2>4. \A f \in 0..tree.n : IsRegs(regs[f])' <=> IsRegs(regs'[f])
    BY DEF IsRegs
  <2>5. WellBuilt(tree)'
    BY <1>1 DEF TypesInv, WellBuilt
  <2> QED
    BY <1>1, <1>4, <1>7, <1>8, <2>1, <2>2, <2>3, <2>4, <2>5 DEF TypesInv
<1> QED
  BY <1>1, <1>6, <1>7, <1>9 DEF OpensAt, t, s

\* The numbers stay nested when a bridge takes the next one, and what was found
\* stays where it is.
LEMMA OpenBridgeBuses ==
  ASSUME NEW ch, EnumInv(ch), OpenBridge
  PROVE  /\ BusesInv' /\ FoundInv' /\ Fun' = Fun /\ \A b : Kids(b)' = Kids(b)
         /\ \A f \in 0..tree.n : Opened(f)' <=> (Opened(f) \/ f = Target)
<1>1. /\ TypesInv /\ BusesInv /\ FoundInv /\ ChainInv(ch) /\ NumbersInv(ch) /\ phase = "on"
      /\ found' = found
  BY DEF OpenBridge, EnumInv
<1>2. PICK t, s : t = Target /\ s = Frame.sec
  OBVIOUS
<1>3. /\ tree' = tree /\ regs'[t].sec = s /\ regs'[t].sub = LastBus
      /\ \A f \in 0..tree.n : f # t => regs'[f] = regs[f]
  BY <1>2, OpenBridgeRegs DEF OpensAt
<1>4. /\ t \in Fun /\ tree.up[t] = ch[1] /\ t \in Bridges /\ ~Opened(t) /\ s \in 1..LastBus
  BY <1>2, NewBridge DEF Kids
<1>5. /\ Len(ch) \in Nat \ {0} /\ 1 \in 1..Len(ch) /\ ch[1] \in 0..tree.n /\ Opened(ch[1])
      /\ regs[ch[1]].sub = LastBus
  BY <1>1, TargetIsNext DEF ChainInv
<1>6. /\ tree.n \in Nat /\ Fun \subseteq 0..tree.n /\ 0 \in 0..tree.n /\ t # 0 /\ t > ch[1] /\ t \in Nat
      /\ \A f \in Fun : tree.up[f] \in 0..tree.n
  <2>1. tree.n \in Nat
    BY <1>1 DEF TypesInv, WellBuilt
  <2>2. ch[1] < t /\ t \in 1..tree.n
    BY <1>1, <1>4, Above DEF TypesInv
  <2>3. \A f \in Fun : tree.up[f] \in 0..tree.n
    BY <1>1, Above DEF TypesInv
  <2>4. Fun \subseteq 0..tree.n
    BY <2>1 DEF Fun
  <2> QED
    BY <1>5, <2>1, <2>2, <2>3, <2>4
<1>7. Fun' = Fun /\ Bridges' = Bridges /\ \A b : Kids(b)' = Kids(b)
  BY <1>3 DEF Fun, Bridges, Kids
<1>8. \A f \in 0..tree.n : Opened(f)' <=> (Opened(f) \/ f = t)
  BY <1>3, <1>4 DEF Opened
<1>9. \A f \in 0..tree.n : /\ regs[f].sec \in Nat /\ regs[f].sub \in Nat
                           /\ regs[f].sec <= LastBus /\ regs[f].sub <= LastBus
  BY <1>1, BusTypes
<1>10. \A f \in 0..tree.n : Opened(f) => regs[f].sec < s
  BY <1>1, <1>2 DEF NumbersInv
<1>11. ASSUME NEW g \in Fun, Opened(g), tree.up[g] = ch[1]
       PROVE  regs[g].sub < s
  <2>1. g > ch[1] /\ g \in Nat
    BY <1>1, <1>11, Above DEF TypesInv
  <2>2. ASSUME NEW i \in 1..Len(ch)
        PROVE  ch[i] # g
    <3>1. i = 1 \/ ch[i] < ch[1]
      <4>1. i = 1 \/ 1 < i
        BY <1>5
      <4> QED
        BY <1>1, <1>5, <4>1 DEF ChainInv
    <3>2. ch[i] \in Nat
      <4>1. ch[i] \in 0..tree.n
        BY <1>1, ElementsOf DEF ChainInv
      <4> QED
        BY <1>6, <4>1
    <3> QED
      BY <1>5, <1>6, <2>1, <3>1, <3>2
  <2> QED
    BY <1>1, <1>2, <1>6, <1>11, <2>2 DEF NumbersInv
<1>12. BusesInv'
  <2>1. regs'[0].sec = 0 /\ regs'[0].sub = LastBus
    BY <1>1, <1>3, <1>6 DEF BusesInv
  <2>2. \A f \in Fun : ~Opened(f)' => regs'[f].sub = 0
    BY <1>1, <1>3, <1>6, <1>8 DEF BusesInv
  <2>3. ASSUME NEW f \in Fun, Opened(f)'
        PROVE  f \in Bridges /\ Opened(tree.up[f])' /\ Inside(f, tree.up[f])'
    <3>1. CASE f = t
      <4>1. regs'[ch[1]] = regs[ch[1]] /\ Opened(ch[1])'
        BY <1>3, <1>5, <1>6, <1>8
      <4>2. regs[ch[1]].sec < s /\ s <= LastBus /\ LastBus <= LastBus
        BY <1>4, <1>5, <1>10, EnumAssumption
      <4> QED
        BY <1>3, <1>4, <1>5, <3>1, <4>1, <4>2 DEF Inside
    <3>2. CASE f # t
      <4>1. Opened(f) /\ regs'[f] = regs[f]
        BY <1>3, <1>6, <1>8, <2>3, <3>2
      <4>2. f \in Bridges /\ Opened(tree.up[f]) /\ Inside(f, tree.up[f])
        BY <1>1, <4>1 DEF BusesInv
      <4>3. tree.up[f] # t /\ regs'[tree.up[f]] = regs[tree.up[f]] /\ Opened(tree.up[f])'
        BY <1>3, <1>4, <1>6, <1>8, <4>2
      <4> QED
        BY <1>3, <4>1, <4>2, <4>3 DEF Inside
    <3> QED
      BY <3>1, <3>2
  <2>4. ASSUME NEW f \in Fun, NEW g \in Fun, f # g, tree.up[f] = tree.up[g], Opened(f)', Opened(g)'
        PROVE  Apart(f, g)'
    <3>1. CASE f = t
      <4>1. Opened(g) /\ regs'[g] = regs[g]
        BY <1>3, <1>6, <1>8, <2>4, <3>1
      <4>2. regs[g].sub < s
        BY <1>4, <1>11, <2>4, <3>1, <4>1
      <4> QED
        BY <1>3, <3>1, <4>1, <4>2 DEF Apart
    <3>2. CASE g = t
      <4>1. Opened(f) /\ regs'[f] = regs[f]
        BY <1>3, <1>6, <1>8, <2>4, <3>2
      <4>2. regs[f].sub < s
        BY <1>4, <1>11, <2>4, <3>2, <4>1
      <4> QED
        BY <1>3, <3>2, <4>1, <4>2 DEF Apart
    <3>3. CASE f # t /\ g # t
      BY <1>1, <1>3, <1>6, <1>8, <2>4, <3>3 DEF BusesInv, Apart
    <3> QED
      BY <3>1, <3>2, <3>3
  <2> QED
    BY <1>3, <1>7, <2>1, <2>2, <2>3, <2>4 DEF BusesInv
<1>13. FoundInv'
  <2>1. ASSUME NEW f \in Fun, Opened(tree.up[f])
        PROVE  Opened(tree.up[f])' /\ Place(f)' = Place(f)
    <3>1. tree.up[f] \in 0..tree.n /\ tree.up[f] # t
      BY <1>4, <1>6, <2>1
    <3> QED
      BY <1>3, <1>8, <2>1, <3>1 DEF Place
  <2> QED
    BY <1>1, <1>3, <1>7, <2>1 DEF FoundInv
<1> QED
  BY <1>2, <1>7, <1>8, <1>12, <1>13

\* The chain with a bridge more.
Longer(ch, t, c2) == t = Target /\ c2 = <<t>> \o ch
LEMMA LongerChain ==
  ASSUME NEW ch, EnumInv(ch), OpenBridge, NEW t, NEW c2, Longer(ch, t, c2)
  PROVE  /\ c2 \in Seq(0..tree.n) /\ c2 # <<>> /\ Len(c2) = Len(ch) + 1 /\ c2[1] = t
         /\ \A i \in 2..Len(c2) : i - 1 \in 1..Len(ch) /\ c2[i] = ch[i - 1]
         /\ \A i \in 1..Len(ch) : ch[i] \in 0..tree.n /\ ch[i] # t /\ ch[i] < t
         /\ t \in Fun /\ tree.up[t] = ch[1] /\ Len(ch) \in Nat \ {0}
<1>1. /\ TypesInv /\ ChainInv(ch) /\ phase = "on"
  BY DEF OpenBridge, EnumInv
<1>2. t \in Fun /\ tree.up[t] = ch[1]
  BY NewBridge DEF Kids, Longer
<1>3. t \in 1..tree.n /\ tree.n \in Nat /\ ch[1] < t
  BY <1>1, <1>2, Above DEF TypesInv
<1>4. ch \in Seq(0..tree.n) /\ ch # <<>>
  BY <1>1 DEF ChainInv
<1>5. Len(ch) \in Nat \ {0} /\ 1 \in 1..Len(ch) /\ \A i \in 1..Len(ch) : ch[i] \in 0..tree.n
  BY <1>4, ElementsOf
<1>6. t \in 0..tree.n
  BY <1>3
<1>7. c2 \in Seq(0..tree.n) /\ Len(c2) = Len(ch) + 1 /\ c2[1] = t
  BY <1>4, <1>6 DEF Longer
<1>8. c2 # <<>>
  BY <1>5, <1>7
<1>9. ASSUME NEW i \in 2..Len(c2)
      PROVE  i - 1 \in 1..Len(ch) /\ c2[i] = ch[i - 1]
  BY <1>4, <1>5, <1>6, <1>7 DEF Longer
<1>10. ASSUME NEW i \in 1..Len(ch)
       PROVE  ch[i] \in 0..tree.n /\ ch[i] # t /\ ch[i] < t
  <2>1. i = 1 \/ 1 < i
    BY <1>5
  <2>2. i = 1 \/ ch[i] < ch[1]
    BY <1>1, <1>5, <2>1 DEF ChainInv
  <2>3. ch[i] \in Nat /\ ch[1] \in Nat /\ t \in Nat
    BY <1>3, <1>5
  <2> QED
    BY <1>3, <1>5, <2>2, <2>3
<1> QED
  BY <1>2, <1>5, <1>7, <1>8, <1>9, <1>10

LEMMA OpenBridgeChain ==
  ASSUME NEW ch, EnumInv(ch), OpenBridge, NEW t, NEW c2, Longer(ch, t, c2)
  PROVE  ChainInv(c2)'
<1>1. ChainInv(ch) /\ TypesInv
  BY DEF OpenBridge, EnumInv
<1>2. t = Target
  BY DEF Longer
<1>3. /\ c2 \in Seq(0..tree.n) /\ c2 # <<>> /\ Len(c2) = Len(ch) + 1 /\ c2[1] = t
      /\ \A i \in 2..Len(c2) : i - 1 \in 1..Len(ch) /\ c2[i] = ch[i - 1]
      /\ \A i \in 1..Len(ch) : ch[i] \in 0..tree.n /\ ch[i] # t /\ ch[i] < t
      /\ t \in Fun /\ tree.up[t] = ch[1] /\ Len(ch) \in Nat \ {0}
  BY LongerChain
<1>4. /\ tree' = tree /\ regs'[t].sub = LastBus
      /\ \A f \in 0..tree.n : f # t => regs'[f] = regs[f]
  BY <1>2, OpenBridgeRegs DEF OpensAt
<1>5. \A f \in 0..tree.n : Opened(f)' <=> (Opened(f) \/ f = t)
  BY <1>2, OpenBridgeBuses
<1>6. t \in 0..tree.n
  BY <1>1, <1>3 DEF Fun, TypesInv, WellBuilt
<1>7. c2[Len(c2)] = 0
  <2>1. Len(c2) \in 2..Len(c2) /\ Len(c2) - 1 = Len(ch)
    BY <1>3
  <2> QED
    BY <1>1, <1>3, <2>1 DEF ChainInv
<1>8. ASSUME NEW i \in 1..Len(c2), NEW j \in 1..Len(c2), i < j
      PROVE  c2[j] < c2[i]
  <2>1. j \in 2..Len(c2) /\ j - 1 \in 1..Len(ch) /\ c2[j] = ch[j - 1]
    BY <1>3, <1>8
  <2>2. CASE i = 1
    BY <1>3, <2>1, <2>2
  <2>3. CASE i # 1
    <3>1. i \in 2..Len(c2) /\ i - 1 \in 1..Len(ch) /\ c2[i] = ch[i - 1] /\ i - 1 < j - 1
      BY <1>3, <1>8, <2>3
    <3> QED
      BY <1>1, <2>1, <3>1 DEF ChainInv
  <2> QED
    BY <2>2, <2>3
<1>9. ASSUME NEW i \in 1..Len(c2)
      PROVE  Opened(c2[i])' /\ regs'[c2[i]].sub = LastBus
  <2>1. CASE i = 1
    BY <1>3, <1>4, <1>5, <1>6, <2>1
  <2>2. CASE i # 1
    <3>1. i - 1 \in 1..Len(ch) /\ c2[i] = ch[i - 1]
      BY <1>3, <2>2
    <3> QED
      BY <1>1, <1>3, <1>4, <1>5, <3>1 DEF ChainInv
  <2> QED
    BY <2>1, <2>2
<1>10. ASSUME NEW i \in 1..(Len(c2) - 1)
       PROVE  tree.up[c2[i]] = c2[i + 1]
  <2>1. i + 1 \in 2..Len(c2) /\ c2[i + 1] = ch[i]
    BY <1>3
  <2>2. CASE i = 1
    BY <1>3, <2>1, <2>2
  <2>3. CASE i # 1
    <3>1. /\ i - 1 \in 1..(Len(ch) - 1) /\ c2[i] = ch[i - 1] /\ (i - 1) + 1 = i
      BY <1>3, <2>3
    <3>2. tree.up[ch[i - 1]] = ch[(i - 1) + 1]
      BY <1>1, <3>1 DEF ChainInv
    <3> QED
      BY <2>1, <3>1, <3>2
  <2> QED
    BY <2>2, <2>3
<1> QED
  BY <1>3, <1>4, <1>7, <1>8, <1>9, <1>10 DEF ChainInv

\* The stack after a bridge was opened.
LEMMA OpenBridgeStack ==
  ASSUME NEW ch, EnumInv(ch), OpenBridge
  PROVE  /\ IsStack(stack') /\ Len(stack') = Len(ch) + 1 /\ Frame' = stack'[1]
         /\ stack'[1] = Segment(Frame.sec) /\ stack'[2] = Waits(Frame)
         /\ \A i \in 3..(Len(ch) + 1) : stack'[i] = stack[i - 1]
<1>1. /\ phase = "on" /\ stack' = <<Segment(Frame.sec)>> \o Top(Waits(Frame))
  BY DEF OpenBridge, Waits
<1>2. IsStack(stack) /\ stack # <<>> /\ Len(stack) = Len(ch) /\ Len(ch) \in Nat \ {0}
  BY <1>1, TargetIsNext
<1>3. PICK x, y, s : x = Segment(Frame.sec) /\ y = Waits(Frame) /\ s = Top(y)
  OBVIOUS
<1>4. /\ IsStack(s) /\ Len(s) = Len(ch) /\ s[1] = y /\ \A i \in 2..Len(ch) : s[i] = stack[i]
  BY <1>2, <1>3, Topped DEF Top
<1>5. LET q == <<x>> \o s IN
      /\ IsStack(q) /\ Len(q) = Len(s) + 1 /\ q[1] = x /\ Head(q) = x
      /\ \A i \in 1..Len(s) : q[i + 1] = s[i]
  <2>1. IsStack(s)
    BY <1>4
  <2> QED
    BY <2>1, Pushed
<1>6. stack' = <<x>> \o s
  BY <1>1, <1>3
<1>7. /\ IsStack(stack') /\ Len(stack') = Len(s) + 1 /\ stack'[1] = x /\ Head(stack') = x
      /\ \A i \in 1..Len(s) : stack'[i + 1] = s[i]
  BY <1>5, <1>6
<1>8. stack'[2] = y
  <2>1. 1 \in 1..Len(s) /\ 1 + 1 = 2
    BY <1>2, <1>4
  <2>2. stack'[1 + 1] = s[1]
    BY <1>7, <2>1
  <2> QED
    BY <1>4, <2>1, <2>2
<1>9. ASSUME NEW i \in 3..(Len(ch) + 1)
      PROVE  stack'[i] = stack[i - 1]
  <2>1. i - 1 \in 1..Len(s) /\ i - 1 \in 2..Len(ch) /\ (i - 1) + 1 = i
    BY <1>2, <1>4
  <2>2. stack'[(i - 1) + 1] = s[i - 1] /\ s[i - 1] = stack[i - 1]
    BY <1>4, <1>7, <2>1
  <2> QED
    BY <2>1, <2>2
<1> QED
  BY <1>4, <1>7, <1>8, <1>9, <1>3 DEF Frame

\* Position of the scans after a bridge was opened: nothing behind it is open.
LEMMA OpenBridgeScans ==
  ASSUME NEW ch, EnumInv(ch), OpenBridge, NEW t, NEW c2, Longer(ch, t, c2)
  PROVE  StackInv(c2)'
<1>1. ChainInv(ch) /\ StackInv(ch) /\ BusesInv /\ TypesInv /\ phase = "on"
  BY DEF OpenBridge, EnumInv
<1>2. t = Target
  BY DEF Longer
<1>3. /\ Len(c2) = Len(ch) + 1 /\ c2[1] = t
      /\ \A i \in 2..Len(c2) : i - 1 \in 1..Len(ch) /\ c2[i] = ch[i - 1]
      /\ \A i \in 1..Len(ch) : ch[i] \in 0..tree.n /\ ch[i] # t /\ ch[i] < t
      /\ t \in Fun /\ tree.up[t] = ch[1] /\ Len(ch) \in Nat \ {0}
  BY LongerChain
<1>4. PICK s : s = Frame.sec
  OBVIOUS
<1>5. /\ tree' = tree /\ regs'[t].sec = s
      /\ \A f \in 0..tree.n : f # t => regs'[f] = regs[f]
  BY <1>2, <1>4, OpenBridgeRegs DEF OpensAt
<1>6. /\ \A f \in 0..tree.n : Opened(f)' <=> (Opened(f) \/ f = t)
      /\ Fun' = Fun /\ \A b : Kids(b)' = Kids(b)
  BY <1>2, OpenBridgeBuses
<1>7. /\ IsStack(stack') /\ Len(stack') = Len(c2) /\ stack'[1] = Segment(s) /\ stack'[2] = Waits(Frame)
      /\ \A i \in 3..Len(c2) : stack'[i] = stack[i - 1]
  BY <1>3, <1>4, OpenBridgeStack
<1>8. IsActivation(Frame) /\ Frame = stack[1] /\ Bus = regs[ch[1]].sec /\ 1 \in 1..Len(ch)
  BY <1>1, <1>3, TargetIsNext
<1>9. ~Opened(t) /\ At(t, Frame) /\ s \in 1..LastBus
  BY <1>2, <1>4, NewBridge
<1>10. s \in Nat
  BY <1>9
<1>11. IsActivation(Segment(s)) /\ Segment(s).bus = s
  BY <1>10, SegmentType
<1>12. IsActivation(Waits(Frame)) /\ SamePlace(Frame, Waits(Frame))
  BY <1>8, WaitsType
<1>13. ASSUME NEW i \in 1..Len(c2)
       PROVE  IsActivation(stack'[i]) /\ stack'[i].bus = regs'[c2[i]].sec
  <2>1. CASE i = 1
    BY <1>3, <1>5, <1>7, <1>11, <2>1
  <2>2. CASE i = 2
    <3>1. c2[2] = ch[1] /\ ch[1] \in 0..tree.n /\ ch[1] # t
      BY <1>3, <2>2
    <3> QED
      BY <1>5, <1>7, <1>8, <1>12, <2>2, <3>1 DEF SamePlace, Bus
  <2>3. CASE i \notin {1, 2}
    <3>1. i \in 3..Len(c2) /\ i - 1 \in 1..Len(ch) /\ c2[i] = ch[i - 1]
      BY <1>3, <2>3
    <3>2. ch[i - 1] \in 0..tree.n /\ ch[i - 1] # t
      BY <1>3, <3>1
    <3> QED
      BY <1>1, <1>5, <1>7, <3>1, <3>2 DEF StackInv
  <2> QED
    BY <2>1, <2>2, <2>3
<1>14. ASSUME NEW i \in 1..(Len(c2) - 1)
       PROVE  At(c2[i], stack'[i + 1])
  <2>1. CASE i = 1
    BY <1>3, <1>7, <1>9, <1>12, <2>1 DEF At, SamePlace
  <2>2. CASE i # 1
    <3>1. /\ i - 1 \in 1..(Len(ch) - 1) /\ i \in 2..Len(c2) /\ i + 1 \in 3..Len(c2)
          /\ (i - 1) + 1 = i /\ (i + 1) - 1 = i
      BY <1>3, <2>2
    <3>2. c2[i] = ch[i - 1] /\ stack'[i + 1] = stack[i]
      BY <1>3, <1>7, <3>1
    <3>3. At(ch[i - 1], stack[(i - 1) + 1])
      BY <1>1, <3>1 DEF StackInv
    <3> QED
      BY <3>1, <3>2, <3>3
  <2> QED
    BY <2>1, <2>2
<1>15. \A k, b : k \in Kids(b) => k \in Fun /\ k \in 0..tree.n /\ tree.up[k] = b
  BY <1>1 DEF Kids, Fun, TypesInv, WellBuilt
<1>16. ASSUME NEW i \in 1..Len(c2), NEW k \in Kids(c2[i]), Opened(k)'
       PROVE  Before(k, stack'[i]) \/ (i > 1 /\ k = c2[i - 1])
  <2>1. k \in Fun /\ tree.up[k] = c2[i] /\ (Opened(k) \/ k = t)
    BY <1>6, <1>15, <1>16
  <2>2. CASE i = 1
    <3>1. tree.up[k] = t /\ k # t
      BY <1>3, <2>1, <2>2
    <3>2. Opened(t)
      BY <1>1, <2>1, <3>1 DEF BusesInv
    <3> QED
      BY <1>9, <3>2
  <2>3. CASE i = 2
    <3>1. c2[2] = ch[1] /\ c2[2 - 1] = t
      BY <1>3, <2>3
    <3>2. CASE k = t
      BY <2>3, <3>1, <3>2
    <3>3. CASE k # t
      <4>1. Before(k, stack[1])
        BY <1>1, <1>8, <1>16, <2>1, <2>3, <3>1, <3>3 DEF StackInv
      <4> QED
        BY <1>7, <1>8, <1>12, <2>3, <4>1 DEF Before, SamePlace
    <3> QED
      BY <3>2, <3>3
  <2>4. CASE i \notin {1, 2}
    <3>1. /\ i \in 3..Len(c2) /\ i - 1 \in 1..Len(ch) /\ i - 1 \in 2..Len(c2)
          /\ c2[i] = ch[i - 1] /\ i - 1 > 1 /\ stack'[i] = stack[i - 1]
          /\ c2[i - 1] = ch[(i - 1) - 1]
      BY <1>3, <1>7, <2>4
    <3>2. k # t
      <4>1. ch[i - 1] < ch[1]
        BY <1>1, <1>8, <3>1 DEF ChainInv
      <4>2. ch[1] \in Nat /\ ch[i - 1] \in Nat
        BY <1>3, <1>8, <3>1
      <4> QED
        BY <1>3, <2>1, <3>1, <4>1, <4>2
    <3>3. Opened(k) /\ k \in Kids(ch[i - 1])
      BY <1>16, <2>1, <3>1, <3>2
    <3>4. Before(k, stack[i - 1]) \/ k = ch[(i - 1) - 1]
      BY <1>1, <3>1, <3>3 DEF StackInv
    <3> QED
      BY <3>1, <3>4
  <2> QED
    BY <2>2, <2>3, <2>4
<1>17. \A i \in 1..(Len(c2) - 1) : At(c2[i], stack[i + 1])'
  BY <1>5, <1>14 DEF At
<1>18. \A i \in 1..Len(c2) : \A k \in Kids(c2[i]) :
         Opened(k)' => Before(k, stack[i])' \/ (i > 1 /\ k = c2[i - 1])
  BY <1>5, <1>16 DEF Before
<1> QED
  BY <1>6, <1>7, <1>13, <1>17, <1>18 DEF StackInv

\* One bridge more is open, and all numbers in use are below the next one.
LEMMA OpenBridgeNumbers ==
  ASSUME NEW ch, EnumInv(ch), OpenBridge, NEW t, NEW c2, Longer(ch, t, c2)
  PROVE  NumbersInv(c2)'
<1>1. NumbersInv(ch) /\ TypesInv /\ phase = "on"
  BY DEF OpenBridge, EnumInv
<1>2. t = Target
  BY DEF Longer
<1>3. /\ Len(c2) = Len(ch) + 1 /\ c2[1] = t
      /\ \A i \in 2..Len(c2) : i - 1 \in 1..Len(ch) /\ c2[i] = ch[i - 1]
      /\ t \in Fun /\ Len(ch) \in Nat \ {0}
  BY LongerChain
<1>4. PICK s : s = Frame.sec
  OBVIOUS
<1>5. /\ tree' = tree /\ regs'[t].sec = s
      /\ \A f \in 0..tree.n : f # t => regs'[f] = regs[f]
  BY <1>2, <1>4, OpenBridgeRegs DEF OpensAt
<1>6. /\ \A f \in 0..tree.n : Opened(f)' <=> (Opened(f) \/ f = t)
      /\ Fun' = Fun
  BY <1>2, OpenBridgeBuses
<1>7. Frame' = Segment(s)
  BY <1>4, OpenBridgeStack
<1> DEFINE O == {f \in Fun : Opened(f)}
<1>8. ~Opened(t) /\ s \in 1..LastBus /\ IsFiniteSet(O) /\ Cardinality(O) \in Nat
  BY <1>2, <1>4, NewBridge
<1>9. s \in Nat
  BY <1>8
<1>10. Segment(s).sec = s + 1 /\ Segment(s).sub = s /\ Segment(s).at = "device"
  BY <1>9, SegmentType
<1>11. Fun \subseteq 0..tree.n
  BY <1>1 DEF Fun, TypesInv, WellBuilt
<1>12. {f \in Fun' : Opened(f)'} = O \cup {t}
  BY <1>3, <1>6, <1>11
<1>13. Cardinality(O \cup {t}) = s
  <2>1. t \notin O
    BY <1>8
  <2>2. s = Cardinality(O) + 1
    BY <1>1, <1>4 DEF NumbersInv
  <2> HIDE DEF O
  <2> QED
    BY <1>8, <2>1, <2>2, FS_AddElement
<1>14. \A f \in 0..tree.n : regs[f].sec \in Nat /\ regs[f].sub \in Nat
  BY <1>1, BusTypes
<1>15. ASSUME NEW f \in 0..tree.n, Opened(f)'
       PROVE  regs'[f].sec < s + 1
  <2>1. CASE f = t
    BY <1>5, <1>9, <2>1
  <2>2. CASE f # t
    <3>1. regs[f].sec < s /\ regs'[f].sec = regs[f].sec
      BY <1>1, <1>4, <1>5, <1>6, <1>15, <2>2 DEF NumbersInv
    <3> QED
      BY <1>9, <1>14, <3>1
  <2> QED
    BY <2>1, <2>2
<1>16. ASSUME NEW f \in 0..tree.n, Opened(f)', \A i \in 1..Len(c2) : c2[i] # f
       PROVE  regs'[f].sub < s + 1
  <2>1. f # t /\ 1 \in 1..Len(c2)
    BY <1>3, <1>16
  <2>2. ASSUME NEW i \in 1..Len(ch)
        PROVE  ch[i] # f
    <3>1. i + 1 \in 2..Len(c2) /\ i + 1 \in 1..Len(c2) /\ (i + 1) - 1 = i
      BY <1>3
    <3>2. c2[i + 1] = ch[i]
      BY <1>3, <3>1
    <3> QED
      BY <1>16, <3>1, <3>2
  <2>3. regs[f].sub < s /\ regs'[f].sub = regs[f].sub
    BY <1>1, <1>4, <1>5, <1>6, <1>16, <2>1, <2>2 DEF NumbersInv
  <2> QED
    BY <1>9, <1>14, <2>3
<1> QED
  BY <1>5, <1>7, <1>10, <1>12, <1>13, <1>15, <1>16 DEF NumbersInv

LEMMA OpenBridgeKeeps ==
  ASSUME NEW ch, EnumInv(ch), OpenBridge, NEW t, NEW c2, Longer(ch, t, c2)
  PROVE  EnumInv(c2)'
<1>1. phase = "on" /\ phase' = phase
  BY DEF OpenBridge
<1>2. TypesInv' /\ BusesInv' /\ FoundInv'
  BY OpenBridgeRegs, OpenBridgeBuses
<1>3. ChainInv(c2)' /\ StackInv(c2)' /\ NumbersInv(c2)'
  BY OpenBridgeChain, OpenBridgeScans, OpenBridgeNumbers
<1> QED
  BY <1>1, <1>2, <1>3 DEF EnumInv

\* There is a bus number for every open bridge.
LEMMA OpenCount ==
  ASSUME TypesInv, BusesInv
  PROVE  /\ IsFiniteSet({f \in Fun : Opened(f)}) /\ Cardinality({f \in Fun : Opened(f)}) \in Nat
         /\ Cardinality({f \in Fun : Opened(f)}) <= LastBus
<1> DEFINE O == {f \in Fun : Opened(f)}
<1>1. tree.n \in Nat /\ Cardinality(Bridges) <= LastBus /\ Bridges \subseteq 1..tree.n
  BY DEF TypesInv, WellBuilt, Bridges, Fun
<1>2. IsFiniteSet(Bridges) /\ Cardinality(Bridges) \in Nat
  <2>1. IsFiniteSet(1..tree.n)
    BY <1>1, FS_Interval
  <2>2. IsFiniteSet(Bridges)
    BY <1>1, <2>1, FS_Subset
  <2> QED
    BY <2>2, FS_CardinalityType
<1>3. O \subseteq Bridges
  BY DEF BusesInv
<1> HIDE DEF O
<1>4. IsFiniteSet(O) /\ Cardinality(O) <= Cardinality(Bridges)
  BY <1>2, <1>3, FS_Subset
<1>5. Cardinality(O) \in Nat
  BY <1>4, FS_CardinalityType
<1> QED
  BY <1>1, <1>2, <1>4, <1>5, EnumAssumption DEF O

\* The caller's activation takes the last number of the segment.
Numbered(fr, sub) == [fr EXCEPT !.sub = sub, !.sec = sub + 1]
LEMMA NumberedType ==
  ASSUME NEW fr, IsActivation(fr), NEW sub \in Nat
  PROVE  LET q == Numbered(fr, sub) IN
         /\ IsActivation(q) /\ q.bus = fr.bus /\ q.sec = sub + 1 /\ q.sub = sub
         /\ q.dev = fr.dev /\ q.fn = fr.fn /\ q.at = fr.at /\ q.all = fr.all
<1> DEFINE q == Numbered(fr, sub)
<1>1. fr \in [bus : Nat, sec : Nat, sub : Nat, dev : Nat, fn : Nat, all : BOOLEAN,
             at : Steps, bar : Nat \ {0}, ptr : {fr.ptr}, win : {fr.win}]
  BY DEF IsActivation
<1>2. /\ q.bus = fr.bus /\ q.sec = sub + 1 /\ q.sub = sub /\ q.ptr = fr.ptr /\ q.win = fr.win
      /\ q.dev = fr.dev /\ q.fn = fr.fn /\ q.at = fr.at /\ q.all = fr.all
  BY <1>1 DEF Numbered
<1>3. sub + 1 \in Nat
  OBVIOUS
<1>4. q \in [bus : Nat, sec : Nat, sub : Nat, dev : Nat, fn : Nat, all : BOOLEAN,
            at : Steps, bar : Nat \ {0}, ptr : {fr.ptr}, win : {fr.win}]
  BY <1>1, <1>3 DEF Numbered
<1> QED
  BY <1>2, <1>4 DEF IsActivation

\* The bridge that a segment ends at is the innermost of the chain, t; the rest
\* of the chain is c2.
Shorter(ch, t, c2) == t = ch[1] /\ c2 = Tail(ch)
LEMMA ShorterChain ==
  ASSUME NEW ch, EnumInv(ch), CloseBridge, NEW t, NEW c2, Shorter(ch, t, c2)
  PROVE  /\ Len(ch) \in Nat /\ Len(ch) > 1 /\ Len(stack) = Len(ch) /\ IsStack(stack)
         /\ c2 \in Seq(0..tree.n) /\ c2 # <<>> /\ Len(c2) = Len(ch) - 1
         /\ \A i \in 1..Len(c2) : i + 1 \in 2..Len(ch) /\ c2[i] = ch[i + 1]
         /\ \A i \in 1..Len(ch) : ch[i] \in 0..tree.n
         /\ \A i \in 1..Len(c2) : c2[i] < t
         /\ t \in Fun /\ tree.up[t] = c2[1] /\ Opened(t)
         /\ CfgDown(Id(stack[2].bus, stack[2].dev, stack[2].fn)) = t
<1>1. TypesInv /\ BusesInv /\ ChainInv(ch) /\ StackInv(ch) /\ phase = "on"
  BY DEF CloseBridge, SegmentDone, EnumInv
<1>2. Len(ch) \in Nat \ {0} /\ Len(stack) = Len(ch) /\ IsStack(stack)
  BY <1>1, TargetIsNext
<1>3. Len(ch) > 1
  BY <1>2 DEF CloseBridge
<1>4. ch \in Seq(0..tree.n) /\ ch # <<>> /\ t = ch[1] /\ c2 = Tail(ch)
  BY <1>1 DEF ChainInv, Shorter
<1>5. \A i \in 1..Len(ch) : ch[i] \in 0..tree.n
  BY <1>4, ElementsOf
<1>6. c2 \in Seq(0..tree.n) /\ Len(c2) = Len(ch) - 1
  BY <1>3, <1>4
<1>7. ASSUME NEW i \in 1..Len(c2)
      PROVE  i + 1 \in 2..Len(ch) /\ c2[i] = ch[i + 1]
  BY <1>2, <1>4, <1>6
<1>8. c2 # <<>>
  BY <1>2, <1>3, <1>6
<1>9. 1 \in 1..(Len(ch) - 1) /\ 1 + 1 = 2 /\ 1 \in 1..Len(ch) /\ 1 \in 1..Len(c2) /\ 2 \in 1..Len(ch)
  BY <1>2, <1>3, <1>6
<1>10. tree.up[t] = ch[2] /\ At(t, stack[2]) /\ c2[1] = ch[2] /\ Opened(t) /\ Opened(ch[2])
  BY <1>1, <1>4, <1>7, <1>9 DEF ChainInv, StackInv
<1>11. \A i \in 1..Len(c2) : c2[i] < t
  <2>1. ASSUME NEW i \in 1..Len(c2)
        PROVE  c2[i] < t
    <3>1. i + 1 \in 1..Len(ch) /\ 1 < i + 1
      BY <1>2, <1>6
    <3> QED
      BY <1>1, <1>4, <1>7, <1>9, <3>1 DEF ChainInv
  <2> QED
    BY <2>1
<1>12. t \in Fun
  <2>1. ch[2] < t /\ t \in 0..tree.n /\ ch[2] \in 0..tree.n
    BY <1>4, <1>5, <1>9, <1>10, <1>11
  <2>2. tree.n \in Nat
    BY <1>1 DEF TypesInv, WellBuilt
  <2> QED
    BY <2>1, <2>2 DEF Fun
<1>13. CfgDown(Id(stack[2].bus, stack[2].dev, stack[2].fn)) = t
  <2>1. stack[2].bus = regs[ch[2]].sec
    BY <1>1, <1>9 DEF StackInv
  <2>2. PICK b, d, e, r : /\ b = ch[2] /\ d = stack[2].dev /\ e = stack[2].fn
                          /\ r = CfgDown(Id(stack[2].bus, stack[2].dev, stack[2].fn))
    OBVIOUS
  <2>3. EndsAt(b, d, e, r)
    BY <2>1, <2>2 DEF EndsAt
  <2>4. b \in 0..tree.n /\ Opened(b) /\ t \in Kids(b) /\ tree.dev[t] = d /\ tree.fn[t] = e
    BY <1>5, <1>9, <1>10, <1>12, <2>2 DEF Kids, At
  <2>5. r = t
    BY <1>1, <2>3, <2>4, CfgRouted
  <2> QED
    BY <2>2, <2>5
<1> QED
  BY <1>2, <1>3, <1>5, <1>6, <1>7, <1>8, <1>10, <1>11, <1>12, <1>13

\* A bridge gets its last number.
LEMMA CloseBridgeRegs ==
  ASSUME NEW ch, EnumInv(ch), CloseBridge, NEW t, NEW c2, Shorter(ch, t, c2)
  PROVE  /\ TypesInv' /\ tree' = tree
         /\ regs'[t].sec = regs[t].sec /\ regs'[t].sub = Frame.sub /\ regs'[t].bus = regs[t].bus
         /\ \A f \in 0..tree.n : f # t => regs'[f] = regs[f]
         /\ regs[t].sec <= Frame.sub /\ Frame.sub <= LastBus /\ Frame.sub \in Nat
<1>1. /\ TypesInv /\ BusesInv /\ UNCHANGED <<tree, phase, msiLimit>> /\ lim' = AlignedLimits
      /\ NumbersInv(ch) /\ phase = "on"
  BY DEF CloseBridge, SegmentDone, EnumInv
<1>2. /\ t \in Fun /\ Opened(t) /\ CfgDown(Id(stack[2].bus, stack[2].dev, stack[2].fn)) = t
  BY ShorterChain
<1>3. PICK n, w : n = Frame.sub /\ w = [s \in Spaces |-> Window(Frame.win[s], AlignedLimits[s] - 1)]
  OBVIOUS
<1>4. regs' = [regs EXCEPT ![t].sub = n, ![t].win = w]
  BY <1>2, <1>3 DEF CloseBridge
<1>5. DOMAIN regs = 0..tree.n /\ IsRegs(regs[t]) /\ t \in 0..tree.n /\ tree.n \in Nat
  <2>1. tree.n \in Nat
    BY <1>1 DEF TypesInv, WellBuilt
  <2>2. t \in 0..tree.n
    BY <1>2, <2>1 DEF Fun
  <2> QED
    BY <1>1, <2>1, <2>2 DEF TypesInv
<1>6. n \in Nat /\ n <= LastBus
  BY <1>1, <1>3, OpenCount DEF NumbersInv
<1>7. regs[t].sec <= n
  <2>1. regs[t].sec \in Nat
    BY <1>1, <1>5, BusTypes
  <2>2. regs[t].sec < n + 1
    BY <1>1, <1>2, <1>3, <1>5 DEF NumbersInv
  <2> QED
    BY <1>6, <2>1, <2>2
<1>8. regs'[t] = [regs[t] EXCEPT !.sub = n, !.win = w]
  BY <1>4, <1>5
<1>9. n \in 0..LastBus
  BY <1>6, EnumAssumption
<1>10. /\ IsRegs(regs'[t]) /\ regs'[t].sub = n /\ regs'[t].sec = regs[t].sec
       /\ regs'[t].bus = regs[t].bus /\ regs'[t].bar = regs[t].bar
  BY <1>5, <1>8, <1>9 DEF IsRegs
<1>11. DOMAIN regs' = DOMAIN regs /\ \A f \in 0..tree.n : f # t => regs'[f] = regs[f]
  BY <1>4, <1>5
<1>12. lim' \in [Spaces -> Nat]
  BY <1>1, AlignedTypes
<1>13. TypesInv'
  <2>1. \A f \in 0..tree.n : IsRegs(regs'[f])
    BY <1>1, <1>10, <1>11 DEF TypesInv
  <2>2. Fun' = Fun /\ Fun \subseteq 0..tree.n
    BY <1>1, <1>5 DEF Fun
  <2>3. \A f \in Fun : DOMAIN regs'[f].bar = DOMAIN tree.bars[f]
    BY <1>1, <1>10, <1>11, <2>2 DEF TypesInv
  <2>4. \A f \in 0..tree.n : IsRegs(regs[f])' <=> IsRegs(regs'[f])
    BY DEF IsRegs
  <2>5. WellBuilt(tree)'
    BY <1>1 DEF TypesInv, WellBuilt
  <2> QED
    BY <1>1, <1>5, <1>11, <1>12, <2>1, <2>2, <2>3, <2>4, <2>5 DEF TypesInv
<1> QED
  BY <1>1, <1>3, <1>6, <1>7, <1>10, <1>11, <1>13

\* What is behind the bridge has its numbers inside the last one.
LEMMA CloseBridgeBuses ==
  ASSUME NEW ch, EnumInv(ch), CloseBridge, NEW t, NEW c2, Shorter(ch, t, c2)
  PROVE  /\ BusesInv' /\ FoundInv' /\ Fun' = Fun /\ \A b : Kids(b)' = Kids(b)
         /\ \A f \in 0..tree.n : Opened(f)' <=> Opened(f)
<1>1. /\ TypesInv /\ BusesInv /\ FoundInv /\ ChainInv(ch) /\ NumbersInv(ch) /\ found' = found
  BY DEF CloseBridge, SegmentDone, EnumInv
<1>2. PICK n : n = Frame.sub
  OBVIOUS
<1>3. /\ tree' = tree /\ regs'[t].sec = regs[t].sec /\ regs'[t].sub = n
      /\ \A f \in 0..tree.n : f # t => regs'[f] = regs[f]
      /\ regs[t].sec <= n /\ n <= LastBus /\ n \in Nat
  BY <1>2, CloseBridgeRegs
<1>4. /\ Len(ch) \in Nat /\ Len(ch) > 1 /\ Len(c2) = Len(ch) - 1
      /\ \A i \in 1..Len(c2) : i + 1 \in 2..Len(ch) /\ c2[i] = ch[i + 1] /\ c2[i] < t
      /\ \A i \in 1..Len(ch) : ch[i] \in 0..tree.n
      /\ t \in Fun /\ tree.up[t] = c2[1] /\ Opened(t)
  BY ShorterChain
<1>5. t = ch[1]
  BY DEF Shorter
<1>6. /\ tree.n \in Nat /\ Fun \subseteq 0..tree.n /\ 0 \in 0..tree.n /\ t # 0 /\ t \in Nat
      /\ \A f \in Fun : tree.up[f] \in 0..tree.n /\ tree.up[f] < f /\ f \in Nat
  <2>1. tree.n \in Nat
    BY <1>1 DEF TypesInv, WellBuilt
  <2>2. \A f \in Fun : tree.up[f] \in 0..tree.n /\ tree.up[f] < f /\ f \in 1..tree.n
    BY <1>1, Above DEF TypesInv
  <2> QED
    BY <1>4, <2>1, <2>2 DEF Fun
<1>7. Fun' = Fun /\ Bridges' = Bridges /\ \A b : Kids(b)' = Kids(b)
  BY <1>3 DEF Fun, Bridges, Kids
<1>8. /\ \A f \in 0..tree.n : regs'[f].sec = regs[f].sec
      /\ \A f \in 0..tree.n : f # t => regs'[f].sub = regs[f].sub
  BY <1>3
<1>9. \A f \in 0..tree.n : Opened(f)' <=> Opened(f)
  BY <1>8 DEF Opened
<1>10. \A f \in 0..tree.n : regs[f].sec \in Nat /\ regs[f].sub \in Nat /\ regs[f].sec <= LastBus
  BY <1>1, BusTypes
<1>11. regs[t].sub = LastBus /\ regs[c2[1]].sub = LastBus /\ c2[1] \in 0..tree.n /\ c2[1] # t
  <2>1. 1 \in 1..Len(ch) /\ 1 \in 1..Len(c2) /\ 1 + 1 \in 1..Len(ch) /\ c2[1] = ch[1 + 1]
    BY <1>4
  <2>2. c2[1] < t /\ c2[1] \in 0..tree.n
    BY <1>4, <2>1
  <2>3. c2[1] # t
    BY <1>6, <2>2
  <2> QED
    BY <1>1, <1>5, <2>1, <2>2, <2>3 DEF ChainInv
<1>12. ASSUME NEW f \in Fun, Opened(f), tree.up[f] = t
       PROVE  regs[f].sub <= n
  <2>1. f > t /\ f \in Nat
    BY <1>6, <1>12
  <2>2. ASSUME NEW i \in 1..Len(ch)
        PROVE  ch[i] # f
    <3>1. CASE i = 1
      BY <1>5, <1>6, <2>1, <3>1
    <3>2. CASE i # 1
      <4>1. i - 1 \in 1..Len(c2) /\ (i - 1) + 1 = i
        BY <1>4, <3>2
      <4>2. c2[i - 1] < t /\ c2[i - 1] = ch[(i - 1) + 1]
        BY <1>4, <4>1
      <4>3. ch[i] < t /\ ch[i] \in Nat
        BY <1>4, <1>6, <4>1, <4>2
      <4> QED
        BY <1>6, <2>1, <4>3
    <3> QED
      BY <3>1, <3>2
  <2>3. regs[f].sub < n + 1 /\ regs[f].sub \in Nat
    BY <1>1, <1>2, <1>6, <1>10, <1>12, <2>2 DEF NumbersInv
  <2> QED
    BY <1>3, <2>3
<1>13. BusesInv'
  <2>1. regs'[0].sec = 0 /\ regs'[0].sub = LastBus
    BY <1>1, <1>3, <1>6 DEF BusesInv
  <2>2. \A f \in Fun : ~Opened(f)' => regs'[f].sub = 0
    BY <1>1, <1>4, <1>6, <1>8, <1>9 DEF BusesInv
  <2>3. ASSUME NEW f \in Fun, Opened(f)'
        PROVE  f \in Bridges /\ Opened(tree.up[f])' /\ Inside(f, tree.up[f])'
    <3>1. /\ Opened(f) /\ f \in Bridges /\ Opened(tree.up[f]) /\ Inside(f, tree.up[f])
          /\ Opened(tree.up[f])' /\ tree.up[f] \in 0..tree.n /\ f \in 0..tree.n /\ f # tree.up[f]
      <4>1. tree.up[f] \in 0..tree.n /\ f \in 0..tree.n /\ tree.up[f] < f /\ f \in Nat
        BY <1>6
      <4>2. f # tree.up[f]
        BY <1>6, <4>1
      <4>3. Opened(f)
        BY <1>9, <2>3, <4>1
      <4>4. f \in Bridges /\ Opened(tree.up[f]) /\ Inside(f, tree.up[f])
        BY <1>1, <4>3 DEF BusesInv
      <4>5. Opened(tree.up[f])'
        BY <1>3, <1>9, <4>1, <4>4 DEF Opened
      <4> QED
        BY <4>1, <4>2, <4>3, <4>4, <4>5
    <3>2. CASE f = t
      <4>1. regs'[c2[1]].sub = LastBus
        BY <1>8, <1>11
      <4> QED
        BY <1>3, <1>4, <1>8, <3>1, <3>2, <4>1 DEF Inside
    <3>3. CASE tree.up[f] = t
      <4>1. regs[f].sub <= n
        BY <1>12, <3>1, <3>3
      <4> QED
        BY <1>3, <1>8, <3>1, <3>3, <4>1 DEF Inside
    <3>4. CASE f # t /\ tree.up[f] # t
      BY <1>3, <1>8, <3>1, <3>4 DEF Inside
    <3> QED
      BY <3>2, <3>3, <3>4
  <2>4. ASSUME NEW f \in Fun, NEW g \in Fun, f # g, tree.up[f] = tree.up[g], Opened(f)', Opened(g)'
        PROVE  Apart(f, g)'
    <3>1. Apart(f, g) /\ f \in 0..tree.n /\ g \in 0..tree.n
      BY <1>1, <1>6, <1>9, <2>4 DEF BusesInv
    <3>2. regs[g].sec <= LastBus /\ regs[f].sec <= LastBus /\ regs[f].sec \in Nat /\ regs[g].sec \in Nat
      BY <1>10, <3>1
    <3>3. CASE f = t
      <4>1. regs[g].sub < regs[t].sec
        BY <1>11, <3>1, <3>2, <3>3, EnumAssumption DEF Apart
      <4> QED
        BY <1>8, <2>4, <3>1, <3>3, <4>1 DEF Apart
    <3>4. CASE g = t
      <4>1. regs[f].sub < regs[t].sec
        BY <1>11, <3>1, <3>2, <3>4, EnumAssumption DEF Apart
      <4> QED
        BY <1>8, <2>4, <3>1, <3>4, <4>1 DEF Apart
    <3>5. CASE f # t /\ g # t
      BY <1>8, <3>1, <3>5 DEF Apart
    <3> QED
      BY <3>3, <3>4, <3>5
  <2> QED
    BY <1>3, <1>7, <2>1, <2>2, <2>3, <2>4 DEF BusesInv
<1>14. FoundInv'
  <2>1. \A f \in Fun : Place(f)' = Place(f) /\ (Opened(tree.up[f])' <=> Opened(tree.up[f]))
    BY <1>3, <1>6, <1>8, <1>9 DEF Place
  <2> QED
    BY <1>1, <1>3, <1>7, <2>1 DEF FoundInv
<1> QED
  BY <1>7, <1>9, <1>13, <1>14

LEMMA CloseBridgeChain ==
  ASSUME NEW ch, EnumInv(ch), CloseBridge, NEW t, NEW c2, Shorter(ch, t, c2)
  PROVE  ChainInv(c2)'
<1>1. ChainInv(ch) /\ TypesInv
  BY DEF CloseBridge, SegmentDone, EnumInv
<1>2. /\ Len(ch) \in Nat /\ Len(ch) > 1
      /\ c2 \in Seq(0..tree.n) /\ c2 # <<>> /\ Len(c2) = Len(ch) - 1
      /\ \A i \in 1..Len(c2) : i + 1 \in 2..Len(ch) /\ c2[i] = ch[i + 1]
      /\ \A i \in 1..Len(ch) : ch[i] \in 0..tree.n
      /\ \A i \in 1..Len(c2) : c2[i] < t
      /\ t \in Fun
  BY ShorterChain
<1>3. /\ tree' = tree /\ \A f \in 0..tree.n : f # t => regs'[f] = regs[f]
  BY CloseBridgeRegs
<1>4. \A f \in 0..tree.n : Opened(f)' <=> Opened(f)
  BY CloseBridgeBuses
<1>5. tree.n \in Nat /\ t \in Nat
  BY <1>1, <1>2 DEF TypesInv, WellBuilt, Fun
<1>6. c2[Len(c2)] = 0
  <2>1. Len(c2) \in 1..Len(c2) /\ Len(c2) + 1 = Len(ch)
    BY <1>2
  <2> QED
    BY <1>1, <1>2, <2>1 DEF ChainInv
<1>7. ASSUME NEW i \in 1..Len(c2), NEW j \in 1..Len(c2), i < j
      PROVE  c2[j] < c2[i]
  <2>1. i + 1 \in 1..Len(ch) /\ j + 1 \in 1..Len(ch) /\ i + 1 < j + 1
    BY <1>2, <1>7
  <2> QED
    BY <1>1, <1>2, <2>1 DEF ChainInv
<1>8. ASSUME NEW i \in 1..Len(c2)
      PROVE  Opened(c2[i])' /\ regs'[c2[i]].sub = LastBus
  <2>1. i + 1 \in 1..Len(ch) /\ c2[i] = ch[i + 1] /\ c2[i] \in 0..tree.n /\ c2[i] < t
    BY <1>2
  <2>2. c2[i] # t
    BY <1>5, <2>1
  <2>3. Opened(c2[i]) /\ regs[c2[i]].sub = LastBus
    BY <1>1, <2>1 DEF ChainInv
  <2> QED
    BY <1>3, <1>4, <2>1, <2>2, <2>3
<1>9. ASSUME NEW i \in 1..(Len(c2) - 1)
      PROVE  tree.up[c2[i]] = c2[i + 1]
  <2>1. i \in 1..Len(c2) /\ i + 1 \in 1..Len(c2) /\ i + 1 \in 1..(Len(ch) - 1)
    BY <1>2
  <2> QED
    BY <1>1, <1>2, <2>1 DEF ChainInv
<1> QED
  BY <1>2, <1>3, <1>6, <1>7, <1>8, <1>9 DEF ChainInv

\* The stack after a bridge was closed: the caller looks for the next function.
LEMMA CloseBridgeStack ==
  ASSUME NEW ch, EnumInv(ch), CloseBridge
  PROVE  /\ IsStack(stack') /\ Len(stack') = Len(ch) - 1 /\ Frame' = stack'[1]
         /\ stack'[1] = NextFunction(Numbered(stack[2], Frame.sub))
         /\ \A i \in 2..(Len(ch) - 1) : stack'[i] = stack[i + 1]
<1>1. /\ phase = "on" /\ stack' = <<NextFunction(Numbered(stack[2], Frame.sub))>> \o Tail(Tail(stack))
  BY DEF CloseBridge, SegmentDone, Numbered
<1>2. IsStack(stack) /\ stack # <<>> /\ Len(stack) = Len(ch) /\ Len(ch) \in Nat \ {0}
  BY <1>1, TargetIsNext
<1>3. Len(ch) > 1
  BY <1>2 DEF CloseBridge
<1>4. PICK x, s : x = NextFunction(Numbered(stack[2], Frame.sub)) /\ s = Tail(stack)
  OBVIOUS
<1>5. /\ IsStack(s) /\ Len(s) = Len(ch) - 1 /\ \A i \in 1..(Len(ch) - 1) : s[i] = stack[i + 1]
  BY <1>2, <1>4, TailOf
<1>6. s # <<>>
  BY <1>2, <1>3, <1>5
<1>7. LET q == <<x>> \o Tail(s) IN
      /\ IsStack(q) /\ q # <<>> /\ Len(q) = Len(s) /\ q[1] = x /\ Head(q) = x
      /\ \A i \in 2..Len(s) : q[i] = s[i]
  <2>1. IsStack(s)
    BY <1>5
  <2> QED
    BY <1>6, <2>1, Topped
<1>8. stack' = <<x>> \o Tail(s)
  BY <1>1, <1>4
<1>9. /\ IsStack(stack') /\ Len(stack') = Len(s) /\ stack'[1] = x /\ Head(stack') = x
      /\ \A i \in 2..Len(s) : stack'[i] = s[i]
  BY <1>7, <1>8
<1>10. \A i \in 2..(Len(ch) - 1) : stack'[i] = stack[i + 1]
  BY <1>2, <1>5, <1>9
<1> QED
  BY <1>4, <1>5, <1>9, <1>10 DEF Frame

\* Position of the scans after a bridge was closed: the caller is behind it.
LEMMA CloseBridgeScans ==
  ASSUME NEW ch, EnumInv(ch), CloseBridge, NEW t, NEW c2, Shorter(ch, t, c2)
  PROVE  StackInv(c2)'
<1>1. ChainInv(ch) /\ StackInv(ch) /\ BusesInv /\ TypesInv /\ phase = "on"
  BY DEF CloseBridge, SegmentDone, EnumInv
<1>2. /\ Len(ch) \in Nat /\ Len(ch) > 1 /\ Len(c2) = Len(ch) - 1
      /\ \A i \in 1..Len(c2) : i + 1 \in 2..Len(ch) /\ c2[i] = ch[i + 1]
      /\ \A i \in 1..Len(ch) : ch[i] \in 0..tree.n
      /\ t \in Fun /\ tree.up[t] = c2[1] /\ t = ch[1]
  BY ShorterChain DEF Shorter
<1>3. PICK n : n = Frame.sub
  OBVIOUS
<1>4. /\ tree' = tree /\ n \in Nat
      /\ \A f \in 0..tree.n : regs'[f].sec = regs[f].sec
  BY <1>3, CloseBridgeRegs
<1>5. /\ \A f \in 0..tree.n : Opened(f)' <=> Opened(f)
      /\ Fun' = Fun /\ \A b : Kids(b)' = Kids(b)
  BY CloseBridgeBuses
<1>6. PICK q : q = NextFunction(Numbered(stack[2], n))
  OBVIOUS
<1>7. /\ IsStack(stack') /\ Len(stack') = Len(c2) /\ stack'[1] = q
      /\ \A i \in 2..Len(c2) : stack'[i] = stack[i + 1]
  BY <1>2, <1>3, <1>6, CloseBridgeStack
<1>8. /\ 1 \in 1..Len(ch) /\ 2 \in 1..Len(ch) /\ 1 \in 1..(Len(ch) - 1) /\ 1 \in 1..Len(c2) /\ 1 + 1 = 2
      /\ c2[1] = ch[2]
  <2>1. 1 \in 1..Len(ch) /\ 2 \in 1..Len(ch) /\ 1 \in 1..(Len(ch) - 1) /\ 1 \in 1..Len(c2) /\ 1 + 1 = 2
    BY <1>2
  <2> QED
    BY <1>2, <2>1
<1>9. IsActivation(stack[2]) /\ stack[2].bus = regs[ch[2]].sec /\ At(ch[1], stack[2])
  BY <1>1, <1>8 DEF StackInv
<1>10. /\ IsActivation(q) /\ q.bus = stack[2].bus
       /\ stack[2].dev < q.dev \/ (stack[2].dev = q.dev /\ stack[2].fn < q.fn)
  <2>1. PICK r : r = Numbered(stack[2], n)
    OBVIOUS
  <2>2. IsActivation(r) /\ r.bus = stack[2].bus /\ r.dev = stack[2].dev /\ r.fn = stack[2].fn
    BY <1>4, <1>9, <2>1, NumberedType
  <2>3. q = NextFunction(r)
    BY <1>6, <2>1
  <2>4. IsActivation(q) /\ q.bus = r.bus /\ (r.dev < q.dev \/ (r.dev = q.dev /\ r.fn < q.fn))
    BY <2>2, <2>3, NextOnward
  <2> QED
    BY <2>2, <2>4
<1>11. stack[2].dev \in Nat /\ stack[2].fn \in Nat /\ q.dev \in Nat /\ q.fn \in Nat
  BY <1>9, <1>10 DEF IsActivation
<1>12. ASSUME NEW i \in 1..Len(c2)
       PROVE  IsActivation(stack'[i]) /\ stack'[i].bus = regs'[c2[i]].sec
  <2>1. CASE i = 1
    BY <1>2, <1>4, <1>7, <1>8, <1>9, <1>10, <2>1
  <2>2. CASE i # 1
    <3>1. i \in 2..Len(c2) /\ i + 1 \in 1..Len(ch) /\ c2[i] = ch[i + 1] /\ ch[i + 1] \in 0..tree.n
      BY <1>2, <2>2
    <3> QED
      BY <1>1, <1>4, <1>7, <3>1 DEF StackInv
  <2> QED
    BY <2>1, <2>2
<1>13. ASSUME NEW i \in 1..(Len(c2) - 1)
       PROVE  At(c2[i], stack'[i + 1])
  <2>1. i \in 1..Len(c2) /\ i + 1 \in 2..Len(c2) /\ i + 1 \in 1..(Len(ch) - 1)
    BY <1>2
  <2>2. c2[i] = ch[i + 1] /\ stack'[i + 1] = stack[(i + 1) + 1]
    BY <1>2, <1>7, <2>1
  <2>3. At(ch[i + 1], stack[(i + 1) + 1])
    BY <1>1, <2>1 DEF StackInv
  <2> QED
    BY <2>2, <2>3
<1>14. \A k, b : k \in Kids(b) => k \in Fun /\ k \in 0..tree.n
  BY <1>1 DEF Kids, Fun, TypesInv, WellBuilt
<1>15. ASSUME NEW i \in 1..Len(c2), NEW k \in Kids(c2[i]), Opened(k)'
       PROVE  Before(k, stack'[i]) \/ (i > 1 /\ k = c2[i - 1])
  <2>1. k \in Fun /\ Opened(k)
    BY <1>5, <1>14, <1>15
  <2>2. CASE i = 1
    <3>1. Before(k, stack[2]) \/ k = ch[1]
      <4>1. k \in Kids(ch[2])
        BY <1>8, <1>15, <2>2
      <4>2. 2 - 1 = 1
        OBVIOUS
      <4> QED
        BY <1>1, <1>8, <2>1, <4>1, <4>2 DEF StackInv
    <3>2. tree.dev[k] \in Nat /\ tree.fn[k] \in Nat
      BY <1>1, <2>1, PlaceTypes
    <3>3. Before(k, q)
      BY <1>9, <1>10, <1>11, <3>1, <3>2 DEF Before, At
    <3> QED
      BY <1>7, <2>2, <3>3
  <2>3. CASE i # 1
    <3>1. /\ i \in 2..Len(c2) /\ i + 1 \in 1..Len(ch) /\ i - 1 \in 1..Len(c2) /\ i > 1
          /\ (i + 1) - 1 = i /\ (i - 1) + 1 = i
      BY <1>2, <2>3
    <3>2. c2[i] = ch[i + 1] /\ c2[i - 1] = ch[i] /\ stack'[i] = stack[i + 1]
      <4>1. c2[i - 1] = ch[(i - 1) + 1]
        BY <1>2, <3>1
      <4> QED
        BY <1>2, <1>7, <3>1, <4>1
    <3>3. k \in Kids(ch[i + 1])
      BY <1>15, <3>2
    <3>4. Before(k, stack[i + 1]) \/ k = ch[(i + 1) - 1]
      BY <1>1, <2>1, <3>1, <3>3 DEF StackInv
    <3> QED
      BY <3>1, <3>2, <3>4
  <2> QED
    BY <2>2, <2>3
<1>16. \A i \in 1..(Len(c2) - 1) : At(c2[i], stack[i + 1])'
  BY <1>4, <1>13 DEF At
<1>17. \A i \in 1..Len(c2) : \A k \in Kids(c2[i]) :
         Opened(k)' => Before(k, stack[i])' \/ (i > 1 /\ k = c2[i - 1])
  BY <1>4, <1>15 DEF Before
<1> QED
  BY <1>5, <1>7, <1>12, <1>16, <1>17 DEF StackInv

\* The same bridges are open, and one is off the chain that has its last number.
LEMMA CloseBridgeNumbers ==
  ASSUME NEW ch, EnumInv(ch), CloseBridge, NEW t, NEW c2, Shorter(ch, t, c2)
  PROVE  NumbersInv(c2)'
<1>1. NumbersInv(ch) /\ StackInv(ch) /\ TypesInv /\ phase = "on"
  BY DEF CloseBridge, SegmentDone, EnumInv
<1>2. /\ Len(ch) \in Nat /\ Len(ch) > 1 /\ Len(c2) = Len(ch) - 1
      /\ \A i \in 1..Len(c2) : i + 1 \in 2..Len(ch) /\ c2[i] = ch[i + 1]
      /\ t \in Fun /\ t = ch[1]
  BY ShorterChain DEF Shorter
<1>3. PICK n : n = Frame.sub
  OBVIOUS
<1>4. /\ tree' = tree /\ n \in Nat /\ regs'[t].sec = regs[t].sec /\ regs'[t].sub = n
      /\ \A f \in 0..tree.n : f # t => regs'[f] = regs[f]
  BY <1>3, CloseBridgeRegs
<1>5. /\ \A f \in 0..tree.n : Opened(f)' <=> Opened(f)
      /\ Fun' = Fun
  BY CloseBridgeBuses
<1>6. PICK q : q = NextFunction(Numbered(stack[2], n))
  OBVIOUS
<1>7. Frame' = q
  BY <1>3, <1>6, CloseBridgeStack
<1>8. q.sec = n + 1 /\ q.sub = n /\ q.at # "bridge"
  <2>1. 2 \in 1..Len(ch)
    BY <1>2
  <2>2. IsActivation(stack[2])
    BY <1>1, <2>1 DEF StackInv
  <2>3. PICK r : r = Numbered(stack[2], n)
    OBVIOUS
  <2>4. IsActivation(r) /\ r.sec = n + 1 /\ r.sub = n
    BY <1>4, <2>2, <2>3, NumberedType
  <2>5. q = NextFunction(r)
    BY <1>6, <2>3
  <2>6. q.sec = r.sec /\ q.sub = r.sub /\ q.at \in {"device", "function"}
    BY <2>4, <2>5, NextOnward
  <2> QED
    BY <2>4, <2>6
<1>9. Frame.sec = n + 1 /\ n = Cardinality({f \in Fun : Opened(f)})
  BY <1>1, <1>3 DEF NumbersInv
<1>10. Fun \subseteq 0..tree.n
  BY <1>1 DEF Fun, TypesInv, WellBuilt
<1>11. {f \in Fun' : Opened(f)'} = {f \in Fun : Opened(f)}
  BY <1>5, <1>10
<1>12. ASSUME NEW f \in 0..tree.n, Opened(f)'
       PROVE  regs'[f].sec < n + 1
  BY <1>1, <1>4, <1>5, <1>9, <1>12 DEF NumbersInv
<1>13. ASSUME NEW f \in 0..tree.n, Opened(f)', \A i \in 1..Len(c2) : c2[i] # f
       PROVE  regs'[f].sub < n + 1
  <2>1. CASE f = t
    BY <1>4, <2>1
  <2>2. CASE f # t
    <3>1. ASSUME NEW i \in 1..Len(ch)
          PROVE  ch[i] # f
      <4>1. CASE i = 1
        BY <1>2, <2>2, <4>1
      <4>2. CASE i # 1
        <5>1. i - 1 \in 1..Len(c2) /\ (i - 1) + 1 = i
          BY <1>2, <4>2
        <5>2. c2[i - 1] = ch[(i - 1) + 1]
          BY <1>2, <5>1
        <5> QED
          BY <1>13, <5>1, <5>2
      <4> QED
        BY <4>1, <4>2
    <3> QED
      BY <1>1, <1>4, <1>5, <1>9, <1>13, <2>2, <3>1 DEF NumbersInv
  <2> QED
    BY <2>1, <2>2
<1> QED
  BY <1>4, <1>7, <1>8, <1>9, <1>11, <1>12, <1>13 DEF NumbersInv

LEMMA CloseBridgeKeeps ==
  ASSUME NEW ch, EnumInv(ch), CloseBridge, NEW t, NEW c2, Shorter(ch, t, c2)
  PROVE  EnumInv(c2)'
<1>1. phase = "on" /\ phase' = phase
  BY DEF CloseBridge, SegmentDone
<1>2. TypesInv' /\ BusesInv' /\ FoundInv'
  BY CloseBridgeRegs, CloseBridgeBuses
<1>3. ChainInv(c2)' /\ StackInv(c2)' /\ NumbersInv(c2)'
  BY CloseBridgeChain, CloseBridgeScans, CloseBridgeNumbers
<1> QED
  BY <1>1, <1>2, <1>3 DEF EnumInv

\* Enumeration starts at the host bridge, the only one that is open.
LEMMA EnumerateTypes ==
  ASSUME NEW ch, EnumInv(ch), Enumerate
  PROVE  TypesInv' /\ SameBuses
<1>1. TypesInv /\ UNCHANGED <<tree, regs, msiLimit>> /\ phase' = "on" /\ lim' = AlignedLimits
  BY DEF Enumerate, EnumInv
<1>2. \A f \in 0..tree.n : Kept(regs[f], regs'[f])
  BY <1>1, KeptSame DEF TypesInv
<1>3. lim' \in [Spaces -> Nat] /\ msiLimit' \in Nat
  BY <1>1, AlignedTypes DEF TypesInv
<1> QED
  BY <1>1, <1>2, <1>3, RegsKept

LEMMA EnumerateKeeps ==
  ASSUME NEW ch, EnumInv(ch), Enumerate, NEW c2, c2 = << 0 >>
  PROVE  EnumInv(c2)'
<1>1. /\ TypesInv /\ BusesInv /\ FoundInv /\ phase' = "on" /\ found' = found
      /\ \A f \in Fun : ~Opened(f)
  BY DEF Enumerate, EnumInv
<1>2. TypesInv' /\ SameBuses
  BY EnumerateTypes
<1>3. /\ BusesInv' /\ FoundInv' /\ Fun' = Fun /\ \A b : Kids(b)' = Kids(b)
      /\ \A f \in 0..tree.n : Opened(f)' <=> Opened(f)
  BY <1>1, <1>2, SameBusesKeeps
<1>4. tree.n \in Nat /\ Fun = 1..tree.n /\ tree' = tree
  BY <1>1, <1>2 DEF TypesInv, WellBuilt, Fun, SameBuses
<1>5. c2 \in Seq(0..tree.n) /\ c2 # <<>> /\ Len(c2) = 1 /\ c2[1] = 0
  BY <1>4
<1>6. Opened(0)' /\ regs'[0].sub = LastBus /\ regs'[0].sec = 0
  BY <1>3 DEF BusesInv, Opened
<1>7. \A f \in 0..tree.n : Opened(f)' => f = 0
  BY <1>1, <1>3, <1>4
<1>8. ChainInv(c2)'
  BY <1>4, <1>5, <1>6 DEF ChainInv
<1>9. PICK x : x = Segment(0)
  OBVIOUS
<1>10. stack' = <<x>>
  BY <1>9 DEF Enumerate
<1>11. /\ IsActivation(x) /\ x.bus = 0 /\ x.sec = 1 /\ x.sub = 0 /\ x.at = "device"
  <2>1. 0 \in Nat /\ 0 + 1 = 1
    OBVIOUS
  <2> QED
    BY <1>9, <2>1, SegmentType
<1>12. IsStack(stack') /\ Len(stack') = 1 /\ stack'[1] = x /\ Head(stack') = x
  <2>1. stack' \in Seq({x})
    BY <1>10
  <2>2. IsStack(stack')
    BY <2>1, StackOf
  <2> QED
    BY <1>10, <2>2
<1>13. Frame' = x
  BY <1>12 DEF Frame
<1>14. \A b : \A k \in Kids(b) : k \in Fun /\ k \in 0..tree.n /\ k # 0
  BY <1>4 DEF Kids
<1>15. StackInv(c2)'
  <2>1. \A i \in 1..Len(c2) : IsActivation(stack'[i]) /\ stack'[i].bus = regs'[c2[i]].sec
    BY <1>5, <1>6, <1>11, <1>12
  <2>2. \A i \in 1..(Len(c2) - 1) : At(c2[i], stack[i + 1])'
    BY <1>5
  <2>3. \A i \in 1..Len(c2) : \A k \in Kids(c2[i])' :
          Opened(k)' => Before(k, stack[i])' \/ (i > 1 /\ k = c2[i - 1])
    BY <1>3, <1>7, <1>14
  <2> QED
    BY <1>5, <1>12, <2>1, <2>2, <2>3 DEF StackInv
<1>16. NumbersInv(c2)'
  <2>1. {f \in Fun' : Opened(f)'} = {}
    BY <1>1, <1>3, <1>4
  <2>2. Cardinality({}) = 0
    BY FS_EmptySet
  <2>3. \A f \in 0..tree.n : Opened(f)' => regs'[f].sec < 1
    BY <1>6, <1>7
  <2>4. \A f \in 0..tree.n : Opened(f)' => \E i \in 1..Len(c2) : c2[i] = f
    BY <1>5, <1>7
  <2> QED
    <3>1. Cardinality({f \in Fun' : Opened(f)'}) = 0
      BY <2>1, <2>2
    <3>2. \A f \in 0..tree.n : Opened(f)' /\ (\A i \in 1..Len(c2) : c2[i] # f) => regs'[f].sub < 1
      BY <2>4
    <3>3. x.sec = x.sub + 1 /\ x.at # "bridge"
      BY <1>11
    <3> QED
      BY <1>4, <1>11, <1>13, <2>3, <3>1, <3>2, <3>3 DEF NumbersInv
<1> QED
  BY <1>1, <1>2, <1>3, <1>8, <1>15, <1>16 DEF EnumInv

\* The end of enumeration: only windows of the host bridge change.
LEMMA FinishTypes ==
  ASSUME NEW ch, EnumInv(ch), Finish
  PROVE  TypesInv' /\ SameBuses
<1>1. TypesInv /\ UNCHANGED <<tree, msiLimit>> /\ phase' = "done" /\ lim' = AlignedLimits
  BY DEF Finish, EnumInv
<1>2. PICK w : w = [s \in Spaces |-> [base |-> Base[s], limit |-> AlignedLimits[s]]]
  OBVIOUS
<1>3. regs' = [regs EXCEPT ![0].win = w]
  BY <1>2 DEF Finish
<1>4. DOMAIN regs' = DOMAIN regs
  BY <1>3
<1>5. \A f \in 0..tree.n : Kept(regs[f], regs'[f])
  <2>1. ASSUME NEW f \in 0..tree.n
        PROVE  Kept(regs[f], regs'[f])
    <3>1. IsRegs(regs[f])
      BY <1>1 DEF TypesInv
    <3>2. CASE f = 0
      <4>1. regs'[f] = [regs[f] EXCEPT !.win = w]
        BY <1>1, <1>3, <3>2 DEF TypesInv
      <4> QED
        BY <3>1, <4>1 DEF Kept, IsRegs
    <3>3. CASE f # 0
      <4>1. regs'[f] = regs[f]
        BY <1>1, <1>3, <3>3 DEF TypesInv
      <4> QED
        BY <3>1, <4>1, KeptSame
    <3> QED
      BY <3>2, <3>3
  <2> QED
    BY <2>1
<1>6. lim' \in [Spaces -> Nat] /\ msiLimit' \in Nat
  BY <1>1, AlignedTypes DEF TypesInv
<1> QED
  BY <1>1, <1>4, <1>5, <1>6, RegsKept

LEMMA FinishKeeps ==
  ASSUME NEW ch, EnumInv(ch), Finish
  PROVE  EnumInv(ch)'
<1>1. /\ TypesInv /\ BusesInv /\ FoundInv /\ phase' = "done" /\ found' = found /\ stack' = <<>>
  BY DEF Finish, EnumInv
<1>2. TypesInv' /\ SameBuses
  BY FinishTypes
<1>3. BusesInv' /\ FoundInv'
  BY <1>1, <1>2, SameBusesKeeps
<1> QED
  BY <1>1, <1>2, <1>3 DEF EnumInv

\* Regions of host memory are nothing to it.
LEMMA UnchangedKeeps ==
  ASSUME NEW ch, EnumInv(ch), UNCHANGED <<tree, regs, lim, stack, found, msiLimit, phase>>
  PROVE  EnumInv(ch)'
<1>1. TypesInv' /\ BusesInv' /\ FoundInv' /\ Fun' = Fun /\ \A f \in Fun : Opened(f)' <=> Opened(f)
  <2>1. TypesInv /\ BusesInv /\ FoundInv
    BY DEF EnumInv
  <2>2. TypesInv' /\ SameBuses
    BY <2>1, SameRegsKeep
  <2>3. Fun \subseteq 0..tree.n
    BY <2>1 DEF Fun, TypesInv, WellBuilt
  <2> QED
    BY <2>1, <2>2, <2>3, SameBusesKeeps
<1>2. phase = "on" => ChainInv(ch)' /\ StackInv(ch)' /\ NumbersInv(ch)'
  <2> SUFFICES ASSUME phase = "on"
               PROVE  ChainInv(ch)' /\ StackInv(ch)' /\ NumbersInv(ch)'
    OBVIOUS
  <2>1. ChainInv(ch) /\ StackInv(ch) /\ NumbersInv(ch)
    BY DEF EnumInv
  <2>2. ChainInv(ch)'
    BY <2>1 DEF ChainInv, Opened
  <2>3. StackInv(ch)'
    BY <2>1 DEF StackInv, Opened, At, Before, Kids, Fun
  <2>4. NumbersInv(ch)'
    BY <2>1 DEF NumbersInv, Opened, At, Kids, Bridges, Fun, Frame
  <2> QED
    BY <2>2, <2>3, <2>4
<1> QED
  BY <1>1, <1>2 DEF EnumInv

\* Before enumeration no bridge but the host bridge is open.
LEMMA EnumInvInit == EnumInit => EnumInv(<< 0 >>)
<1> SUFFICES ASSUME EnumInit
             PROVE  EnumInv(<< 0 >>)
  OBVIOUS
<1>1. /\ tree \in Trees /\ lim = Base /\ stack = <<>> /\ found = {} /\ msiLimit = 0 /\ phase = "off"
      /\ regs = [f \in 0..tree.n |-> IF f = 0 THEN HostBridge ELSE NewFunction(f)]
  BY DEF EnumInit
<1>2. WellBuilt(tree)
  BY <1>1, TreeAssumption
<1>3. tree.n \in Nat /\ Fun = 1..tree.n
  BY <1>2 DEF WellBuilt, Fun
<1>4. LastBus \in Nat /\ 0 \in 0..LastBus /\ LastBus \in 0..LastBus
  BY EnumAssumption
<1>5. regs[0] = HostBridge /\ \A f \in Fun : regs[f] = NewFunction(f)
  BY <1>1, <1>3
<1>6. IsRegs(HostBridge) /\ HostBridge.sec = 0 /\ HostBridge.sub = LastBus
  BY <1>4 DEF IsRegs, HostBridge
<1>7. ASSUME NEW f \in Fun
      PROVE  /\ IsRegs(NewFunction(f)) /\ NewFunction(f).sec = 0 /\ NewFunction(f).sub = 0
             /\ DOMAIN NewFunction(f).bar = DOMAIN tree.bars[f]
  <2> DEFINE c == Capabilities(tree.caps[f])
             w == NoWindows
             m == -1
  <2> HIDE DEF c, w, m
  <2>1. NewFunction(f) = [bus |-> 0, sec |-> 0, sub |-> 0, win |-> w, bar |-> NoBars(f),
                          caps |-> c, master |-> FALSE, msi |-> m]
    BY DEF NewFunction, c, w, m
  <2>2. DOMAIN NoBars(f) = DOMAIN tree.bars[f]
    BY DEF NoBars
  <2> QED
    BY <1>4, <2>1, <2>2 DEF IsRegs
<1>8. \A f \in Fun : ~Opened(f)
  BY <1>3, <1>5, <1>7 DEF Opened
<1>9. TypesInv
  <2>1. \A f \in 0..tree.n : f = 0 \/ f \in Fun
    BY <1>3
  <2>2. \A f \in 0..tree.n : IsRegs(regs[f])
    BY <1>5, <1>6, <1>7, <2>1
  <2>3. DOMAIN regs = 0..tree.n
    BY <1>1
  <2>4. lim \in [Spaces -> Nat] /\ msiLimit \in Nat
    BY <1>1, EnumAssumption
  <2> QED
    BY <1>1, <1>2, <1>5, <1>7, <2>2, <2>3, <2>4 DEF TypesInv
<1>10. BusesInv
  BY <1>5, <1>6, <1>7, <1>8 DEF BusesInv
<1>11. FoundInv
  BY <1>1 DEF FoundInv
<1> QED
  BY <1>1, <1>8, <1>9, <1>10, <1>11 DEF EnumInv

(***************************************************************************)
(* The walk leaves no function out.                                         *)
(***************************************************************************)
\* A function is finished when it was found, has taken its bus and, if a bridge,
\* is open.
Noted(k) == <<Place(k), k>> \in found
Finished(k) == regs[k].bus = regs[tree.up[k]].sec /\ (k \in Bridges => Opened(k)) /\ Noted(k)

\* Finished are the functions before the position of a scan, the bridges on the
\* chain, and all that is below an open bridge off the chain.
Passed(ch) == \A i \in 1..Len(ch) : \A k \in Kids(ch[i]) : Before(k, stack[i]) => Finished(k)
OnChain(ch) == \A i \in 1..(Len(ch) - 1) : Finished(ch[i])
OffChain(ch) ==
  \A f \in Fun : Opened(f) /\ (\A i \in 1..Len(ch) : ch[i] # f) => \A k \in Kids(f) : Finished(k)

\* A device is looked at from its function 0 on, and only a device that says it
\* has others is looked at further.  The callers wait for their innermost.
Loops(b, fr) ==
  /\ fr.fn <= LastFn /\ (fr.at = "device" => fr.fn = 0)
  /\ fr.at # "device" /\ ~fr.all => \A k \in Kids(b) : tree.dev[k] = fr.dev => tree.fn[k] = 0
LoopsInv(ch) ==
  /\ \A i \in 1..Len(ch) : Loops(ch[i], stack[i])
  /\ \A i \in 2..Len(ch) : stack[i].at = "children"

\* The function that is being set up was found and has the bus of its segment.
Taken(b, fr) ==
  fr.at \notin {"device", "function"} =>
    \A k \in Kids(b) : At(k, fr) => regs[k].bus = regs[b].sec /\ Noted(k)

ScanInv(ch) ==
  /\ phase = "on" =>
       Passed(ch) /\ OnChain(ch) /\ OffChain(ch) /\ LoopsInv(ch) /\ Taken(ch[1], Frame)
  /\ phase = "done" => \A f \in Fun : Finished(f)

(***************************************************************************)
(* The steps of the walk.                                                   *)
(***************************************************************************)
\* A finished function stays finished while its bridge keeps its number.
LEMMA FinishedStays ==
  ASSUME TypesInv, NEW k \in Fun, Finished(k), tree' = tree, found \subseteq found',
         regs'[tree.up[k]].sec = regs[tree.up[k]].sec, Opened(k) => Opened(k)',
         regs'[k].bus = regs[k].bus \/ regs'[k].bus = regs[tree.up[k]].sec
  PROVE  Finished(k)'
<1>1. k \in Bridges' => k \in Bridges
  BY DEF Bridges, Fun
<1>2. Noted(k)'
  BY DEF Finished, Noted, Place
<1> QED
  BY <1>1, <1>2 DEF Finished

\* A function that takes a bus takes the one of the innermost segment.
BusesTaken(ch) ==
  \A k \in Fun : regs'[k].bus = regs[k].bus \/ (tree.up[k] = ch[1] /\ regs'[k].bus = Bus)
\* What the scan gets past has been finished.
Covers(ch, fr) ==
  \A k \in Kids(ch[1]) : Before(k, fr) => Before(k, Frame) \/ Finished(k)'
TakenNext(ch, fr) ==
  fr.at \notin {"device", "function"} =>
    \A k \in Kids(ch[1]) : At(k, fr) => regs'[k].bus = Bus /\ <<Place(k), k>> \in found'

LEMMA ScanKeeps ==
  ASSUME NEW ch, EnumInv(ch), ScanInv(ch), phase = "on", SameBuses, UNCHANGED phase,
         found \subseteq found', BusesTaken(ch), NEW fr, stack' = Top(fr),
         Covers(ch, fr), Loops(ch[1], fr), TakenNext(ch, fr)
  PROVE  ScanInv(ch)'
<1>1. /\ TypesInv /\ BusesInv /\ FoundInv /\ ChainInv(ch) /\ StackInv(ch)
      /\ Passed(ch) /\ OnChain(ch) /\ OffChain(ch) /\ LoopsInv(ch)
  BY DEF EnumInv, ScanInv
<1>2. /\ Fun' = Fun /\ \A b : Kids(b)' = Kids(b)
      /\ \A f \in 0..tree.n : Opened(f)' <=> Opened(f)
  BY <1>1, SameBusesKeeps
<1>3. /\ Len(ch) \in Nat \ {0} /\ Bus = regs[ch[1]].sec /\ ch[1] \in 0..tree.n
      /\ IsStack(stack) /\ stack # <<>> /\ Len(stack) = Len(ch) /\ Frame = stack[1]
  BY TargetIsNext
<1>4. /\ stack'[1] = fr /\ Frame' = fr /\ \A i \in 2..Len(ch) : stack'[i] = stack[i]
  BY <1>3, Topped DEF Top, Frame
<1>5. /\ tree' = tree /\ \A f \in 0..tree.n : regs'[f].sec = regs[f].sec
  BY DEF SameBuses
<1>6. \A i \in 1..Len(ch) : ch[i] \in 0..tree.n
  <2>1. ch \in Seq(0..tree.n)
    BY <1>1 DEF ChainInv
  <2> QED
    BY <2>1, ElementsOf
<1>7. \A f \in Fun : f \in 0..tree.n /\ tree.up[f] \in 0..tree.n
  <2>1. \A f \in Fun : f \in 1..tree.n /\ tree.up[f] \in 0..tree.n /\ tree.n \in Nat
    BY <1>1, Above DEF TypesInv
  <2> QED
    BY <2>1
<1>8. ASSUME NEW k \in Fun, Finished(k)
      PROVE  Finished(k)'
  <2>1. regs'[k].bus = regs[k].bus \/ regs'[k].bus = regs[tree.up[k]].sec
    BY <1>3 DEF BusesTaken
  <2> QED
    BY <1>1, <1>2, <1>5, <1>7, <1>8, <2>1, FinishedStays
<1>9. \A b : \A k \in Kids(b) : k \in Fun
  BY DEF Kids
<1>10. Passed(ch)'
  <2>1. ASSUME NEW i \in 1..Len(ch), NEW k \in Kids(ch[i]), Before(k, stack'[i])
        PROVE  Finished(k)'
    <3>1. CASE i = 1
      <4>1. Before(k, stack[1]) \/ Finished(k)'
        BY <1>3, <1>4, <2>1, <3>1 DEF Covers
      <4> QED
        BY <1>1, <1>8, <1>9, <3>1, <4>1 DEF Passed
    <3>2. CASE i # 1
      <4>1. Before(k, stack[i])
        BY <1>3, <1>4, <2>1, <3>2
      <4> QED
        BY <1>1, <1>8, <1>9, <4>1 DEF Passed
    <3> QED
      BY <3>1, <3>2
  <2>2. \A i : \A k : Before(k, stack[i])' <=> Before(k, stack'[i])
    BY <1>5 DEF Before
  <2> QED
    BY <1>2, <2>1, <2>2 DEF Passed
<1>11. OnChain(ch)'
  <2>1. ASSUME NEW i \in 1..(Len(ch) - 1)
        PROVE  Finished(ch[i])'
    <3>1. i \in 1..Len(ch) /\ i + 1 \in 1..Len(ch) /\ i < i + 1
      BY <1>3
    <3>2. ch[i] \in Fun
      <4>1. ch[i + 1] < ch[i] /\ ch[i] \in 0..tree.n /\ ch[i + 1] \in 0..tree.n /\ tree.n \in Nat
        BY <1>1, <1>6, <3>1 DEF ChainInv, TypesInv, WellBuilt
      <4> QED
        BY <4>1 DEF Fun
    <3> QED
      BY <1>1, <1>8, <3>2 DEF OnChain
  <2> QED
    BY <2>1 DEF OnChain
<1>12. OffChain(ch)'
  <2>1. ASSUME NEW f \in Fun, Opened(f)', \A i \in 1..Len(ch) : ch[i] # f, NEW k \in Kids(f)
        PROVE  Finished(k)'
    BY <1>1, <1>2, <1>7, <1>8, <1>9, <2>1 DEF OffChain
  <2> QED
    BY <1>2, <2>1 DEF OffChain
<1>13. LoopsInv(ch)'
  <2>1. \A i \in 1..Len(ch) : Loops(ch[i], stack'[i])
    <3>1. ASSUME NEW i \in 1..Len(ch)
          PROVE  Loops(ch[i], stack'[i])
      <4>1. CASE i = 1
        BY <1>4, <4>1
      <4>2. CASE i # 1
        <5>1. stack'[i] = stack[i]
          BY <1>3, <1>4, <4>2
        <5> QED
          BY <1>1, <5>1 DEF LoopsInv
      <4> QED
        BY <4>1, <4>2
    <3> QED
      BY <3>1
  <2>2. \A i : Loops(ch[i], stack[i])' <=> Loops(ch[i], stack'[i])
    BY <1>2, <1>5 DEF Loops
  <2>3. \A i \in 2..Len(ch) : stack'[i].at = "children"
    BY <1>1, <1>4 DEF LoopsInv
  <2> QED
    BY <2>1, <2>2, <2>3 DEF LoopsInv
<1>14. Taken(ch[1], Frame)'
  <2>1. \A k : At(k, Frame)' <=> At(k, fr)
    BY <1>4, <1>5 DEF At
  <2>2. regs'[ch[1]].sec = Bus
    BY <1>3, <1>5
  <2>3. \A k \in Fun : Noted(k)' <=> <<Place(k), k>> \in found'
    BY <1>5, <1>7 DEF Noted, Place
  <2> QED
    BY <1>2, <1>4, <1>9, <2>1, <2>2, <2>3 DEF Taken, TakenNext
<1> QED
  BY <1>10, <1>11, <1>12, <1>13, <1>14 DEF ScanInv

\* The loops get past a function that they have been at, and past no other.
LEMMA NextCovers ==
  ASSUME TypesInv, NEW b, NEW fr, IsActivation(fr), fr.at # "device", Loops(b, fr),
         NEW q, q = NextFunction(fr)
  PROVE  /\ Loops(b, q) /\ q.at \in {"device", "function"}
         /\ \A k \in Kids(b) : Before(k, q) => Before(k, fr) \/ At(k, fr)
<1>1. /\ fr \in [bus : Nat, sec : Nat, sub : Nat, dev : Nat, fn : Nat, all : BOOLEAN,
                at : Steps, bar : Nat \ {0}, ptr : {fr.ptr}, win : {fr.win}]
      /\ fr.dev \in Nat /\ fr.fn \in Nat /\ fr.all \in BOOLEAN /\ LastFn \in Nat
  BY EnumAssumption DEF IsActivation
<1>2. /\ fr.fn <= LastFn
      /\ ~fr.all => \A k \in Kids(b) : tree.dev[k] = fr.dev => tree.fn[k] = 0
  BY DEF Loops
<1>3. \A k \in Kids(b) : tree.dev[k] \in Nat /\ tree.fn[k] \in Nat /\ tree.fn[k] <= LastFn
  <2>1. \A k \in Kids(b) : k \in Fun
    BY DEF Kids
  <2>2. \A k \in Kids(b) : tree.fn[k] \in 0..LastFn /\ tree.dev[k] \in Nat
    BY <2>1, PlaceTypes
  <2> QED
    BY <1>1, <2>2
<1>4. CASE fr.all /\ fr.fn < LastFn
  <2>1. q = [fr EXCEPT !.at = "function", !.fn = fr.fn + 1]
    BY <1>4 DEF NextFunction
  <2>2. q.at = "function" /\ q.dev = fr.dev /\ q.fn = fr.fn + 1 /\ q.all = fr.all
    BY <1>1, <2>1
  <2>3. Loops(b, q)
    BY <1>1, <1>4, <2>2 DEF Loops
  <2>4. \A k \in Kids(b) : Before(k, q) => Before(k, fr) \/ At(k, fr)
    BY <1>1, <1>3, <2>2 DEF Before, At
  <2> QED
    BY <2>2, <2>3, <2>4
<1>5. CASE ~(fr.all /\ fr.fn < LastFn)
  <2>1. q = [fr EXCEPT !.at = "device", !.fn = 0, !.all = FALSE, !.dev = fr.dev + 1]
    BY <1>5 DEF NextFunction
  <2>2. q.at = "device" /\ q.dev = fr.dev + 1 /\ q.fn = 0
    BY <1>1, <2>1
  <2>3. Loops(b, q)
    BY <1>1, <2>2 DEF Loops
  <2>4. ASSUME NEW k \in Kids(b), Before(k, q)
        PROVE  Before(k, fr) \/ At(k, fr)
    <3>1. tree.dev[k] \in Nat /\ tree.fn[k] \in Nat /\ tree.fn[k] <= LastFn
      BY <1>3
    <3>2. tree.dev[k] < fr.dev \/ tree.dev[k] = fr.dev
      BY <1>1, <2>2, <2>4, <3>1 DEF Before
    <3>3. tree.dev[k] = fr.dev => tree.fn[k] <= fr.fn
      BY <1>1, <1>2, <1>5, <3>1
    <3> QED
      BY <1>1, <3>1, <3>2, <3>3 DEF Before, At
  <2> QED
    BY <2>2, <2>3, <2>4
<1> QED
  BY <1>4, <1>5

\* Work on a function at the same position of the scan.
SameIds == \A k \in Fun : regs'[k].bus = regs[k].bus
LEMMA SamePlaceScans ==
  ASSUME NEW ch, EnumInv(ch), ScanInv(ch), phase = "on", SameIds, found \subseteq found',
         NEW q, SamePlace(Frame, q), q.all = Frame.all, q.at # "device",
         Frame.at \notin {"device", "function"}
  PROVE  BusesTaken(ch) /\ Covers(ch, q) /\ Loops(ch[1], q) /\ TakenNext(ch, q)
<1>1. LoopsInv(ch) /\ Taken(ch[1], Frame)
  BY DEF ScanInv
<1>2. Len(ch) \in Nat \ {0} /\ Bus = regs[ch[1]].sec /\ Frame = stack[1]
  BY TargetIsNext
<1>3. Loops(ch[1], Frame)
  BY <1>1, <1>2 DEF LoopsInv
<1>4. \A k \in Kids(ch[1]) : k \in Fun
  BY DEF Kids
<1>5. BusesTaken(ch)
  BY DEF BusesTaken, SameIds
<1>6. Covers(ch, q)
  BY DEF Covers, SamePlace, Before
<1>7. Loops(ch[1], q)
  BY <1>3 DEF Loops, SamePlace
<1>8. TakenNext(ch, q)
  BY <1>1, <1>2, <1>4 DEF TakenNext, Taken, Noted, SamePlace, SameIds, At
<1> QED
  BY <1>5, <1>6, <1>7, <1>8

\* The functions that take the bus number of a request have their place below
\* the innermost bridge.
LEMMA CapturedBuses ==
  ASSUME NEW ch, EnumInv(ch), phase = "on", Answered(Target), regs' = Captured(Target)
  PROVE  BusesTaken(ch) /\ regs'[Target].bus = Bus
<1>1. TypesInv /\ Target \in Fun /\ tree.up[Target] = ch[1]
  BY TargetIsNext DEF EnumInv, Answered, Kids
<1>2. Fun = 1..tree.n /\ tree.n \in Nat
  BY <1>1 DEF TypesInv, WellBuilt, Fun
<1>3. \A f \in Fun : f \in 0..tree.n /\ f # 0
  BY <1>2
<1>4. PICK t, bus : t = Target /\ bus = Bus
  OBVIOUS
<1>5. ASSUME NEW f \in Fun
      PROVE  /\ regs'[f].bus = regs[f].bus \/ (tree.up[f] = ch[1] /\ regs'[f].bus = bus)
             /\ f = t => regs'[f].bus = bus
  <2>1. IsRegs(regs[f])
    BY <1>1, <1>3 DEF TypesInv
  <2>2. regs'[f] = IF f # 0 /\ (f = t \/ (tree.kind[t] = "ep" /\ tree.kind[f] = "ep" /\ tree.up[f] = tree.up[t]))
                   THEN [regs[f] EXCEPT !.bus = bus] ELSE regs[f]
    BY <1>3, <1>4 DEF Captured
  <2>3. [regs[f] EXCEPT !.bus = bus].bus = bus
    BY <2>1 DEF IsRegs
  <2> QED
    BY <1>1, <1>3, <1>4, <2>2, <2>3
<1> QED
  BY <1>1, <1>4, <1>5 DEF BusesTaken

\* A device has a function 0, which says whether there are others.
LEMMA FunctionZero ==
  ASSUME WellBuilt(tree), NEW k \in Fun
  PROVE  \E g \in Fun : /\ tree.up[g] = tree.up[k] /\ tree.dev[g] = tree.dev[k] /\ tree.fn[g] = 0
                        /\ k # g => tree.multi[g]
<1>1. HasFunctionZero(tree)
  BY DEF WellBuilt
<1> QED
  BY <1>1 DEF HasFunctionZero, Fun

\* A device that does not answer has no functions.
LEMMA ProbeDeviceScans ==
  ASSUME NEW ch, EnumInv(ch), ScanInv(ch), ProbeDevice
  PROVE  ScanInv(ch)'
<1>1. /\ phase = "on" /\ phase' = phase /\ Frame.at = "device" /\ UNCHANGED <<tree, phase, lim, msiLimit>>
      /\ TypesInv /\ LoopsInv(ch) /\ found \subseteq found'
  BY DEF ProbeDevice, EnumInv, ScanInv
<1>2. /\ Len(ch) \in Nat \ {0} /\ ch[1] \in 0..tree.n /\ Opened(ch[1]) /\ Bus = regs[ch[1]].sec
      /\ Frame = stack[1] /\ IsActivation(Frame)
      /\ Target \in Fun => Target \in Kids(ch[1]) /\ At(Target, Frame)
      /\ \A k \in Kids(ch[1]) : At(k, Frame) => Target = k
  BY <1>1, TargetIsNext
<1>3. Frame.dev \in Nat /\ Frame.fn = 0 /\ LastFn \in Nat
  <2>1. Loops(ch[1], Frame)
    BY <1>1, <1>2 DEF LoopsInv
  <2> QED
    BY <1>1, <1>2, <2>1, EnumAssumption DEF Loops, IsActivation
\* Function 0 of a device answers for it.
<1>4. ASSUME NEW k \in Kids(ch[1]), tree.dev[k] = Frame.dev
      PROVE  /\ Target \in Fun /\ tree.up[Target] = ch[1] /\ tree.dev[Target] = Frame.dev /\ tree.fn[Target] = 0
             /\ k # Target => tree.multi[Target]
  <2>1. k \in Fun /\ tree.up[k] = ch[1]
    BY DEF Kids
  <2>2. PICK g \in Fun : /\ tree.up[g] = tree.up[k] /\ tree.dev[g] = tree.dev[k] /\ tree.fn[g] = 0
                         /\ k # g => tree.multi[g]
    BY <1>1, <2>1, FunctionZero DEF TypesInv
  <2>3. g \in Kids(ch[1]) /\ At(g, Frame)
    BY <1>3, <1>4, <2>1, <2>2 DEF Kids, At
  <2>4. Target = g
    BY <1>2, <2>3
  <2> QED
    BY <1>4, <2>1, <2>2, <2>4
<1>5. CASE (Bus = 0 /\ Frame.dev = 0) \/ ~Answered(Target)
  <2>1. PICK q : q = [Frame EXCEPT !.dev = Frame.dev + 1]
    OBVIOUS
  <2>2. stack' = Top(q) /\ regs' = regs
    BY <1>5, <2>1 DEF ProbeDevice
  <2>3. q.at = "device" /\ q.dev = Frame.dev + 1 /\ q.fn = 0
    BY <1>1, <1>2, <1>3, <2>1, AnotherDevice
  <2>4. SameBuses
    BY <1>1, <2>2, SameRegsKeep
  <2>5. BusesTaken(ch)
    BY <2>2 DEF BusesTaken
  <2>6. Loops(ch[1], q) /\ TakenNext(ch, q)
    BY <1>3, <2>3 DEF Loops, TakenNext
  <2>7. ASSUME NEW k \in Kids(ch[1]), tree.dev[k] = Frame.dev
        PROVE  FALSE
    <3>1. Target \in Fun /\ tree.up[Target] = ch[1] /\ tree.dev[Target] = Frame.dev
      BY <1>4, <2>7
    <3>2. Bus = 0 /\ Frame.dev = 0
      BY <1>5, <3>1 DEF Answered
    <3>3. ch[1] = 0
      BY <1>2, <3>2 DEF Opened
    <3> QED
      BY <1>1, <3>1, <3>2, <3>3 DEF TypesInv, WellBuilt, Fun
  <2>8. Covers(ch, q)
    <3>1. ASSUME NEW k \in Kids(ch[1]), Before(k, q)
          PROVE  Before(k, Frame)
      <4>1. tree.dev[k] \in Nat /\ tree.fn[k] \in Nat
        BY <1>1, PlaceTypes DEF Kids
      <4>2. tree.dev[k] # Frame.dev
        BY <2>7
      <4> QED
        BY <1>3, <2>3, <3>1, <4>1, <4>2 DEF Before
    <3> QED
      BY <3>1 DEF Covers
  <2> QED
    BY <1>1, <2>2, <2>4, <2>5, <2>6, <2>8, ScanKeeps
<1>6. CASE ~((Bus = 0 /\ Frame.dev = 0) \/ ~Answered(Target))
  <2>1. PICK all, q : all = tree.multi[Target] /\ q = LooksAtFunctions(Frame, all)
    OBVIOUS
  <2>2. stack' = Top(q) /\ regs' = Captured(Target)
    BY <1>6, <2>1 DEF ProbeDevice, LooksAtFunctions
  <2>3. all \in BOOLEAN
    BY <1>1, <1>6, <2>1 DEF TypesInv, WellBuilt, Answered, Fun
  <2>4. SamePlace(Frame, q) /\ q.at = "function" /\ q.all = all
    BY <1>2, <2>1, <2>3, LooksAtFunctionsType
  <2>5. SameBuses
    BY <1>1, <2>2, BusIsOne, CapturedKeeps
  <2>6. BusesTaken(ch)
    BY <1>1, <1>6, <2>2, CapturedBuses
  <2>7. Loops(ch[1], q)
    <3>1. q.fn = 0 /\ q.dev = Frame.dev
      BY <1>3, <2>4 DEF SamePlace
    <3>2. ASSUME ~all, NEW k \in Kids(ch[1]), tree.dev[k] = q.dev
          PROVE  tree.fn[k] = 0
      <4>1. tree.fn[Target] = 0 /\ (k # Target => tree.multi[Target])
        BY <1>4, <3>1, <3>2
      <4> QED
        BY <2>1, <3>2, <4>1
    <3> QED
      BY <1>3, <2>4, <3>1, <3>2 DEF Loops
  <2>8. Covers(ch, q) /\ TakenNext(ch, q)
    BY <2>4 DEF Covers, TakenNext, SamePlace, Before
  <2> QED
    BY <1>1, <2>2, <2>5, <2>6, <2>7, <2>8, ScanKeeps
<1> QED
  BY <1>5, <1>6

LEMMA ProbeFunctionScans ==
  ASSUME NEW ch, EnumInv(ch), ScanInv(ch), ProbeFunction
  PROVE  ScanInv(ch)'
<1>1. /\ phase = "on" /\ phase' = phase /\ Frame.at = "function" /\ UNCHANGED <<tree, phase, lim, msiLimit>>
      /\ TypesInv /\ LoopsInv(ch) /\ found \subseteq found'
  BY DEF ProbeFunction, EnumInv, ScanInv
<1>2. /\ Len(ch) \in Nat \ {0} /\ Frame = stack[1] /\ IsActivation(Frame)
      /\ \A k \in Kids(ch[1]) : At(k, Frame) => Target = k
      /\ Bus = regs[ch[1]].sec
  BY <1>1, TargetIsNext
<1>3. Loops(ch[1], Frame)
  BY <1>1, <1>2 DEF LoopsInv
<1>4. \A k \in Kids(ch[1]) : k \in Fun /\ tree.up[k] = ch[1]
  BY DEF Kids
<1>5. CASE ~Answered(Target)
  <2>1. PICK q : q = NextFunction(Frame)
    OBVIOUS
  <2>2. stack' = Top(q) /\ regs' = regs
    BY <1>5, <2>1 DEF ProbeFunction
  <2>3. PICK fr, b : fr = Frame /\ b = ch[1]
    OBVIOUS
  <2>4. /\ Loops(b, q) /\ q.at \in {"device", "function"}
        /\ \A k \in Kids(b) : Before(k, q) => Before(k, fr) \/ At(k, fr)
    <3>1. IsActivation(fr) /\ fr.at # "device" /\ Loops(b, fr) /\ q = NextFunction(fr)
      BY <1>1, <1>2, <1>3, <2>1, <2>3
    <3> QED
      BY <1>1, <3>1, NextCovers
  <2>5. SameBuses
    BY <1>1, <2>2, SameRegsKeep
  <2>6. BusesTaken(ch)
    BY <2>2 DEF BusesTaken
  <2>7. \A k \in Kids(ch[1]) : ~At(k, Frame)
    BY <1>2, <1>4, <1>5 DEF Answered
  <2>8. Loops(ch[1], q) /\ Covers(ch, q) /\ TakenNext(ch, q)
    BY <2>3, <2>4, <2>7 DEF Covers, TakenNext
  <2> QED
    BY <1>1, <2>2, <2>5, <2>6, <2>8, ScanKeeps
<1>6. CASE Answered(Target)
  <2>1. PICK q : q = LooksAtBars(Frame)
    OBVIOUS
  <2>2. stack' = Top(q) /\ regs' = Captured(Target)
    BY <1>6, <2>1 DEF ProbeFunction, LooksAtBars
  <2>3. SamePlace(Frame, q) /\ q.at = "bars" /\ q.all = Frame.all
    BY <1>2, <2>1, LooksAtBarsType
  <2>4. SameBuses
    BY <1>1, <2>2, BusIsOne, CapturedKeeps
  <2>5. BusesTaken(ch) /\ regs'[Target].bus = Bus
    BY <1>1, <1>6, <2>2, CapturedBuses
  <2>6. Loops(ch[1], q) /\ Covers(ch, q)
    BY <1>1, <1>3, <2>3 DEF Loops, Covers, SamePlace, Before
  <2>7. TakenNext(ch, q)
    <3>1. ASSUME NEW k \in Kids(ch[1]), At(k, q)
          PROVE  regs'[k].bus = Bus /\ <<Place(k), k>> \in found'
      <4>1. At(k, Frame)
        BY <2>3, <3>1 DEF SamePlace, At
      <4>2. k = Target
        BY <1>2, <4>1
      <4>3. Place(k) = Here
        BY <1>2, <1>4, <4>1 DEF Place, Here, Id, At
      <4>4. <<Here, Target>> \in found'
        BY <1>6 DEF ProbeFunction
      <4> QED
        BY <2>5, <4>2, <4>3, <4>4
    <3> QED
      BY <3>1 DEF TakenNext
  <2> QED
    BY <1>1, <2>2, <2>4, <2>5, <2>6, <2>7, ScanKeeps
<1> QED
  BY <1>5, <1>6

LEMMA ConfigureBarScans ==
  ASSUME NEW ch, EnumInv(ch), ScanInv(ch), ConfigureBar
  PROVE  ScanInv(ch)'
<1>1. PICK q : q = LooksAtBar(Frame, Frame.bar + 1)
  OBVIOUS
<1>2. /\ phase = "on" /\ phase' = phase /\ Frame.at = "bars" /\ stack' = Top(q)
      /\ TypesInv /\ found \subseteq found'
  BY <1>1 DEF ConfigureBar, LooksAtBar, EnumInv
<1>3. IsActivation(Frame)
  BY <1>2, TargetIsNext
<1>4. Frame.bar + 1 \in Nat \ {0}
  BY <1>3 DEF IsActivation
<1>5. SamePlace(Frame, q) /\ q.at = "bars" /\ q.all = Frame.all
  BY <1>1, <1>2, <1>3, <1>4, LooksAtBarType
<1>6. SameIds
  <2>1. PICK t, i, addr : regs' = [regs EXCEPT ![t].bar[i] = addr]
    BY DEF ConfigureBar
  <2>2. \A f \in Fun : f \in 0..tree.n
    BY <1>2 DEF TypesInv, WellBuilt, Fun
  <2>3. ASSUME NEW f \in Fun
        PROVE  regs'[f].bus = regs[f].bus
    <3>1. DOMAIN regs = 0..tree.n /\ f \in DOMAIN regs /\ IsRegs(regs[f])
      BY <1>2, <2>2 DEF TypesInv
    <3>2. CASE f = t
      <4>1. regs'[f] = [regs[f] EXCEPT !.bar = [regs[f].bar EXCEPT ![i] = addr]]
        BY <2>1, <3>1, <3>2
      <4> QED
        BY <3>1, <4>1 DEF IsRegs
    <3>3. CASE f # t
      BY <2>1, <3>1, <3>3
    <3> QED
      BY <3>2, <3>3
  <2> QED
    BY <2>3 DEF SameIds
<1>7. BusesTaken(ch) /\ Covers(ch, q) /\ Loops(ch[1], q) /\ TakenNext(ch, q)
  BY <1>2, <1>5, <1>6, SamePlaceScans
<1> QED
  BY <1>2, <1>7, ConfigureBarTypes, ScanKeeps

LEMMA StartWalkScans ==
  ASSUME NEW ch, EnumInv(ch), ScanInv(ch), StartWalk
  PROVE  ScanInv(ch)'
<1>1. PICK ptr, q : ptr = First(Offsets(regs[Target].caps)) /\ q = Walks(Frame, ptr)
  OBVIOUS
<1>2. /\ phase = "on" /\ phase' = phase /\ stack' = Top(q) /\ Frame.at = "bars" /\ TypesInv /\ found \subseteq found'
      /\ UNCHANGED <<tree, regs, phase, lim, msiLimit>>
  BY <1>1 DEF StartWalk, Walks, EnumInv
<1>3. IsActivation(Frame)
  BY <1>2, TargetIsNext
<1>4. SamePlace(Frame, q) /\ q.at = "caps" /\ q.all = Frame.all
  BY <1>1, <1>3, WalksType
<1>5. SameIds /\ SameBuses
  BY <1>2, SameRegsKeep DEF SameIds
<1>6. BusesTaken(ch) /\ Covers(ch, q) /\ Loops(ch[1], q) /\ TakenNext(ch, q)
  BY <1>2, <1>4, <1>5, SamePlaceScans
<1> QED
  BY <1>2, <1>5, <1>6, ScanKeeps

LEMMA WalkCapabilityScans ==
  ASSUME NEW ch, EnumInv(ch), ScanInv(ch), WalkCapability
  PROVE  ScanInv(ch)'
<1>1. PICK ptr, q : ptr = Header(regs[Target].caps, Frame.ptr).next /\ q = WalksOn(Frame, ptr)
  OBVIOUS
<1>2. /\ phase = "on" /\ phase' = phase /\ stack' = Top(q) /\ Frame.at = "caps" /\ TypesInv /\ found \subseteq found'
      /\ UNCHANGED <<tree, regs, phase, lim, msiLimit>>
  BY <1>1 DEF WalkCapability, WalksOn, EnumInv
<1>3. IsActivation(Frame)
  BY <1>2, TargetIsNext
<1>4. SamePlace(Frame, q) /\ q.at = "caps" /\ q.all = Frame.all
  BY <1>1, <1>2, <1>3, WalksOnType
<1>5. SameIds /\ SameBuses
  BY <1>2, SameRegsKeep DEF SameIds
<1>6. BusesTaken(ch) /\ Covers(ch, q) /\ Loops(ch[1], q) /\ TakenNext(ch, q)
  BY <1>2, <1>4, <1>5, SamePlaceScans
<1> QED
  BY <1>2, <1>5, <1>6, ScanKeeps

\* A function of a device is finished when it is set up, a bridge is not.
LEMMA SetUpFunctionScans ==
  ASSUME NEW ch, EnumInv(ch), ScanInv(ch), SetUpFunction
  PROVE  ScanInv(ch)'
<1>1. /\ phase = "on" /\ phase' = phase /\ Frame.at = "caps" /\ Answered(Target)
      /\ TypesInv /\ BusesInv /\ LoopsInv(ch) /\ Taken(ch[1], Frame) /\ tree' = tree
      /\ found \subseteq found'
  BY DEF SetUpFunction, EnumInv, ScanInv
<1>2. /\ Len(ch) \in Nat \ {0} /\ ch[1] \in 0..tree.n /\ Frame = stack[1] /\ IsActivation(Frame)
      /\ Target \in Fun /\ Target \in Kids(ch[1]) /\ At(Target, Frame) /\ Bus = regs[ch[1]].sec
      /\ \A k \in Kids(ch[1]) : At(k, Frame) => Target = k
  BY <1>1, TargetIsNext DEF Answered
<1>3. SameBuses
  BY SetUpFunctionTypes
<1>4. SameIds
  <2>1. PICK t, m : regs' = [regs EXCEPT ![t].master = TRUE, ![t].msi = m]
    <3>1. PICK t : t = Target
      OBVIOUS
    <3>2. regs' = [regs EXCEPT ![t].master = TRUE,
                               ![t].msi = IF CapOffset(t, "MSI") # 0 THEN msiLimit ELSE @]
      BY <3>1 DEF SetUpFunction
    <3>3. PICK m : m = IF CapOffset(t, "MSI") # 0 THEN msiLimit ELSE regs[t].msi
      OBVIOUS
    <3>4. t \in DOMAIN regs /\ IsRegs(regs[t])
      <4>1. t \in 0..tree.n
        BY <1>1, <1>2, <3>1 DEF TypesInv, WellBuilt, Fun
      <4> QED
        BY <1>1, <4>1 DEF TypesInv
    <3>5. regs' = [regs EXCEPT ![t].master = TRUE, ![t].msi = m]
      BY <3>2, <3>3, <3>4 DEF IsRegs
    <3> QED
      BY <3>5
  <2>2. \A f \in Fun : f \in 0..tree.n
    BY <1>1 DEF TypesInv, WellBuilt, Fun
  <2>3. ASSUME NEW f \in Fun
        PROVE  regs'[f].bus = regs[f].bus
    <3>1. DOMAIN regs = 0..tree.n /\ f \in DOMAIN regs /\ IsRegs(regs[f])
      BY <1>1, <2>2 DEF TypesInv
    <3>2. CASE f = t
      <4>1. regs'[f] = [regs[f] EXCEPT !.master = TRUE, !.msi = m]
        BY <2>1, <3>1, <3>2
      <4> QED
        BY <3>1, <4>1 DEF IsRegs
    <3>3. CASE f # t
      BY <2>1, <3>1, <3>3
    <3> QED
      BY <3>2, <3>3
  <2> QED
    BY <2>3 DEF SameIds
<1>5. CASE Target \in Bridges
  <2>1. PICK q : q = TurnsToBridge(Frame)
    OBVIOUS
  <2>2. stack' = Top(q)
    BY <1>5, <2>1 DEF SetUpFunction, TurnsToBridge
  <2>3. SamePlace(Frame, q) /\ q.at = "bridge" /\ q.all = Frame.all
    BY <1>2, <2>1, TurnsToBridgeType
  <2>4. BusesTaken(ch) /\ Covers(ch, q) /\ Loops(ch[1], q) /\ TakenNext(ch, q)
    BY <1>1, <1>4, <2>3, SamePlaceScans
  <2> QED
    BY <1>1, <1>3, <2>2, <2>4, ScanKeeps
<1>6. CASE Target \notin Bridges
  <2>1. PICK q, fr, b : q = NextFunction(Frame) /\ fr = Frame /\ b = ch[1]
    OBVIOUS
  <2>2. stack' = Top(q)
    BY <1>6, <2>1 DEF SetUpFunction
  <2>3. /\ Loops(b, q) /\ q.at \in {"device", "function"}
        /\ \A k \in Kids(b) : Before(k, q) => Before(k, fr) \/ At(k, fr)
    <3>1. IsActivation(fr) /\ fr.at # "device" /\ Loops(b, fr) /\ q = NextFunction(fr)
      BY <1>1, <1>2, <2>1 DEF LoopsInv
    <3> QED
      BY <1>1, <3>1, NextCovers
  <2>4. BusesTaken(ch)
    BY <1>4 DEF BusesTaken, SameIds
  <2>5. PICK t : t = Target
    OBVIOUS
  <2>6. Finished(t)'
    <3>1. t \in Fun /\ tree.up[t] = ch[1] /\ regs[t].bus = regs[ch[1]].sec /\ Noted(t)
      BY <1>1, <1>2, <2>5 DEF Taken, Kids
    <3>2. regs'[ch[1]].sec = regs[ch[1]].sec /\ regs'[t].bus = regs[t].bus
      BY <1>2, <1>3, <1>4, <3>1 DEF SameBuses, SameIds
    <3>3. t \notin Bridges'
      BY <1>1, <1>6, <2>5 DEF Bridges, Fun
    <3>4. Noted(t)'
      BY <1>1, <3>1, <3>2 DEF Noted, Place
    <3> QED
      BY <1>1, <3>1, <3>2, <3>3, <3>4 DEF Finished
  <2>7. Loops(ch[1], q) /\ Covers(ch, q) /\ TakenNext(ch, q)
    <3>1. ASSUME NEW k \in Kids(ch[1]), Before(k, q)
          PROVE  Before(k, Frame) \/ Finished(k)'
      <4>1. Before(k, Frame) \/ k = t
        BY <1>2, <2>1, <2>3, <2>5, <3>1
      <4> QED
        BY <2>6, <4>1
    <3> QED
      BY <2>1, <2>3, <3>1 DEF Covers, TakenNext
  <2> QED
    BY <1>1, <1>3, <2>2, <2>4, <2>7, ScanKeeps
<1> QED
  BY <1>5, <1>6

\* The bridge that is opened has taken its bus, and no scan behind it has begun.
LEMMA OpenBridgeWalks ==
  ASSUME NEW ch, EnumInv(ch), ScanInv(ch), OpenBridge, NEW t, NEW c2, Longer(ch, t, c2)
  PROVE  ScanInv(c2)'
<1>1. /\ TypesInv /\ BusesInv /\ ChainInv(ch) /\ StackInv(ch) /\ phase = "on" /\ phase' = phase
      /\ Passed(ch) /\ OnChain(ch) /\ OffChain(ch) /\ LoopsInv(ch) /\ Taken(ch[1], Frame)
      /\ Frame.at = "bridge" /\ found' = found
  BY DEF OpenBridge, EnumInv, ScanInv
<1>2. t = Target
  BY DEF Longer
<1>3. /\ Len(c2) = Len(ch) + 1 /\ c2[1] = t
      /\ \A i \in 2..Len(c2) : i - 1 \in 1..Len(ch) /\ c2[i] = ch[i - 1]
      /\ \A i \in 1..Len(ch) : ch[i] \in 0..tree.n /\ ch[i] # t
      /\ t \in Fun /\ tree.up[t] = ch[1] /\ Len(ch) \in Nat \ {0}
  BY LongerChain
<1>4. PICK s : s = Frame.sec
  OBVIOUS
<1>5. /\ tree' = tree /\ \A f \in 0..tree.n : f # t => regs'[f] = regs[f]
  BY <1>2, OpenBridgeRegs DEF OpensAt
<1>6. /\ \A f \in 0..tree.n : Opened(f)' <=> (Opened(f) \/ f = t)
      /\ Fun' = Fun /\ \A b : Kids(b)' = Kids(b)
  BY <1>2, OpenBridgeBuses
<1>7. /\ Len(stack') = Len(c2) /\ stack'[1] = Segment(s) /\ stack'[2] = Waits(Frame) /\ Frame' = stack'[1]
      /\ \A i \in 3..Len(c2) : stack'[i] = stack[i - 1]
  BY <1>3, <1>4, OpenBridgeStack
<1>8. IsActivation(Frame) /\ Frame = stack[1] /\ 1 \in 1..Len(ch)
  BY <1>1, <1>3, TargetIsNext
<1>9. At(t, Frame) /\ s \in 1..LastBus /\ t \in Kids(ch[1])
  BY <1>2, <1>4, NewBridge
<1>10. Segment(s).at = "device" /\ Segment(s).dev = 0 /\ Segment(s).fn = 0
  <2>1. s \in Nat
    BY <1>9
  <2> QED
    BY <2>1, SegmentType
<1>11. SamePlace(Frame, Waits(Frame)) /\ Waits(Frame).at = "children" /\ Waits(Frame).all = Frame.all
  BY <1>8, WaitsType
<1>12. \A k \in Fun : k \in 0..tree.n /\ tree.up[k] \in 0..tree.n
  <2>1. \A k \in Fun : k \in 1..tree.n /\ tree.up[k] \in 0..tree.n /\ tree.n \in Nat
    BY <1>1, Above DEF TypesInv
  <2> QED
    BY <2>1
<1>13. regs'[t].bus = regs[t].bus
  <2>1. t \in DOMAIN regs /\ IsRegs(regs[t])
    BY <1>1, <1>3, <1>12 DEF TypesInv
  <2>2. regs' = [regs EXCEPT ![t].sec = s, ![t].sub = LastBus]
    BY <1>2, <1>4 DEF OpenBridge
  <2>3. regs'[t] = [regs[t] EXCEPT !.sec = s, !.sub = LastBus]
    BY <2>1, <2>2
  <2> QED
    BY <2>1, <2>3 DEF IsRegs
<1>14. ASSUME NEW k \in Fun, Finished(k), tree.up[k] # t
       PROVE  Finished(k)'
  <2>1. regs'[k].bus = regs[k].bus
    BY <1>5, <1>12, <1>13
  <2>2. regs'[tree.up[k]].sec = regs[tree.up[k]].sec /\ (Opened(k) => Opened(k)')
    BY <1>5, <1>6, <1>12, <1>14
  <2> QED
    BY <1>1, <1>5, <1>14, <2>1, <2>2, FinishedStays
<1>15. Finished(t)'
  <2>1. regs[t].bus = regs[ch[1]].sec /\ Noted(t)
    BY <1>1, <1>9 DEF Taken
  <2>2. regs'[ch[1]].sec = regs[ch[1]].sec
    BY <1>3, <1>5, <1>8
  <2>3. Opened(t)'
    BY <1>3, <1>6, <1>12
  <2>4. Noted(t)'
    BY <1>1, <1>3, <1>5, <2>1, <2>2 DEF Noted, Place
  <2> QED
    BY <1>3, <1>5, <1>13, <2>1, <2>2, <2>3, <2>4 DEF Finished
<1>16. \A b : \A k \in Kids(b) : k \in Fun /\ tree.up[k] = b
  BY DEF Kids
<1>17. ASSUME NEW i \in 3..Len(c2)
       PROVE  /\ i - 1 \in 2..Len(ch) /\ i - 1 \in 1..Len(ch) /\ c2[i] = ch[i - 1] /\ stack'[i] = stack[i - 1]
              /\ c2[i] # t
  <2>1. i \in 2..Len(c2) /\ i - 1 \in 2..Len(ch) /\ i - 1 \in 1..Len(ch)
    BY <1>3
  <2> QED
    BY <1>3, <1>7, <2>1
<1>18. c2[2] = ch[1] /\ ch[1] # t /\ 2 - 1 = 1
  <2>1. 2 \in 2..Len(c2) /\ 2 - 1 = 1
    BY <1>3
  <2>2. c2[2] = ch[2 - 1]
    BY <1>3, <2>1
  <2> QED
    BY <1>3, <1>8, <2>1, <2>2
<1>19. \A i \in 1..Len(c2) : i = 1 \/ i = 2 \/ i \in 3..Len(c2)
  BY <1>3
<1>20. Passed(c2)'
  <2>1. ASSUME NEW i \in 1..Len(c2), NEW k \in Kids(c2[i]), Before(k, stack'[i])
        PROVE  Finished(k)'
    <3>1. k \in Fun /\ tree.up[k] = c2[i]
      BY <1>16
    <3>2. CASE i = 1
      <4>1. tree.dev[k] \in Nat /\ tree.fn[k] \in Nat
        BY <1>1, <3>1, PlaceTypes
      <4> QED
        BY <1>7, <1>10, <2>1, <3>2, <4>1 DEF Before
    <3>3. CASE i = 2
      <4>1. Before(k, stack[1])
        BY <1>7, <1>8, <1>11, <2>1, <3>3 DEF Before, SamePlace
      <4>2. Finished(k) /\ tree.up[k] # t
        BY <1>1, <1>8, <1>18, <2>1, <3>1, <3>3, <4>1 DEF Passed
      <4> QED
        BY <1>14, <3>1, <4>2
    <3>4. CASE i \in 3..Len(c2)
      <4>1. Finished(k) /\ tree.up[k] # t
        BY <1>1, <1>17, <2>1, <3>1, <3>4 DEF Passed
      <4> QED
        BY <1>14, <3>1, <4>1
    <3> QED
      BY <1>19, <3>2, <3>3, <3>4
  <2>2. \A i : \A k : Before(k, stack[i])' <=> Before(k, stack'[i])
    BY <1>5 DEF Before
  <2> QED
    BY <1>6, <2>1, <2>2 DEF Passed
<1>21. OnChain(c2)'
  <2>1. ASSUME NEW i \in 1..(Len(c2) - 1)
        PROVE  Finished(c2[i])'
    <3>1. CASE i = 1
      BY <1>3, <1>15, <3>1
    <3>2. CASE i # 1
      <4>1. /\ i \in 2..Len(c2) /\ i - 1 \in 1..(Len(ch) - 1) /\ i - 1 \in 1..Len(ch) /\ i \in 1..Len(ch)
            /\ (i - 1) + 1 = i /\ i - 1 < i
        BY <1>3, <3>2
      <4>2. PICK k : k = ch[i - 1]
        OBVIOUS
      <4>3. c2[i] = k /\ Finished(k) /\ tree.up[k] = ch[i] /\ ch[i] # t
        <5>1. tree.up[ch[i - 1]] = ch[(i - 1) + 1]
          BY <1>1, <4>1 DEF ChainInv
        <5> QED
          BY <1>1, <1>3, <4>1, <4>2, <5>1 DEF OnChain
      <4>4. k \in Fun
        <5>1. ch[i] < k /\ k \in 0..tree.n /\ ch[i] \in 0..tree.n /\ tree.n \in Nat
          BY <1>1, <1>3, <4>1, <4>2 DEF ChainInv, TypesInv, WellBuilt
        <5> QED
          BY <5>1 DEF Fun
      <4> QED
        BY <1>14, <4>3, <4>4
    <3> QED
      BY <3>1, <3>2
  <2> QED
    BY <2>1 DEF OnChain
<1>22. OffChain(c2)'
  <2>1. ASSUME NEW f \in Fun, Opened(f)', \A i \in 1..Len(c2) : c2[i] # f, NEW k \in Kids(f)
        PROVE  Finished(k)'
    <3>1. f # t
      <4>1. 1 \in 1..Len(c2)
        BY <1>3
      <4> QED
        BY <1>3, <2>1, <4>1
    <3>2. \A i \in 1..Len(ch) : ch[i] # f
      <4>1. ASSUME NEW i \in 1..Len(ch)
            PROVE  ch[i] # f
        <5>1. i + 1 \in 2..Len(c2) /\ i + 1 \in 1..Len(c2) /\ (i + 1) - 1 = i
          BY <1>3
        <5>2. c2[i + 1] = ch[(i + 1) - 1]
          BY <1>3, <5>1
        <5> QED
          BY <2>1, <5>1, <5>2
      <4> QED
        BY <4>1
    <3>3. Opened(f)
      BY <1>6, <1>12, <2>1, <3>1
    <3>4. Finished(k) /\ k \in Fun /\ tree.up[k] # t
      BY <1>1, <1>16, <3>1, <3>2, <3>3 DEF OffChain
    <3> QED
      BY <1>14, <3>4
  <2> QED
    BY <1>6, <2>1 DEF OffChain
<1>23. LoopsInv(c2)'
  <2>1. Loops(ch[1], Frame) /\ LastFn \in Nat
    BY <1>1, <1>8, EnumAssumption DEF LoopsInv
  <2>2. ASSUME NEW i \in 1..Len(c2)
        PROVE  Loops(c2[i], stack'[i]) /\ (i # 1 => stack'[i].at = "children")
    <3>1. CASE i = 1
      BY <1>7, <1>10, <2>1, <3>1 DEF Loops
    <3>2. CASE i = 2
      <4>1. Loops(ch[1], Waits(Frame))
        BY <1>1, <1>11, <2>1 DEF Loops, SamePlace
      <4> QED
        BY <1>7, <1>11, <1>18, <3>2, <4>1
    <3>3. CASE i \in 3..Len(c2)
      BY <1>1, <1>17, <3>3 DEF LoopsInv
    <3> QED
      BY <1>19, <3>1, <3>2, <3>3
  <2>3. \A i : Loops(c2[i], stack[i])' <=> Loops(c2[i], stack'[i])
    BY <1>5, <1>6 DEF Loops
  <2>4. \A i \in 2..Len(c2) : i \in 1..Len(c2) /\ i # 1
    OBVIOUS
  <2> QED
    BY <2>2, <2>3, <2>4 DEF LoopsInv
<1>24. Taken(c2[1], Frame)'
  BY <1>7, <1>10 DEF Taken
<1> QED
  BY <1>1, <1>20, <1>21, <1>22, <1>23, <1>24 DEF ScanInv

\* The bridge that is closed has nothing unfinished behind it.
LEMMA CloseBridgeWalks ==
  ASSUME NEW ch, EnumInv(ch), ScanInv(ch), CloseBridge, NEW t, NEW c2, Shorter(ch, t, c2)
  PROVE  ScanInv(c2)'
<1>1. /\ TypesInv /\ BusesInv /\ ChainInv(ch) /\ StackInv(ch) /\ phase = "on" /\ phase' = phase
      /\ Passed(ch) /\ OnChain(ch) /\ OffChain(ch) /\ LoopsInv(ch)
      /\ Frame.dev > LastDev /\ found' = found
  BY DEF CloseBridge, SegmentDone, EnumInv, ScanInv
<1>2. /\ Len(ch) \in Nat /\ Len(ch) > 1 /\ Len(c2) = Len(ch) - 1
      /\ \A i \in 1..Len(c2) : i + 1 \in 2..Len(ch) /\ c2[i] = ch[i + 1]
      /\ \A i \in 1..Len(ch) : ch[i] \in 0..tree.n
      /\ t \in Fun /\ tree.up[t] = c2[1] /\ t = ch[1]
  BY ShorterChain DEF Shorter
<1>3. PICK n : n = Frame.sub
  OBVIOUS
<1>4. /\ tree' = tree /\ n \in Nat
      /\ \A f \in 0..tree.n : regs'[f].sec = regs[f].sec /\ regs'[f].bus = regs[f].bus
  BY <1>3, CloseBridgeRegs
<1>5. /\ \A f \in 0..tree.n : Opened(f)' <=> Opened(f)
      /\ Fun' = Fun /\ \A b : Kids(b)' = Kids(b)
  BY CloseBridgeBuses
<1>6. PICK r, q : r = Numbered(stack[2], n) /\ q = NextFunction(r)
  OBVIOUS
<1>7. /\ stack'[1] = q /\ Frame' = q
      /\ \A i \in 2..Len(c2) : stack'[i] = stack[i + 1]
  BY <1>2, <1>3, <1>6, CloseBridgeStack
<1>8. /\ 1 \in 1..Len(ch) /\ 2 \in 1..Len(ch) /\ 2 \in 2..Len(ch) /\ 1 \in 1..(Len(ch) - 1)
      /\ 1 \in 1..Len(c2) /\ 1 + 1 = 2 /\ c2[1] = ch[2]
  <2>1. /\ 1 \in 1..Len(ch) /\ 2 \in 1..Len(ch) /\ 2 \in 2..Len(ch) /\ 1 \in 1..(Len(ch) - 1)
        /\ 1 \in 1..Len(c2) /\ 1 + 1 = 2
    BY <1>2
  <2> QED
    BY <1>2, <2>1
<1>9. /\ IsActivation(stack[2]) /\ At(t, stack[2]) /\ Finished(t)
      /\ Loops(ch[2], stack[2]) /\ stack[2].at = "children" /\ t \in Kids(ch[2])
  BY <1>1, <1>2, <1>8 DEF StackInv, OnChain, LoopsInv, Kids
<1>10. IsActivation(Frame) /\ Frame = stack[1]
  BY <1>1, TargetIsNext
<1>11. \A k \in Fun : k \in 0..tree.n /\ tree.up[k] \in 0..tree.n
  <2>1. \A k \in Fun : k \in 1..tree.n /\ tree.up[k] \in 0..tree.n /\ tree.n \in Nat
    BY <1>1, Above DEF TypesInv
  <2> QED
    BY <2>1
<1>12. ASSUME NEW k \in Fun, Finished(k)
       PROVE  Finished(k)'
  <2>1. /\ regs'[tree.up[k]].sec = regs[tree.up[k]].sec /\ regs'[k].bus = regs[k].bus
        /\ Opened(k) => Opened(k)'
    BY <1>4, <1>5, <1>11
  <2> QED
    BY <1>1, <1>4, <1>12, <2>1, FinishedStays
<1>13. \A b : \A k \in Kids(b) : k \in Fun /\ tree.up[k] = b
  BY DEF Kids
<1>14. ASSUME NEW i \in 2..Len(c2)
       PROVE  i + 1 \in 2..Len(ch) /\ i + 1 \in 1..Len(ch) /\ c2[i] = ch[i + 1] /\ stack'[i] = stack[i + 1]
  <2>1. i \in 1..Len(c2) /\ i + 1 \in 1..Len(ch)
    BY <1>2
  <2> QED
    BY <1>2, <1>7, <2>1
<1>15. \A i \in 1..Len(c2) : i = 1 \/ i \in 2..Len(c2)
  BY <1>2
\* The caller gets past the bridge.
<1>16. /\ IsActivation(r) /\ Loops(ch[2], r) /\ r.at # "device"
       /\ r.dev = stack[2].dev /\ r.fn = stack[2].fn
  <2>1. /\ IsActivation(r) /\ r.dev = stack[2].dev /\ r.fn = stack[2].fn /\ r.at = stack[2].at
        /\ r.all = stack[2].all
    BY <1>4, <1>6, <1>9, NumberedType
  <2> QED
    BY <1>9, <2>1 DEF Loops
<1>17. /\ Loops(ch[2], q) /\ q.at \in {"device", "function"}
       /\ \A k \in Kids(ch[2]) : Before(k, q) => Before(k, r) \/ At(k, r)
  <2>1. PICK b : b = ch[2]
    OBVIOUS
  <2>2. Loops(b, r)
    BY <1>16, <2>1
  <2>3. /\ Loops(b, q) /\ q.at \in {"device", "function"}
        /\ \A k \in Kids(b) : Before(k, q) => Before(k, r) \/ At(k, r)
    BY <1>1, <1>6, <1>16, <2>2, NextCovers
  <2> QED
    BY <2>1, <2>3
<1>18. Passed(c2)'
  <2>1. ASSUME NEW i \in 1..Len(c2), NEW k \in Kids(c2[i]), Before(k, stack'[i])
        PROVE  Finished(k)'
    <3>1. k \in Fun /\ tree.up[k] = c2[i]
      BY <1>13
    <3>2. CASE i = 1
      <4>1. k \in Kids(ch[2]) /\ (Before(k, stack[2]) \/ At(k, stack[2]))
        BY <1>7, <1>8, <1>16, <1>17, <2>1, <3>2 DEF Before, At
      <4>2. At(k, stack[2]) => k = t
        <5>1. At(k, stack[2]) => tree.up[k] = tree.up[t] /\ tree.dev[k] = tree.dev[t] /\ tree.fn[k] = tree.fn[t]
          BY <1>9, <1>13, <4>1 DEF At
        <5>2. WellBuilt(tree)
          BY <1>1 DEF TypesInv
        <5> QED
          BY <1>2, <3>1, <5>1, <5>2 DEF WellBuilt, Fun
      <4>3. Finished(k)
        BY <1>1, <1>8, <1>9, <4>1, <4>2 DEF Passed
      <4> QED
        BY <1>12, <3>1, <4>3
    <3>3. CASE i \in 2..Len(c2)
      BY <1>1, <1>12, <1>14, <2>1, <3>1, <3>3 DEF Passed
    <3> QED
      BY <1>15, <3>2, <3>3
  <2>2. \A i : \A k : Before(k, stack[i])' <=> Before(k, stack'[i])
    BY <1>4 DEF Before
  <2> QED
    BY <1>5, <2>1, <2>2 DEF Passed
<1>19. OnChain(c2)'
  <2>1. ASSUME NEW i \in 1..(Len(c2) - 1)
        PROVE  Finished(c2[i])'
    <3>1. /\ i \in 1..Len(c2) /\ i + 1 \in 1..(Len(ch) - 1) /\ i + 1 \in 1..Len(ch) /\ i + 2 \in 1..Len(ch)
          /\ i + 1 < i + 2
      BY <1>2
    <3>2. PICK k : k = ch[i + 1]
      OBVIOUS
    <3>3. c2[i] = k /\ Finished(k)
      BY <1>1, <1>2, <3>1, <3>2 DEF OnChain
    <3>4. k \in Fun
      <4>1. ch[i + 2] < k /\ k \in 0..tree.n /\ ch[i + 2] \in 0..tree.n /\ tree.n \in Nat
        BY <1>1, <1>2, <3>1, <3>2 DEF ChainInv, TypesInv, WellBuilt
      <4> QED
        BY <4>1 DEF Fun
    <3> QED
      BY <1>12, <3>3, <3>4
  <2> QED
    BY <2>1 DEF OnChain
<1>20. OffChain(c2)'
  <2>1. ASSUME NEW f \in Fun, Opened(f)', \A i \in 1..Len(c2) : c2[i] # f, NEW k \in Kids(f)
        PROVE  Finished(k)'
    <3>1. k \in Fun /\ Opened(f)
      BY <1>5, <1>11, <1>13, <2>1
    <3>2. CASE f = t
      <4>1. tree.dev[k] \in 0..LastDev /\ Frame.dev \in Nat /\ LastDev \in Nat
        BY <1>1, <1>10, <3>1, PlaceTypes, EnumAssumption DEF IsActivation
      <4>2. tree.dev[k] < Frame.dev
        BY <1>1, <4>1
      <4>3. Before(k, stack[1])
        BY <1>10, <4>2 DEF Before
      <4> QED
        BY <1>1, <1>2, <1>8, <1>12, <2>1, <3>1, <3>2, <4>3 DEF Passed
    <3>3. CASE f # t
      <4>1. \A i \in 1..Len(ch) : ch[i] # f
        <5>1. ASSUME NEW i \in 1..Len(ch), i # 1
              PROVE  ch[i] # f
          <6>1. i - 1 \in 1..Len(c2) /\ (i - 1) + 1 = i
            BY <1>2, <5>1
          <6>2. c2[i - 1] = ch[(i - 1) + 1]
            BY <1>2, <6>1
          <6> QED
            BY <2>1, <6>1, <6>2
        <5> QED
          BY <1>2, <3>3, <5>1
      <4> QED
        BY <1>1, <1>12, <2>1, <3>1, <4>1 DEF OffChain
    <3> QED
      BY <3>2, <3>3
  <2> QED
    BY <1>5, <2>1 DEF OffChain
<1>21. LoopsInv(c2)'
  <2>1. ASSUME NEW i \in 1..Len(c2)
        PROVE  Loops(c2[i], stack'[i]) /\ (i # 1 => stack'[i].at = "children")
    <3>1. CASE i = 1
      BY <1>7, <1>8, <1>17, <3>1
    <3>2. CASE i \in 2..Len(c2)
      BY <1>1, <1>14, <3>2 DEF LoopsInv
    <3> QED
      BY <1>15, <3>1, <3>2
  <2>2. \A i : Loops(c2[i], stack[i])' <=> Loops(c2[i], stack'[i])
    BY <1>4, <1>5 DEF Loops
  <2>3. \A i \in 2..Len(c2) : i \in 1..Len(c2) /\ i # 1
    OBVIOUS
  <2> QED
    BY <2>1, <2>2, <2>3 DEF LoopsInv
<1>22. Taken(c2[1], Frame)'
  BY <1>7, <1>17 DEF Taken
<1> QED
  BY <1>1, <1>18, <1>19, <1>20, <1>21, <1>22 DEF ScanInv

LEMMA EnumerateWalks ==
  ASSUME NEW ch, EnumInv(ch), Enumerate, NEW c2, c2 = << 0 >>
  PROVE  ScanInv(c2)'
<1>1. /\ TypesInv /\ BusesInv /\ FoundInv /\ phase' = "on" /\ \A f \in Fun : ~Opened(f)
  BY DEF Enumerate, EnumInv
<1>2. /\ Fun' = Fun /\ \A f \in 0..tree.n : Opened(f)' <=> Opened(f)
  BY <1>1, EnumerateTypes, SameBusesKeeps
<1>3. \A f \in Fun : f \in 0..tree.n
  BY <1>1 DEF TypesInv, WellBuilt, Fun
<1>4. Len(c2) = 1 /\ c2[1] = 0
  OBVIOUS
<1>5. PICK x : x = Segment(0)
  OBVIOUS
<1>6. x.at = "device" /\ x.dev = 0 /\ x.fn = 0
  <2>1. 0 \in Nat
    OBVIOUS
  <2> QED
    BY <1>5, <2>1, SegmentType
<1>7. stack'[1] = x /\ Frame' = x
  <2>1. stack' = <<x>>
    BY <1>5 DEF Enumerate
  <2> QED
    BY <2>1 DEF Frame
<1>8. Passed(c2)'
  <2>1. TypesInv'
    BY EnumerateTypes
  <2>2. ASSUME NEW k \in Fun'
        PROVE  tree'.dev[k] \in Nat /\ tree'.fn[k] \in Nat
    <3>1. tree' = tree /\ k \in Fun
      BY <1>2, <2>2 DEF Enumerate
    <3> QED
      BY <1>1, <3>1, PlaceTypes
  <2>3. \A i \in 1..Len(c2) : \A k \in Kids(c2[i])' : ~Before(k, stack[i])'
    BY <1>4, <1>6, <1>7, <2>2 DEF Before, Kids
  <2> QED
    BY <2>3 DEF Passed
<1>9. OnChain(c2)'
  BY <1>4 DEF OnChain
<1>10. OffChain(c2)'
  BY <1>1, <1>2, <1>3 DEF OffChain
<1>11. LoopsInv(c2)'
  <2>1. LastFn \in Nat
    BY EnumAssumption
  <2>2. \A i \in 1..Len(c2) : Loops(c2[i], stack[i])'
    BY <1>4, <1>6, <1>7, <2>1 DEF Loops
  <2> QED
    BY <1>4, <2>2 DEF LoopsInv
<1>12. Taken(c2[1], Frame)'
  BY <1>6, <1>7 DEF Taken
<1> QED
  BY <1>1, <1>8, <1>9, <1>10, <1>11, <1>12 DEF ScanInv

\* When the scan of the first segment ends every function is finished: one that
\* is not would be behind a bridge that is off the chain and open.
LEMMA FinishWalks ==
  ASSUME NEW ch, EnumInv(ch), ScanInv(ch), Finish
  PROVE  ScanInv(ch)'
<1>1. /\ TypesInv /\ BusesInv /\ FoundInv /\ ChainInv(ch) /\ phase = "on" /\ phase' = "done"
      /\ Passed(ch) /\ OffChain(ch) /\ Frame.dev > LastDev /\ Len(stack) = 1 /\ tree' = tree
      /\ found' = found
  BY DEF Finish, SegmentDone, EnumInv, ScanInv
<1>2. Len(ch) = 1 /\ IsActivation(Frame) /\ Frame = stack[1]
  BY <1>1, TargetIsNext
<1>3. ch[1] = 0
  BY <1>1, <1>2 DEF ChainInv
<1>4. \A f \in Fun : f \in 1..tree.n /\ f \in 0..tree.n /\ tree.up[f] \in 0..tree.n /\ tree.up[f] < f /\ tree.n \in Nat
  <2>1. \A f \in Fun : f \in 1..tree.n /\ tree.up[f] \in 0..tree.n /\ tree.up[f] < f /\ tree.n \in Nat
    BY <1>1, Above DEF TypesInv
  <2> QED
    BY <2>1
<1> DEFINE T == {f \in Fun : ~Finished(f)}
<1>5. T = {}
  <2> SUFFICES ASSUME T # {}
               PROVE  FALSE
    OBVIOUS
  <2>1. T \subseteq Nat
    BY <1>4
  <2>2. PICK f \in T : \A y \in T : f <= y
    BY <2>1, LeastNumber
  <2>3. f \in Fun /\ ~Finished(f)
    BY <2>2
  <2>4. f \in Kids(tree.up[f])
    BY <2>3 DEF Kids
  <2>5. CASE tree.up[f] = 0
    <3>1. tree.dev[f] \in 0..LastDev /\ Frame.dev \in Nat /\ LastDev \in Nat
      BY <1>1, <1>2, <2>3, PlaceTypes, EnumAssumption DEF IsActivation
    <3>2. tree.dev[f] < Frame.dev
      BY <1>1, <3>1
    <3>3. Before(f, stack[1])
      BY <1>2, <3>2 DEF Before
    <3>4. 1 \in 1..Len(ch)
      BY <1>2
    <3> QED
      BY <1>1, <1>3, <2>3, <2>4, <2>5, <3>3, <3>4 DEF Passed
  <2>6. CASE tree.up[f] # 0
    <3>1. PICK u : u = tree.up[f]
      OBVIOUS
    <3>2. u \in Bridges /\ u \in Fun
      BY <1>1, <2>3, <2>6, <3>1, Above DEF TypesInv, Bridges
    <3>3. u \notin T
      <4>1. u < f /\ u \in Nat /\ f \in Nat
        BY <1>4, <2>3, <3>1, <3>2
      <4> QED
        BY <2>2, <4>1
    <3>4. Opened(u)
      BY <3>2, <3>3 DEF Finished
    <3>5. \A i \in 1..Len(ch) : ch[i] # u
      BY <1>2, <1>3, <2>6, <3>1
    <3> QED
      BY <1>1, <2>3, <2>4, <3>1, <3>2, <3>4, <3>5 DEF OffChain
  <2> QED
    BY <2>5, <2>6
<1>6. SameBuses
  BY FinishTypes
<1>7. Fun' = Fun /\ \A f \in 0..tree.n : Opened(f)' <=> Opened(f)
  BY <1>1, <1>6, SameBusesKeeps
<1>8. \A f \in Fun : regs'[f].bus = regs[f].bus
  <2>1. PICK w : regs' = [regs EXCEPT ![0].win = w]
    BY DEF Finish
  <2>2. \A f \in Fun : f \in DOMAIN regs /\ f # 0
    BY <1>1, <1>4 DEF TypesInv
  <2> QED
    BY <2>1, <2>2
<1>9. ASSUME NEW f \in Fun
      PROVE  Finished(f)'
  <2>1. Finished(f)
    BY <1>5
  <2>2. /\ regs'[tree.up[f]].sec = regs[tree.up[f]].sec /\ regs'[f].bus = regs[f].bus
        /\ Opened(f) => Opened(f)'
    BY <1>4, <1>6, <1>7, <1>8 DEF SameBuses
  <2> QED
    BY <1>1, <2>1, <2>2, FinishedStays
<1> QED
  BY <1>1, <1>7, <1>9 DEF ScanInv

LEMMA UnchangedWalks ==
  ASSUME NEW ch, ScanInv(ch), UNCHANGED <<tree, regs, lim, stack, found, msiLimit, phase>>
  PROVE  ScanInv(ch)'
<1>1. /\ Fun' = Fun /\ Bridges' = Bridges /\ Frame' = Frame /\ \A b : Kids(b)' = Kids(b)
      /\ \A f : Opened(f)' <=> Opened(f)
      /\ tree' = tree /\ regs' = regs /\ stack' = stack /\ phase' = phase
      /\ found' = found
  BY DEF Fun, Bridges, Frame, Kids, Opened
<1>2. \A k : Finished(k)' <=> Finished(k)
  BY <1>1 DEF Finished, Noted, Place
<1>3. \A k, i : Before(k, stack[i])' <=> Before(k, stack[i])
  BY <1>1 DEF Before
<1>4. \A b, i : Loops(b, stack[i])' <=> Loops(b, stack[i])
  BY <1>1 DEF Loops
<1>5. Taken(ch[1], Frame)' <=> Taken(ch[1], Frame)
  BY <1>1 DEF Taken, At, Noted, Place
<1>6. phase = "on" => Passed(ch)' /\ OnChain(ch)' /\ OffChain(ch)' /\ LoopsInv(ch)' /\ Taken(ch[1], Frame)'
  BY <1>1, <1>2, <1>3, <1>4, <1>5 DEF ScanInv, Passed, OnChain, OffChain, LoopsInv
<1> QED
  BY <1>1, <1>2, <1>6 DEF ScanInv

\* There is a chain of open bridges behind which nothing is left out.
Walk == \E ch : EnumInv(ch) /\ ScanInv(ch)
LEMMA WalkNext == Walk /\ [EnumNext]_enumVars => Walk'
<1> SUFFICES ASSUME Walk, [EnumNext]_enumVars
             PROVE  Walk'
  OBVIOUS
<1>1. PICK ch : EnumInv(ch) /\ ScanInv(ch)
  BY DEF Walk
<1>2. ASSUME NEW c2, EnumInv(c2)', ScanInv(c2)'
      PROVE  Walk'
  BY <1>2 DEF Walk
<1>3. CASE Enumerate
  <2>1. PICK c2 : c2 = << 0 >>
    OBVIOUS
  <2>2. EnumInv(c2)' /\ ScanInv(c2)'
    BY <1>1, <1>3, <2>1, EnumerateKeeps, EnumerateWalks
  <2> QED
    BY <1>2, <2>2
<1>4. CASE ProbeDevice
  BY <1>1, <1>2, <1>4, ProbeDeviceKeeps, ProbeDeviceScans
<1>5. CASE ProbeFunction
  BY <1>1, <1>2, <1>5, ProbeFunctionKeeps, ProbeFunctionScans
<1>6. CASE ConfigureBar
  BY <1>1, <1>2, <1>6, ConfigureBarKeeps, ConfigureBarScans
<1>7. CASE StartWalk
  BY <1>1, <1>2, <1>7, StartWalkKeeps, StartWalkScans
<1>8. CASE WalkCapability
  BY <1>1, <1>2, <1>8, WalkCapabilityKeeps, WalkCapabilityScans
<1>9. CASE SetUpFunction
  BY <1>1, <1>2, <1>9, SetUpFunctionKeepsBuses, SetUpFunctionScans
<1>10. CASE OpenBridge
  <2>1. PICK t, c2 : t = Target /\ c2 = <<t>> \o ch
    OBVIOUS
  <2>2. Longer(ch, t, c2)
    BY <2>1 DEF Longer
  <2>3. EnumInv(c2)' /\ ScanInv(c2)'
    BY <1>1, <1>10, <2>2, OpenBridgeKeeps, OpenBridgeWalks
  <2> QED
    BY <1>2, <2>3
<1>11. CASE CloseBridge
  <2>1. PICK t, c2 : t = ch[1] /\ c2 = Tail(ch)
    OBVIOUS
  <2>2. Shorter(ch, t, c2)
    BY <2>1 DEF Shorter
  <2>3. EnumInv(c2)' /\ ScanInv(c2)'
    BY <1>1, <1>11, <2>2, CloseBridgeKeeps, CloseBridgeWalks
  <2> QED
    BY <1>2, <2>3
<1>12. CASE Finish
  BY <1>1, <1>2, <1>12, FinishKeeps, FinishWalks
<1>13. CASE (\E size \in Sizes : AllocRegion(size) \/ AllocIoRegion(size)) \/ UNCHANGED enumVars
  <2>1. UNCHANGED <<tree, regs, lim, stack, found, msiLimit, phase>>
    BY <1>13 DEF AllocRegion, AllocIoRegion, enumVars
  <2> QED
    BY <1>1, <1>2, <2>1, UnchangedKeeps, UnchangedWalks
<1> QED
  BY <1>3, <1>4, <1>5, <1>6, <1>7, <1>8, <1>9, <1>10, <1>11, <1>12, <1>13 DEF EnumNext

LEMMA WalkAlways == EnumSpec => []Walk
<1>1. EnumInit => Walk
  <2> SUFFICES ASSUME EnumInit
               PROVE  Walk
    OBVIOUS
  <2>1. EnumInv(<< 0 >>)
    BY EnumInvInit
  <2>2. ScanInv(<< 0 >>)
    BY DEF EnumInit, ScanInv
  <2> QED
    BY <2>1, <2>2 DEF Walk
<1> QED
  BY <1>1, WalkNext, PTL DEF EnumSpec

(***************************************************************************)
(* What follows for the functions found.                                    *)
(***************************************************************************)
LEMMA WalkTypes == Walk => EnumTypeOK
<1> SUFFICES ASSUME NEW ch, EnumInv(ch)
             PROVE  EnumTypeOK
  BY DEF Walk
<1>1. TypesInv /\ BusesInv /\ FoundInv
  BY DEF EnumInv
<1>2. \A f \in Fun : f \in 0..tree.n /\ tree.up[f] \in 0..tree.n
  <2>1. tree.n \in Nat
    BY <1>1 DEF TypesInv, WellBuilt
  <2>2. Fun \subseteq 0..tree.n
    BY <2>1 DEF Fun
  <2> QED
    BY <1>1, <2>2, Above DEF TypesInv
<1>3. ASSUME NEW f \in Fun
      PROVE  /\ regs[f].bus \in 0..LastBus /\ regs[f].sec \in 0..LastBus /\ regs[f].sub \in 0..LastBus
             /\ DOMAIN regs[f].bar = DOMAIN tree.bars[f]
  BY <1>1, <1>2, BusTypes DEF TypesInv
<1>4. ASSUME NEW i \in DOMAIN stack
      PROVE  stack[i].at \in {"device", "function", "bars", "caps", "bridge", "children"}
  <2>1. CASE phase = "on"
    <3>1. IsStack(stack) /\ Len(stack) = Len(ch) /\ \A j \in 1..Len(ch) : IsActivation(stack[j])
      BY <2>1 DEF EnumInv, StackInv
    <3>2. DOMAIN stack = 1..Len(stack)
      BY <3>1 DEF IsStack
    <3>3. IsActivation(stack[i])
      BY <3>1, <3>2
    <3> QED
      BY <3>3 DEF IsActivation, Steps
  <2>2. CASE phase # "on"
    <3>1. stack = <<>>
      BY <2>2 DEF EnumInv
    <3> QED
      BY <3>1
  <2> QED
    BY <2>1, <2>2
<1>5. found \subseteq ((0..LastBus) \X (0..LastDev) \X (0..LastFn)) \X Fun
  <2> SUFFICES ASSUME NEW p \in found
               PROVE  p \in ((0..LastBus) \X (0..LastDev) \X (0..LastFn)) \X Fun
    OBVIOUS
  <2>1. PICK f \in Fun : p = <<Place(f), f>>
    BY <1>1 DEF FoundInv
  <2>2. regs[tree.up[f]].sec \in 0..LastBus
    BY <1>1, <1>2, BusTypes
  <2>3. tree.dev[f] \in 0..LastDev /\ tree.fn[f] \in 0..LastFn
    BY <1>1, PlaceTypes
  <2> QED
    BY <2>1, <2>2, <2>3 DEF Place, Id
<1> QED
  BY <1>1, <1>3, <1>4, <1>5 DEF EnumTypeOK, TypesInv

LEMMA WalkRoutes == Walk => IdsKeepTheirFunction
<1> SUFFICES ASSUME NEW ch, EnumInv(ch), NEW p \in found
             PROVE  CfgDown(p[1]) = p[2]
  BY DEF Walk, IdsKeepTheirFunction
<1>1. TypesInv /\ BusesInv /\ FoundInv
  BY DEF EnumInv
<1>2. PICK f \in Fun : Opened(tree.up[f]) /\ p = <<Place(f), f>>
  BY <1>1 DEF FoundInv
<1>3. PICK b, d, e, r : b = tree.up[f] /\ d = tree.dev[f] /\ e = tree.fn[f] /\ r = CfgDown(Place(f))
  OBVIOUS
<1>4. EndsAt(b, d, e, r)
  BY <1>3 DEF EndsAt, Place
<1>5. b \in 0..tree.n /\ Opened(b) /\ f \in Kids(b)
  BY <1>1, <1>2, <1>3, Above DEF TypesInv, Kids
<1>6. r = f
  BY <1>1, <1>3, <1>4, <1>5, CfgRouted
<1> QED
  BY <1>2, <1>3, <1>6

(***************************************************************************)
(* The way of completions, when no function was left out.                   *)
(***************************************************************************)
AllFinished == TypesInv /\ BusesInv /\ \A f \in Fun : Finished(f)

\* All bridges are open then, and every function has the id of its place.
LEMMA FinishedIds ==
  ASSUME AllFinished, NEW f \in Fun
  PROVE  /\ tree.up[f] \in 0..tree.n /\ tree.up[f] < f /\ f \in 1..tree.n /\ f \in 0..tree.n
         /\ Opened(tree.up[f]) /\ IdOf(f) = Place(f) /\ (f \in Bridges => Opened(f))
         /\ regs[tree.up[f]].sec \in 0..LastBus /\ regs[tree.up[f]].sec \in Nat
<1>1. /\ tree.up[f] \in 0..tree.n /\ tree.up[f] < f /\ f \in 1..tree.n /\ tree.n \in Nat
      /\ tree.up[f] # 0 => tree.up[f] \in Bridges
  BY Above DEF AllFinished, TypesInv
<1>2. Opened(tree.up[f])
  <2>1. CASE tree.up[f] = 0
    BY <2>1 DEF Opened
  <2>2. CASE tree.up[f] # 0
    <3>1. tree.up[f] \in Bridges /\ tree.up[f] \in Fun
      BY <1>1, <2>2 DEF Bridges
    <3> QED
      BY <3>1 DEF AllFinished, Finished
  <2> QED
    BY <2>1, <2>2
<1>3. IdOf(f) = Place(f) /\ (f \in Bridges => Opened(f))
  BY DEF AllFinished, Finished, IdOf, Place
<1>4. regs[tree.up[f]].sec \in 0..LastBus /\ regs[tree.up[f]].sec \in Nat
  BY <1>1, BusTypes DEF AllFinished
<1> QED
  BY <1>1, <1>2, <1>3, <1>4

\* No two functions have the same id.
LEMMA IdsApart ==
  ASSUME AllFinished, NEW f \in Fun, NEW g \in Fun, IdOf(f) = IdOf(g)
  PROVE  f = g
<1>1. ASSUME NEW h \in Fun
      PROVE  CfgDown(Place(h)) = h
  <2>1. PICK b, d, e, r : b = tree.up[h] /\ d = tree.dev[h] /\ e = tree.fn[h] /\ r = CfgDown(Place(h))
    OBVIOUS
  <2>2. EndsAt(b, d, e, r)
    BY <2>1 DEF EndsAt, Place
  <2>3. b \in 0..tree.n /\ Opened(b) /\ h \in Kids(b)
    BY <2>1, FinishedIds DEF Kids
  <2>4. r = h
    BY <2>1, <2>2, <2>3, CfgRouted DEF AllFinished
  <2> QED
    BY <2>1, <2>4
<1>2. Place(f) = Place(g)
  BY FinishedIds
<1> QED
  BY <1>1, <1>2

\* The id of a function is not that of the root complex.
LEMMA IdsNotRc ==
  ASSUME AllFinished, NEW f \in Fun
  PROVE  IdOf(f) # RcId
<1> SUFFICES ASSUME IdOf(f) = RcId
             PROVE  FALSE
  OBVIOUS
<1>1. regs[tree.up[f]].sec = 0 /\ tree.dev[f] = 0 /\ Opened(tree.up[f])
  BY FinishedIds DEF Place, RcId, Id
<1>2. tree.up[f] = 0
  BY <1>1 DEF Opened
<1>3. f \in 1..tree.n
  BY FinishedIds
<1> QED
  BY <1>1, <1>2, <1>3 DEF AllFinished, TypesInv, WellBuilt

\* The routing of completions down the tree is well defined.
LEMMA CplDownDefined ==
  ASSUME WellBuilt(tree), NEW id
  PROVE  \A b \in 0..tree.n : CplDown(id)[b] = CplStep(id, CplDown(id), b)
<1> DEFINE D == 0..tree.n
           rank == [b \in D |-> tree.n - b]
           F == [p \in D \X [D -> Int] |-> CplStep(id, p[2], p[1])]
<1>1. tree.n \in Nat
  BY DEF WellBuilt
<1>2. rank \in [D -> 0..tree.n]
  BY <1>1
<1>3. ASSUME NEW b \in D, NEW g \in [D -> Int]
      PROVE  CplStep(id, g, b) \in Int
  <2>1. CplHits(id, b) # {} => First(CplHits(id, b)) \in Fun
    BY FirstKid DEF CplHits
  <2>2. \A k \in Fun : k \in Int /\ g[k] \in Int
    BY <1>1 DEF Fun
  <2> QED
    BY <2>1, <2>2 DEF CplStep, Lost, Failed
<1>4. F \in [D \X [D -> Int] -> Int]
  BY <1>3
<1>5. ASSUME NEW b \in D, NEW g \in [D -> Int], NEW h \in [D -> Int],
             \A e \in D : rank[e] < rank[b] => g[e] = h[e]
      PROVE  F[<<b, g>>] = F[<<b, h>>]
  <2>1. ASSUME CplHits(id, b) # {}
        PROVE  g[First(CplHits(id, b))] = h[First(CplHits(id, b))]
    <3> DEFINE k == First(CplHits(id, b))
    <3>1. k \in Fun /\ b < k
      BY <2>1, FirstKid DEF CplHits
    <3> HIDE DEF k
    <3>2. k \in D /\ rank[k] < rank[b]
      BY <1>1, <3>1 DEF Fun
    <3>3. g[k] = h[k]
      BY <1>5, <3>2
    <3> QED
      BY <3>3 DEF k
  <2>2. CplStep(id, g, b) = CplStep(id, h, b)
    BY <2>1 DEF CplStep
  <2> QED
    BY <2>2
<1> HIDE DEF D, rank, F
<1>6. PICK down \in [D -> Int] : \A b \in D : down[b] = F[<<b, down>>]
  <2>1. Int # {}
    OBVIOUS
  <2>2. \A b \in D : \A g, h \in [D -> Int] :
          (\A e \in D : rank[e] < rank[b] => g[e] = h[e]) => F[<<b, g>>] = F[<<b, h>>]
    BY <1>5
  <2>3. Recursion(D, Int, tree.n, rank, F)
    BY <1>1, <1>2, <1>4, <2>1, <2>2, Zenon DEF Recursion
  <2> QED
    BY <2>3, RecursionExists
<1>7. \A b \in D : down[b] = CplStep(id, down, b)
  BY <1>6 DEF F
<1> DEFINE f == CHOOSE g : g = [b \in 0..tree.n |-> CplStep(id, g, b)]
<1>8. f = [b \in 0..tree.n |-> CplStep(id, f, b)]
  <2>1. down = [b \in 0..tree.n |-> CplStep(id, down, b)]
    BY <1>6, <1>7 DEF D
  <2> QED
    BY <2>1
<1>9. CplDown(id) = f
  BY DEF CplDown
<1> HIDE DEF f
<1> QED
  BY <1>8, <1>9

\* A set of functions with one in it.
LEMMA FirstOfOne ==
  ASSUME NEW k \in Nat
  PROVE  First({k}) = k
<1>1. {k} \subseteq Nat /\ {k} # {}
  OBVIOUS
<1>2. First({k}) \in {k}
  BY <1>1, FirstIsLeast
<1> QED
  BY <1>2

\* Down the tree every bridge that takes the bus of a function passes its
\* completions on to it.
LEMMA CplRouted ==
  ASSUME AllFinished, NEW f \in Fun \ Bridges, NEW b \in 0..tree.n, Opened(b),
         InRange(b, IdOf(f)[1])
  PROVE  CplDown(IdOf(f))[b] = f
<1> DEFINE id == IdOf(f)
           a == tree.up[f]
           bus == regs[a].sec
           down == CplDown(id)
<1>1. TypesInv /\ BusesInv /\ WellBuilt(tree) /\ tree.n \in Nat
  BY DEF AllFinished, TypesInv, WellBuilt
<1>2. \A c \in 0..tree.n : down[c] = CplStep(id, down, c)
  BY <1>1, CplDownDefined
<1>3. /\ a \in 0..tree.n /\ a < f /\ f \in Fun /\ f \in Nat /\ Opened(a) /\ bus \in Nat
      /\ id[1] = bus /\ f \notin Bridges
  <2>1. f \in Fun /\ f \notin Bridges
    OBVIOUS
  <2>2. f \in 1..tree.n /\ a \in 0..tree.n /\ a < f /\ Opened(a) /\ id = Place(f) /\ bus \in Nat
    BY <2>1, FinishedIds
  <2>3. id[1] = bus
    BY <2>2 DEF Place, Id
  <2> QED
    BY <1>1, <2>1, <2>2, <2>3
<1>4. ASSUME NEW k \in Fun, IdOf(k) = id
      PROVE  k = f
  BY <1>3, <1>4, IdsApart
<1> HIDE DEF id, a, bus, down
<1>5. down[a] = f
  <2>1. f \in Kids(a)
    BY <1>3 DEF Kids, a
  <2>2. f \in CplHits(id, a)
    BY <2>1 DEF CplHits, id
  <2>3. ASSUME NEW k \in CplHits(id, a)
        PROVE  k = f
    <3>1. k \in Fun /\ tree.up[k] = a /\ (IdOf(k) = id \/ (tree.kind[k] # "ep" /\ InRange(k, bus)))
      BY <1>3, <2>3 DEF CplHits, Kids
    <3>2. CASE IdOf(k) = id
      BY <1>4, <3>1, <3>2
    <3>3. CASE tree.kind[k] # "ep" /\ InRange(k, bus)
      <4>1. k \in Bridges
        BY <3>1, <3>3 DEF Bridges
      <4>2. Opened(k) /\ k \in 0..tree.n
        BY <3>1, <4>1, FinishedIds
      <4>3. regs[a].sec < bus
        BY <1>1, <1>3, <3>1, <3>3, <4>2, OneTakes
      <4> QED
        BY <1>3, <4>3 DEF bus
    <3> QED
      BY <3>1, <3>2, <3>3
  <2>4. CplHits(id, a) = {f}
    BY <2>2, <2>3
  <2>5. First({f}) = f
    BY <1>3, FirstOfOne
  <2> QED
    BY <1>2, <1>3, <2>4, <2>5 DEF CplStep, id
<1> DEFINE T == {c \in 0..tree.n : Opened(c) /\ InRange(c, bus) /\ down[c] # down[0]}
<1>6. T = {}
  <2> SUFFICES ASSUME T # {}
               PROVE  FALSE
    OBVIOUS
  <2>1. T \subseteq Nat
    BY <1>1
  <2>2. PICK c \in T : \A y \in T : c <= y
    BY <2>1, LeastNumber
  <2>3. c \in Fun /\ Opened(c) /\ InRange(c, bus) /\ down[c] # down[0]
    BY <1>1, <2>2 DEF Fun
  <2> DEFINE u == tree.up[c]
  <2>4. u \in 0..tree.n /\ u < c /\ c \in Nat
    BY <1>1, <2>3, Above
  <2>5. /\ Opened(u) /\ InRange(u, bus) /\ regs[u].sec < bus /\ c \in Bridges
        /\ \A k \in Kids(u) : InRange(k, bus) => k = c
    BY <1>1, <1>3, <2>3, OneTakes
  <2>6. down[u] = down[0]
    <3>1. ~(c <= u)
      BY <2>4
    <3> QED
      BY <2>2, <2>4, <2>5, <3>1
  <2>7. u # a /\ c # f
    <3>1. regs[u].sec \in Nat
      BY <1>1, <2>4, BusTypes
    <3> QED
      BY <1>3, <2>5, <3>1 DEF bus
  <2>8. ASSUME NEW k \in Kids(u)
        PROVE  k \in Fun /\ IdOf(k) # id
    <3>1. k \in Fun /\ tree.up[k] = u
      BY DEF Kids
    <3> QED
      BY <1>4, <2>7, <3>1 DEF a
  <2>9. CplHits(id, u) = {c}
    <3>1. c \in Kids(u) /\ tree.kind[c] # "ep"
      BY <2>3, <2>5 DEF Kids, Bridges
    <3> QED
      BY <1>3, <2>3, <2>5, <2>8, <3>1 DEF CplHits
  <2>10. First({c}) = c /\ IdOf(c) # id
    BY <1>4, <2>3, <2>4, <2>7, FirstOfOne
  <2>11. down[u] = down[c]
    BY <1>2, <2>4, <2>9, <2>10 DEF CplStep
  <2> QED
    BY <2>3, <2>6, <2>11
<1>7. down[0] = f
  <2>1. InRange(a, bus)
    BY <1>1, <1>3, OwnBusInRange DEF bus
  <2>2. down[a] = down[0]
    BY <1>3, <1>6, <2>1
  <2> QED
    BY <1>5, <2>2
<1>8. InRange(b, bus)
  BY <1>3 DEF id
<1> QED
  BY <1>6, <1>7, <1>8 DEF down, id

\* The way up is well defined too.
LEMMA CplUpDefined ==
  ASSUME WellBuilt(tree), NEW id
  PROVE  \E climb : /\ \A b \in 0..tree.n : climb[b] = CplClimb(id, climb, b)
                    /\ \A f : CplUp(f, id) = climb[tree.up[f]]
<1> DEFINE D == 0..tree.n
           V == D \cup Int \cup {CplDown(id)[b] : b \in D}
           rank == [b \in D |-> b]
           F == [p \in D \X [D -> V] |-> CplClimb(id, p[2], p[1])]
<1>1. tree.n \in Nat
  BY DEF WellBuilt
<1>2. rank \in [D -> 0..tree.n]
  OBVIOUS
<1>3. ASSUME NEW b \in D, b # 0
      PROVE  tree.up[b] \in D /\ tree.up[b] < b
  <2>1. b \in Fun
    BY <1>1, <1>3 DEF Fun
  <2> QED
    BY <2>1, Above
<1>4. ASSUME NEW b \in D, NEW g \in [D -> V]
      PROVE  CplClimb(id, g, b) \in V
  <2> DEFINE x == CplDown(id)[b]
  <2>1. RC \in V /\ b \in V /\ x \in V
    BY DEF RC
  <2>2. b # 0 => g[tree.up[b]] \in V
    BY <1>3
  <2> HIDE DEF V, x
  <2> QED
    BY <2>1, <2>2 DEF CplClimb, x
<1>5. F \in [D \X [D -> V] -> V]
  <2> HIDE DEF V
  <2> QED
    BY <1>4
<1>6. ASSUME NEW b \in D, NEW g \in [D -> V], NEW h \in [D -> V],
             \A e \in D : rank[e] < rank[b] => g[e] = h[e]
      PROVE  F[<<b, g>>] = F[<<b, h>>]
  <2> HIDE DEF V
  <2>1. ASSUME b # 0
        PROVE  g[tree.up[b]] = h[tree.up[b]]
    BY <1>3, <1>6, <2>1
  <2>2. CplClimb(id, g, b) = CplClimb(id, h, b)
    BY <2>1 DEF CplClimb
  <2> QED
    BY <2>2
<1>7. V # {}
  OBVIOUS
<1> HIDE DEF D, V, rank, F
<1>8. PICK climb \in [D -> V] : \A b \in D : climb[b] = F[<<b, climb>>]
  <2>1. \A b \in D : \A g, h \in [D -> V] :
          (\A e \in D : rank[e] < rank[b] => g[e] = h[e]) => F[<<b, g>>] = F[<<b, h>>]
    BY <1>6
  <2>2. Recursion(D, V, tree.n, rank, F)
    BY <1>1, <1>2, <1>5, <1>7, <2>1, Zenon DEF Recursion
  <2> QED
    BY <2>2, RecursionExists
<1>9. \A b \in D : climb[b] = CplClimb(id, climb, b)
  BY <1>8 DEF F
<1> DEFINE f == CHOOSE g : g = [b \in 0..tree.n |-> CplClimb(id, g, b)]
<1>10. f = [b \in 0..tree.n |-> CplClimb(id, f, b)]
  <2>1. climb = [b \in 0..tree.n |-> CplClimb(id, climb, b)]
    BY <1>8, <1>9 DEF D
  <2> QED
    BY <2>1
<1>11. \A g : CplUp(g, id) = f[tree.up[g]]
  BY DEF CplUp
<1> HIDE DEF f
<1> QED
  BY <1>10, <1>11

\* From every bridge a completion gets to its requester.
LEMMA CplArrives ==
  ASSUME AllFinished, NEW f \in Fun \ Bridges, NEW g \in Fun
  PROVE  CplUp(g, IdOf(f)) = f
<1>1. TypesInv /\ BusesInv /\ WellBuilt(tree) /\ tree.n \in Nat /\ f \in Fun /\ f \notin Bridges
  BY DEF AllFinished, TypesInv, WellBuilt
<1>2. PICK id : id = IdOf(f)
  OBVIOUS
<1>3. PICK climb : /\ \A b \in 0..tree.n : climb[b] = CplClimb(id, climb, b)
                   /\ \A h : CplUp(h, id) = climb[tree.up[h]]
  BY <1>1, CplUpDefined
<1>4. id[1] \in 0..LastBus /\ id # RcId
  <2>1. id = Place(f) /\ regs[tree.up[f]].sec \in 0..LastBus
    BY <1>1, <1>2, FinishedIds
  <2>2. id[1] = regs[tree.up[f]].sec
    BY <2>1 DEF Place, Id
  <2> QED
    BY <1>1, <1>2, <2>1, <2>2, IdsNotRc
<1> DEFINE T == {b \in 0..tree.n : Opened(b) /\ climb[b] # f}
<1>5. T = {}
  <2> SUFFICES ASSUME T # {}
               PROVE  FALSE
    OBVIOUS
  <2>1. T \subseteq Nat
    BY <1>1
  <2>2. PICK b \in T : \A y \in T : b <= y
    BY <2>1, LeastNumber
  <2>3. b \in 0..tree.n /\ Opened(b) /\ climb[b] # f /\ climb[b] = CplClimb(id, climb, b)
    BY <1>3, <2>2
  <2>4. CASE InRange(b, id[1])
    <3>1. CplDown(id)[b] = f
      BY <1>2, <2>3, <2>4, CplRouted
    <3>2. ~(b # 0 /\ IdOf(b) = id)
      <4>1. b # 0 => b \in Fun /\ b \in Bridges
        <5>1. b # 0 => b \in Fun
          BY <1>1, <2>3 DEF Fun
        <5> QED
          BY <1>1, <2>3, <5>1 DEF BusesInv
      <4> QED
        BY <1>1, <1>2, <4>1, IdsApart
    <3> QED
      BY <1>4, <2>3, <2>4, <3>1, <3>2 DEF CplClimb
  <2>5. CASE ~InRange(b, id[1])
    <3>1. b # 0
      BY <1>1, <1>4, <2>5, EnumAssumption DEF BusesInv, InRange
    <3>2. b \in Fun /\ b \in Bridges
      <4>1. b \in Fun
        BY <1>1, <2>3, <3>1 DEF Fun
      <4> QED
        BY <1>1, <2>3, <4>1 DEF BusesInv
    <3>3. IdOf(b) # id
      BY <1>1, <1>2, <3>2, IdsApart
    <3>4. climb[b] = climb[tree.up[b]]
      BY <2>3, <2>5, <3>1, <3>3 DEF CplClimb
    <3>5. tree.up[b] \in 0..tree.n /\ Opened(tree.up[b]) /\ ~(b <= tree.up[b])
      <4>1. tree.up[b] \in 0..tree.n /\ Opened(tree.up[b]) /\ tree.up[b] < b /\ b \in 1..tree.n
        BY <3>2, FinishedIds
      <4> QED
        BY <1>1, <4>1
    <3> QED
      BY <2>2, <2>3, <3>4, <3>5
  <2> QED
    BY <2>4, <2>5
<1>6. tree.up[g] \in 0..tree.n /\ Opened(tree.up[g])
  BY FinishedIds
<1> QED
  BY <1>2, <1>3, <1>5, <1>6

\* A completion for the root complex leaves the tree at the top.
LEMMA CplLeaves ==
  ASSUME AllFinished, NEW g \in Fun
  PROVE  CplUp(g, RcId) = RC
<1>1. TypesInv /\ BusesInv /\ WellBuilt(tree) /\ tree.n \in Nat
  BY DEF AllFinished, TypesInv, WellBuilt
<1>2. PICK climb : /\ \A b \in 0..tree.n : climb[b] = CplClimb(RcId, climb, b)
                   /\ \A h : CplUp(h, RcId) = climb[tree.up[h]]
  BY <1>1, CplUpDefined
<1>3. RcId[1] = 0
  BY DEF RcId, Id
<1> DEFINE T == {b \in 0..tree.n : Opened(b) /\ climb[b] # RC}
<1>4. T = {}
  <2> SUFFICES ASSUME T # {}
               PROVE  FALSE
    OBVIOUS
  <2>1. T \subseteq Nat
    BY <1>1
  <2>2. PICK b \in T : \A y \in T : b <= y
    BY <2>1, LeastNumber
  <2>3. b \in 0..tree.n /\ Opened(b) /\ climb[b] # RC /\ climb[b] = CplClimb(RcId, climb, b)
    BY <1>2, <2>2
  <2>4. CASE b = 0
    <3>1. InRange(b, 0)
      BY <1>1, <2>4, EnumAssumption DEF BusesInv, InRange
    <3> QED
      BY <1>3, <2>3, <2>4, <3>1 DEF CplClimb
  <2>5. CASE b # 0
    <3>1. b \in Fun
      BY <1>1, <2>3, <2>5 DEF Fun
    <3>2. ~InRange(b, 0)
      <4>1. regs[b].sec \in Nat /\ regs[b].sec # 0
        BY <1>1, <2>3, <2>5, BusTypes DEF Opened
      <4> QED
        BY <4>1 DEF InRange
    <3>3. IdOf(b) # RcId
      BY <3>1, IdsNotRc
    <3>4. climb[b] = climb[tree.up[b]]
      BY <1>3, <2>3, <2>5, <3>2, <3>3 DEF CplClimb
    <3>5. tree.up[b] \in 0..tree.n /\ Opened(tree.up[b]) /\ ~(b <= tree.up[b])
      <4>1. tree.up[b] \in 0..tree.n /\ Opened(tree.up[b]) /\ tree.up[b] < b /\ b \in 1..tree.n
        BY <3>1, FinishedIds
      <4> QED
        BY <1>1, <4>1
    <3> QED
      BY <2>2, <2>3, <3>4, <3>5
  <2> QED
    BY <2>4, <2>5
<1>5. tree.up[g] \in 0..tree.n /\ Opened(tree.up[g])
  BY FinishedIds
<1> QED
  BY <1>2, <1>4, <1>5

LEMMA FinishedReturn == AllFinished => CompletionsReturn
<1> SUFFICES ASSUME AllFinished, NEW f \in Fun \ Bridges
             PROVE  /\ CplDown(IdOf(f))[0] = f
                    /\ CplUp(f, RcId) = RC
                    /\ \A g \in Fun \ Bridges : CplUp(g, IdOf(f)) = f
  BY DEF CompletionsReturn
<1>1. f \in Fun
  OBVIOUS
<1>2. CplDown(IdOf(f))[0] = f
  <2>1. 0 \in 0..tree.n /\ Opened(0)
    BY DEF AllFinished, TypesInv, WellBuilt, Opened
  <2>2. IdOf(f) = Place(f) /\ regs[tree.up[f]].sec \in 0..LastBus
    BY <1>1, FinishedIds
  <2>3. IdOf(f)[1] \in 0..LastBus
    BY <2>2 DEF Place, Id
  <2>4. InRange(0, IdOf(f)[1])
    BY <2>3, EnumAssumption DEF InRange, AllFinished, BusesInv
  <2> QED
    BY <2>1, <2>4, CplRouted
<1>3. CplUp(f, RcId) = RC
  BY <1>1, CplLeaves
<1>4. \A g \in Fun \ Bridges : CplUp(g, IdOf(f)) = f
  BY CplArrives
<1> QED
  BY <1>2, <1>3, <1>4

LEMMA WalkReturns == Walk => CompletionsReturn
<1> SUFFICES ASSUME NEW ch, EnumInv(ch), ScanInv(ch)
             PROVE  CompletionsReturn
  BY DEF Walk
<1>1. CASE phase = "done"
  <2>1. AllFinished
    BY <1>1 DEF AllFinished, EnumInv, ScanInv
  <2> QED
    BY <2>1, FinishedReturn
<1>2. CASE phase # "done"
  BY <1>2 DEF CompletionsReturn
<1> QED
  BY <1>1, <1>2

LEMMA WalkFinds == Walk => FoundOnce
<1> SUFFICES ASSUME NEW ch, EnumInv(ch), ScanInv(ch), phase = "done"
             PROVE  /\ found = {<<IdOf(f), f>> : f \in Fun}
                    /\ \A f, g \in Fun : f # g => IdOf(f) # IdOf(g)
  BY DEF Walk, FoundOnce
<1>1. AllFinished /\ FoundInv
  BY DEF AllFinished, EnumInv, ScanInv
<1>2. \A f \in Fun : IdOf(f) = Place(f) /\ <<Place(f), f>> \in found
  BY <1>1, FinishedIds DEF AllFinished, Finished, Noted
<1>3. ASSUME NEW p \in found
      PROVE  \E f \in Fun : p = <<IdOf(f), f>>
  BY <1>1, <1>2 DEF FoundInv
<1>4. \A f, g \in Fun : f # g => IdOf(f) # IdOf(g)
  BY <1>1, IdsApart
<1> QED
  BY <1>2, <1>3, <1>4

\* Registers, limits and activations stay well formed, for every tree that can
\* be built: no bridge is given a bus number that its register does not hold
\* (enumerate_segment, configure_bar).
THEOREM EnumTypes == EnumSpec => []EnumTypeOK
  BY WalkAlways, WalkTypes, PTL

\* Every id that was found goes on leading to the function that answered it,
\* whichever bridges are enumerated at that moment (enumerate_segment,
\* upstream_recv, route_downstream_tlp).
THEOREM IdsStay == EnumSpec => []IdsKeepTheirFunction
  BY WalkAlways, WalkRoutes, PTL

\* After enumeration a completion finds its requester, from the root complex and
\* from every other function, in every tree that can be built: none was left
\* without its bus number, and no two have the same id (enumerate_segment,
\* handle_config_0_tlp, downstream_recv, upstream_recv).
THEOREM CompletionsGoBack == EnumSpec => []CompletionsReturn
  BY WalkAlways, WalkReturns, PTL

\* The walk of every tree that can be built ends with every function found, once
\* and by the id that it still has; no two have the same (enumerate_segment).
THEOREM FindsAll == EnumSpec => []FoundOnce
  BY WalkAlways, WalkFinds, PTL
=============================================================================
