---------------------------- MODULE PcieEnum_proof ----------------------------
(***************************************************************************)
(* Proofs about PcieEnum for every tree: where the regions of host memory    *)
(* stay apart, and that the messages reserved for the functions do.         *)
(***************************************************************************)
EXTENDS PcieEnum, TLAPS

\* What alloc_region relies on: aligned addresses are behind the limit, and are
\* multiples of the alignment.
LEMMA DivMod ==
  ASSUME NEW a \in Nat, NEW b \in Nat \ {0}
  PROVE  /\ a \div b \in Nat
         /\ a = b * (a \div b) + (a % b) /\ a % b \in 0..(b - 1)
  OBVIOUS

\* AlignUp is not below the limit it rounds up.
LEMMA AlignUpBounds ==
  ASSUME NEW v \in Nat, NEW size \in Nat \ {0}
  PROVE  AlignUp(v, size) \in Nat /\ v <= AlignUp(v, size)
<1> DEFINE a == v + size - 1
           q == a \div size
           r == a % size
<1>1. a \in Nat
  OBVIOUS
<1>2. q \in Nat /\ a = size * q + r /\ r \in 0..(size - 1)
  BY <1>1, DivMod
<1>3. q * size \in Nat /\ q * size = size * q
  BY <1>2
<1>4. q * size = a - r
  BY <1>2, <1>3
<1> HIDE DEF q, r
<1>5. v <= q * size
  BY <1>2, <1>3, <1>4
<1> QED
  BY <1>3, <1>5 DEF AlignUp, q

\* A multiple of an even number is even: aligned regions start evenly.
LEMMA EvenMultiple ==
  ASSUME NEW q \in Nat, NEW size \in Nat, size % 2 = 0
  PROVE  (q * size) % 2 = 0
<1> DEFINE k == size \div 2
<1>1. k \in Nat /\ size = 2 * k
  OBVIOUS
<1> HIDE DEF k
<1>2. q * size = 2 * (q * k) /\ q * k \in Nat
  BY <1>1
<1> DEFINE m == q * k
<1>3. m \in Nat /\ q * size = 2 * m
  BY <1>2
<1> HIDE DEF m
<1>4. (2 * m) % 2 = 0
  BY <1>3
<1> QED
  BY <1>3, <1>4

\* The address of a new region is past the limit, and even but for a size of 1.
LEMMA RegionAtBounds ==
  ASSUME NEW home, rlimit[home] \in Nat, NEW size \in Sizes \cup {MsiSize}
  PROVE  /\ RegionAt(home, size) \in Nat /\ rlimit[home] <= RegionAt(home, size)
         /\ size > 1 => RegionAt(home, size) % 2 = 0
<1> DEFINE d == DecodedSize(size)
           v == rlimit[home]
           q == (v + d - 1) \div d
<1>1. d \in Nat \ {0} /\ (size > 1 => d % 2 = 0)
  BY SizeAssumption
<1> HIDE DEF d
<1>2. AlignUp(v, d) \in Nat /\ v <= AlignUp(v, d)
  BY <1>1, AlignUpBounds
<1>3. v + d - 1 \in Nat
  BY <1>1
<1>4. q \in Nat
  BY <1>1, <1>3, DivMod
<1>5. size > 1 => AlignUp(v, d) % 2 = 0
  BY <1>1, <1>4, EvenMultiple DEF AlignUp
<1> QED
  BY <1>2, <1>5 DEF RegionAt, d

\* An even size from an even address on ends at an odd one.
LEMMA OddLast ==
  ASSUME NEW addr \in Nat, NEW size \in Nat \ {0}, addr % 2 = 0, size % 2 = 0
  PROVE  (addr + size - 1) % 2 = 1
  OBVIOUS

(***************************************************************************)
(* Regions.  The regions of a home lie one behind the other, each beginning *)
(* at the last address of the one before it or behind it; the limit is that *)
(* of the last one.  All but those of a single address begin evenly, so one *)
(* of an even size ends oddly, and nothing but a single address is put on   *)
(* its end.                                                                 *)
(***************************************************************************)
Region == [addr : Nat, size : Nat \ {0}]
RegionType ==
  /\ regions \in [Homes -> Seq(Region)]
  /\ rlimit \in [Homes -> Nat]
RegionOrder ==
  \A h \in Homes :
    /\ regions[h] # <<>> => rlimit[h] = LastAddr(regions[h][Len(regions[h])])
    /\ \A i, j \in DOMAIN regions[h] : i < j => LastAddr(regions[h][i]) <= regions[h][j].addr
RegionParity ==
  \A h \in Homes : \A i \in DOMAIN regions[h] :
    /\ regions[h][i].size > 1 => regions[h][i].addr % 2 = 0
    /\ i > 1 /\ regions[h][i].size > 1 /\ regions[h][i - 1].size % 2 = 0
         => LastAddr(regions[h][i - 1]) # regions[h][i].addr
RegionInv == RegionType /\ RegionOrder /\ RegionParity

\* The region that a call of alloc_region or alloc_io_region puts behind all
\* others of its space.
LEMMA Allocated ==
  ASSUME RegionInv, NEW home \in Homes, NEW size \in Sizes \cup {MsiSize}, Alloc(home, size),
         NEW r, r = [addr |-> RegionAt(home, size), size |-> size]
  PROVE  /\ r \in Region /\ LastAddr(r) \in Nat
         /\ rlimit[home] <= r.addr /\ (r.size > 1 => r.addr % 2 = 0)
         /\ regions' = [regions EXCEPT ![home] = Append(regions[home], r)]
         /\ rlimit' = [rlimit EXCEPT ![home] = LastAddr(r)]
<1>1. size \in Nat \ {0}
  BY SizeAssumption
<1> DEFINE addr == RegionAt(home, size)
<1>2. addr \in Nat /\ rlimit[home] <= addr /\ (size > 1 => addr % 2 = 0)
  BY RegionAtBounds DEF RegionInv, RegionType
<1>3. /\ regions' = [regions EXCEPT ![home] = Append(regions[home], r)]
      /\ rlimit' = [rlimit EXCEPT ![home] = addr + size - 1]
  BY DEF Alloc
<1> HIDE DEF addr
<1>4. r.addr = addr /\ r.size = size /\ r \in Region
  BY <1>1, <1>2 DEF addr, Region
<1>5. LastAddr(r) = addr + size - 1 /\ LastAddr(r) \in Nat
  BY <1>1, <1>2, <1>4 DEF LastAddr
<1> QED
  BY <1>2, <1>3, <1>4, <1>5

\* What the regions of the space are after it.
LEMMA AppendedRegions ==
  ASSUME RegionType, NEW home \in Homes, NEW r \in Region,
         regions' = [regions EXCEPT ![home] = Append(regions[home], r)]
  PROVE  /\ regions' \in [Homes -> Seq(Region)]
         /\ \A h \in Homes : h # home => regions'[h] = regions[h]
         /\ Len(regions'[home]) = Len(regions[home]) + 1
         /\ DOMAIN regions[home] = 1..Len(regions[home]) /\ Len(regions[home]) \in Nat
         /\ DOMAIN regions'[home] = 1..(Len(regions[home]) + 1)
         /\ regions'[home][Len(regions[home]) + 1] = r
         /\ \A i \in 1..Len(regions[home]) :
              regions[home][i] \in Region /\ regions'[home][i] = regions[home][i]
<1> DEFINE s == regions[home]
           t == regions'[home]
<1>1. s \in Seq(Region) /\ regions \in [Homes -> Seq(Region)]
  BY DEF RegionType
<1>2. t = Append(s, r)
  BY <1>1
<1>3. Append(s, r) \in Seq(Region)
  BY <1>1
<1>4. /\ regions' \in [Homes -> Seq(Region)]
      /\ \A h \in Homes : h # home => regions'[h] = regions[h]
  BY <1>1, <1>3
<1> HIDE DEF s, t
<1>5. /\ Len(t) = Len(s) + 1
      /\ DOMAIN s = 1..Len(s) /\ Len(s) \in Nat /\ DOMAIN t = 1..(Len(s) + 1)
      /\ t[Len(s) + 1] = r
  BY <1>1, <1>2
<1>6. \A i \in 1..Len(s) : s[i] \in Region /\ t[i] = s[i]
  BY <1>1, <1>2
<1> QED
  BY <1>4, <1>5, <1>6 DEF s, t

\* The first and the last address of a region.
LEMMA RegionNumbers ==
  \A region \in Region :
    region.addr \in Nat /\ LastAddr(region) \in Nat /\ region.addr <= LastAddr(region)
BY DEF Region, LastAddr

\* A call of alloc_region or alloc_io_region keeps what is known of regions.
LEMMA AllocKeepsRegionInv ==
  ASSUME RegionInv, NEW home \in Homes, NEW size \in Sizes \cup {MsiSize}, Alloc(home, size)
  PROVE  RegionInv'
<1> DEFINE made == [addr |-> RegionAt(home, size), size |-> size]
           n == Len(regions[home])
<1>1. PICK r : r = made
  OBVIOUS
<1>2. /\ r \in Region /\ LastAddr(r) \in Nat
      /\ rlimit[home] <= r.addr /\ (r.size > 1 => r.addr % 2 = 0)
      /\ regions' = [regions EXCEPT ![home] = Append(regions[home], r)]
      /\ rlimit' = [rlimit EXCEPT ![home] = LastAddr(r)]
  BY <1>1, Allocated
<1>3. RegionType /\ RegionOrder /\ RegionParity /\ rlimit[home] \in Nat
  BY DEF RegionInv, RegionType
<1>4. /\ regions' \in [Homes -> Seq(Region)]
      /\ \A h \in Homes : h # home => regions'[h] = regions[h]
      /\ Len(regions'[home]) = n + 1
      /\ DOMAIN regions[home] = 1..n /\ n \in Nat
      /\ DOMAIN regions'[home] = 1..(n + 1)
      /\ regions'[home][n + 1] = r
      /\ \A i \in 1..n : regions[home][i] \in Region /\ regions'[home][i] = regions[home][i]
  BY <1>2, <1>3, AppendedRegions
<1>5. rlimit' \in [Homes -> Nat] /\ rlimit'[home] = LastAddr(r)
      /\ \A h \in Homes : h # home => rlimit'[h] = rlimit[h]
  BY <1>2, <1>3 DEF RegionType
<1>6. RegionType'
  BY <1>4, <1>5 DEF RegionType
\* All that was there ends at the limit or before it.
<1>7. ASSUME NEW i \in 1..n
      PROVE  LastAddr(regions[home][i]) <= r.addr
  <2>1. i = n \/ LastAddr(regions[home][i]) <= regions[home][n].addr
    BY <1>3, <1>4 DEF RegionOrder
  <2>2. rlimit[home] = LastAddr(regions[home][n])
    BY <1>3, <1>4 DEF RegionOrder
  <2>3. regions[home][i] \in Region /\ regions[home][n] \in Region
    BY <1>4
  <2>4. r \in Region /\ rlimit[home] \in Nat
    BY <1>2, <1>3
  <2>5. /\ LastAddr(regions[home][i]) \in Int /\ LastAddr(regions[home][n]) \in Int
        /\ regions[home][n].addr \in Int /\ r.addr \in Int /\ rlimit[home] \in Int
        /\ regions[home][n].addr <= LastAddr(regions[home][n])
    BY <2>3, <2>4, RegionNumbers
  <2>6. rlimit[home] <= r.addr
    BY <1>2
  <2> QED
    BY <2>1, <2>2, <2>5, <2>6
<1>8. ASSUME NEW h \in Homes
      PROVE  /\ regions'[h] # <<>> => rlimit'[h] = LastAddr(regions'[h][Len(regions'[h])])
             /\ \A i, j \in DOMAIN regions'[h] :
                  i < j => LastAddr(regions'[h][i]) <= regions'[h][j].addr
  <2>1. CASE h # home
    BY <1>3, <1>4, <1>5, <2>1 DEF RegionOrder
  <2>2. CASE h = home
    <3>1. ASSUME NEW i \in 1..(n + 1), NEW j \in 1..(n + 1), i < j
          PROVE  LastAddr(regions'[home][i]) <= regions'[home][j].addr
      <4>1. CASE j = n + 1
        BY <1>4, <1>7, <3>1, <4>1
      <4>2. CASE j # n + 1
        <5>1. i \in 1..n /\ j \in 1..n
          BY <1>4, <3>1, <4>2
        <5> QED
          BY <1>3, <1>4, <3>1, <5>1 DEF RegionOrder
      <4> QED
        BY <4>1, <4>2
    <3> QED
      BY <1>4, <1>5, <2>2, <3>1
  <2> QED
    BY <2>1, <2>2
<1>9. ASSUME NEW h \in Homes, NEW i \in DOMAIN regions'[h]
      PROVE  /\ regions'[h][i].size > 1 => regions'[h][i].addr % 2 = 0
             /\ i > 1 /\ regions'[h][i].size > 1 /\ regions'[h][i - 1].size % 2 = 0
                  => LastAddr(regions'[h][i - 1]) # regions'[h][i].addr
  <2>1. CASE h # home
    <3>1. regions'[h] = regions[h]
      BY <1>4, <2>1
    <3>2. /\ regions[h][i].size > 1 => regions[h][i].addr % 2 = 0
          /\ i > 1 /\ regions[h][i].size > 1 /\ regions[h][i - 1].size % 2 = 0
               => LastAddr(regions[h][i - 1]) # regions[h][i].addr
      BY <1>3, <1>9, <3>1 DEF RegionParity
    <3> QED
      BY <3>1, <3>2
  <2>2. CASE h = home /\ i \in 1..n
    <3>1. i > 1 => i - 1 \in 1..n
      BY <1>4, <2>2
    <3> QED
      BY <1>3, <1>4, <2>2, <3>1 DEF RegionParity
  <2>3. CASE h = home /\ i = n + 1
    <3>a. /\ regions'[home][i] = r
          /\ i > 1 => n \in 1..n /\ i - 1 = n /\ regions'[home][i - 1] = regions[home][n]
      BY <1>4, <2>3
    <3> SUFFICES ASSUME i > 1, r.size > 1, regions[home][n].size % 2 = 0
                 PROVE  LastAddr(regions[home][n]) # r.addr
      BY <1>2, <2>3, <3>a
    <3> DEFINE last == regions[home][n]
    <3>1. n \in 1..n /\ last \in Region
      BY <1>4, <3>a
    <3>2. last.size > 1 /\ last.size \in Nat \ {0} /\ last.addr \in Nat
      BY <3>1 DEF Region
    <3>3. last.addr % 2 = 0
      BY <1>3, <1>4, <3>1, <3>2 DEF RegionParity
    <3>4. LastAddr(last) % 2 = 1
      BY <3>2, <3>3, OddLast DEF LastAddr
    <3> QED
      BY <1>2, <3>4
  <2> QED
    BY <1>4, <1>9, <2>1, <2>2, <2>3
<1> QED
  BY <1>6, <1>8, <1>9 DEF RegionInv, RegionOrder, RegionParity

\* There are no regions at first, and the limits are 0.
LEMMA RegionInvInit == EnumInit => RegionInv
  BY DEF EnumInit, RegionInv, RegionType, RegionOrder, RegionParity, Region, Homes

\* The regions of a step that leaves them alone.
LEMMA SameRegionsKeep ==
  ASSUME RegionInv, UNCHANGED hostVars
  PROVE  RegionInv'
  BY DEF RegionInv, RegionType, RegionOrder, RegionParity, hostVars

\* configure_msi allocates the region of the messages like any other.
LEMMA MessageRegionKeeps ==
  ASSUME RegionInv, MessageRegion
  PROVE  RegionInv'
<1>1. CASE Alloc("mem", MsiSize)
  BY <1>1, AllocKeepsRegionInv DEF Homes
<1> QED
  BY <1>1, SameRegionsKeep DEF MessageRegion

\* Only allocations and configure_msi touch the regions.
LEMMA RegionInvNext == RegionInv /\ [EnumNext]_enumVars => RegionInv'
<1> SUFFICES ASSUME RegionInv, [EnumNext]_enumVars
             PROVE  RegionInv'
  OBVIOUS
<1>1. CASE UNCHANGED hostVars
  BY <1>1, SameRegionsKeep
<1>2. ASSUME NEW size \in Sizes, AllocRegion(size)
      PROVE  RegionInv'
  BY <1>2, AllocKeepsRegionInv DEF AllocRegion, Homes
<1>3. ASSUME NEW size \in Sizes, AllocIoRegion(size)
      PROVE  RegionInv'
  BY <1>3, AllocKeepsRegionInv DEF AllocIoRegion, Homes
<1>4. CASE SetUpFunction
  BY <1>4, MessageRegionKeeps DEF SetUpFunction
<1>5. CASE Enumerate \/ ProbeDevice \/ ProbeFunction \/ ConfigureBar \/ StartWalk
           \/ WalkCapability \/ OpenBridge \/ CloseBridge \/ Finish
  BY <1>1, <1>5 DEF Enumerate, ProbeDevice, ProbeFunction, ConfigureBar, StartWalk,
     WalkCapability, OpenBridge, CloseBridge, Finish
<1>6. CASE UNCHANGED enumVars
  BY <1>1, <1>6 DEF enumVars
<1> QED
  BY <1>2, <1>3, <1>4, <1>5, <1>6 DEF EnumNext

\* An address of a region that an earlier one holds as well is its first, and
\* the last of the one before it.
LEMMA SharedAddress ==
  ASSUME RegionInv, NEW h \in Homes, NEW i \in DOMAIN regions[h], NEW j \in DOMAIN regions[h],
         j < i, NEW a \in regions[h][i].addr..LastAddr(regions[h][i]), Holds(regions[h][j], a)
  PROVE  a = regions[h][i].addr /\ Abuts(h, i)
<1>1. RegionType /\ RegionOrder /\ RegionParity
  BY DEF RegionInv
<1>2. regions[h] \in Seq(Region) /\ i \in Nat /\ j \in Nat \ {0}
  BY <1>1 DEF RegionType
<1>3. i > 1 /\ i - 1 \in DOMAIN regions[h]
  BY <1>2
<1> DEFINE ri == regions[h][i]
           rj == regions[h][j]
           rp == regions[h][i - 1]
<1>4. ri \in Region /\ rj \in Region /\ rp \in Region
  BY <1>2, <1>3
<1>5. LastAddr(rj) <= ri.addr /\ LastAddr(rp) <= ri.addr
  BY <1>1, <1>2, <1>3 DEF RegionOrder
<1>6. j = i - 1 \/ LastAddr(rj) <= rp.addr
  BY <1>1, <1>2, <1>3 DEF RegionOrder
<1>7. (ri.size > 1 /\ rp.size % 2 = 0) => LastAddr(rp) # ri.addr
  BY <1>1, <1>3 DEF RegionParity
<1> HIDE DEF ri, rj, rp
<1>8. /\ ri.addr \in Nat /\ ri.size \in Nat \ {0} /\ rj.addr \in Nat /\ rj.size \in Nat \ {0}
      /\ rp.addr \in Nat /\ rp.size \in Nat \ {0}
  BY <1>4 DEF Region
<1>9. a \in Int /\ ri.addr <= a /\ a <= LastAddr(rj)
  BY <1>8 DEF Holds, LastAddr, ri, rj
<1>10. a = ri.addr /\ LastAddr(rj) = a
  BY <1>5, <1>8, <1>9 DEF LastAddr
<1>11. LastAddr(rp) = ri.addr
  <2>1. CASE j = i - 1
    BY <1>10, <2>1 DEF rj, rp
  <2>2. CASE LastAddr(rj) <= rp.addr
    BY <1>5, <1>8, <1>10, <2>2 DEF LastAddr
  <2> QED
    BY <1>6, <2>1, <2>2
<1>12. ri.size = 1 \/ rp.size % 2 = 1
  BY <1>7, <1>8, <1>11
<1> QED
  BY <1>3, <1>10, <1>11, <1>12 DEF Abuts, ri, rp

\* The search finds the region of an address that no earlier one holds.
LEMMA RegionInvApart == RegionInv => RegionsApart
<1> SUFFICES ASSUME RegionInv, NEW h \in Homes, NEW i \in DOMAIN regions[h],
                    NEW a \in regions[h][i].addr..LastAddr(regions[h][i]),
                    ~(a = regions[h][i].addr /\ Abuts(h, i))
             PROVE  FindRegion(h, a) = i
  BY DEF RegionsApart
<1>1. regions[h] \in Seq(Region)
  BY DEF RegionInv, RegionType
<1>2. DOMAIN regions[h] \subseteq Nat /\ regions[h][i] \in Region
  BY <1>1
<1> DEFINE S == {k \in DOMAIN regions[h] : Holds(regions[h][k], a)}
<1>3. i \in S
  BY <1>2 DEF Holds, LastAddr, Region
<1>4. \A k \in S : i <= k
  <2> SUFFICES ASSUME NEW k \in S, ~(i <= k)
               PROVE  FALSE
    OBVIOUS
  <2>1. k \in DOMAIN regions[h] /\ k < i
    BY <1>2
  <2> QED
    BY <2>1, SharedAddress
<1>5. S \subseteq Int
  BY <1>2
<1> HIDE DEF S
<1>6. \A x \in S : (\A y \in S : x <= y) => x = i
  BY <1>3, <1>4, <1>5
<1>7. Min(S) = i
  BY <1>3, <1>4, <1>6 DEF Min
<1> QED
  BY <1>3, <1>7 DEF FindRegion, First, S

\* Requests to a region are never taken for another's: whatever regions
\* alloc_region, alloc_io_region and configure_msi hand out, of any size, an
\* address of one is in an earlier one only if it is its first, and the last of
\* the region before it, which has an odd size if the new one has not size 1.
THEOREM RegionsStayApart == EnumSpec => []RegionsApart
<1>1. RegionInv => RegionsApart
  BY RegionInvApart
<1> QED
  BY <1>1, RegionInvInit, RegionInvNext, PTL DEF EnumSpec

(***************************************************************************)
(* Messages.  The messages of a function are below the limit, and those of  *)
(* two functions one behind the other, however the tree is walked and       *)
(* whichever function a request is routed to.                               *)
(***************************************************************************)
MessageInv ==
  /\ tree.n \in Nat /\ DOMAIN regs = 0..tree.n
  /\ msiLimit \in Nat
  /\ \A f \in Fun :
       /\ "msi" \in DOMAIN regs[f]
       /\ HasMessages(f) => regs[f].msi \in Nat /\ regs[f].msi + Vectors <= msiLimit
  /\ \A f, g \in Fun : f # g /\ HasMessages(f) /\ HasMessages(g) =>
       regs[f].msi + Vectors <= regs[g].msi \/ regs[g].msi + Vectors <= regs[f].msi

\* At first no function has messages.
LEMMA MessageInvInit == EnumInit => MessageInv
<1> SUFFICES ASSUME EnumInit
             PROVE  MessageInv
  OBVIOUS
<1>1. tree.n \in Nat
  BY TreeAssumption DEF EnumInit, WellBuilt
<1> QED
  BY <1>1, EnumAssumption DEF EnumInit, MessageInv, NewFunction, HostBridge, Fun, HasMessages

\* What a step leaves alone that gives no messages to a function.
SameMessages ==
  /\ tree' = tree /\ msiLimit' = msiLimit /\ DOMAIN regs' = DOMAIN regs
  /\ \A f \in Fun : DOMAIN regs'[f] = DOMAIN regs[f] /\ regs'[f].msi = regs[f].msi

\* Every step but configure_msi leaves the messages as they are.
LEMMA SameMessagesKeeps ==
  ASSUME MessageInv, SameMessages
  PROVE  MessageInv'
  BY DEF MessageInv, SameMessages, Fun, HasMessages

\* configure_msi gives the function at hand messages behind all those given
\* before, even if it has some already.
LEMMA SetUpFunctionKeeps ==
  ASSUME MessageInv, SetUpFunction
  PROVE  MessageInv'
<1> DEFINE t == Target
           msi == CapOffset(t, "MSI") # 0
<1>1. /\ t \in Fun
      /\ regs' = [regs EXCEPT ![t].master = TRUE, ![t].msi = IF msi THEN msiLimit ELSE @]
      /\ msiLimit' = IF msi THEN msiLimit + Vectors ELSE msiLimit
      /\ tree' = tree
  BY DEF SetUpFunction, Answered
<1> HIDE DEF t, msi
<1>2. Vectors \in Nat \ {0}
  BY EnumAssumption
<1>3. t \in DOMAIN regs /\ "msi" \in DOMAIN regs[t]
  BY <1>1 DEF MessageInv, Fun
<1>4. /\ DOMAIN regs' = DOMAIN regs /\ Fun' = Fun
      /\ \A f \in Fun : DOMAIN regs'[f] = DOMAIN regs[f]
      /\ \A f \in Fun : f # t => regs'[f].msi = regs[f].msi
      /\ regs'[t].msi = IF msi THEN msiLimit ELSE regs[t].msi
  BY <1>1, <1>3 DEF MessageInv, Fun
<1>5. CASE ~msi
  BY <1>1, <1>4, <1>5, SameMessagesKeeps DEF SameMessages
<1>6. CASE msi
  <2>1. msiLimit' \in Nat /\ msiLimit' = msiLimit + Vectors
    BY <1>1, <1>2, <1>6 DEF MessageInv
  <2>2. ASSUME NEW f \in Fun, HasMessages(f)'
        PROVE  regs'[f].msi \in Nat /\ regs'[f].msi + Vectors <= msiLimit'
    BY <1>2, <1>4, <1>6, <2>1, <2>2 DEF MessageInv, HasMessages
  <2>3. ASSUME NEW f \in Fun, NEW g \in Fun, f # g, HasMessages(f)', HasMessages(g)'
        PROVE  regs'[f].msi + Vectors <= regs'[g].msi \/ regs'[g].msi + Vectors <= regs'[f].msi
    <3>1. CASE f = t
      BY <1>4, <1>6, <2>3, <3>1 DEF MessageInv, HasMessages
    <3>2. CASE g = t
      BY <1>4, <1>6, <2>3, <3>2 DEF MessageInv, HasMessages
    <3>3. CASE f # t /\ g # t
      BY <1>4, <2>3, <3>3 DEF MessageInv, HasMessages
    <3> QED
      BY <3>1, <3>2, <3>3
  <2> QED
    BY <1>1, <1>4, <2>1, <2>2, <2>3 DEF MessageInv
<1> QED
  BY <1>5, <1>6

\* No step of enumeration makes messages overlap.
LEMMA MessageInvNext == MessageInv /\ [EnumNext]_enumVars => MessageInv'
<1> SUFFICES ASSUME MessageInv, [EnumNext]_enumVars
             PROVE  MessageInv'
  OBVIOUS
<1>1. ASSUME UNCHANGED <<tree, regs, msiLimit>>
      PROVE  MessageInv'
  BY <1>1, SameMessagesKeeps DEF SameMessages, Fun
<1>2. CASE \/ Enumerate \/ StartWalk \/ WalkCapability
           \/ \E size \in Sizes : AllocRegion(size) \/ AllocIoRegion(size)
  BY <1>1, <1>2 DEF Enumerate, StartWalk, WalkCapability, AllocRegion, AllocIoRegion
<1>3. ASSUME regs' = Captured(Target), UNCHANGED <<tree, msiLimit>>
      PROVE  MessageInv'
  <2>1. DOMAIN regs' = 0..tree.n /\ DOMAIN regs' = DOMAIN regs
    BY <1>3 DEF Captured, MessageInv
  <2>2. ASSUME NEW f \in Fun
        PROVE  DOMAIN regs'[f] = DOMAIN regs[f] /\ regs'[f].msi = regs[f].msi
    <3>1. f \in 0..tree.n /\ "msi" \in DOMAIN regs[f]
      BY DEF Fun, MessageInv
    <3>2. regs'[f] = regs[f] \/ regs'[f] = [regs[f] EXCEPT !.bus = Bus]
      BY <1>3, <3>1 DEF Captured
    <3> QED
      BY <3>1, <3>2
  <2>3. SameMessages
    BY <1>3, <2>1, <2>2 DEF SameMessages
  <2> QED
    BY <2>3, SameMessagesKeeps
<1>4. CASE ProbeDevice
  BY <1>1, <1>3, <1>4 DEF ProbeDevice
<1>5. CASE ProbeFunction
  BY <1>1, <1>3, <1>5 DEF ProbeFunction
<1>6. CASE ConfigureBar
  <2>1. SameMessages
    BY <1>6 DEF ConfigureBar, SameMessages, MessageInv, Answered, Fun
  <2> QED
    BY <2>1, SameMessagesKeeps
<1>7. CASE OpenBridge
  <2>1. SameMessages
    BY <1>7 DEF OpenBridge, SameMessages, MessageInv, Answered, Fun
  <2> QED
    BY <2>1, SameMessagesKeeps
<1>8. CASE CloseBridge
  <2>1. SameMessages
    BY <1>8 DEF CloseBridge, SameMessages, MessageInv, Answered, Fun
  <2> QED
    BY <2>1, SameMessagesKeeps
<1>9. CASE Finish
  <2>1. SameMessages
    BY <1>9 DEF Finish, SameMessages, MessageInv, Fun
  <2> QED
    BY <2>1, SameMessagesKeeps
<1>10. CASE SetUpFunction
  BY <1>10, SetUpFunctionKeeps
<1>11. CASE UNCHANGED enumVars
  BY <1>1, <1>11 DEF enumVars
<1> QED
  BY <1>2, <1>4, <1>5, <1>6, <1>7, <1>8, <1>9, <1>10, <1>11 DEF EnumNext

\* Ranges of messages that are one behind the other have no number in common.
LEMMA MessageInvApart == MessageInv => MessagesApart
<1> SUFFICES ASSUME MessageInv, NEW f \in Fun, NEW g \in Fun, f # g, HasMessages(f), HasMessages(g),
                    NEW j \in 0..(Vectors - 1), NEW k \in 0..(Vectors - 1)
             PROVE  Message(f, j) # Message(g, k)
  BY DEF MessagesApart
<1>1. regs[f].msi \in Nat /\ regs[g].msi \in Nat /\ Vectors \in Nat
  BY EnumAssumption DEF MessageInv
<1>2. regs[f].msi + Vectors <= regs[g].msi \/ regs[g].msi + Vectors <= regs[f].msi
  BY DEF MessageInv
<1> QED
  BY <1>1, <1>2 DEF Message

\* The interrupts of two functions are never taken for one another's: of the
\* messages that configure_msi reserves no two functions share one.
THEOREM MessagesStayApart == EnumSpec => []MessagesApart
<1>1. MessageInv => MessagesApart
  BY MessageInvApart
<1> QED
  BY <1>1, MessageInvInit, MessageInvNext, PTL DEF EnumSpec
===============================================================================
