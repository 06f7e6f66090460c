------------------------------- MODULE PcieEnum -------------------------------
(***************************************************************************)
(* Enumeration of a PCI Express tree by RootComplex.enumerate in            *)
(* fpga/lib/pcie/tb/pcie.py, and the routing of TLPs by what it wrote: the  *)
(* host bridge, root ports, switches and multi-function devices with their  *)
(* bus numbers, base address registers, capability lists and forwarding     *)
(* windows.                                                                 *)
(*                                                                         *)
(* Every configuration request is routed by the registers as they are at    *)
(* that moment and acts on the function it arrives at.  Function 0 is the   *)
(* host bridge; a function is numbered higher than the bridge above it.     *)
(* Memory and IO addresses are numbers in units of the smallest BAR.        *)
(***************************************************************************)
EXTENDS Integers, Sequences, SequencesExt, FiniteSets, FiniteSetsExt

CONSTANTS
  Trees,    \* bound: the interconnects that may be connected
  LastDev,  \* bound: highest device number probed on a bus (31)
  LastFn,   \* bound: highest function number of a device (7)
  LastBus,  \* the subordinate number of a bridge being enumerated (255)
  Granule,  \* granularity of the forwarding windows
  Word,     \* addresses that 32 bits can name
  Vectors,  \* MSI messages reserved for a function (32)
  Base,     \* first address for each kind of BAR
  Sizes,    \* bound: sizes of the regions of host memory that users ask for
  Early(_), \* bound: regions they ask for, with a tree, before enumeration,
  Late(_),  \* and altogether
  MsiSize   \* size of the region that takes the messages (4)

Spaces == {"io", "mem", "pref"}
Homes == {"io", "mem"}

ASSUME EnumAssumption ==
  /\ LastDev \in Nat /\ LastFn \in Nat /\ LastBus \in Nat \ {0}
  /\ Granule \in Nat \ {0} /\ Word \in Nat \ {0} /\ Vectors \in Nat \ {0}
  /\ Base \in [Spaces -> Nat] /\ \A s \in Spaces : Base[s] % Granule = 0
  /\ \A t \in Trees : Early(t) \in Nat /\ Late(t) \in Nat

(***************************************************************************)
(* A tree: functions 1..n, the bridge above each (up), its kind -- "port"   *)
(* is a root port or a downstream port of a switch, "switch" the upstream   *)
(* port of one, "ep" a function of a device -- its device and function      *)
(* numbers, its BARs (size, address space, 64-bit or not), whether it is    *)
(* one of several functions, and the capabilities it registers, in order.   *)
(***************************************************************************)
VARIABLES
  tree,     \* the interconnect
  regs,     \* configuration registers
  lim,      \* RootComplex.io_limit, mem_limit, prefetchable_mem_limit
  stack,    \* activations of enumerate_segment, the innermost first
  found,    \* ids in RootComplex.tree, and the function that answered
  items,    \* TreeItem.capabilities of the functions found
  msiLimit, \* msi_msg_limit
  regions,  \* RootComplex.regions and io_regions, by address and size
  rlimit,   \* region_limit and io_region_limit
  msiAddr,  \* RootComplex.msi_addr, -1 before there is one
  phase     \* before, during or after enumerate
hostVars == <<regions, rlimit, msiAddr>>
enumVars == <<tree, regs, lim, stack, found, items, msiLimit, hostVars, phase>>

Fun == 1..tree.n
Bridges == {f \in Fun : tree.kind[f] # "ep"}
Kids(b) == {f \in Fun : tree.up[f] = b}
IsRouter(b) == b = 0 \/ tree.kind[b] = "switch"
\* The port b leads to a switch.
ToSwitch(b) == ~IsRouter(b) /\ \E k \in Kids(b) : tree.kind[k] = "switch"
\* To send through a port that nothing is connected to raises an exception.
Unconnected(b) == ~IsRouter(b) /\ Kids(b) = {}
First(S) == IF S = {} THEN 0 ELSE Min(S)

Id(bus, dev, fn) == <<bus, dev, fn>>
IdOf(f) == Id(regs[f].bus, tree.dev[f], tree.fn[f])
InRange(b, bus) == regs[b].sec <= bus /\ bus <= regs[b].sub

AlignUp(v, size) == ((v + size - 1) \div size) * size
\* configure_bar rounds a size up to a power of two.
DecodedSize(size) == Min({s \in {2^k : k \in 0..size} : s >= size})
\* A region has any size but 0; what is said of the power of two above a size is
\* arithmetic, and true of every size.
ASSUME SizeAssumption ==
  \A size \in Sizes \cup {MsiSize} :
    /\ size \in Nat \ {0}
    /\ DecodedSize(size) \in Nat \ {0}
    /\ size > 1 => DecodedSize(size) % 2 = 0
\* Of ones written to a BAR the function keeps those above the size.
SizeRead(f, i) == DecodedSize(tree.bars[f][i].size)

(***************************************************************************)
(* Building of a tree, call by call.                                        *)
(***************************************************************************)
NoTree == [n |-> 0, up |-> <<>>, kind |-> <<>>, dev |-> <<>>, fn |-> <<>>, multi |-> <<>>]
Connected(t, b) == {f \in 1..t.n : t.up[f] = b}
With(t, b, kind, dev, fn) ==
  [n |-> t.n + 1, up |-> Append(t.up, b), kind |-> Append(t.kind, kind),
   dev |-> Append(t.dev, dev), fn |-> Append(t.fn, fn), multi |-> Append(t.multi, FALSE)]
\* A port takes the next device number of its bus ...
FreeDevice(t, b) == Min((1..LastDev) \ {t.dev[f] : f \in Connected(t, b)})
MakePort(t, b) == With(t, b, "port", FreeDevice(t, b), 0)
ConnectSwitch(t, port) == With(t, port, "switch", 0, 0)
\* ... and a function the next number of its device, all of whose functions
\* then say that they are one of several.
FreeFunction(t, port) == Min((0..LastFn) \ {t.fn[f] : f \in Connected(t, port)})
AppendFunction(t, port) ==
  LET u == With(t, port, "ep", 0, FreeFunction(t, port))
      all == Connected(u, port)
  IN [u EXCEPT !.multi = [f \in 1..u.n |-> IF f \in all THEN Cardinality(all) > 1 ELSE @[f]]]

\* Every device has a function 0, which says whether there are others.
HasFunctionZero(t) ==
  \A f \in 1..t.n : \E g \in 1..t.n : /\ t.up[g] = t.up[f] /\ t.dev[g] = t.dev[f] /\ t.fn[g] = 0
                                      /\ f # g => t.multi[g]
\* What these calls build: a function is numbered behind the bridge above it and
\* has a place of its own there, device 0 of bus 0 is the host bridge itself,
\* and there is a bus number for every bridge.
WellBuilt(t) ==
  LET fun == 1..t.n IN
  /\ t.n \in Nat
  /\ t.up \in [fun -> 0..t.n] /\ t.kind \in [fun -> {"port", "switch", "ep"}]
  /\ t.dev \in [fun -> 0..LastDev] /\ t.fn \in [fun -> 0..LastFn] /\ t.multi \in [fun -> BOOLEAN]
  /\ t.bars \in [fun -> Seq([space : Spaces, wide : BOOLEAN, size : Nat])]
  /\ \A f \in fun : \A i \in DOMAIN t.bars[f] : DecodedSize(t.bars[f][i].size) \in Nat \ {0}
  /\ \A f \in fun : IF t.up[f] = 0 THEN t.dev[f] # 0 ELSE t.up[f] < f /\ t.kind[t.up[f]] # "ep"
  /\ \A f, g \in fun : t.up[f] = t.up[g] /\ t.dev[f] = t.dev[g] /\ t.fn[f] = t.fn[g] => f = g
  /\ HasFunctionZero(t)
  /\ Cardinality({f \in fun : t.kind[f] # "ep"}) <= LastBus
ASSUME TreeAssumption == \A t \in Trees : WellBuilt(t)

(***************************************************************************)
(* Routing.  The result is the function that takes the TLP, or UR when an   *)
(* unsupported-request completion is sent, Lost when nobody answers, Failed *)
(* when an exception is raised, RC when it gets to the root complex.        *)
(***************************************************************************)
UR == -1
Lost == -2
Failed == -3
RC == -4

\* A configuration request that has entered bridge b: it becomes type 0 when
\* its bus is the secondary bus of b.
Type0(id, b) == id[1] = regs[b].sec
CfgHits(id, b) ==
  {k \in Kids(b) : IF Type0(id, b) THEN <<tree.dev[k], tree.fn[k]>> = <<id[2], id[3]>>
                                   ELSE tree.kind[k] # "ep" /\ InRange(k, id[1])}
CfgStep(id, down, b) ==
  LET k == First(CfgHits(id, b)) IN
  IF CfgHits(id, b) # {} THEN IF Type0(id, b) THEN k ELSE down[k]
  ELSE IF ToSwitch(b) THEN Lost
  ELSE IF IsRouter(b) \/ (Type0(id, b) /\ ~Unconnected(b)) THEN UR ELSE Failed
CfgDown(id) == LET down[b \in 0..tree.n] == CfgStep(id, down, b) IN down[0]

BarsOf(f, io) == {i \in DOMAIN tree.bars[f] : (tree.bars[f][i].space = "io") = io}
MatchBar(f, addr, io) ==
  \E i \in BarsOf(f, io) :
    LET bar == tree.bars[f][i]
        size == DecodedSize(bar.size)
    IN (IF bar.wide THEN addr ELSE addr % Word) \div size = regs[f].bar[i] \div size

Within(w, addr) == w.base <= addr /\ addr <= w.limit
Forwards(b, addr, io) ==
  IF io THEN Within(regs[b].win["io"], addr)
        ELSE Within(regs[b].win["mem"], addr) \/ Within(regs[b].win["pref"], addr)

\* A memory or IO request on the secondary side of bridge b.
MemDown(addr, io) ==
  LET takes(f) == MatchBar(f, addr, io)
      hit(b) == {k \in Kids(b) : takes(k) \/ (tree.kind[k] # "ep" /\ Forwards(k, addr, io))}
      down[b \in 0..tree.n] ==
        LET k == First(hit(b)) IN
        IF hit(b) # {} THEN IF takes(k) THEN k ELSE down[k]
        ELSE IF ToSwitch(b) THEN Lost ELSE IF Unconnected(b) THEN Failed ELSE UR
  IN down

\* A completion on the secondary side of bridge b, by the id of its requester.
CplHits(id, b) == {k \in Kids(b) : IdOf(k) = id \/ (tree.kind[k] # "ep" /\ InRange(k, id[1]))}
CplStep(id, down, b) ==
  LET k == First(CplHits(id, b)) IN
  IF CplHits(id, b) # {} THEN IF IdOf(k) = id THEN k ELSE down[k]
  ELSE IF Unconnected(b) THEN Failed ELSE Lost
CplDown(id) == LET down[b \in 0..tree.n] == CplStep(id, down, b) IN down

\* Requests and completions that a function sends climb until a bridge
\* forwards them down again.
MemUp(f, addr, io) ==
  LET climb[b \in 0..tree.n] ==
        IF b # 0 /\ MatchBar(b, addr, io) THEN b
        ELSE IF Forwards(b, addr, io) THEN MemDown(addr, io)[b]
        ELSE IF b = 0 THEN RC ELSE climb[tree.up[b]]
  IN climb[tree.up[f]]

RcId == Id(0, 0, 0)
\* Bug variant of CplUp: completions for the root complex are routed down again.
CplUpNotToRc(f, id) ==
  LET climb[b \in 0..tree.n] ==
        IF b # 0 /\ IdOf(b) = id THEN b
        ELSE IF ~InRange(b, id[1]) THEN IF b = 0 THEN RC ELSE climb[tree.up[b]]
        ELSE CplDown(id)[b]
  IN climb[tree.up[f]]
CplClimb(id, climb, b) ==
  IF b # 0 /\ IdOf(b) = id THEN b
  ELSE IF ~InRange(b, id[1]) THEN IF b = 0 THEN RC ELSE climb[tree.up[b]]
  ELSE IF b = 0 /\ id = RcId THEN RC ELSE CplDown(id)[b]
CplUp(f, id) ==
  LET climb[b \in 0..tree.n] == CplClimb(id, climb, b)
  IN climb[tree.up[f]]

MemFromRc(addr, io) == IF Forwards(0, addr, io) THEN MemDown(addr, io)[0] ELSE Lost

(***************************************************************************)
(* Regions of host memory and host IO space, one after the other.           *)
(***************************************************************************)
RegionAt(home, size) == AlignUp(rlimit[home], DecodedSize(size))
Holds(region, addr) == region.addr <= addr /\ addr < region.addr + region.size
\* The first region that holds the address, 0 if there is none.
FindRegion(home, addr) == First({i \in DOMAIN regions[home] : Holds(regions[home][i], addr)})

\* Bug variant of Alloc: the region is not aligned to its size.
AllocUnaligned(home, size) ==
  /\ regions' = [regions EXCEPT ![home] = Append(@, [addr |-> rlimit[home], size |-> size])]
  /\ rlimit' = [rlimit EXCEPT ![home] = rlimit[home] + size - 1]
\* The limit is the last address of the region, and the next region is aligned
\* to its own size.
Alloc(home, size) ==
  /\ regions' = [regions EXCEPT ![home] = Append(@, [addr |-> RegionAt(home, size), size |-> size])]
  /\ rlimit' = [rlimit EXCEPT ![home] = RegionAt(home, size) + size - 1]

Requested == Len(regions["mem"]) + Len(regions["io"])
MayAlloc == Requested < IF phase = "off" THEN Early(tree) ELSE Late(tree)
AllocRegion(size) ==
  /\ phase # "on" /\ MayAlloc /\ Alloc("mem", size)
  /\ UNCHANGED <<tree, regs, lim, stack, found, items, msiLimit, msiAddr, phase>>
AllocIoRegion(size) ==
  /\ phase # "on" /\ MayAlloc /\ Alloc("io", size)
  /\ UNCHANGED <<tree, regs, lim, stack, found, items, msiLimit, msiAddr, phase>>

(***************************************************************************)
(* Capabilities of a function: a set of ids with their registers (dwords),  *)
(* linked in the order of the registers.                                    *)
(***************************************************************************)
CapStart == 16
Overlap(c, d) == c.off <= d.off + d.len - 1 /\ d.off <= c.off + c.len - 1
ByOffset(list) == SetToSortSeq(list, LAMBDA c, d : c.off < d.off)
OwnersOf(list, reg) == {c \in list : c.off <= reg /\ reg < c.off + c.len}
Offsets(list) == {c.off : c \in list}

\* A capability that names no registers goes behind those in its way.
Placed(list, c) ==
  LET past(at, d) == IF d.off < at + c.len - 1 /\ at <= d.off + d.len - 1
                     THEN d.off + d.len ELSE at
  IN list \cup {[c EXCEPT !.off = FoldLeft(past, CapStart, ByOffset(list))]}

\* A capability of the same id is replaced, and keeps what r leaves open.
Updated(list, r) ==
  LET old == {c \in list : c.id = r.id} IN
  IF old = {} THEN r
  ELSE LET c == CHOOSE c \in old : TRUE
       IN [id |-> r.id, len |-> IF r.len = 0 THEN c.len ELSE r.len,
           off |-> IF r.off = 0 THEN c.off ELSE r.off]
\* Bug variant of Registered: the capabilities in the way stay where they are.
RegisteredOver(list, r) ==
  LET c == Updated(list, r)
      rest == {d \in list : d.id # r.id}
  IN IF c.off = 0 THEN Placed(rest, c) ELSE rest \cup {c}
\* One that names its registers gets them, and those in its way are placed again.
Registered(list, r) ==
  LET c == Updated(list, r)
      rest == {d \in list : d.id # r.id}
      bumped == {d \in rest : Overlap(c, d)}
  IN IF c.off = 0 THEN Placed(rest, c)
     ELSE FoldLeft(Placed, (rest \ bumped) \cup {c}, ByOffset(bumped))
Capabilities(calls) == FoldLeft(Registered, {}, calls)

\* What functions register: each its own kind's capabilities, those of the base
\* classes last to first; the cores then name the registers of each.
Cap(id, len, off) == [id |-> id, len |-> len, off |-> off]
WithPm(calls) == <<Cap("PM", 2, 0)>> \o calls
WithPcie(calls) == <<Cap("PCIE", 15, 0)>> \o calls
FunctionCaps == WithPcie(WithPm(<<>>))
WithMsi(calls) == <<Cap("MSI", 6, 0)>> \o calls
WithMsix(calls) == <<Cap("MSIX", 3, 0)>> \o calls
UsCaps == WithMsix(WithMsi(FunctionCaps))
            \o <<Cap("PM", 0, 32), Cap("MSI", 0, 36), Cap("MSIX", 0, 44), Cap("PCIE", 0, 48)>>
UspCaps == WithMsix(WithMsi(FunctionCaps))
             \o <<Cap("PM", 0, 16), Cap("MSI", 0, 18), Cap("MSIX", 0, 24), Cap("PCIE", 0, 28)>>

\* The id and the next pointer that the first register of a capability holds.
Header(list, reg) ==
  LET c == CHOOSE c \in OwnersOf(list, reg) : c.off = Min(Offsets(OwnersOf(list, reg)))
  IN IF OwnersOf(list, reg) = {} \/ c.off # reg THEN [id |-> "none", next |-> 0]
     ELSE [id |-> c.id, next |-> First({o \in Offsets(list) : o > reg})]

\* Where the walk has found a capability.
CapOffset(f, id) == First({items[f][i].off : i \in {k \in DOMAIN items[f] : items[f][k].id = id}})
\* An access to one of its registers gets to the capability.
Reaches(f, id, reg) ==
  LET owners == OwnersOf(regs[f].caps, CapOffset(f, id) + reg)
  IN CapOffset(f, id) # 0 /\ owners # {} /\ \A c \in owners : c.id = id

(***************************************************************************)
(* Enumeration.                                                            *)
(***************************************************************************)
Frame == Head(stack)
Bus == Frame.bus
Here == Id(Bus, Frame.dev, Frame.fn)
Target == CfgDown(Here)
Answered(t) == t \in Fun

\* handle_config_0_tlp: the function and, for a device, all its functions
\* take the bus number from the request.
Captured(t) ==
  [f \in 0..tree.n |->
     IF f # 0 /\ (f = t \/ (tree.kind[t] = "ep" /\ tree.kind[f] = "ep" /\ tree.up[f] = tree.up[t]))
     THEN [regs[f] EXCEPT !.bus = Bus] ELSE regs[f]]

AlignedLimits == [s \in Spaces |-> AlignUp(lim[s], Granule)]
Segment(b) == [bus |-> b, sec |-> b + 1, sub |-> b, dev |-> 0, fn |-> 0, all |-> FALSE,
               at |-> "device", bar |-> 1, ptr |-> 0, win |-> AlignedLimits]

\* Bug variant of NextFunction: the last function is not looked for.
NextFunctionStops(fr) ==
  IF fr.all /\ fr.fn + 1 < LastFn
  THEN [fr EXCEPT !.at = "function", !.fn = @ + 1]
  ELSE [fr EXCEPT !.at = "device", !.fn = 0, !.all = FALSE, !.dev = @ + 1]
\* The rest of the loops over functions and devices.
NextFunction(fr) ==
  IF fr.all /\ fr.fn < LastFn
  THEN [fr EXCEPT !.at = "function", !.fn = @ + 1]
  ELSE [fr EXCEPT !.at = "device", !.fn = 0, !.all = FALSE, !.dev = @ + 1]
Top(fr) == <<fr>> \o Tail(stack)

Enumerate ==
  /\ phase = "off" /\ phase' = "on"
  /\ stack' = <<Segment(0)>>
  /\ lim' = AlignedLimits
  /\ UNCHANGED <<tree, regs, found, items, msiLimit, hostVars>>

ProbeDevice ==
  /\ phase = "on" /\ Frame.at = "device" /\ Frame.dev <= LastDev
  /\ Target # Failed
  /\ IF (Bus = 0 /\ Frame.dev = 0) \/ ~Answered(Target)
     THEN /\ stack' = Top([Frame EXCEPT !.dev = @ + 1])
          /\ UNCHANGED regs
     ELSE /\ stack' = Top([Frame EXCEPT !.at = "function", !.all = tree.multi[Target]])
          /\ regs' = Captured(Target)
  /\ UNCHANGED <<tree, lim, found, items, msiLimit, hostVars, phase>>

ProbeFunction ==
  /\ phase = "on" /\ Frame.at = "function"
  /\ IF Answered(Target)
     THEN /\ found' = found \cup {<<Here, Target>>}
          /\ stack' = Top([Frame EXCEPT !.at = "bars", !.bar = 1])
          /\ regs' = Captured(Target)
     ELSE /\ Target # Failed
          /\ stack' = Top(NextFunction(Frame))
          /\ UNCHANGED <<found, regs>>
  /\ UNCHANGED <<tree, lim, items, msiLimit, hostVars, phase>>

\* Bug variant of ConfigureBar: the addresses are not aligned to the size.
ConfigureBarUnaligned ==
  /\ phase = "on" /\ Frame.at = "bars" /\ Answered(Target)
  /\ Frame.bar <= Len(tree.bars[Target])
  /\ LET bar == tree.bars[Target][Frame.bar] IN
     /\ regs' = [regs EXCEPT ![Target].bar[Frame.bar] = lim[bar.space]]
     /\ lim' = [lim EXCEPT ![bar.space] = @ + SizeRead(Target, Frame.bar)]
  /\ stack' = Top([Frame EXCEPT !.bar = @ + 1])
  /\ UNCHANGED <<tree, found, items, msiLimit, hostVars, phase>>

\* A BAR is sized by writing ones to it, and given the next aligned addresses
\* of its space.
ConfigureBar ==
  /\ phase = "on" /\ Frame.at = "bars" /\ Answered(Target)
  /\ Frame.bar <= Len(tree.bars[Target])
  /\ LET bar == tree.bars[Target][Frame.bar]
         size == SizeRead(Target, Frame.bar)
         addr == AlignUp(lim[bar.space], size)
     IN /\ regs' = [regs EXCEPT ![Target].bar[Frame.bar] = addr]
        /\ lim' = [lim EXCEPT ![bar.space] = addr + size]
  /\ stack' = Top([Frame EXCEPT !.bar = @ + 1])
  /\ UNCHANGED <<tree, found, items, msiLimit, hostVars, phase>>

\* Walk of the capabilities: the pointer in the header, then the pointers in
\* the capabilities.
StartWalk ==
  /\ phase = "on" /\ Frame.at = "bars" /\ Answered(Target)
  /\ Frame.bar > Len(tree.bars[Target])
  /\ stack' = Top([Frame EXCEPT !.at = "caps", !.ptr = First(Offsets(regs[Target].caps))])
  /\ UNCHANGED <<tree, regs, lim, found, items, msiLimit, hostVars, phase>>
WalkCapability ==
  /\ phase = "on" /\ Frame.at = "caps" /\ Frame.ptr # 0 /\ Answered(Target)
  /\ LET cap == Header(regs[Target].caps, Frame.ptr) IN
     /\ items' = [items EXCEPT ![Target] = Append(@, [id |-> cap.id, off |-> Frame.ptr])]
     /\ stack' = Top([Frame EXCEPT !.ptr = cap.next])
  /\ UNCHANGED <<tree, regs, lim, found, msiLimit, hostVars, phase>>

\* The number of a message, by which its signals and callbacks are kept.
HasMessages(f) == regs[f].msi # -1
Message(f, number) == regs[f].msi + number

\* configure_msi makes the region for messages when it is called for the first
\* time, whether the function has the capability or not.
MessageRegion ==
  IF msiAddr # -1 THEN UNCHANGED hostVars
  ELSE Alloc("mem", MsiSize) /\ msiAddr' = RegionAt("mem", MsiSize)

\* Bug variant of SetUpFunction: one message is reserved.
SetUpFunctionOneVector ==
  /\ phase = "on" /\ Frame.at = "caps" /\ Frame.ptr = 0 /\ Answered(Target)
  /\ CapOffset(Target, "PCIE") # 0
  /\ LET msi == CapOffset(Target, "MSI") # 0 IN
     /\ regs' = [regs EXCEPT ![Target].master = TRUE,
                             ![Target].msi = IF msi THEN msiLimit ELSE @]
     /\ msiLimit' = IF msi THEN msiLimit + 1 ELSE msiLimit
  /\ stack' = IF Target \in Bridges THEN Top([Frame EXCEPT !.at = "bridge"])
                                    ELSE Top(NextFunction(Frame))
  /\ MessageRegion
  /\ UNCHANGED <<tree, lim, found, items, phase>>

\* Device control, bus mastering and MSI (configure_msi).
SetUpFunction ==
  /\ phase = "on" /\ Frame.at = "caps" /\ Frame.ptr = 0 /\ Answered(Target)
  /\ CapOffset(Target, "PCIE") # 0
  /\ LET msi == CapOffset(Target, "MSI") # 0 IN
     /\ regs' = [regs EXCEPT ![Target].master = TRUE,
                             ![Target].msi = IF msi THEN msiLimit ELSE @]
     /\ msiLimit' = IF msi THEN msiLimit + Vectors ELSE msiLimit
  /\ stack' = IF Target \in Bridges THEN Top([Frame EXCEPT !.at = "bridge"])
                                    ELSE Top(NextFunction(Frame))
  /\ MessageRegion
  /\ UNCHANGED <<tree, lim, found, items, phase>>

\* Bug variant of OpenBridge: one bus number more than the register holds.
OpenBridgeTooWide ==
  /\ phase = "on" /\ Frame.at = "bridge" /\ Answered(Target)
  /\ regs' = [regs EXCEPT ![Target].sec = Frame.sec, ![Target].sub = LastBus + 1]
  /\ stack' = <<Segment(Frame.sec)>> \o Top([Frame EXCEPT !.at = "children"])
  /\ lim' = AlignedLimits
  /\ UNCHANGED <<tree, found, items, msiLimit, hostVars, phase>>

\* The bridge forwards every higher bus number while its side is enumerated.
OpenBridge ==
  /\ phase = "on" /\ Frame.at = "bridge" /\ Answered(Target)
  /\ regs' = [regs EXCEPT ![Target].sec = Frame.sec, ![Target].sub = LastBus]
  /\ stack' = <<Segment(Frame.sec)>> \o Top([Frame EXCEPT !.at = "children"])
  /\ lim' = AlignedLimits
  /\ UNCHANGED <<tree, found, items, msiLimit, hostVars, phase>>

\* The window registers keep whole granules.
Window(from, to) == [base |-> (from \div Granule) * Granule,
                     limit |-> ((to \div Granule) + 1) * Granule - 1]

SegmentDone == phase = "on" /\ Frame.at = "device" /\ Frame.dev > LastDev

\* Bug variant of CloseBridge: buses further down are not counted.
CloseBridgeOneBus ==
  /\ SegmentDone /\ Len(stack) > 1
  /\ LET inner == Frame
         outer == stack[2]
         t == CfgDown(Id(outer.bus, outer.dev, outer.fn))
     IN /\ Answered(t)
        /\ regs' = [regs EXCEPT ![t].sub = inner.bus,
                                ![t].win = [s \in Spaces |->
                                   Window(inner.win[s], AlignedLimits[s] - 1)]]
        /\ stack' = <<NextFunction([outer EXCEPT !.sub = inner.sub, !.sec = inner.sub + 1])>>
                      \o Tail(Tail(stack))
  /\ lim' = AlignedLimits
  /\ UNCHANGED <<tree, found, items, msiLimit, hostVars, phase>>

\* The end of a segment and the caller's work after it: the bridge gets its
\* last bus number and its windows.
CloseBridge ==
  /\ SegmentDone /\ Len(stack) > 1
  /\ LET inner == Frame
         outer == stack[2]
         t == CfgDown(Id(outer.bus, outer.dev, outer.fn))
     IN /\ Answered(t)
        /\ regs' = [regs EXCEPT ![t].sub = inner.sub,
                                ![t].win = [s \in Spaces |->
                                   Window(inner.win[s], AlignedLimits[s] - 1)]]
        /\ stack' = <<NextFunction([outer EXCEPT !.sub = inner.sub, !.sec = inner.sub + 1])>>
                      \o Tail(Tail(stack))
  /\ lim' = AlignedLimits
  /\ UNCHANGED <<tree, found, items, msiLimit, hostVars, phase>>

Finish ==
  /\ SegmentDone /\ Len(stack) = 1
  /\ phase' = "done" /\ stack' = <<>>
  /\ lim' = AlignedLimits
  /\ regs' = [regs EXCEPT ![0].win = [s \in Spaces |-> [base |-> Base[s], limit |-> AlignedLimits[s]]]]
  /\ UNCHANGED <<tree, found, items, msiLimit, hostVars>>

\* Registers of a function as it is made, and of the host bridge.
NoWindows == [s \in Spaces |-> [base |-> 0, limit |-> Granule - 1]]
NoBars(f) == [i \in DOMAIN tree.bars[f] |-> 0]
NewFunction(f) ==
  [bus |-> 0, sec |-> 0, sub |-> 0, win |-> NoWindows, bar |-> NoBars(f),
   caps |-> Capabilities(tree.caps[f]), master |-> FALSE, msi |-> -1]
HostBridge ==
  [bus |-> 0, sec |-> 0, sub |-> LastBus,
   win |-> [s \in Spaces |-> [base |-> Base[s], limit |-> Base[s]]],
   bar |-> <<>>, caps |-> {}, master |-> FALSE, msi |-> -1]

EnumInit ==
  /\ tree \in Trees
  /\ regs = [f \in 0..tree.n |-> IF f = 0 THEN HostBridge ELSE NewFunction(f)]
  /\ lim = Base
  /\ stack = <<>>
  /\ found = {}
  /\ items = [f \in Fun |-> <<>>]
  /\ msiLimit = 0
  /\ regions = [h \in Homes |-> <<>>]
  /\ rlimit = [h \in Homes |-> 0] /\ msiAddr = -1
  /\ phase = "off"

EnumNext ==
  \/ Enumerate \/ ProbeDevice \/ ProbeFunction \/ ConfigureBar
  \/ StartWalk \/ WalkCapability \/ SetUpFunction \/ OpenBridge \/ CloseBridge \/ Finish
  \/ \E size \in Sizes : AllocRegion(size) \/ AllocIoRegion(size)

EnumSpec == EnumInit /\ [][EnumNext]_enumVars /\ WF_enumVars(EnumNext)

(***************************************************************************)
(* What enumeration must bring about.                                       *)
(***************************************************************************)
\* The registers, limits and activations of enumerate_segment are well formed.
EnumTypeOK ==
  /\ phase \in {"off", "on", "done"}
  /\ lim \in [Spaces -> Nat] /\ msiLimit \in Nat
  /\ \A f \in Fun : /\ regs[f].bus \in 0..LastBus /\ regs[f].sec \in 0..LastBus
                    /\ regs[f].sub \in 0..LastBus
                    /\ DOMAIN regs[f].bar = DOMAIN tree.bars[f]
  /\ \A i \in DOMAIN stack :
       stack[i].at \in {"device", "function", "bars", "caps", "bridge", "children"}
  /\ found \subseteq ((0..LastBus) \X (0..LastDev) \X (0..LastFn)) \X Fun

\* An id that was found goes on leading to the function that answered it, in
\* the middle of the enumeration of other buses as well: the numbers that
\* bridges are given for the time of their own enumeration never take requests
\* away from a bridge that is finished (enumerate_segment, upstream_recv,
\* route_downstream_tlp).
IdsKeepTheirFunction == \A p \in found : CfgDown(p[1]) = p[2]

BarRange(f, i) == regs[f].bar[i]..(regs[f].bar[i] + DecodedSize(tree.bars[f][i].size) - 1)

\* After enumeration an access to any address of any BAR, by the root complex
\* or by a function anywhere in the tree, gets to the function that owns the
\* BAR, through whatever bridges are between (enumerate_segment's windows,
\* Bridge.upstream_recv, downstream_recv, Device.upstream_recv, match_bar).
OwnersAnswer ==
  phase = "done" =>
    \A f \in Fun : \A i \in DOMAIN tree.bars[f] : \A a \in BarRange(f, i) :
      LET io == tree.bars[f][i].space = "io" IN
      /\ MemFromRc(a, io) = f
      /\ \A g \in Fun \ Bridges : MemUp(g, a, io) = f

\* After enumeration a completion finds the requester, whichever function or
\* root complex completes the request (Bridge.downstream_recv, upstream_recv).
CompletionsReturn ==
  phase = "done" =>
    \A f \in Fun \ Bridges :
      /\ CplDown(IdOf(f))[0] = f
      /\ CplUp(f, RcId) = RC
      /\ \A g \in Fun \ Bridges : CplUp(g, IdOf(f)) = f

\* Two functions never share a message number: the callback of an interrupt is
\* that of the function that raised it (configure_msi, msi_register_callback).
MessagesApart ==
  \A f, g \in Fun : f # g /\ HasMessages(f) /\ HasMessages(g) =>
    \A j, k \in 0..(Vectors - 1) : Message(f, j) # Message(g, k)

LastAddr(region) == region.addr + region.size - 1
\* Region i begins where the one before it ends, which takes a region of an odd
\* size, or one of a single address that is put anywhere.
Abuts(home, i) ==
  /\ i > 1
  /\ regions[home][i].addr = LastAddr(regions[home][i - 1])
  /\ regions[home][i].size = 1 \/ regions[home][i - 1].size % 2 = 1

\* Every address of every region that was handed out, for buffers or for the
\* messages of configure_msi, before or after enumeration, leads back to that
\* region, so that requests to one are never taken for another's.  The one
\* exception is a first address that the region before it has as its last:
\* alloc_region keeps the last address used as its limit, not the next one, and
\* so lets a region begin there if the one before has an odd size or the new one
\* a single address; all other sizes keep regions apart (find_region).
RegionsApart ==
  \A h \in Homes : \A i \in DOMAIN regions[h] :
    \A a \in regions[h][i].addr..LastAddr(regions[h][i]) :
      FindRegion(h, a) = i \/ (a = regions[h][i].addr /\ Abuts(h, i))

\* The walk of f's capabilities is over.
Walked(f) == phase = "on" /\ Frame.at = "caps" /\ Frame.ptr = 0 /\ Target = f
\* The last register of c is the first of d.
Touches(c, d) == c # d /\ c.off + c.len - 1 = d.off
CapsApart(f) == \A c, d \in regs[f].caps : ~Touches(c, d)

\* However often and in whatever order a function registers its capabilities,
\* with registers of their own or without, two of them have a register in common
\* only where one placed without a name ends on the first register of another
\* (pcie.py:302 compares with < and not <=); where none does, the walk finds each
\* capability once and every access through what it found gets to it
\* (PcieCapList.register, capability_read, capability_write).
CapabilitiesReached ==
  \A f \in Fun : LET caps == regs[f].caps IN
    /\ \A c, d \in caps : c # d /\ Overlap(c, d) => Touches(c, d) \/ Touches(d, c)
    /\ Walked(f) /\ CapsApart(f) =>
         /\ Len(items[f]) = Cardinality({tree.caps[f][i].id : i \in DOMAIN tree.caps[f]})
         /\ \A c \in caps : \A reg \in 0..(c.len - 1) : Reaches(f, c.id, reg)

\* When enumeration is done it has found every function of the tree, once and by
\* the id that it still has, and no two by the same (enumerate_segment).
FoundOnce ==
  phase = "done" =>
    /\ found = {<<IdOf(f), f>> : f \in Fun}
    /\ \A f, g \in Fun : f # g => IdOf(f) # IdOf(g)

\* Enumeration ends, with every function of the tree found once, whatever
\* capabilities each has: only where two of them overlap (pcie.py:302) may it miss
\* the one whose registers it is to write (enumerate_segment).
AllFound == (\A f \in Fun : CapsApart(f)) =>
              <>(phase = "done" /\ {p[2] : p \in found} = Fun /\ Cardinality(found) = tree.n)
=============================================================================
