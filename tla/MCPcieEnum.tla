------------------------------ MODULE MCPcieEnum ------------------------------
(* TLC instances of PcieEnum: a device with two functions behind a root      *)
(* port, a switch with a device and a two-function device beside a second    *)
(* root port, and a switch behind a switch, with BARs of several sizes.      *)
EXTENDS PcieEnum

Bar(space, wide, size) == [space |-> space, wide |-> wide, size |-> size]
BarSets == {<<Bar("mem", FALSE, 3), Bar("io", FALSE, 2)>>,
            <<Bar("pref", TRUE, 8), Bar("mem", TRUE, 1)>>,
            <<Bar("mem", FALSE, 6), Bar("pref", TRUE, 4), Bar("mem", FALSE, 2)>>}

\* Capabilities of the functions of devices: those of a device with MSI, of the
\* two cores, and of a function that names the registers of one.
OneNamed == WithMsix(WithMsi(FunctionCaps)) \o <<Cap("PM", 0, 16)>>
EpCaps == [k \in 0..4 |-> <<FunctionCaps, WithMsi(FunctionCaps), UsCaps, UspCaps, OneNamed>>[k + 1]]

\* The functions of devices take their BARs from BarSets.
TreesOf(t) ==
  LET eps == {f \in 1..t.n : t.kind[f] = "ep"}
  IN {[n |-> t.n, up |-> t.up, kind |-> t.kind, dev |-> t.dev, fn |-> t.fn, multi |-> t.multi,
       bars |-> [f \in 1..t.n |-> IF f \in eps THEN b[f] ELSE <<>>],
       caps |-> [f \in 1..t.n |-> IF f \in eps THEN EpCaps[f % 5] ELSE FunctionCaps]] :
        b \in [eps -> BarSets]}

Function1(t) == AppendFunction(MakePort(t, 0), t.n + 1)
TwoFunctions == AppendFunction(Function1(NoTree), 1)
ASwitch == ConnectSwitch(MakePort(NoTree, 0), 1)
SwitchBesidePort ==
  LET first == AppendFunction(MakePort(ASwitch, 2), 3)
      second == AppendFunction(AppendFunction(MakePort(first, 2), 5), 5)
  IN Function1(second)
SwitchBehindSwitch ==
  LET inner == ConnectSwitch(MakePort(ASwitch, 2), 3)
      deep == AppendFunction(MakePort(inner, 4), 5)
  IN AppendFunction(MakePort(deep, 2), 7)

\* A function that registers capabilities again, up to three times, with
\* registers of their own or without, as long as all fit the configuration space.
CapCalls == {Cap(id[1], id[2], off) : id \in {<<"PM", 2>>, <<"MSI", 6>>, <<"MSIX", 3>>, <<"PCIE", 15>>},
                                      off \in {0, 16, 20, 31}}
CapLists == {calls \in {FunctionCaps \o more : more \in UNION {[1..n -> CapCalls] : n \in 0..3}} :
               \A c \in Capabilities(calls) : c.off + c.len <= 64}
CapTrees == LET t == Function1(NoTree) IN
  {[n |-> t.n, up |-> t.up, kind |-> t.kind, dev |-> t.dev, fn |-> t.fn, multi |-> t.multi,
    bars |-> <<<<>>, <<>>>>, caps |-> <<FunctionCaps, calls>>] : calls \in CapLists}

SomeTrees == UNION {TreesOf(TwoFunctions), TreesOf(SwitchBesidePort), TreesOf(SwitchBehindSwitch), CapTrees}
\* Where the tree is there for the capabilities of a function no region is asked
\* for before enumeration, and there is one at most afterwards.
ForCaps(t) == t.n = 2 /\ t.bars[2] = <<>>
Before(t) == IF ForCaps(t) THEN 0 ELSE 1
Altogether(t) == IF ForCaps(t) THEN 1 ELSE 3
Bases == [io |-> 256, mem |-> 256, pref |-> 1024]
=============================================================================
