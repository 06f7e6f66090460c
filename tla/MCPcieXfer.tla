------------------------------ MODULE MCPcieXfer ------------------------------
(* Accesses of up to three callers to a memory endpoint and to both cores.     *)
EXTENDS PcieXfer

Whole1(lo, hi) == [a \in lo..hi |-> a]
MCMemory0 ==
  [host |-> Whole1(0, 63), bar |-> Whole1(128, 191), hostio |-> Whole1(256, 259), bario |-> Whole1(272, 279)]

Read(space, addr, n) == [ByteOp EXCEPT !.space = space, !.addr = addr, !.n = n]
Probe(addr) == [Read("cfg", addr, 4) EXCEPT !.hurry = TRUE]
Write(id, space, addr, n) ==
  [Read(space, addr, n) EXCEPT !.do = "write", !.data = [k \in 1..n |-> 1000 * id + addr + k - 1]]
Set(addr, v) == CfgWriteWords(addr, <<<<v, 0>>, <<0, 0>>>>)
Interrupt1(number) == [Read("none", 0, 0) EXCEPT !.do = "msi", !.id = number]

Word(id, addr, ws) == [k \in 1..ws |-> 1000 * id + addr + k - 1]
\* The memory endpoint's MSI capability has one dword of address, those of the
\* cores have two; the functions have two messages.
Narrow == [capable |-> 1, wide |-> 0]
Wide == [capable |-> 1, wide |-> 1]
Plan(dev, regs0, h1, h2, ep) ==
  [dev |-> dev, mps |-> 0, mrrs |-> 1, regs |-> regs0, cap |-> IF dev = "mem" THEN Narrow ELSE Wide,
   prog |-> [h1 |-> h1, h2 |-> h2, ep |-> ep]]
\* Functions support payloads of two boundaries, and start with one boundary
\* in a payload and two in a read.
Off == [command |-> 0, enable |-> 0, multiple |-> 0, addr |-> 0, upper |-> 0, data |-> 0,
        supports |-> 1, mps |-> 0, mrrs |-> 1]
On == [Off EXCEPT !.command = 1]
Configured1 == [On EXCEPT !.enable = 1, !.multiple = 1, !.addr = MsiAddr, !.data = MsiBase]

\* Memory endpoint: splits at every limit, IO, unmapped addresses.
Memories ==
  {Plan("mem", On, <<Write(1, "mem", 130, 13), Read("mem", 129, n)>>, <<MemReadWords(a, 2, 2), Read("mem", 1, 3)>>, <<>>) :
     n \in {1, 22, 33}, a \in {137, 300}}
  \cup
  {Plan("mem", On, <<MemWriteWords(a, <<Word(1, a, 4), Word(1, a + 4, 4)>>), MemReadWords(a - 1, 5, 2)>>,
        <<CfgReadWords(0, 2, 2)>>, <<MemReadWords(3, 1, 4)>>) : a \in {131, 157}}
  \cup
  {Plan("mem", On, <<Write(1, "io", 274, 5), Read("io", 273, 6)>>, <<>>,
        <<Write(2, "io", 257, 2), Read("io", 256, 3), Write(2, "mem", 14, 5), Read("mem", 13, 3), Read("mem", 80, 1)>>)}
  \cup
  {Plan("mem", Off, <<Write(1, "mem", 5, 2), Set(0, 1), Read("mem", 4, 4)>>, <<>>,
        <<Read("mem", 4, 4), Write(2, "mem", 8, 4), Read("io", 256, 1)>>)}
\* Late answers: the tags wrap.
Probes ==
  {Plan("mem", On, <<Probe(0), Probe(4), Probe(0), Probe(4), Probe(0)>>, <<Read("mem", 130, 4)>>, <<>>)}
\* configure_msi against a device that interrupts.
Messages ==
  {Plan("mem", On, ConfigureMsi(Narrow), <<>>,
        <<Write(2, "mem", 14, 5), Interrupt1(1), Interrupt1(2), Write(2, "mem", 32, 2), Interrupt1(0)>>)}
  \cup
  {Plan(dev, On, ConfigureMsi(Wide), <<>>, <<Write(2, "mem", 14, 2), Interrupt1(1)>>) : dev \in {"us", "usp"}}
\* Posted requests pass those without a credit; both directions at once; a
\* core that is not enabled yet.
Cores ==
  UNION {
    {Plan(dev, Configured1, <<Write(1, "mem", 130, 2), Read("mem", 129, 4)>>,
          <<Write(3, "io", 273, 2), Read("io", 272, 2)>>, <<>>),
     Plan(dev, Configured1, <<Read("mem", 142, 12)>>, <<>>, <<Write(2, "mem", 14, 3), Interrupt1(1)>>),
     Plan(dev, Configured1, <<>>, <<>>,
          <<Write(2, "mem", 14, 3), Interrupt1(1), Read("mem", 13, 4), Write(2, "io", 257, 2), Interrupt1(0)>>),
     Plan(dev, Off, <<Probe(4), Probe(0)>>, <<Read("mem", 300, 4)>>, <<>>)} : dev \in {"us", "usp"}}
\* The limits of a function change under its accesses; those of the root complex
\* are larger than the function supports, or as large.
Renegotiated ==
  {[Plan("mem", On, SetLimits(2, 0, 1), <<Read("mem", 129, 20), MemWriteWords(133, <<Word(1, 133, 20)>>)>>,
         <<Write(2, "mem", 3, 20)>>) EXCEPT !.mps = 2]}
  \cup
  {[Plan("us", Configured1, SetLimits(1, 0, 1), <<>>, <<Write(2, "mem", 5, 9), Read("mem", 5, 9)>>)
      EXCEPT !.mps = 1]}
MCPlans == Memories \cup Probes \cup Messages \cup Cores \cup Renegotiated
=============================================================================
