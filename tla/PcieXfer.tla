------------------------------- MODULE PcieXfer -------------------------------
(***************************************************************************)
(* Transfers between the root complex and one device of                      *)
(* fpga/lib/pcie/tb: callers on both sides split their accesses into          *)
(* requests, completers answer them, and both find each other over a link    *)
(* that keeps the order of each direction.  The device is a MemoryEndpoint   *)
(* of pcie.py, or the UltraScale (pcie_us.py) or UltraScale+ (pcie_usp.py)   *)
(* core with a user's logic behind its streams.                              *)
(*                                                                         *)
(* A packet takes time on the link, so that a caller whose completion has    *)
(* arrived goes on before the next packet arrives.  The pauses of each       *)
(* stream are free, and so the edges of the streams and of the core are      *)
(* steps of their own.                                                      *)
(***************************************************************************)
EXTENDS UsStream

CONSTANTS
  Plans,      \* bound: the device, its limits, and what each caller does
  Memory0,    \* contents of host memory, host IO, device BAR and device IO
  Tags,       \* tags of a requester (32)
  MaxCredits, \* non-posted requests the user's logic may have asked for (32)
  MaxLate,    \* bound: time-outs
  MsiAddr,    \* address of the message region
  MsiBase     \* message number given to the function

ASSUME XferAssumption ==
  /\ Dw >= 4 /\ Tags \in Nat \ {0} /\ MaxCredits \in Nat \ {0} /\ MaxLate \in Nat
  /\ DOMAIN Memory0 = {"host", "hostio", "bar", "bario"} /\ MsiAddr \notin DOMAIN Memory0.host

Callers == {"h1", "h2", "ep"}
Sides == {"rc", "ep"}
Side(p) == IF p = "ep" THEN "ep" ELSE "rc"

VARIABLES
  plan,    \* the behaviour's member of Plans
  proc,    \* the callers
  cur,     \* current_tag of each requester
  rx,      \* rx_cpl_queues of each requester
  down,    \* packets on their way to the device
  up,      \* packets on their way to the root complex
  mem,     \* the memories
  regs,    \* the function: command, MSI enable, address, upper address, data and
           \* multiple message enable, and of device control the payload it supports
           \* and its payload and read request limits
  msi,     \* message numbers registered and received at the root complex
  strm,    \* the streams
  core,    \* the core: credits, queues, sequence numbers, interrupt, config_space_enable
  seen,    \* the last sequence number that was shown to the user's logic
  late,    \* time-outs so far
  raised   \* an assertion has failed
hostVars == <<plan, late>>
xferVars == <<hostVars, proc, cur, rx, down, up, mem, regs, msi, strm, core, seen, raised>>

IsUs == plan.dev # "mem"
Master == regs.command = 1
\* The limits of each end: the root complex has its own, a function those that
\* its device control has at the moment.
Mps(side) == IF side = "rc" THEN plan.mps ELSE regs.mps
Mrrs(side) == IF side = "rc" THEN plan.mrrs ELSE regs.mrrs

(***************************************************************************)
(* Callers.  Each has a list of accesses to make, one after the other.       *)
(***************************************************************************)
Idle == [at |-> 1, pc |-> "run", n |-> 0, m |-> 0, c |-> 0, tag |-> 0, got |-> <<>>, res |-> <<>>]
Busy(p) == proc[p].at <= Len(plan.prog[p])
Op(p) == plan.prog[p][proc[p].at]

\* The methods that read and write count words of ws bytes.
ByteOp == [do |-> "read", space |-> "none", addr |-> 0, n |-> 0, id |-> 0, data |-> <<>>,
           hurry |-> FALSE, ws |-> 0]
MemReadWords(addr, count, ws) == [ByteOp EXCEPT !.space = "mem", !.addr = addr, !.n = count * ws, !.ws = ws]
CfgReadWords(addr, count, ws) == [ByteOp EXCEPT !.space = "cfg", !.addr = addr, !.n = count * ws, !.ws = ws]
MemWriteWords(addr, words) ==
  [ByteOp EXCEPT !.do = "write", !.space = "mem", !.addr = addr, !.data = BytesOf(words), !.n = Len(BytesOf(words))]
CfgWriteWords(addr, words) ==
  [ByteOp EXCEPT !.do = "write", !.space = "cfg", !.addr = addr, !.data = BytesOf(words), !.n = Len(BytesOf(words))]
\* A register of a capability is so many bytes from where the capability is.
CapReadWords(offset, addr, count, ws) == CfgReadWords(offset + addr, count, ws)
CapWriteWords(offset, addr, words) == CfgWriteWords(offset + addr, words)
\* configure_msi of a function with such a capability: its control is read, the
\* address written, in two dwords if it is wide, the data, and then all messages
\* of the function are enabled; the signals of the messages come last.
MsiCap == Dw
LowByte(v) == <<v>> \o Zeros(Dw - 1)
DataReg(cap) == IF cap.wide = 1 THEN 3 ELSE 2
Control(enable, multiple, cap) == <<enable, multiple, cap.capable, cap.wide>> \o Zeros(Dw - 4)
ConfigureMsi(cap) ==
  <<CapReadWords(MsiCap, 0, 1, Dw), CapWriteWords(MsiCap, Dw, <<LowByte(MsiAddr)>>)>>
  \o (IF cap.wide = 1
      THEN <<CapWriteWords(MsiCap, 2 * Dw, <<LowByte(0)>>)>> ELSE <<>>)
  \o <<CapWriteWords(MsiCap, DataReg(cap) * Dw, <<LowByte(MsiBase)>>),
       CapWriteWords(MsiCap, 0, <<Control(1, cap.capable, cap)>>), [ByteOp EXCEPT !.do = "register"]>>
\* The limits that enumeration gives to a function.
PcieCap == 5 * Dw
SetLimits(mps, mrrs, supported) ==
  <<CapReadWords(PcieCap, 0, 1, Dw), CapReadWords(PcieCap, Dw, 1, Dw),
    CapWriteWords(PcieCap, Dw, <<<<Least(mps, supported), mrrs>> \o Zeros(Dw - 2)>>)>>
\* What an access returns for the bytes it has read.
Result(o, data) == IF o.ws = 0 \/ o.do = "write" THEN data ELSE Words(data, o.ws)

Ended(p, ok, data) ==
  [Idle EXCEPT !.at = proc[p].at + 1, !.res = Append(proc[p].res, [ok |-> ok, data |-> Result(Op(p), data)])]
\* The caller after a chunk of c bytes; the data so far is got.
Moved(p, c, got) ==
  IF proc[p].n + c < Op(p).n
  THEN [proc[p] EXCEPT !.pc = "run", !.n = @ + c, !.m = 0, !.got = got]
  ELSE Ended(p, TRUE, SubSeq(got, 1, Least(Op(p).n, Len(got))))

\* A completion that has arrived wakes its caller at once, and a caller that
\* has written the last register of configure_msi goes on at once.
Woken(p) == proc[p].pc = "wait" /\ rx[Side(p)][proc[p].tag] # <<>>
Registering(p) == proc[p].pc = "run" /\ Busy(p) /\ Op(p).do = "register"
Quiet == ~raised /\ \A p \in Callers : ~Woken(p) /\ ~Registering(p)

\* get_free_tag: the next tag without completions in its queue.  When there is
\* none the caller raises an exception.
TagAfter(side, k) == (cur[side] + k) % Tags
FreeSteps(side) == {k \in 1..Tags : rx[side][TagAfter(side, k)] = <<>>}
FreeTag(side) == TagAfter(side, IF FreeSteps(side) = {} THEN Tags ELSE Min(FreeSteps(side)))

\* Whoever sends a packet validates it, and so does whoever receives it; as a
\* packet does not change on its way the sender's validation stands for both.
Invalid(ts) == \E i \in DOMAIN ts : ~Check(ts[i])
SendUp(ts) == up' = up \o ts
SendDown(ts) == down' = down \o ts
ToRq(t) == strm' = [strm EXCEPT !.rq = Sent(@, PackRq(@.sent + 1, t))]
SendFrom(p, t) ==
  \/ Side(p) = "rc" /\ SendDown(<<t>>) /\ UNCHANGED <<up, strm>>
  \/ Side(p) = "ep" /\ ~IsUs /\ SendUp(<<t>>) /\ UNCHANGED <<down, strm>>
  \/ Side(p) = "ep" /\ IsUs /\ ToRq(t) /\ UNCHANGED <<down, up>>

Ready(p) == Quiet /\ proc[p].pc = "run" /\ Busy(p)
Access(p) == Ready(p) /\ Op(p).do \in {"read", "write"}

\* The root complex accesses its own memory without packets.
IsLocal(p) == Side(p) = "rc" /\ Op(p).space = "mem" /\ Op(p).addr \in DOMAIN mem.host
Local(p) ==
  /\ Access(p) /\ IsLocal(p)
  /\ LET o == Op(p)
         bytes == o.addr..(o.addr + o.n - 1)
     IN IF o.do = "read"
        THEN /\ proc' = [proc EXCEPT ![p] = Ended(p, TRUE, [k \in 1..o.n |-> mem.host[o.addr + k - 1]])]
             /\ UNCHANGED mem
        ELSE /\ proc' = [proc EXCEPT ![p] = Ended(p, TRUE, <<>>)]
             /\ mem' = [mem EXCEPT !.host =
                          [a \in DOMAIN @ |-> IF a \in bytes THEN o.data[a - o.addr + 1] ELSE @[a]]]
  /\ UNCHANGED <<hostVars, cur, rx, down, up, regs, msi, strm, core, seen, raised>>

\* A function that may not master the bus sends nothing.
Barred(p) == Side(p) = "ep" /\ ~IsUs /\ ~Master
Refuse(p) ==
  /\ Access(p) /\ Barred(p)
  /\ proc' = [proc EXCEPT ![p] = Ended(p, FALSE, <<>>)]
  /\ UNCHANGED <<hostVars, cur, rx, down, up, mem, regs, msi, strm, core, seen, raised>>

MayRequest(p, space, do) ==
  Access(p) /\ ~IsLocal(p) /\ ~Barred(p) /\ Op(p).space = space /\ Op(p).do = do
Next1(p) == Op(p).addr + proc[p].n
Left(p) == Op(p).n - proc[p].n
Wanted(p) == SubSeq(Op(p).data, proc[p].n + 1, proc[p].n + DwChunk(Next1(p), Left(p)))

\* A request that is answered: it takes a tag, and its caller waits.
Ask(p, t, c) ==
  LET tag == FreeTag(Side(p)) IN
  /\ cur' = [cur EXCEPT ![Side(p)] = tag]
  /\ proc' = [proc EXCEPT ![p].pc = "wait", ![p].tag = tag, ![p].c = c, ![p].m = 0]
  /\ SendFrom(p, [t EXCEPT !.tag = tag])
  /\ raised' = (FreeSteps(Side(p)) = {} \/ ~Check(t))
  /\ UNCHANGED <<hostVars, rx, mem, regs, msi, core, seen>>

\* mem_read of a Function names the whole access in its first request.
Named(p, c) == IF Side(p) = "ep" /\ ~IsUs THEN Op(p).n ELSE c
MemRead(p) ==
  /\ MayRequest(p, "mem", "read")
  /\ LET c == MemChunk(Next1(p), Left(p), Mrrs(Side(p)))
     IN Ask(p, ReadTlp("mem", Next1(p), Named(p, c)), c)
MemWrite(p) ==
  /\ MayRequest(p, "mem", "write")
  /\ LET c == MemChunk(Next1(p), Left(p), Mps(Side(p)))
         t == WriteTlp("mem", Next1(p), SubSeq(Op(p).data, proc[p].n + 1, proc[p].n + c))
     IN /\ proc' = [proc EXCEPT ![p] = Moved(p, c, <<>>)]
        /\ SendFrom(p, t)
        /\ raised' = ~Check(t)
  /\ UNCHANGED <<hostVars, cur, rx, mem, regs, msi, core, seen>>
IoRead(p) ==
  /\ MayRequest(p, "io", "read")
  /\ LET c == DwChunk(Next1(p), Left(p)) IN Ask(p, ReadTlp("io", Next1(p), c), c)
IoWrite(p) ==
  /\ MayRequest(p, "io", "write")
  /\ Ask(p, WriteTlp("io", Next1(p), Wanted(p)), Len(Wanted(p)))
CfgRead(p) ==
  /\ Side(p) = "rc" /\ MayRequest(p, "cfg", "read")
  /\ LET c == DwChunk(Next1(p), Left(p)) IN Ask(p, ReadTlp("cfg", Next1(p), c), c)
CfgWrite(p) ==
  /\ Side(p) = "rc" /\ MayRequest(p, "cfg", "write")
  /\ Ask(p, WriteTlp("cfg", Next1(p), Wanted(p)), Len(Wanted(p)))

\* The methods of the root complex, which alone configures, and of a function.
HostMemRead(p) == Side(p) = "rc" /\ MemRead(p)
HostMemWrite(p) == Side(p) = "rc" /\ MemWrite(p)
HostIoRead(p) == Side(p) = "rc" /\ IoRead(p)
HostIoWrite(p) == Side(p) = "rc" /\ IoWrite(p)
FunMemRead(p) == Side(p) = "ep" /\ MemRead(p)
FunMemWrite(p) == Side(p) = "ep" /\ MemWrite(p)
FunIoRead(p) == Side(p) = "ep" /\ IoRead(p)
FunIoWrite(p) == Side(p) = "ep" /\ IoWrite(p)

\* recv_cpl and what the callers do with the completion.
Answer(p) == Head(rx[Side(p)][proc[p].tag])
Received1(p) ==
  /\ ~raised /\ Woken(p)
  /\ rx' = [rx EXCEPT ![Side(p)][proc[p].tag] = Tail(@)]
  /\ UNCHANGED <<hostVars, cur, down, up, mem, regs, msi, strm, core, seen>>
AfterPad(p, d) == proc[p].got \o SubSeq(d, (Next1(p) % Dw) + 1, Dw)

Ones == [k \in 1..Dw |-> 255]
\* Configuration space answers with ones when there is no good completion.
TakeCfg(p) ==
  /\ Received1(p) /\ Op(p).space = "cfg"
  /\ LET d == IF Answer(p).status = "SC" THEN Answer(p).data ELSE Ones
     IN proc' = [proc EXCEPT ![p] =
                   Moved(p, proc[p].c, IF Op(p).do = "read" THEN AfterPad(p, d) ELSE <<>>)]
  /\ UNCHANGED raised
TakeIo(p) ==
  /\ Received1(p) /\ Op(p).space = "io"
  /\ proc' = [proc EXCEPT ![p] =
       IF Answer(p).status # "SC" THEN Ended(p, FALSE, <<>>)
       ELSE Moved(p, @.c, IF Op(p).do = "read" THEN AfterPad(p, Answer(p).data) ELSE <<>>)]
  /\ raised' = (Answer(p).status = "SC" /\ Op(p).do = "read" /\ Answer(p).len # 1)
TakeMem(p) ==
  /\ Received1(p) /\ Op(p).space = "mem"
  /\ LET c == Answer(p)
         got == proc[p].got \o CplBytes(c)
         m == proc[p].m + Len(c.data) - (c.low % Dw)
     IN /\ proc' = [proc EXCEPT ![p] =
              IF c.status # "SC" THEN Ended(p, FALSE, <<>>)
              ELSE IF m < @.c THEN [@ EXCEPT !.m = m, !.got = got]
              ELSE Moved(p, @.c, got)]
        /\ raised' = (c.status = "SC" /\ (~Check(c) \/ c.bytes # proc[p].c - proc[p].m))

\* Enumeration gives up on a configuration read after a while.
Timeout(p) ==
  /\ Quiet /\ proc[p].pc = "wait" /\ Op(p).hurry /\ late < MaxLate
  /\ late' = late + 1
  /\ proc' = [proc EXCEPT ![p] = Moved(p, @.c, AfterPad(p, Ones))]
  /\ UNCHANGED <<plan, cur, rx, down, up, mem, regs, msi, strm, core, seen, raised>>

\* The end of configure_msi: the message numbers get their signals.
Register(p) ==
  /\ ~raised /\ Registering(p)
  /\ msi' = [msi EXCEPT !.known = TRUE]
  /\ proc' = [proc EXCEPT ![p] = Ended(p, TRUE, <<>>)]
  /\ UNCHANGED <<hostVars, cur, rx, down, up, mem, regs, strm, core, seen, raised>>

(***************************************************************************)
(* Completers.                                                              *)
(***************************************************************************)
Crosses(t) == t.len * Dw > Page - (t.addr % Page)
InRegion(home, t) == t.addr \in DOMAIN mem[home]
Unsupported(t) == <<Completion(t, "UR", <<>>)>>

IoReadAnswer(home, t) ==
  IF InRegion(home, t) THEN <<OneCompletion(t, ReadBytes(mem[home], t))>> ELSE Unsupported(t)
IoWriteAnswer(home, t) ==
  IF InRegion(home, t) THEN <<Completion(t, "SC", <<>>)>> ELSE Unsupported(t)
MemReadAnswer(home, t) ==
  IF ~InRegion(home, t) THEN Unsupported(t)
  ELSE IF Crosses(t) THEN <<>>
  ELSE Completions(t, ReadBytes(mem[home], t), Mps(IF home = "host" THEN "rc" ELSE "ep"))
Store(home, t) == [mem EXCEPT ![home] = Written(@, t)]
IoWritten(home, t) == IF InRegion(home, t) THEN Store(home, t) ELSE mem
MemWritten(home, t) == IF InRegion(home, t) /\ ~Crosses(t) THEN Store(home, t) ELSE mem

\* Requests at the root complex ...
IsA(t, space, type) == t.space = space /\ t.type = type
AnswerDown(ts) == SendDown(ts) /\ raised' = Invalid(ts) /\ UNCHANGED msi
RcIoRead(t) == IsA(t, "io", "read") /\ AnswerDown(IoReadAnswer("hostio", t)) /\ UNCHANGED mem
RcIoWrite(t) ==
  IsA(t, "io", "write") /\ AnswerDown(IoWriteAnswer("hostio", t)) /\ mem' = IoWritten("hostio", t)
RcMemRead(t) == IsA(t, "mem", "read") /\ AnswerDown(MemReadAnswer("host", t)) /\ UNCHANGED mem
RcMemWrite(t) ==
  /\ IsA(t, "mem", "write") /\ t.addr # MsiAddr
  /\ mem' = MemWritten("host", t) /\ UNCHANGED <<down, msi, raised>>
\* msi_region_write: the callbacks of the message number run.
RcMessage(t) ==
  /\ IsA(t, "mem", "write") /\ t.addr = MsiAddr
  /\ msi' = [msi EXCEPT !.got = Append(@, t.data[1])]
  /\ raised' = ~(msi.known /\ Len(t.data) = Dw /\ t.data[1] >= MsiBase)
  /\ UNCHANGED <<down, mem>>

Answered(side, t) == rx' = [rx EXCEPT ![side][t.tag] = Append(@, t)]
AtRc ==
  /\ Quiet /\ up # <<>>
  /\ up' = Tail(up)
  /\ LET t == Head(up) IN
     \/ IsCpl(t) /\ Answered("rc", t) /\ UNCHANGED <<down, mem, msi, raised>>
     \/ /\ ~IsCpl(t) /\ UNCHANGED rx
        /\ RcIoRead(t) \/ RcIoWrite(t) \/ RcMemRead(t) \/ RcMemWrite(t) \/ RcMessage(t)
  /\ UNCHANGED <<hostVars, proc, cur, regs, strm, core, seen>>

\* ... and at the function: what it answers, and the memory after them.
EpIoRead(t) == IF IsA(t, "io", "read") THEN IoReadAnswer("bario", t) ELSE <<>>
EpIoWrite(t) == IF IsA(t, "io", "write") THEN IoWriteAnswer("bario", t) ELSE <<>>
EpMemRead(t) == IF IsA(t, "mem", "read") THEN MemReadAnswer("bar", t) ELSE <<>>
EpAnswer(t) == EpIoRead(t) \o EpIoWrite(t) \o EpMemRead(t)
EpMemWrite(t) == IF IsA(t, "mem", "write") THEN MemWritten("bar", t) ELSE mem
EpMemory(t) == IF IsA(t, "io", "write") THEN IoWritten("bario", t) ELSE EpMemWrite(t)

\* Configuration requests: the command register, the MSI capability with the
\* control, the address and, behind an upper address if it is wide, the data, and
\* the PCIe capability with what the device supports and its control.  A field of
\* a dword is a byte of it, and all else of a dword is 0.
ReadMsi(rg, reg) ==
  CASE reg = 0 -> Control(rg.enable, rg.multiple, plan.cap)
    [] reg = 1 -> LowByte(rg.addr)
    [] reg = 2 /\ plan.cap.wide = 1 -> LowByte(rg.upper)
    [] reg = DataReg(plan.cap) -> LowByte(rg.data)
    [] OTHER -> Zeros(Dw)
ReadPcie(rg, reg) == IF reg = 0 THEN LowByte(rg.supports) ELSE <<rg.mps, rg.mrrs>> \o Zeros(Dw - 2)
ReadRegister(rg, r) ==
  IF r = 0 THEN LowByte(rg.command)
  ELSE IF r * Dw < PcieCap THEN ReadMsi(rg, r - 1) ELSE ReadPcie(rg, r - (PcieCap \div Dw))
Masked(old, i, data, mask) == IF i \in mask THEN data[i + 1] ELSE old
WriteMsi(reg, data, mask) ==
  CASE reg = 0 -> [regs EXCEPT !.enable = Masked(@, 0, data, mask), !.multiple = Masked(@, 1, data, mask)]
    [] reg = 1 -> [regs EXCEPT !.addr = Masked(@, 0, data, mask)]
    [] reg = 2 /\ plan.cap.wide = 1 -> [regs EXCEPT !.upper = Masked(@, 0, data, mask)]
    [] reg = DataReg(plan.cap) -> [regs EXCEPT !.data = Masked(@, 0, data, mask)]
    [] OTHER -> regs
WritePcie(reg, data, mask) ==
  IF reg = 0 THEN regs
  ELSE [regs EXCEPT !.mps = Masked(@, 0, data, mask) % 8, !.mrrs = Masked(@, 1, data, mask) % 8]
WriteRegister(r, data, mask) ==
  IF r = 0 THEN [regs EXCEPT !.command = Masked(@, 0, data, mask)]
  ELSE IF r * Dw < PcieCap THEN WriteMsi(r - 1, data, mask)
  ELSE WritePcie(r - (PcieCap \div Dw), data, mask)
CfgAnswer(t) ==
  IF t.type = "read" THEN <<OneCompletion(t, ReadRegister(regs, t.addr \div Dw))>>
                     ELSE <<Completion(t, "SC", <<>>)>>
Configured(t) == IF t.type = "write" THEN WriteRegister(t.addr \div Dw, t.data, t.first) ELSE regs

FromLink == Quiet /\ down # <<>> /\ down' = Tail(down)
Packet == Head(down)
AtEndpoint ==
  /\ FromLink /\ ~IsUs
  /\ \/ IsCpl(Packet) /\ Answered("ep", Packet) /\ UNCHANGED <<up, mem, regs>>
     \/ Packet.space = "cfg" /\ SendUp(CfgAnswer(Packet)) /\ regs' = Configured(Packet)
        /\ UNCHANGED <<rx, mem>>
     \/ ~IsCpl(Packet) /\ Packet.space # "cfg"
        /\ SendUp(EpAnswer(Packet)) /\ mem' = EpMemory(Packet) /\ UNCHANGED <<rx, regs>>
  /\ raised' = Invalid(up')
  /\ UNCHANGED <<hostVars, proc, cur, msi, strm, core, seen>>

\* issue_msi_interrupt: only enabled messages that the function has are sent.
MsiTlps(number) ==
  LET messages == 2^regs.multiple
      data == (regs.data - (regs.data % messages)) + number
  IN IF regs.enable = 1 /\ Master /\ number < messages /\ number < 2^plan.cap.capable
     THEN <<WriteTlp("mem", regs.addr + 256 * regs.upper, LowByte(data))>> ELSE <<>>
\* The function interrupts, or the user's logic has the core do so after all
\* its requests are known to have been sent.
Interrupt(p) ==
  /\ Ready(p) /\ Op(p).do = "msi"
  /\ IF IsUs THEN /\ seen = strm.rq.sent /\ core.pin = <<>>
                  /\ core' = [core EXCEPT !.pin = <<Op(p).id>>] /\ UNCHANGED up
             ELSE SendUp(MsiTlps(Op(p).id)) /\ UNCHANGED core
  /\ proc' = [proc EXCEPT ![p] = Ended(p, TRUE, <<>>)]
  /\ raised' = Invalid(up')
  /\ UNCHANGED <<hostVars, cur, rx, down, mem, regs, msi, strm, seen>>

(***************************************************************************)
(* The core.                                                                *)
(***************************************************************************)
InBar(t) == InRegion(IF t.space = "io" THEN "bario" ELSE "bar", t)
CoreRecv ==
  /\ FromLink
  /\ \/ /\ IsCpl(Packet) /\ core' = [core EXCEPT !.rcq = Append(@, Packet)]
        /\ UNCHANGED <<up, regs>>
     \/ /\ Packet.space = "cfg" /\ ~IsCpl(Packet) /\ core.open
        /\ SendUp(CfgAnswer(Packet)) /\ regs' = Configured(Packet) /\ UNCHANGED core
     \/ /\ Packet.space = "cfg" /\ ~IsCpl(Packet) /\ ~core.open
        /\ SendUp(<<Completion(Packet, "CRS", <<>>)>>) /\ UNCHANGED <<regs, core>>
     \/ /\ ~IsCpl(Packet) /\ Packet.space # "cfg" /\ InBar(Packet)
        /\ core' = [core EXCEPT !.cqq = Append(@, Packet)] /\ UNCHANGED <<up, regs>>
     \/ /\ ~IsCpl(Packet) /\ Packet.space # "cfg" /\ ~InBar(Packet)
        /\ SendUp(IF Posted(Packet) THEN <<>> ELSE Unsupported(Packet)) /\ UNCHANGED <<regs, core>>
  /\ raised' = Invalid(up')
  /\ UNCHANGED <<hostVars, proc, cur, rx, mem, msi, strm, seen>>
AtUs == plan.dev = "us" /\ CoreRecv
AtUsp == plan.dev = "usp" /\ CoreRecv

\* Completer requests: those that are not posted need a credit, and wait for
\* it in cq_np_queue, where posted ones pass them.
CqSend(a, t) ==
  [a EXCEPT !.cq = Sent(@, PackCq(@.sent + 1, t)), !.np = IF Posted(t) THEN @ ELSE @ - 1]
\* Bug variant of CqWaiting: only new requests are looked at.
CqWaitingNever(a) == a
CqWaiting(a) ==
  LET k == Least(a.np, Len(a.npq))
  IN [a EXCEPT !.cq = SentAll(@, [i \in 1..k |-> PackCq(@.sent + i, a.npq[i])]),
               !.np = @ - k, !.npq = SubSeq(@, k + 1, Len(@))]
CqNew(a, t) ==
  IF Posted(t) \/ a.np > 0 THEN CqSend(a, t) ELSE [a EXCEPT !.npq = Append(@, t)]
\* Bug variant of Credits: the counter has no limit.
CreditsUnlimited(np) == core.np + (IF np THEN 1 ELSE 0)
Credits(np) == IF np THEN Least(core.np + 1, MaxCredits) ELSE core.np
CqRequests(np) ==
  FoldLeft(CqNew, CqWaiting([np |-> Credits(np), npq |-> core.npq, cq |-> strm.cq]), core.cqq)

AllReceived(s) == [s EXCEPT !.out = <<>>, !.taken = @ + Len(s.out)]
CcTlps == [i \in DOMAIN strm.cc.out |-> UnpackCc(strm.cc.out[i])]
\* Without bus mastering the requests are dropped.
RqFrames == IF Master THEN strm.rq.out ELSE <<>>
RqTlps == [i \in DOMAIN RqFrames |-> UnpackRq(RqFrames[i])]
RqSeqNums == core.seqs \o [i \in DOMAIN RqFrames |-> RqFrames[i][1].no]
RcSend(s, ts) == SentAll(s, [i \in DOMAIN ts |-> PackRc(s.sent + i, ts[i])])

\* cfg_interrupt_msi_int.
MsiOfPin == IF core.pin = <<>> THEN <<>> ELSE MsiTlps(core.pin[1])

\* An edge of the core: completer requests, completer completions, requester
\* requests, sequence numbers, requester completions, interrupts.
CoreEdge(np, ports) ==
  /\ Quiet
  /\ LET a == CqRequests(np)
         shown == Least(ports, Len(RqSeqNums))
     IN /\ core' = [np |-> a.np, npq |-> a.npq, cqq |-> <<>>, rcq |-> <<>>,
                    seqs |-> SubSeq(RqSeqNums, shown + 1, Len(RqSeqNums)), pin |-> <<>>, open |-> TRUE]
        /\ seen' = IF shown = 0 THEN seen ELSE RqSeqNums[shown]
        /\ strm' = [cq |-> a.cq, cc |-> AllReceived(strm.cc), rq |-> AllReceived(strm.rq),
                    rc |-> RcSend(strm.rc, core.rcq)]
  /\ SendUp(CcTlps \o RqTlps \o MsiOfPin) /\ raised' = Invalid(up')
  /\ UNCHANGED <<hostVars, proc, cur, rx, down, mem, regs, msi>>
\* Bug variant of UsLogic: sequence numbers are shown before the requests are sent.
UsLogicEarly(np) ==
  /\ plan.dev = "us" /\ Quiet
  /\ seen' = strm.rq.sent
  /\ LET a == CqRequests(np)
     IN /\ core' = [np |-> a.np, npq |-> a.npq, cqq |-> <<>>, rcq |-> <<>>,
                    seqs |-> <<>>, pin |-> <<>>, open |-> TRUE]
        /\ strm' = [cq |-> a.cq, cc |-> AllReceived(strm.cc), rq |-> AllReceived(strm.rq),
                    rc |-> RcSend(strm.rc, core.rcq)]
  /\ SendUp(CcTlps \o RqTlps \o MsiOfPin)
  /\ UNCHANGED <<hostVars, proc, cur, rx, down, mem, regs, msi, raised>>
\* One port for sequence numbers, or two.
UsLogic(np) == plan.dev = "us" /\ CoreEdge(np, 1)
UspLogic(np) == plan.dev = "usp" /\ CoreEdge(np, 2)

\* Edges of the streams, with the source or the sink paused; on an idle stream
\* they change nothing.
Idles(s) == s.queue = <<>> /\ s.left = <<>> /\ ~s.active
Tick(id, s) ==
  /\ IsUs /\ Quiet /\ ~Idles(strm[id]) /\ strm' = [strm EXCEPT ![id] = s]
  /\ UNCHANGED <<hostVars, proc, cur, rx, down, up, mem, regs, msi, core, seen, raised>>
CqTick(here, there) == Tick("cq", CqEdge(strm.cq, here, there))
CcTick(here, there) == Tick("cc", CcEdge(strm.cc, here, there))
RqTick(here, there) == Tick("rq", RqEdge(strm.rq, here, there))
RcTick(here, there) == Tick("rc", RcEdge(strm.rc, here, there))

\* The user's logic: it answers requests, and takes its completions.
CcSend(s, ts) == SentAll(s, [i \in DOMAIN ts |-> PackCc(s.sent + i, ts[i])])
UserCompleter ==
  /\ IsUs /\ Quiet /\ strm.cq.out # <<>>
  /\ LET t == UnpackCq(Head(strm.cq.out)) IN
     /\ strm' = [strm EXCEPT !.cq = Received(@), !.cc = CcSend(@, EpAnswer(t))]
     /\ mem' = EpMemory(t)
  /\ UNCHANGED <<hostVars, proc, cur, rx, down, up, regs, msi, core, seen, raised>>
UserRequester ==
  /\ IsUs /\ Quiet /\ strm.rc.out # <<>>
  /\ Answered("ep", UnpackRc(Head(strm.rc.out)))
  /\ strm' = [strm EXCEPT !.rc = Received(@)]
  /\ UNCHANGED <<hostVars, proc, cur, down, up, mem, regs, msi, core, seen, raised>>

\* The core as it is made; its configuration space is enabled by the first edge,
\* or was before the behaviour begins.
NewStreams == [s \in {"cq", "cc", "rq", "rc"} |-> NoStream]
NewCore ==
  [np |-> 0, npq |-> <<>>, cqq |-> <<>>, rcq |-> <<>>, seqs |-> <<>>, pin |-> <<>>,
   open |-> plan.regs.command = 1]
XferInit ==
  /\ plan \in Plans
  /\ proc = [p \in Callers |-> Idle]
  /\ cur = [s \in Sides |-> 0]
  /\ rx = [s \in Sides |-> [t \in 0..(Tags - 1) |-> <<>>]]
  /\ down = <<>> /\ up = <<>>
  /\ mem = Memory0
  /\ regs = plan.regs
  /\ msi = [known |-> regs.enable = 1, got |-> <<>>]
  /\ strm = NewStreams
  /\ core = NewCore
  /\ seen = 0 /\ late = 0 /\ raised = FALSE

Host(p) ==
  \/ Local(p) \/ HostMemRead(p) \/ HostMemWrite(p) \/ HostIoRead(p) \/ HostIoWrite(p)
  \/ CfgRead(p) \/ CfgWrite(p) \/ Register(p)
OfFunction(p) ==
  \/ Refuse(p) \/ FunMemRead(p) \/ FunMemWrite(p) \/ FunIoRead(p) \/ FunIoWrite(p) \/ Interrupt(p)
Call(p) == Host(p) \/ OfFunction(p)
Take(p) == TakeCfg(p) \/ TakeIo(p) \/ TakeMem(p)
AtDevice == AtEndpoint \/ AtUs \/ AtUsp
Logic(np) == UsLogic(np) \/ UspLogic(np)
Ticks(here, there) ==
  CqTick(here, there) \/ CcTick(here, there) \/ RqTick(here, there) \/ RcTick(here, there)

XferNext ==
  \/ \E p \in Callers : Call(p) \/ Take(p) \/ Timeout(p)
  \/ AtRc \/ AtDevice
  \/ \E np \in BOOLEAN : Logic(np)
  \/ \E here, there \in BOOLEAN : Ticks(here, there)
  \/ UserCompleter \/ UserRequester

\* Packets arrive, callers go on, the clock runs; no pause lasts for ever, and
\* the user's logic goes on asking for requests.
XferSpec ==
  /\ XferInit /\ [][XferNext]_xferVars
  /\ \A p \in Callers : WF_xferVars(Call(p)) /\ WF_xferVars(Take(p))
  /\ WF_xferVars(AtRc) /\ WF_xferVars(AtDevice) /\ WF_xferVars(Logic(TRUE))
  /\ WF_xferVars(CqTick(FALSE, FALSE)) /\ WF_xferVars(CcTick(FALSE, FALSE))
  /\ WF_xferVars(RqTick(FALSE, FALSE)) /\ WF_xferVars(RcTick(FALSE, FALSE))
  /\ WF_xferVars(UserCompleter) /\ WF_xferVars(UserRequester)

(***************************************************************************)
(* Properties.                                                              *)
(***************************************************************************)
Packets(q) == \A i \in DOMAIN q : q[i].tag \in 0..(Tags - 1)
\* Tags, credits and queues stay in their ranges (recv_cpl, cq_np_req_count).
XferTypeOK ==
  /\ plan \in Plans /\ late \in 0..MaxLate /\ raised \in BOOLEAN
  /\ \A p \in Callers : /\ proc[p].pc \in {"run", "wait"} /\ proc[p].tag \in 0..(Tags - 1)
                         /\ proc[p].at \in 1..(Len(plan.prog[p]) + 1)
                         /\ Len(proc[p].res) = proc[p].at - 1
  /\ cur \in [Sides -> 0..(Tags - 1)]
  /\ Packets(down) /\ Packets(up) /\ Packets(core.cqq) /\ Packets(core.npq) /\ Packets(core.rcq)
  /\ DOMAIN mem = DOMAIN Memory0 /\ \A h \in DOMAIN mem : DOMAIN mem[h] = DOMAIN Memory0[h]
  /\ core.np \in 0..MaxCredits /\ core.open \in BOOLEAN /\ Len(core.pin) <= 1
  /\ seen \in 0..strm.rq.sent

Bytes(o) == o.addr..(o.addr + o.n - 1)
Writes(o, space, a) == o.do = "write" /\ o.space = space /\ a \in Bytes(o)
Value(o, a) == o.data[a - o.addr + 1]
Original(space, a) ==
  IF space = "cfg" THEN ReadRegister(plan.regs, a \div Dw)[(a % Dw) + 1]
  ELSE LET home == CHOOSE h \in DOMAIN Memory0 : a \in DOMAIN Memory0[h] IN Memory0[home][a]
\* What p's access number i may find at a: what p wrote last, or what others write.
Own(p, i, space, a) ==
  LET mine == {j \in 1..(i - 1) : Writes(plan.prog[p][j], space, a) /\ proc[p].res[j].ok}
  IN IF mine = {} THEN Original(space, a) ELSE Value(plan.prog[p][Max(mine)], a)
Others(p, space, a) ==
  {Value(o, a) : o \in {o \in UNION {Range(plan.prog[q]) : q \in Callers \ {p}} : Writes(o, space, a)}}
Returned(o, r) == IF o.ws = 0 THEN r.data ELSE BytesOf(r.data)
Found(p, i, o) ==
  \A k \in 1..o.n :
    LET a == o.addr + k - 1 IN Returned(o, proc[p].res[i])[k] \in {Own(p, i, o.space, a)} \cup Others(p, o.space, a)
Mapped(o) ==
  \/ o.space = "cfg"
  \/ \E h \in DOMAIN Memory0 : Bytes(o) \subseteq DOMAIN Memory0[h]
\* A read that has ended, however it was split into requests and its answers
\* into completions, and whatever was under way with it, has every byte of its
\* range once, in order, as its own earlier writes or another caller's left it;
\* it fails only when nothing is there or the function may not master the bus
\* (mem_read, io_read, config_read at both ends).
ReadsRight ==
  \A p \in Callers : \A i \in DOMAIN proc[p].res :
    LET o == plan.prog[p][i]
        r == proc[p].res[i]
    IN o.do = "read" =>
         /\ r.ok => Len(Returned(o, r)) = o.n
         /\ r.ok /\ o.space # "cfg" => Mapped(o) /\ Found(p, i, o)
         /\ o.space = "cfg" => Found(p, i, o) \/ (Returned(o, r) = Ones /\ (late > 0 \/ ~Master))
         /\ Mapped(o) => r.ok \/ (p = "ep" /\ plan.regs.command = 0)

\* Every word of the frames sent and not yet taken is in one place, in order,
\* and the frames a sink has queued are whole, under any pauses of both ends
\* (CQSource to RCSink of pcie_us.py).
FramesWhole == \A s \in DOMAIN strm : Whole(strm[s])

\* When a message arrives at the root complex, what the device wrote before it
\* interrupted is in host memory: the requests of a function keep their order,
\* and the sequence numbers of the core tell that they are past (pcie_rq_seq_num).
DataBeforeMsi ==
  LET ops == plan.prog["ep"] IN
  \A j \in DOMAIN ops : \A i \in 1..(j - 1) :
    /\ ops[j].do = "msi" /\ MsiBase + ops[j].id \in Range(msi.got)
    /\ ops[i].do = "write" /\ ops[i].space = "mem" /\ Mapped(ops[i])
    => \A a \in Bytes(ops[i]) : mem.host[a] = Value(ops[i], a)

\* No assertion of the two ends fails: requests are within a page, completions
\* announce what is still to come, and a message has its signal when it arrives,
\* though configure_msi makes it after it has enabled the messages.
XferNeverRaises == ~raised

\* Every access comes to an end: a non-posted request that waits for a credit
\* gets one, and no stream or queue keeps a packet for ever.
AllAnswered == <>(\A p \in Callers : ~Busy(p))
=============================================================================
