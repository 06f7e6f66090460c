-------------------------------- MODULE PcieTlp --------------------------------
(***************************************************************************)
(* Transaction layer packets of fpga/lib/pcie/tb/pcie.py: byte enables,      *)
(* lengths and lower addresses, the splitting of reads and writes into       *)
(* requests, and of the answer to a read into completions.                   *)
(*                                                                         *)
(* A packet is a record.  Data is a sequence of bytes, Dw for each dword of  *)
(* the length; a byte enable is the set of the enabled lanes of a dword.     *)
(***************************************************************************)
EXTENDS Integers, Sequences, SequencesExt, FiniteSets, FiniteSetsExt

CONSTANTS
  Dw,   \* bytes of a dword (4)
  Rcb,  \* read completion boundary, and the smallest payload limit (128)
  Page  \* requests do not cross a multiple of it (0x1000)

ASSUME TlpAssumption ==
  /\ Dw \in Nat \ {0} /\ Rcb \in Nat \ {0} /\ Page \in Nat \ {0}
  /\ Rcb % Dw = 0 /\ Page % Rcb = 0

Lanes == 0..(Dw - 1)
Limit(code) == Rcb * 2^code
Zeros(n) == [i \in 1..n |-> 0]
Least(a, b) == IF a < b THEN a ELSE b

\* Dword address, length and enables of n bytes from addr on.
SetBe(addr, n) ==
  LET first == addr % Dw
      last == (Dw - 1) - ((addr + n - 1) % Dw)
      len == (n + first + last) \div Dw
      low == {l \in Lanes : l >= first}
      high == {l \in Lanes : l <= (Dw - 1) - last}
  IN [addr |-> addr - first, len |-> len,
      first |-> IF len = 1 THEN low \cap high ELSE low,
      last |-> IF len = 1 THEN {} ELSE high]

Tlp(type, space, be, data) ==
  [type |-> type, space |-> space, tag |-> 0, addr |-> be.addr, len |-> be.len,
   first |-> be.first, last |-> be.last, data |-> data,
   bytes |-> 0, low |-> 0, status |-> "SC"]

ReadTlp(space, addr, n) == Tlp("read", space, SetBe(addr, n), <<>>)
\* set_be_data: the data is padded to dwords.
WriteTlp(space, addr, data) ==
  LET n == Len(data)
      pad == (Dw - 1) - ((addr + n - 1) % Dw)
  IN Tlp("write", space, SetBe(addr, n), Zeros(addr % Dw) \o data \o Zeros(pad))

FirstOffset(t) == IF t.first = {} THEN Dw - 1 ELSE Min(t.first)
LastOffset(t) ==
  LET be == IF t.len = 1 THEN t.first ELSE t.last
  IN IF be = {} THEN 0 ELSE (Dw - 1) - Max(be)
ByteCount(t) == t.len * Dw - FirstOffset(t) - LastOffset(t)

\* Memory writes are the requests that nobody answers.
Posted(t) == t.space = "mem" /\ t.type = "write"
IsCpl(t) == t.type = "cpl"

\* Validation of what is sent.
Check(t) ==
  /\ t.data # <<>> => Len(t.data) = t.len * Dw
  /\ t.space = "mem" /\ ~IsCpl(t) => t.len * Dw <= Page - (t.addr % Page)
  /\ t.space = "io" /\ ~IsCpl(t) => t.len = 1 /\ t.last = {}
  /\ IsCpl(t) /\ t.data # <<>> => t.bytes + (t.low % Dw) + (Dw - 1) >= t.len * Dw

(***************************************************************************)
(* Answers.                                                                 *)
(***************************************************************************)
Completion(t, status, data) ==
  [Tlp("cpl", t.space, [addr |-> 0, len |-> Len(data) \div Dw, first |-> {}, last |-> {}], data)
     EXCEPT !.tag = t.tag, !.status = status]
\* Configuration and IO requests are about one dword.
OneCompletion(t, data) == [Completion(t, "SC", data) EXCEPT !.bytes = Dw]

\* The enabled bytes of a request, as offsets from its address.
Enabled(t) ==
  {l \in Lanes : l \in t.first}
    \cup {k \in Dw..((t.len - 1) * Dw - 1) : TRUE}
    \cup {k \in ((t.len - 1) * Dw)..(t.len * Dw - 1) : t.len > 1 /\ k % Dw \in t.last}

\* The memory after a write: the enabled bytes are changed, the others not.
Written(mem, t) ==
  [a \in DOMAIN mem |-> IF a - t.addr \in Enabled(t) THEN t.data[a - t.addr + 1] ELSE mem[a]]
\* The bytes of a read, the enabled ones only for IO.
ReadBytes(mem, t) ==
  [k \in 1..(t.len * Dw) |->
     IF t.space = "mem" \/ k - 1 \in Enabled(t) THEN mem[t.addr + k - 1] ELSE 0]

\* Where the answer is when m dwords are done, and how long its next part is.
At(t, m) == IF m = 0 THEN t.addr + FirstOffset(t) ELSE t.addr + m * Dw
PartLen(t, m, mps) ==
  LET most == Limit(mps) \div Dw IN
  IF t.len - m > most THEN most - ((At(t, m) % Rcb) \div Dw) ELSE t.len - m

\* Bug variant of Part: every part announces all the bytes.
PartAllBytes(t, data, m, mps) ==
  [Completion(t, "SC", SubSeq(data, m * Dw + 1, (m + PartLen(t, m, mps)) * Dw))
     EXCEPT !.bytes = ByteCount(t), !.low = At(t, m) % Rcb]
\* One completion of a memory read: its data, the bytes that are still to come
\* with it, and the low bits of the address of its first byte.
Part(t, data, m, mps) ==
  [Completion(t, "SC", SubSeq(data, m * Dw + 1, (m + PartLen(t, m, mps)) * Dw))
     EXCEPT !.bytes = ByteCount(t) - (At(t, m) - At(t, 0)), !.low = At(t, m) % Rcb]

Completions(t, data, mps) ==
  LET from[m \in 0..t.len] ==
        IF m = t.len THEN <<>> ELSE <<Part(t, data, m, mps)>> \o from[m + PartLen(t, m, mps)]
  IN from[0]

(***************************************************************************)
(* Requests.                                                                *)
(***************************************************************************)
\* The bytes of the next request of an access to memory: within the payload or
\* read request limit and within a page ...
MemChunk(addr, left, code) == Min({left, Limit(code) - (addr % Dw), Page - (addr % Page)})
\* ... and of an access to IO or configuration space, within a dword.
DwChunk(addr, left) == Least(left, Dw - (addr % Dw))

\* The bytes that a completion of a memory read contributes.
\* Bug variant of CplBytes: the offset of the first byte is ignored.
CplBytesFromZero(c) == SubSeq(c.data, 1, Least(Len(c.data), c.bytes))
CplBytes(c) ==
  LET offset == c.low % Dw
  IN SubSeq(c.data, offset + 1, Least(Len(c.data), offset + c.bytes))

\* Words of ws bytes.  A word is the sequence of its bytes, the lowest first.
Words(data, ws) == [k \in 1..(Len(data) \div ws) |-> SubSeq(data, ws * (k - 1) + 1, ws * k)]
BytesOf(words) == FlattenSeq(words)
=============================================================================
