---------------------------- MODULE CtrlPath_proof ----------------------------
(***************************************************************************)
(* Proofs about CtrlPath, for every number of stages, table size, packet    *)
(* length and pausing of the source.                                        *)
(***************************************************************************)
EXTENDS CtrlPath, SequenceTheorems, TLAPS

-----------------------------------------------------------------------------
(* Type correctness, with no assumption on the traffic. *)

LastNode == 2 * Stages + 2
Names == {"parse", "offset", "mask", "cam", "act"}
RowSet == 0..(Rows - 1)
Index == 0..(IndexMod - 1)
Places == [to : Anyone, row : RowSet, half : Nat]
Registers == [at : Names \cup {"IDLE", "act2"}, wr : SUBSET Names, index : Index,
              actIndex : Index, tmp : Nat \X Nat, more : BOOLEAN, out : Beats]

\* The registers of module n: it knows no tables but its own, and writes none
\* but the one it is in and, for a cycle, the action RAM.
RegistersOf(n) == {nd \in Registers : /\ nd.at \in {"IDLE", "act2"} \cup TablesOf(n)
                                      /\ nd.wr \subseteq TablesOf(n)
                                      /\ nd.wr \subseteq {nd.at, "act"}
                                      /\ nd.at = "act2" => "act" \in TablesOf(n)}

SourceTypes ==
  /\ chan \in Beats
  /\ cur \in [to : Anyone, row : RowSet, beats : Nat, half : Nat]
  /\ idle \in Nat /\ sentCtl \in Nat
  /\ wanted \in [Tables -> [RowSet -> Entries]]
  /\ aim \in Seq(Places)

ModuleTypes == node \in [Nodes -> Registers] /\ \A n \in Nodes : node[n] \in RegistersOf(n)

Types == SourceTypes /\ ModuleTypes /\ table \in [Tables -> [RowSet -> Entries]]

\* The modules are numbered from 1, and the module before module n is n - 1.
LEMMA NodeNumbers ==
  /\ LastNode \in Nat /\ LastNode >= 1 /\ Nodes = 1..LastNode
  /\ \A n \in Nodes : n \in Nat /\ n >= 1 /\ n <= LastNode
BY CtrlAssumption DEF LastNode, Nodes

\* A table is named by its module and its name there.
LEMMA TableNames ==
  /\ \A n : TablesOf(n) \subseteq Names
  /\ \A t \in Tables : /\ t = <<t[1], t[2]>> /\ t[1] \in Nodes
                       /\ t[2] \in TablesOf(t[1]) /\ t # Nobody
  /\ \A n \in Nodes : \A name \in TablesOf(n) : <<n, name>> \in Tables
<1>1. \A n : TablesOf(n) \subseteq Names
  BY DEF TablesOf, Names
<1>2. \A t \in Tables : \E n \in Nodes : \E name \in TablesOf(n) : t = <<n, name>>
  BY DEF Tables
<1>3. \A n \in Nodes : \A name \in TablesOf(n) : <<n, name>> \in Tables
  BY DEF Tables
<1>4. \A t \in Tables : /\ t = <<t[1], t[2]>> /\ t[1] \in Nodes
                        /\ t[2] \in TablesOf(t[1]) /\ t # Nobody
  BY <1>1, <1>2, NodeNumbers DEF Nobody, Names
<1> QED BY <1>1, <1>3, <1>4

\* Where a beat may be addressed to, and what that says.
LEMMA Addressees ==
  ASSUME NEW a \in Anyone
  PROVE  /\ a[1] \in Nat /\ a[1] <= LastNode
         /\ a[1] = 0 <=> a = Nobody
         /\ a[1] # 0 => a \in Tables /\ a[1] \in Nodes /\ a[2] \in TablesOf(a[1])
                        /\ a[2] \in Names /\ a = <<a[1], a[2]>>
         /\ a \in Tables => a[1] # 0
BY TableNames, NodeNumbers DEF Anyone, Nobody

\* Rows and table indices stay in their ranges when they are counted on.
LEMMA Indices ==
  /\ 0 \in RowSet /\ 0 \in Index
  /\ \A i \in Index : i \in Nat /\ (i + 1) % IndexMod \in Index
  /\ \A i \in Index : i % Rows \in RowSet
  /\ \A i \in RowSet : i \in Nat /\ (i + 1) % Rows \in RowSet
BY CtrlAssumption DEF RowSet, Index

\* An idle bus is a beat like any other.
LEMMA QuietType == Quiet \in Beats /\ Nobody \in Anyone
BY Indices DEF Quiet, Beats, Anyone, Index

\* After reset every register has its type.
LEMMA InitTypes == CtlInit => Types
<1> SUFFICES ASSUME CtlInit PROVE Types
  OBVIOUS
<1>1. SourceTypes
  BY QuietType, Indices, CtrlAssumption, EmptySeq
     DEF CtlInit, SourceTypes, NoPacket, Fresh, Entries, RowSet
<1>2. \A n \in Nodes : Reset \in RegistersOf(n)
  BY QuietType, Indices DEF Reset, RegistersOf, Registers
<1>3. ModuleTypes
  BY <1>2 DEF CtlInit, ModuleTypes, RegistersOf
<1>4. table \in [Tables -> [RowSet -> Entries]]
  BY DEF CtlInit, Fresh, Entries, RowSet
<1> QED BY <1>1, <1>3, <1>4 DEF Types

\* Whatever packet the source sends, the channel and the history keep their types.
LEMMA SourceKeepsTypes == SourceTypes /\ CtlSource => SourceTypes'
<1> SUFFICES ASSUME SourceTypes, CtlSource PROVE SourceTypes'
  OBVIOUS
<1>1. CASE SendNothing
  BY <1>1, QuietType DEF SendNothing, SourceTypes
<1>2. CASE SendHeader
  <2>1. PICK h \in Headers :
          /\ chan' = [valid |-> TRUE, last |-> FALSE, to |-> h[1], row |-> h[2], id |-> 0]
          /\ cur' = [to |-> h[1], row |-> h[2] % Rows, beats |-> 1, half |-> 0]
    BY <1>2 DEF SendHeader
  <2>2. h[1] \in Anyone /\ h[2] \in Index
    BY CtrlAssumption DEF Index
  <2>3. chan' \in Beats
    BY <2>1, <2>2 DEF Beats, Index
  <2>4. cur' \in [to : Anyone, row : RowSet, beats : Nat, half : Nat]
    BY <2>1, <2>2, Indices
  <2> QED BY <1>2, <2>3, <2>4 DEF SendHeader, SourceTypes
<1>3. CASE SendPayload
  <2>1. PICK last \in BOOLEAN, l \in Lookalikes :
          /\ chan' = [valid |-> TRUE, last |-> last, to |-> l[1], row |-> l[2], id |-> NextId]
          /\ cur' = IF last THEN NoPacket
                    ELSE [cur EXCEPT !.beats = @ + 1,
                                     !.row = IF Completes THEN (@ + 1) % Rows ELSE @,
                                     !.half = IF Completes THEN 0 ELSE NextId]
    BY <1>3 DEF SendPayload
  <2>2. l[1] \in Anyone /\ l[2] \in Index
    BY CtrlAssumption DEF Index
  <2>3. NextId \in Nat
    BY DEF NextId, SourceTypes
  <2>4. chan' \in Beats
    BY <2>1, <2>2, <2>3 DEF Beats, Index
  <2>5. cur' \in [to : Anyone, row : RowSet, beats : Nat, half : Nat]
    <3>1. CASE last
      BY <2>1, <3>1, Indices, QuietType DEF NoPacket
    <3>2. CASE ~last
      <4>1. cur.row \in RowSet /\ (cur.row + 1) % Rows \in RowSet
        BY Indices DEF SourceTypes
      <4>2. cur' = [cur EXCEPT !.beats = @ + 1,
                               !.row = IF Completes THEN (@ + 1) % Rows ELSE @,
                               !.half = IF Completes THEN 0 ELSE NextId]
        BY <2>1, <3>2
      <4>3. CASE Completes
        <5>1. cur' = [to |-> cur.to, row |-> (cur.row + 1) % Rows,
                      beats |-> cur.beats + 1, half |-> 0]
          BY <4>2, <4>3 DEF SourceTypes
        <5> QED BY <5>1, <4>1 DEF SourceTypes
      <4>4. CASE ~Completes
        <5>1. cur' = [to |-> cur.to, row |-> cur.row,
                      beats |-> cur.beats + 1, half |-> NextId]
          BY <4>2, <4>4 DEF SourceTypes
        <5> QED BY <2>3, <5>1, <4>1 DEF SourceTypes
      <4> QED BY <4>3, <4>4
    <3> QED BY <3>1, <3>2
  <2>6. aim' \in Seq(Places)
    <3>1. Place(cur) \in Places
      BY DEF Place, Places, SourceTypes
    <3> QED BY <1>3, <3>1, AppendProperties DEF SendPayload, SourceTypes
  <2>7. wanted' \in [Tables -> [RowSet -> Entries]]
    <3> DEFINE e == <<IF cur.to[2] = "act" THEN cur.half ELSE NextId, NextId>>
    <3>1. e \in Entries /\ cur.row \in RowSet
      BY <2>3 DEF SourceTypes, Entries
    <3>2. CASE Completes /\ cur.to # Nobody
      <4>1. cur.to \in Tables
        BY <3>2 DEF SourceTypes, Anyone
      <4>2. wanted' = [wanted EXCEPT ![cur.to][cur.row] = e]
        BY <1>3, <3>2 DEF SendPayload
      <4> HIDE DEF e
      <4> QED BY <3>1, <4>1, <4>2 DEF SourceTypes
    <3>3. CASE ~(Completes /\ cur.to # Nobody)
      BY <1>3, <3>3 DEF SendPayload, SourceTypes
    <3> QED BY <3>2, <3>3
  <2> QED BY <1>3, <2>4, <2>5, <2>6, <2>7 DEF SendPayload, SourceTypes
<1> QED BY <1>1, <1>2, <1>3 DEF CtlSource

\* The buffer of an action entry keeps one half when the other is loaded.
LEMMA HalfLoads ==
  ASSUME NEW p \in Nat \X Nat, NEW x \in Nat
  PROVE  [p EXCEPT ![1] = x] = <<x, p[2]>> /\ [p EXCEPT ![2] = x] = <<p[1], x>>
OBVIOUS

\* The registers of a module that selects a table, field by field.
LEMMA SelectFields ==
  ASSUME NEW n, NEW nd \in Registers, NEW b, NEW r, r = Select(n, nd, b), b.to[2] # "act"
  PROVE  /\ r.at = b.to[2] /\ r.tmp = nd.tmp
         /\ r.out = IF Kind(n) = "lookup_engine" THEN nd.out ELSE Quiet
         /\ r.wr = nd.wr \cup {b.to[2]} /\ r.index = b.row
         /\ r.actIndex = nd.actIndex /\ r.more = nd.more
BY DEF Select, Registers

\* The same for a module that passes the beat on.
LEMMA PassOnFields ==
  ASSUME NEW b, NEW r, r = PassOn(b)
  PROVE  /\ r.at = "IDLE" /\ r.wr = {} /\ r.index = 0 /\ r.actIndex = 0 /\ r.tmp = <<0, 0>>
         /\ r.more = FALSE /\ r.out = IF b.valid THEN b ELSE Quiet
BY DEF PassOn, Reset

\* The same for a module that writes a table other than the actions.
LEMMA WriteFields ==
  ASSUME NEW nd \in Registers, NEW b, b.valid, NEW r, r = Write(nd, b)
  PROVE  /\ r.at = IF b.last THEN "IDLE" ELSE nd.at
         /\ r.wr = IF b.last THEN nd.wr \ {nd.at} ELSE nd.wr
         /\ r.index = IF ~b.last THEN (nd.index + 1) % IndexMod
                      ELSE IF nd.at = "cam" THEN nd.index ELSE 0
         /\ r.actIndex = nd.actIndex /\ r.tmp = nd.tmp /\ r.more = nd.more /\ r.out = nd.out
<1>1. CASE b.last
  BY <1>1 DEF Write, Registers
<1>2. CASE ~b.last
  BY <1>2 DEF Write, Registers
<1> QED BY <1>1, <1>2

\* The same for the first half of an action entry.
LEMMA ActWaitFields ==
  ASSUME NEW nd \in Registers, NEW b \in Beats, NEW r, r = ActWait(nd, b)
  PROVE  /\ r.at = IF ~b.valid THEN nd.at ELSE IF b.last THEN "IDLE" ELSE "act2"
         /\ r.wr = nd.wr \ {"act"} /\ r.index = nd.index
         /\ r.actIndex = IF b.valid /\ ~b.last /\ nd.more
                         THEN (nd.actIndex + 1) % IndexMod ELSE nd.actIndex
         /\ r.tmp = IF b.valid /\ ~b.last THEN <<b.id, nd.tmp[2]>> ELSE nd.tmp
         /\ r.more = nd.more /\ r.out = nd.out
<1>1. CASE ~b.valid
  BY <1>1 DEF ActWait, Registers
<1>2. CASE b.valid /\ b.last
  BY <1>2 DEF ActWait, Registers
<1>3. CASE b.valid /\ ~b.last
  <2>1. [nd.tmp EXCEPT ![1] = b.id] = <<b.id, nd.tmp[2]>>
    BY HalfLoads DEF Registers, Beats
  <2> QED BY <1>3, <2>1 DEF ActWait, Registers
<1> QED BY <1>1, <1>2, <1>3

\* The same for its second half.
LEMMA ActTmpFields ==
  ASSUME NEW nd \in Registers, NEW b \in Beats, b.valid, NEW r, r = ActTmp(nd, b)
  PROVE  /\ r.at = IF b.last THEN "IDLE" ELSE "act"
         /\ r.wr = nd.wr \cup {"act"} /\ r.index = nd.index /\ r.actIndex = nd.actIndex
         /\ r.tmp = <<nd.tmp[1], b.id>> /\ r.out = nd.out
         /\ r.more = IF b.last THEN nd.more ELSE TRUE
<1>1. [nd.tmp EXCEPT ![2] = b.id] = <<nd.tmp[1], b.id>>
  BY HalfLoads DEF Registers, Beats
<1> QED BY <1>1 DEF ActTmp, Registers

\* Whatever beat a module sees, its registers stay its own.
LEMMA NodeKeepsTypes ==
  ASSUME NEW n \in Nodes, NEW nd \in RegistersOf(n), NEW b \in Beats
  PROVE  NodeNext(n, nd, b) \in RegistersOf(n)
<1>1. nd \in Registers /\ nd.at \in {"IDLE", "act2"} \cup TablesOf(n)
      /\ nd.wr \subseteq TablesOf(n) /\ nd.wr \subseteq {nd.at, "act"}
      /\ (nd.at = "act2" => "act" \in TablesOf(n))
  BY DEF RegistersOf
<1>2. TablesOf(n) \subseteq Names /\ {"IDLE", "act2"} \cap TablesOf(n) = {}
  BY TableNames DEF Names
<1>3. b.id \in Nat /\ b.row \in Index
  BY DEF Beats, Index
<1>4. CASE nd.at = "IDLE" /\ IsFor(n, b)
  <2>1. b.to[2] \in TablesOf(n)
    <3>1. b.to \in Anyone /\ b.to[1] = n
      BY <1>4 DEF Beats, IsFor
    <3> QED BY <3>1, Addressees, NodeNumbers
  <2>2. PICK r : r = Select(n, nd, b)
    OBVIOUS
  <2>3. r \in Registers
    <3>1. CASE b.to[2] = "act"
      BY <1>1, <1>2, <1>3, <2>1, <2>2, <3>1, QuietType DEF Select, Registers
    <3>2. CASE b.to[2] # "act"
      BY <1>1, <1>2, <1>3, <2>1, <2>2, <3>2, QuietType DEF Select, Registers
    <3> QED BY <3>1, <3>2
  <2>4. r \in RegistersOf(n)
    <3>1. CASE b.to[2] = "act"
      <4>1. r.at = "act" /\ r.wr = nd.wr
        BY <1>1, <2>2, <3>1 DEF Select, Registers
      <4> QED BY <1>1, <1>2, <1>4, <2>1, <2>3, <3>1, <4>1 DEF RegistersOf
    <3>2. CASE b.to[2] # "act"
      <4>1. r.at = b.to[2] /\ r.wr = nd.wr \cup {b.to[2]}
        BY <1>1, <2>2, <3>2, SelectFields
      <4> QED BY <1>1, <1>2, <1>4, <2>1, <2>3, <4>1 DEF RegistersOf
    <3> QED BY <3>1, <3>2
  <2> QED BY <1>4, <2>2, <2>4 DEF NodeNext
<1>5. CASE nd.at = "IDLE" /\ ~IsFor(n, b)
  <2>1. PICK r : r = PassOn(b)
    OBVIOUS
  <2>2. r \in Registers
    BY <2>1, QuietType, Indices DEF PassOn, Reset, Registers
  <2>3. r \in RegistersOf(n)
    BY <2>1, <2>2, PassOnFields DEF RegistersOf
  <2> QED BY <1>5, <2>1, <2>3 DEF NodeNext
<1>6. CASE nd.at = "act"
  <2>1. (nd.actIndex + 1) % IndexMod \in Index
    BY <1>1, Indices DEF Registers
  <2>2. PICK r : r = ActWait(nd, b)
    OBVIOUS
  <2>3. r \in Registers
    <3>1. CASE ~b.valid
      BY <1>1, <2>2, <3>1 DEF ActWait, Registers
    <3>2. CASE b.valid /\ b.last
      BY <1>1, <2>2, <3>2 DEF ActWait, Registers
    <3>3. CASE b.valid /\ ~b.last
      <4>1. [nd.tmp EXCEPT ![1] = b.id] \in Nat \X Nat
        BY <1>1, <1>3 DEF Registers
      <4> QED BY <1>1, <2>1, <2>2, <3>3, <4>1 DEF ActWait, Registers
    <3> QED BY <3>1, <3>2, <3>3
  <2>4. r \in RegistersOf(n)
    <3>1. r.at \in {"act", "act2", "IDLE"} /\ r.wr = nd.wr \ {"act"}
      <4>1. /\ r.at = IF ~b.valid THEN nd.at ELSE IF b.last THEN "IDLE" ELSE "act2"
            /\ r.wr = nd.wr \ {"act"}
        BY <1>1, <2>2, ActWaitFields, Zenon
      <4> QED BY <1>6, <4>1
    <3> QED BY <1>1, <1>2, <1>6, <2>3, <3>1 DEF RegistersOf
  <2> QED BY <1>6, <2>2, <2>4 DEF NodeNext
<1>7. CASE nd.at = "act2"
  <2>1. PICK r : r = ActTmp(nd, b)
    OBVIOUS
  <2>2. r \in Registers
    <3>1. CASE ~b.valid
      BY <1>1, <2>1, <3>1 DEF ActTmp
    <3>2. CASE b.valid
      <4>1. [nd.tmp EXCEPT ![2] = b.id] \in Nat \X Nat
        BY <1>1, <1>3 DEF Registers
      <4>2. CASE b.last
        BY <1>1, <1>2, <1>7, <2>1, <3>2, <4>1, <4>2 DEF ActTmp, Registers, Names
      <4>3. CASE ~b.last
        BY <1>1, <1>2, <1>7, <2>1, <3>2, <4>1, <4>3 DEF ActTmp, Registers, Names
      <4> QED BY <4>2, <4>3
    <3> QED BY <3>1, <3>2
  <2>3. r \in RegistersOf(n)
    <3>1. CASE b.valid
      <4>1. r.at \in {"act", "IDLE"} /\ r.wr = nd.wr \cup {"act"}
        BY <1>1, <2>1, <3>1, ActTmpFields
      <4> QED BY <1>1, <1>2, <1>7, <2>2, <4>1 DEF RegistersOf
    <3>2. CASE ~b.valid
      BY <2>1, <3>2 DEF ActTmp
    <3> QED BY <3>1, <3>2
  <2> QED BY <1>7, <2>1, <2>3 DEF NodeNext
<1>8. CASE nd.at \notin {"IDLE", "act", "act2"}
  <2>1. (nd.index + 1) % IndexMod \in Index /\ 0 \in Index
    BY <1>1, Indices DEF Registers
  <2>2. PICK r : r = Write(nd, b)
    OBVIOUS
  <2>3. r \in Registers
    BY <1>1, <2>1, <2>2 DEF Write, Registers
  <2>4. r \in RegistersOf(n)
    <3>1. CASE b.valid
      <4>1. \/ r.at = "IDLE" /\ r.wr = nd.wr \ {nd.at}
            \/ r.at = nd.at /\ r.wr = nd.wr
        BY <1>1, <2>2, <3>1, WriteFields
      <4> QED BY <1>1, <1>2, <1>8, <2>3, <4>1 DEF RegistersOf
    <3>2. CASE ~b.valid
      BY <2>2, <3>2 DEF Write
    <3> QED BY <3>1, <3>2
  <2> QED BY <1>8, <2>2, <2>4 DEF NodeNext
<1> QED BY <1>4, <1>5, <1>6, <1>7, <1>8

\* The beat on the input of a module, now and after a step.
LEMMA InputType == ASSUME Types, NEW n \in Nodes PROVE Input(n) \in Beats
<1>1. CASE n = 1
  BY <1>1 DEF Input, Types, SourceTypes
<1>2. CASE n # 1
  <2>1. n - 1 \in Nodes
    BY <1>2, NodeNumbers
  <2>2. node[n - 1] \in Registers
    BY <2>1 DEF Types, ModuleTypes
  <2> QED BY <1>2, <2>2 DEF Input, Registers
<1> QED BY <1>1, <1>2

\* All the modules' registers keep their types.
LEMMA ModulesKeepTypes == Types /\ Modules => ModuleTypes'
<1> SUFFICES ASSUME Types, Modules PROVE ModuleTypes'
  OBVIOUS
<1>1. \A n \in Nodes : NodeNext(n, node[n], Input(n)) \in RegistersOf(n)
  BY InputType, NodeKeepsTypes DEF Types, ModuleTypes
<1>2. \A n \in Nodes : NodeNext(n, node[n], Input(n)) \in Registers
  BY <1>1 DEF RegistersOf
<1> QED BY <1>1, <1>2 DEF Modules, ModuleTypes

\* The tables hold entries.
LEMMA TablesKeepTypes ==
  Types /\ WriteTables => table' \in [Tables -> [RowSet -> Entries]]
<1> SUFFICES ASSUME Types, WriteTables PROVE table' \in [Tables -> [RowSet -> Entries]]
  OBVIOUS
<1>1. ASSUME NEW t \in Tables, NEW r \in RowSet
      PROVE  TableNext(t[1], t[2], r) \in Entries
  <2>1. t[1] \in Nodes /\ t = <<t[1], t[2]>>
    BY TableNames
  <2>2. node[t[1]].tmp \in Nat \X Nat
    BY <2>1 DEF Types, ModuleTypes, Registers
  <2>3. Input(t[1]).id \in Nat
    BY <2>1, InputType DEF Beats
  <2>4. table[<<t[1], t[2]>>][r] \in Entries
    <3>1. table[t][r] \in Entries
      BY DEF Types
    <3> QED BY <2>1, <3>1, Zenon
  <2>5. <<Input(t[1]).id, Input(t[1]).id>> \in Entries /\ node[t[1]].tmp \in Entries
    BY <2>2, <2>3 DEF Entries
  <2> QED BY <2>4, <2>5 DEF TableNext
<1>2. table' = [t \in Tables |-> [r \in RowSet |-> TableNext(t[1], t[2], r)]]
  BY DEF WriteTables, RowSet
<1> QED BY <1>1, <1>2

\* The types are an inductive invariant.
LEMMA TypesInductive == Types /\ [CtlNext]_ctlVars => Types'
<1> SUFFICES ASSUME Types, [CtlNext]_ctlVars PROVE Types'
  OBVIOUS
<1>1. CASE CtlNext
  BY <1>1, SourceKeepsTypes, ModulesKeepTypes, TablesKeepTypes DEF CtlNext, Types
<1>2. CASE UNCHANGED ctlVars
  BY <1>2 DEF ctlVars, Types, SourceTypes, ModuleTypes
<1> QED BY <1>1, <1>2

\* The registers and tables of the control path hold what they may, and an idle
\* module enables no write but the last one of an action packet: for any headers,
\* any payload and any pauses (the control state machines of parser.v,
\* key_extract.v, lookup_engine.v and deparser.v).
THEOREM CtlTypeCorrect == CtlSpec => []CtlTypeOK
<1>1. Types => CtlTypeOK
  <2> SUFFICES ASSUME Types PROVE CtlTypeOK
    OBVIOUS
  <2>1. ASSUME NEW n \in Nodes
        PROVE  /\ node[n].at \in {"IDLE", "act2"} \cup TablesOf(n)
               /\ node[n].wr \subseteq TablesOf(n)
               /\ node[n].index \in 0..(IndexMod - 1) /\ node[n].actIndex \in 0..(IndexMod - 1)
               /\ node[n].tmp \in Nat \X Nat /\ node[n].more \in BOOLEAN
               /\ node[n].out \in Beats
               /\ node[n].at = "IDLE" => node[n].wr \subseteq {"act"}
    <3>1. node[n] \in RegistersOf(n) /\ node[n] \in Registers
      BY <2>1 DEF Types, ModuleTypes
    <3>2. /\ node[n].at \in {"IDLE", "act2"} \cup TablesOf(n)
          /\ node[n].wr \subseteq TablesOf(n) /\ node[n].wr \subseteq {node[n].at, "act"}
      BY <3>1 DEF RegistersOf
    <3>3. "IDLE" \notin TablesOf(n)
      BY TableNames DEF Names
    <3> QED BY <3>1, <3>2, <3>3 DEF Registers, Index
  <2>2. \A t \in Tables, r \in 0..(Rows - 1) : table[t][r] \in Entries /\ wanted[t][r] \in Entries
    BY DEF Types, SourceTypes, RowSet
  <2> QED BY <2>1, <2>2 DEF CtlTypeOK, Types, SourceTypes
<1>2. CtlSpec => []Types
  BY InitTypes, TypesInductive, PTL DEF CtlSpec
<1> QED BY <1>1, <1>2, PTL

-----------------------------------------------------------------------------
(***************************************************************************)
(* What the channel carries.  For every module n, d[n] is the entry that    *)
(* the next payload beat it sees is for, and d[0] the one the source goes   *)
(* on with; Nothing stands between two packets.  A module is always in the  *)
(* state that its own d[n] asks for, so no module takes a payload beat for  *)
(* a header or a header for a payload beat.                                 *)
(***************************************************************************)

\* The traffic that the testbenches send: an idle cycle between two packets,
\* and no payload beat that reads like a header.
Plain == MinIdle >= 1 /\ \A l \in Lookalikes : l[1] = Nobody

Nothing == [to |-> Nobody, row |-> 0, half |-> 0]
Norm(p) == IF p.to = Nobody THEN Nothing ELSE p
Dues == [0..LastNode -> Places]

\* Module n does not see the packets of the modules before it.
Beyond(n, p) == IF p.to[1] < n THEN Nothing ELSE p
FirstOf(b) == Norm([to |-> b.to, row |-> b.row % Rows, half |-> 0])
\* What is due when payload beat id, which is for p, has passed.
Following(p, id) ==
  IF p.to = Nobody THEN Nothing
  ELSE IF p.to[2] = "act" /\ p.half = 0 THEN [p EXCEPT !.half = id]
  ELSE [to |-> p.to, row |-> (p.row + 1) % Rows, half |-> 0]

Header(b) == b.valid /\ b.id = 0
Payload(b) == b.valid /\ b.id # 0

Bubble(d, n) == ~Input(n).valid => Input(n).id = 0 /\ d[n] = Beyond(n, d[n - 1])
HeaderAt(d, n) == Header(Input(n)) =>
  /\ ~Input(n).last /\ (Input(n).to[1] = 0 \/ Input(n).to[1] >= n)
  /\ d[n] = Nothing /\ d[n - 1] = FirstOf(Input(n))
PayloadAt(d, n) == Payload(Input(n)) =>
  /\ Input(n).to = Nobody /\ Input(n).id \in DOMAIN aim
  /\ d[n] = Norm(aim[Input(n).id])
  /\ d[n - 1] = IF Input(n).last THEN Nothing ELSE Following(d[n], Input(n).id)
InReach(d, n) == d[n].to[1] = 0 \/ d[n].to[1] >= n
Asked(d, n) == /\ d[n].to = Nobody => d[n] = Nothing
               /\ d[n].to # Nobody => <<d[n].to, d[n].row>> \in Named

Linked(d) ==
  /\ d[0] = Norm(Place(cur))
  /\ \A n \in Nodes : Bubble(d, n) /\ HeaderAt(d, n) /\ PayloadAt(d, n) /\ InReach(d, n)
  /\ \A n \in 0..LastNode : Asked(d, n)

\* A module whose registers are nd is ready for a payload beat for p.
ReadyFor(nd, p) ==
  IF p.to[2] = "act"
  THEN /\ nd.at = IF p.half = 0 THEN "act" ELSE "act2"
       /\ p.row = (IF p.half = 0 /\ nd.more THEN nd.actIndex + 1 ELSE nd.actIndex) % Rows
       /\ p.half # 0 => nd.tmp[1] = p.half /\ nd.wr = {}
  ELSE nd.at = p.to[2] /\ nd.wr = {p.to[2]} /\ nd.index % Rows = p.row

Rested(n) == node[n].at = "IDLE" /\ node[n].wr = {} /\ ~node[n].out.valid
MatchedAt(d, n) ==
  /\ d[n].to[1] # n => node[n].at = "IDLE"
  /\ d[n].to[1] = n => ReadyFor(node[n], d[n])
  /\ node[n].at # "IDLE" => ~node[n].out.valid
  /\ Header(Input(n)) => Rested(n)
Matched(d) == \A n \in Nodes : MatchedAt(d, n)

\* The source leaves an idle cycle.
Spaced == cur # NoPacket \/ chan.valid => idle = 0

\* Where the two halves of an action entry are.
HalfOf(p) == p.half # 0 => /\ p.half \in DOMAIN aim /\ p.to[2] = "act"
                           /\ aim[p.half].to = p.to /\ aim[p.half].row = p.row
Halves == HalfOf(Place(cur)) /\ \A i \in DOMAIN aim : HalfOf(aim[i])

\* The entry in a lookup engine's buffer, while it may write it.
BufferedAt(n) == "act" \in node[n].wr =>
  LET i == node[n].tmp[2] IN
  /\ i \in DOMAIN aim /\ aim[i].to = <<n, "act">> /\ aim[i].row = node[n].actIndex % Rows
  /\ aim[i].half # 0 /\ node[n].tmp[1] = aim[i].half
Buffered == \A n \in Nodes : BufferedAt(n)

\* d of the next state.
Moved(d, e) == e[0] = Norm(Place(cur)') /\ \A n \in Nodes : e[n] = Beyond(n, d[n - 1])

-----------------------------------------------------------------------------
\* Nothing is a place, and is for no module.
LEMMA NothingType == Nothing \in Places /\ Nothing.to[1] = 0 /\ Nothing.to = Nobody
BY QuietType, Indices DEF Nothing, Places, Nobody

\* What a module sees of the entry due before it.
LEMMA BeyondType ==
  ASSUME NEW n \in Nodes, NEW p \in Places
  PROVE  /\ Beyond(n, p) \in Places
         /\ p.to[1] \in Nat
         /\ p.to[1] >= n => Beyond(n, p) = p
         /\ p.to[1] < n => Beyond(n, p) = Nothing
         /\ Beyond(n, p).to[1] = 0 \/ Beyond(n, p).to[1] >= n
<1>1. p.to[1] \in Nat
  BY Addressees DEF Places
<1> QED BY <1>1, NothingType, NodeNumbers DEF Beyond

\* Every entry for no module counts as nothing.
LEMMA NormType ==
  ASSUME NEW p \in Places
  PROVE  /\ Norm(p) \in Places
         /\ Norm(p).to = Nobody => Norm(p) = Nothing
         /\ Norm(p).to = p.to
BY NothingType DEF Norm

\* There is a next d.
LEMMA DueMoves ==
  ASSUME Types, Types', NEW d \in Dues
  PROVE  \E e \in Dues : Moved(d, e)
<1> DEFINE e == [n \in 0..LastNode |-> IF n = 0 THEN Norm(Place(cur)') ELSE Beyond(n, d[n - 1])]
<1>1. Norm(Place(cur)') \in Places
  <2>1. Place(cur)' \in Places
    BY DEF Types, SourceTypes, Place, Places
  <2> QED BY <2>1, NormType
<1>2. \A n \in 1..LastNode : Beyond(n, d[n - 1]) \in Places
  BY BeyondType, NodeNumbers DEF Dues
<1>3. e \in Dues
  BY <1>1, <1>2, NodeNumbers DEF Dues
<1>4. Moved(d, e)
  BY NodeNumbers DEF Moved
<1> QED BY <1>3, <1>4

\* The plan of the beats that were sent does not change.
LEMMA AimGrows ==
  ASSUME Types, CtlSource
  PROVE  /\ \/ aim' = aim /\ ~SendPayload
            \/ SendPayload /\ aim' = Append(aim, Place(cur)) /\ NextId \in DOMAIN aim'
               /\ aim'[NextId] = Place(cur) /\ DOMAIN aim' = DOMAIN aim \cup {NextId}
         /\ \A i \in DOMAIN aim : i \in DOMAIN aim' /\ aim'[i] = aim[i]
         /\ DOMAIN aim = 1..Len(aim) /\ Len(aim) \in Nat /\ NextId \notin DOMAIN aim
         /\ NextId \in Nat /\ NextId # 0
<1>1. aim \in Seq(Places) /\ Place(cur) \in Places
  BY DEF Types, SourceTypes, Place, Places
<1>2. DOMAIN aim = 1..Len(aim) /\ Len(aim) \in Nat
  BY <1>1
<1>3. CASE SendNothing \/ SendHeader
  <2>1. aim' = aim
    BY <1>3 DEF SendNothing, SendHeader
  <2>2. ~SendPayload
    <3>1. SUFFICES ASSUME SendPayload PROVE FALSE
      OBVIOUS
    <3>2. aim' = Append(aim, Place(cur))
      BY <3>1 DEF SendPayload
    <3> QED BY <1>1, <2>1, <3>2, AppendProperties
  <2>3. NextId \in Nat /\ NextId # 0 /\ NextId \notin DOMAIN aim
    BY <1>2 DEF NextId
  <2>4. \A i \in DOMAIN aim : i \in DOMAIN aim' /\ aim'[i] = aim[i]
    BY <2>1
  <2> QED BY <1>2, <2>1, <2>2, <2>3, <2>4
<1>4. CASE SendPayload
  <2>1. aim' = Append(aim, Place(cur))
    BY <1>4 DEF SendPayload
  <2>2. /\ Len(aim') = Len(aim) + 1 /\ aim' \in Seq(Places)
        /\ aim'[Len(aim) + 1] = Place(cur)
        /\ \A i \in 1..Len(aim) : aim'[i] = aim[i]
    BY <1>1, <2>1, AppendProperties
  <2>3. DOMAIN aim' = 1..(Len(aim) + 1)
    BY <2>2
  <2> QED BY <1>2, <1>4, <2>1, <2>2, <2>3 DEF NextId
<1> QED BY <1>3, <1>4 DEF CtlSource

\* What the source sends is what its d says.
LEMMA SourceLinks ==
  ASSUME Plain, Types, Types', Halves, NEW d \in Dues, NEW e \in Dues,
         Linked(d), CtlSource, Moved(d, e)
  PROVE  /\ e[1] = d[0] /\ 1 \in Nodes
         /\ Bubble(e, 1)' /\ HeaderAt(e, 1)' /\ PayloadAt(e, 1)'
<1> USE DEF Types, SourceTypes
<1>1. 1 \in Nodes /\ Input(1)' = chan'
  BY NodeNumbers DEF Input
<1>2. d[0] = Norm(Place(cur)) /\ d[0] \in Places /\ Place(cur) \in Places
      /\ e[0] = Norm(Place(cur)') /\ e[1] = Beyond(1, d[0])
  <2>1. e[1] = Beyond(1, d[1 - 1])
    BY <1>1 DEF Moved
  <2> QED BY <2>1, NodeNumbers DEF Linked, Moved, Dues, Place, Places
<1>3. e[1] = d[0]
  <2>1. d[0].to[1] \in Nat /\ (d[0].to[1] = 0 => d[0] = Nothing)
    BY <1>2, NormType, Addressees DEF Places
  <2> QED BY <1>1, <1>2, <2>1, BeyondType
<1>4. CASE SendNothing
  <2>1. chan' = Quiet /\ cur' = cur
    BY <1>4 DEF SendNothing
  <2>2. e[0] = d[0]
    BY <1>2, <2>1 DEF Place
  <2> QED BY <1>1, <1>2, <1>3, <2>1, <2>2
          DEF Bubble, HeaderAt, PayloadAt, Header, Payload, Quiet
<1>5. CASE SendHeader
  <2>1. PICK h \in Headers :
          /\ chan' = [valid |-> TRUE, last |-> FALSE, to |-> h[1], row |-> h[2], id |-> 0]
          /\ cur' = [to |-> h[1], row |-> h[2] % Rows, beats |-> 1, half |-> 0]
    BY <1>5 DEF SendHeader
  <2>2. d[0] = Nothing
    BY <1>2, <1>5 DEF SendHeader, NoPacket, Place, Norm
  <2>3. h[1] \in Anyone
    BY CtrlAssumption
  <2>4. h[1][1] = 0 \/ h[1][1] >= 1
    BY <2>3, Addressees
  <2>5. e[0] = FirstOf(chan')
    BY <1>2, <2>1 DEF FirstOf, Place
  <2>6. chan'.valid /\ ~chan'.last /\ chan'.to = h[1] /\ chan'.id = 0
    BY <2>1
  <2>7. HeaderAt(e, 1)'
    BY <1>1, <1>3, <2>2, <2>4, <2>5, <2>6 DEF HeaderAt
  <2> QED BY <1>1, <1>3, <2>6, <2>7 DEF Bubble, PayloadAt, Payload
<1>6. CASE SendPayload
  <2>1. PICK last \in BOOLEAN, l \in Lookalikes :
          /\ chan' = [valid |-> TRUE, last |-> last, to |-> l[1], row |-> l[2], id |-> NextId]
          /\ cur' = IF last THEN NoPacket
                    ELSE [cur EXCEPT !.beats = @ + 1,
                                     !.row = IF Completes THEN (@ + 1) % Rows ELSE @,
                                     !.half = IF Completes THEN 0 ELSE NextId]
    BY <1>6 DEF SendPayload
  <2>2. NextId \in DOMAIN aim' /\ aim'[NextId] = Place(cur) /\ NextId # 0
    BY <1>6, AimGrows
  <2>3. l[1] = Nobody
    BY DEF Plain
  <2>4. d[0] = Norm(aim'[NextId])
    BY <1>2, <2>2
  <2>5. e[0] = IF last THEN Nothing ELSE Following(d[0], NextId)
    <3>1. CASE last
      BY <1>2, <2>1, <3>1 DEF Norm, NoPacket, Place
    <3>2. CASE ~last /\ cur.to = Nobody
      <4>1. cur'.to = Nobody
        BY <2>1, <3>2
      <4> QED BY <1>2, <3>2, <4>1, NormType, NothingType DEF Norm, Place, Following
    <3>3. CASE ~last /\ cur.to # Nobody /\ ~Completes
      <4>1. cur'.to = cur.to /\ cur'.row = cur.row /\ cur'.half = NextId
        BY <2>1, <3>3
      <4>2. cur.to[2] = "act" /\ cur.half = 0
        BY <3>3 DEF Completes
      <4>3. d[0] = Place(cur)
        BY <1>2, <3>3 DEF Norm, Place
      <4>4. Following(d[0], NextId) = [to |-> cur.to, row |-> cur.row, half |-> NextId]
        BY <3>3, <4>2, <4>3 DEF Following, Place
      <4> QED BY <1>2, <3>3, <4>1, <4>4 DEF Norm, Place
    <3>4. CASE ~last /\ cur.to # Nobody /\ Completes
      <4>1. cur'.to = cur.to /\ cur'.row = (cur.row + 1) % Rows /\ cur'.half = 0
        BY <2>1, <3>4
      <4>2. ~(cur.to[2] = "act" /\ cur.half = 0)
        BY <3>4 DEF Completes
      <4>3. d[0] = Place(cur)
        BY <1>2, <3>4 DEF Norm, Place
      <4>4. Following(d[0], NextId) = [to |-> cur.to, row |-> (cur.row + 1) % Rows, half |-> 0]
        BY <3>4, <4>2, <4>3 DEF Following, Place
      <4> QED BY <1>2, <3>4, <4>1, <4>4 DEF Norm, Place
    <3> QED BY <3>1, <3>2, <3>3, <3>4
  <2> QED BY <1>1, <1>3, <2>1, <2>2, <2>3, <2>4, <2>5
          DEF Bubble, HeaderAt, PayloadAt, Header, Payload
<1> QED BY <1>1, <1>3, <1>4, <1>5, <1>6 DEF CtlSource

\* What a module passes on: the beats that are not for it.
LEMMA OutMoves ==
  ASSUME Types, NEW d \in Dues, Linked(d), Matched(d), Modules, NEW m \in Nodes, m + 1 \in Nodes
  PROVE  IF node[m].at = "IDLE" /\ Input(m).valid /\ Input(m).to[1] # m
         THEN Input(m + 1)' = Input(m)
         ELSE ~Input(m + 1)'.valid /\ Input(m + 1)'.id = 0
<1>1. Input(m + 1)' = node[m].out' /\ Input(m + 1) = node[m].out
  BY NodeNumbers DEF Input
<1>2. PICK r : r = NodeNext(m, node[m], Input(m))
  OBVIOUS
<1>3. node[m].out' = r.out
  BY <1>2 DEF Modules
<1>4. node[m] \in Registers /\ Input(m) \in Beats
  BY InputType DEF Types, ModuleTypes
<1>5. CASE node[m].at = "IDLE" /\ ~IsFor(m, Input(m))
  <2>1. r.out = IF Input(m).valid THEN Input(m) ELSE Quiet
    BY <1>2, <1>5, PassOnFields DEF NodeNext
  <2> QED BY <1>1, <1>3, <1>5, <2>1 DEF IsFor, Quiet
<1>6. ~Input(m + 1).valid => Input(m + 1).id = 0
  BY DEF Linked, Bubble
<1>7. CASE node[m].at = "IDLE" /\ IsFor(m, Input(m))
  <2>1. Payload(Input(m)) => Input(m).to[1] = 0
    BY NothingType DEF Linked, PayloadAt, Nobody
  <2>2. Header(Input(m)) /\ m # 0
    BY <1>7, <2>1, NodeNumbers DEF IsFor, Header, Payload
  <2>3. ~node[m].out.valid
    BY <2>2 DEF Matched, MatchedAt, Rested
  <2>4. r.out = node[m].out \/ r.out = Quiet
    <3>1. r = Select(m, node[m], Input(m))
      BY <1>2, <1>7 DEF NodeNext
    <3> QED BY <1>4, <3>1 DEF Select, Registers
  <2> QED BY <1>1, <1>3, <1>6, <1>7, <2>3, <2>4 DEF IsFor, Quiet
<1>8. CASE node[m].at # "IDLE"
  <2>1. ~node[m].out.valid
    BY <1>8 DEF Matched, MatchedAt
  <2>2. r.out = node[m].out
    BY <1>2, <1>4, <1>8 DEF NodeNext, ActWait, ActTmp, Write, Registers
  <2> QED BY <1>1, <1>3, <1>6, <1>8, <2>1, <2>2
<1> QED BY <1>5, <1>7, <1>8

\* What is due at a module after the step.
LEMMA NextDue ==
  ASSUME Types, NEW d \in Dues, NEW e \in Dues, Linked(d), Moved(d, e), NEW n \in Nodes
  PROVE  /\ ~Input(n).valid => e[n] = d[n]
         /\ Header(Input(n)) => e[n] = FirstOf(Input(n))
         /\ Payload(Input(n)) =>
              e[n] = IF Input(n).last THEN Nothing ELSE Following(d[n], Input(n).id)
<1>1. e[n] = Beyond(n, d[n - 1])
  BY DEF Moved
<1>2. n - 1 \in 0..LastNode /\ n \in 0..LastNode
  BY NodeNumbers
<1>3. d[n - 1] \in Places /\ d[n] \in Places
  BY <1>2 DEF Dues
<1>4. CASE ~Input(n).valid
  BY <1>1, <1>4 DEF Linked, Bubble, Header, Payload
<1>5. CASE Header(Input(n))
  <2>1. d[n - 1] = FirstOf(Input(n)) /\ (Input(n).to[1] = 0 \/ Input(n).to[1] >= n)
    BY <1>5 DEF Linked, HeaderAt
  <2>2. Input(n).to \in Anyone
    BY InputType DEF Beats
  <2>3. FirstOf(Input(n)) = Nothing \/ FirstOf(Input(n)).to[1] >= n
    BY <2>1, <2>2, Addressees DEF FirstOf, Norm
  <2>4. Beyond(n, d[n - 1]) = d[n - 1]
    BY <1>3, <2>1, <2>3, BeyondType, NothingType DEF Beyond
  <2> QED BY <1>1, <1>5, <2>1, <2>4 DEF Header, Payload
<1>6. CASE Payload(Input(n))
  <2>1. d[n - 1] = IF Input(n).last THEN Nothing ELSE Following(d[n], Input(n).id)
    BY <1>6 DEF Linked, PayloadAt
  <2>2. d[n].to = Nobody \/ d[n].to[1] >= n
    BY <1>3, Addressees DEF Linked, InReach, Places
  <2>3. d[n - 1] = Nothing \/ d[n - 1].to[1] >= n
    <3>1. Following(d[n], Input(n).id) = Nothing \/ Following(d[n], Input(n).id).to = d[n].to
      BY <1>3 DEF Following, Places
    <3>2. d[n].to = Nobody => Following(d[n], Input(n).id) = Nothing
      BY DEF Following
    <3> QED BY <2>1, <2>2, <3>1, <3>2
  <2>4. Beyond(n, d[n - 1]) = d[n - 1]
    BY <1>3, <2>3, BeyondType, NothingType DEF Beyond
  <2> QED BY <1>1, <1>6, <2>1, <2>4 DEF Header, Payload
<1> QED BY <1>4, <1>5, <1>6 DEF Header, Payload

\* A module that is ready for payload is not idle.
LEMMA ReadyNotIdle ==
  ASSUME NEW nd, NEW p \in Places, p.to # Nobody, ReadyFor(nd, p)
  PROVE  nd.at # "IDLE"
<1>1. p.to[2] \in Names
  BY Addressees DEF Places
<1> QED BY <1>1 DEF ReadyFor, Names

\* What the other modules pass on is what their d says.
LEMMA PassedLinks ==
  ASSUME Types, CtlSource, NEW d \in Dues, NEW e \in Dues, Linked(d), Matched(d),
         Modules, Moved(d, e), NEW n \in Nodes, n # 1
  PROVE  Bubble(e, n)' /\ HeaderAt(e, n)' /\ PayloadAt(e, n)'
<1> DEFINE m == n - 1
            b == Input(m)
<1>1. m \in Nodes /\ m \in Nat /\ m # 0 /\ n = m + 1 /\ n \in Nat
  BY NodeNumbers
<1>2. e[n] = Beyond(n, d[m]) /\ d[m] \in Places /\ e[m] \in Places /\ b \in Beats
  BY <1>1, NodeNumbers, InputType DEF Moved, Dues
<1> HIDE DEF m
<1>3. d[m].to = Nobody \/ d[m].to[1] >= m
  BY <1>1, <1>2, Addressees DEF Linked, InReach, Places
<1>4. b.to \in Anyone
  BY <1>2 DEF Beats
<1>5. CASE node[m].at = "IDLE" /\ b.valid /\ b.to[1] # m
  <2>1. Input(n)' = b
    BY <1>1, <1>5, OutMoves
  <2>2. ASSUME Header(b) PROVE HeaderAt(e, n)'
    <3>1. ~b.last /\ (b.to[1] = 0 \/ b.to[1] >= m) /\ d[m] = Nothing
      BY <1>1, <2>2 DEF Linked, HeaderAt
    <3>2. b.to[1] = 0 \/ b.to[1] >= n
      BY <1>1, <1>4, <1>5, <3>1, Addressees
    <3>3. e[n] = Nothing
      BY <1>2, <3>1 DEF Beyond
    <3>4. e[m] = FirstOf(b)
      BY <1>1, <2>2, NextDue
    <3> QED BY <1>1, <2>1, <3>1, <3>2, <3>3, <3>4 DEF HeaderAt
  <2>3. ASSUME Payload(b) PROVE PayloadAt(e, n)'
    <3>1. /\ b.to = Nobody /\ b.id \in DOMAIN aim /\ d[m] = Norm(aim[b.id])
      BY <1>1, <2>3 DEF Linked, PayloadAt
    <3>2. b.id \in DOMAIN aim' /\ aim'[b.id] = aim[b.id]
      BY <3>1, AimGrows
    <3>3. d[m].to = Nobody \/ d[m].to[1] # m
      BY <1>1, <1>2, <1>5, ReadyNotIdle DEF Matched, MatchedAt
    <3>4. d[m] = Nothing \/ d[m].to[1] >= n
      <4>1. d[m].to = Nobody => d[m] = Nothing
        <5>1. m \in 0..LastNode
          BY <1>1, NodeNumbers
        <5> QED BY <5>1 DEF Linked, Asked
      <4>2. d[m].to[1] \in Nat
        BY <1>2, Addressees DEF Places
      <4> QED BY <1>1, <1>3, <3>3, <4>1, <4>2
    <3>5. e[n] = d[m]
      BY <1>1, <1>2, <3>4, BeyondType DEF Beyond
    <3>6. e[m] = IF b.last THEN Nothing ELSE Following(d[m], b.id)
      BY <1>1, <2>3, NextDue
    <3>7. m = n - 1
      BY DEF m
    <3> HIDE DEF b
    <3> QED BY <2>1, <3>1, <3>2, <3>5, <3>6, <3>7 DEF PayloadAt
  <2> QED BY <1>5, <2>1, <2>2, <2>3 DEF Bubble, HeaderAt, PayloadAt, Header, Payload
<1>6. CASE ~(node[m].at = "IDLE" /\ b.valid /\ b.to[1] # m)
  <2>1. ~Input(n)'.valid /\ Input(n)'.id = 0
    BY <1>1, <1>6, OutMoves
  <2>2. e[n] = Beyond(n, e[m])
    <3>1. CASE ~b.valid
      BY <1>1, <1>2, <3>1, NextDue
    <3>2. CASE Header(b)
      <4>1. node[m].at = "IDLE" /\ d[m] = Nothing
        BY <1>1, <3>2 DEF Linked, HeaderAt, Matched, MatchedAt, Rested
      <4>2. b.to[1] = m
        BY <1>6, <3>2, <4>1 DEF Header
      <4>3. e[m] = FirstOf(b)
        BY <1>1, <3>2, NextDue
      <4>4. e[m].to[1] = m
        BY <1>1, <4>2, <4>3 DEF FirstOf, Norm, Nobody
      <4>5. Beyond(n, e[m]) = Nothing
        BY <1>1, <4>4 DEF Beyond
      <4> QED BY <1>2, <4>1, <4>5 DEF Beyond
    <3>3. CASE Payload(b)
      <4>1. b.to[1] = 0
        BY <1>1, <3>3 DEF Linked, PayloadAt, Nobody
      <4>2. d[m].to[1] = m
        BY <1>1, <1>6, <3>3, <4>1 DEF Payload, Matched, MatchedAt
      <4>3. e[m] = IF b.last THEN Nothing ELSE Following(d[m], b.id)
        BY <1>1, <3>3, NextDue
      <4>4. e[m] = Nothing \/ e[m].to = d[m].to
        BY <1>2, <4>3 DEF Following, Places
      <4>5. Beyond(n, e[m]) = Nothing
        BY <1>1, <4>2, <4>4 DEF Beyond
      <4> QED BY <1>1, <1>2, <4>2, <4>5 DEF Beyond
    <3> QED BY <3>1, <3>2, <3>3 DEF Header, Payload
  <2>3. m = n - 1
    BY DEF m
  <2> QED BY <2>1, <2>2, <2>3 DEF Bubble, HeaderAt, PayloadAt, Header, Payload
<1> QED BY <1>5, <1>6

\* The rows that have been named stay named.
LEMMA NamedGrows == ASSUME Types, CtlSource, NEW x \in Named, x[1] # Nobody PROVE x \in Named'
<1>1. CASE \E i \in DOMAIN aim : x = <<aim[i].to, aim[i].row>>
  BY <1>1, AimGrows DEF Named
<1>2. CASE x = <<cur.to, cur.row>>
  <2>1. CASE SendPayload
    <3>1. NextId \in DOMAIN aim' /\ aim'[NextId] = Place(cur)
      BY <2>1, AimGrows
    <3> QED BY <1>2, <3>1 DEF Named, Place
  <2>2. CASE SendNothing
    BY <1>2, <2>2 DEF SendNothing, Named
  <2>3. CASE SendHeader
    BY <1>2, <2>3 DEF SendHeader, NoPacket
  <2> QED BY <2>1, <2>2, <2>3 DEF CtlSource
<1> QED BY <1>1, <1>2 DEF Named

\* What the channel carries stays what d says.
LEMMA KeepsLinked ==
  ASSUME Plain, Types, Types', Halves, NEW d \in Dues, NEW e \in Dues,
         Linked(d), Matched(d), CtlSource, Modules, Moved(d, e)
  PROVE  Linked(e)'
<1>1. e[0] = Norm(Place(cur)')
  BY DEF Moved
<1>2. ASSUME NEW n \in Nodes
      PROVE  Bubble(e, n)' /\ HeaderAt(e, n)' /\ PayloadAt(e, n)'
  BY SourceLinks, PassedLinks
<1>3. ASSUME NEW n \in Nodes PROVE InReach(e, n)'
  BY BeyondType, NodeNumbers DEF Moved, Dues, InReach
<1>4. Asked(e, 0)'
  <2>1. Place(cur)' \in Places
    BY DEF Types, SourceTypes, Place, Places
  <2>2. e[0].to = Nobody => e[0] = Nothing
    BY <1>1, <2>1, NormType
  <2>3. e[0].to # Nobody => <<e[0].to, e[0].row>> \in Named'
    BY <1>1 DEF Named, Norm, Place, Nothing
  <2> QED BY <2>2, <2>3 DEF Asked
<1>5. ASSUME NEW n \in Nodes PROVE Asked(e, n)'
  <2>1. e[n] = Nothing \/ e[n] = d[n - 1]
    BY DEF Moved, Beyond
  <2>2. Asked(d, n - 1)
    BY NodeNumbers DEF Linked
  <2>3. e[n].to # Nobody => <<e[n].to, e[n].row>> \in Named'
    <3>1. SUFFICES ASSUME e[n].to # Nobody PROVE <<e[n].to, e[n].row>> \in Named'
      OBVIOUS
    <3>2. <<e[n].to, e[n].row>> \in Named
      BY <2>1, <2>2, <3>1, NothingType DEF Asked
    <3> QED BY <3>1, <3>2, NamedGrows
  <2> QED BY <2>1, <2>2, <2>3, NothingType DEF Asked
<1>6. \A n \in 0..LastNode : n = 0 \/ n \in Nodes
  BY NodeNumbers
<1> QED BY <1>1, <1>2, <1>3, <1>4, <1>5, <1>6 DEF Linked

-----------------------------------------------------------------------------
(* Rows are counted modulo the size of a table, in a wider register. *)

\* Division with remainder, and that it is unique.
LEMMA RowDivMod ==
  ASSUME NEW a \in Nat, NEW b \in Nat \ {0}
  PROVE  /\ a \div b \in Nat
         /\ a = b * (a \div b) + (a % b) /\ a % b \in 0..(b - 1)
OBVIOUS

\* A number's remainder is the one remainder there is.
LEMMA RowUnique ==
  ASSUME NEW b \in Nat \ {0}, NEW a \in Nat, NEW k \in Nat, NEW m \in 0..(b - 1), a = k * b + m
  PROVE  a % b = m
OBVIOUS

\* Counting on and reducing may be done in either order.
LEMMA RowAfter ==
  ASSUME NEW b \in Nat \ {0}, NEW a \in Nat
  PROVE  ((a % b) + 1) % b = (a + 1) % b
<1>1. PICK k \in Nat, m \in 0..(b - 1) : a = k * b + m
  <2> DEFINE q == a \div b
             r == a % b
  <2>1. q \in Nat /\ a = b * q + r /\ r \in 0..(b - 1)
    BY RowDivMod
  <2> HIDE DEF q, r
  <2>2. b * q = q * b
    BY <2>1
  <2> QED BY <2>1, <2>2
<1>2. a % b = m
  BY <1>1, RowUnique
<1>3. CASE m + 1 < b
  <2>1. a + 1 = k * b + (m + 1) /\ m + 1 \in 0..(b - 1) /\ a + 1 \in Nat
    BY <1>1, <1>3
  <2>2. (a + 1) % b = m + 1
    BY <2>1, RowUnique
  <2>3. (m + 1) % b = m + 1
    BY <1>3
  <2> QED BY <1>2, <2>2, <2>3
<1>4. CASE m + 1 = b
  <2>1. a + 1 = (k + 1) * b + 0 /\ 0 \in 0..(b - 1) /\ a + 1 \in Nat /\ k + 1 \in Nat
    <3>1. (k + 1) * b = k * b + b
      OBVIOUS
    <3> QED BY <1>1, <1>4, <3>1
  <2>2. (a + 1) % b = 0
    BY <2>1, RowUnique
  <2>3. (m + 1) % b = 0
    BY <1>4
  <2> QED BY <1>2, <2>2, <2>3
<1> QED BY <1>1, <1>3, <1>4

\* The index register counts through the rows: it wraps at a multiple of Rows.
LEMMA IndexCounts ==
  ASSUME NEW i \in Index
  PROVE  /\ ((i + 1) % IndexMod) % Rows = (i + 1) % Rows
         /\ ((i % Rows) + 1) % Rows = (i + 1) % Rows
<1>1. i \in Nat /\ i + 1 <= IndexMod /\ Rows \in Nat \ {0} /\ IndexMod \in Nat \ {0}
      /\ IndexMod % Rows = 0
  BY CtrlAssumption DEF Index
<1>2. CASE i + 1 < IndexMod
  <2>1. (i + 1) % IndexMod = i + 1
    BY <1>1, <1>2
  <2> QED BY <1>1, <2>1, RowAfter
<1>3. CASE i + 1 = IndexMod
  <2>1. (i + 1) % IndexMod = 0 /\ 0 % Rows = 0
    BY <1>1, <1>3
  <2> QED BY <1>1, <1>3, <2>1, RowAfter
<1> QED BY <1>1, <1>2, <1>3

-----------------------------------------------------------------------------
(* Every module goes where its d goes. *)

\* A header meets a module at rest, behind an idle cycle.
LEMMA HeaderNext ==
  ASSUME Plain, Types, Spaced, NEW d \in Dues, Linked(d), Matched(d),
         CtlSource, Modules, NEW n \in Nodes, Header(Input(n))'
  PROVE  d[n] = Nothing /\ ~Input(n).valid
<1>1. CASE n = 1
  <2>1. Input(n) = chan /\ Input(n)' = chan'
    BY <1>1 DEF Input
  <2>2. ~SendNothing
    BY <2>1 DEF SendNothing, Quiet, Header
  <2>3. ~SendPayload
    <3>1. SUFFICES ASSUME SendPayload PROVE FALSE
      OBVIOUS
    <3>2. chan'.id = NextId
      BY <3>1 DEF SendPayload
    <3> QED BY <2>1, <3>2, AimGrows DEF Header
  <2>4. cur = NoPacket /\ idle >= MinIdle
    BY <2>2, <2>3 DEF CtlSource, SendHeader
  <2>5. ~chan.valid
    BY <2>4, CtrlAssumption DEF Plain, Spaced, Types, SourceTypes
  <2>6. d[0] = Nothing
    BY <2>4 DEF Linked, Norm, Place, NoPacket
  <2>7. d[1] = Beyond(1, d[0])
    <3>1. d[1] = Beyond(1, d[1 - 1])
      BY <1>1, <2>1, <2>5 DEF Linked, Bubble
    <3> QED BY <3>1
  <2> QED BY <1>1, <2>1, <2>5, <2>6, <2>7 DEF Beyond
<1>2. CASE n # 1
  <2> DEFINE m == n - 1
  <2>1. m \in Nodes /\ n = m + 1
    BY <1>2, NodeNumbers
  <2>2. Input(n)' = Input(m) /\ Input(n) = node[m].out
    <3>1. Input(n)'.valid
      BY DEF Header
    <3>2. Input(m + 1)' = Input(m)
      BY <2>1, <3>1, OutMoves
    <3> QED BY <1>2, <2>1, <3>2 DEF Input
  <2>3. Header(Input(m))
    BY <2>2 DEF Header
  <2>4. ~Input(n).valid /\ d[m] = Nothing
    BY <2>1, <2>2, <2>3 DEF Matched, MatchedAt, Rested, Linked, HeaderAt
  <2>5. d[n] = Beyond(n, d[m])
    BY <2>4 DEF Linked, Bubble
  <2> QED BY <2>4, <2>5 DEF Beyond
<1> QED BY <1>1, <1>2

\* A ready module takes a payload beat and is ready for what follows.
LEMMA ReadyNext ==
  ASSUME NEW n \in Nodes, NEW nd \in RegistersOf(n), NEW b \in Beats, NEW p \in Places,
         NEW r, r = NodeNext(n, nd, b), p.to[1] = n, ReadyFor(nd, p)
  PROVE  /\ ~b.valid => ReadyFor(r, p)
         /\ Payload(b) /\ b.last => r.at = "IDLE"
         /\ Payload(b) /\ ~b.last => ReadyFor(r, Following(p, b.id))
         /\ r.out = nd.out
<1> DEFINE name == p.to[2]
<1>1. p.to # Nobody /\ name \in Names /\ p.row \in RowSet /\ p.half \in Nat
  BY NodeNumbers, Addressees DEF Places
<1>2. nd \in Registers /\ nd.wr \subseteq {nd.at, "act"} /\ nd.index \in Index
      /\ nd.actIndex \in Index
  BY DEF RegistersOf, Registers
<1>3. r.out = nd.out
  <2>1. nd.at # "IDLE"
    BY <1>1, ReadyNotIdle
  <2> QED BY <1>2, <2>1 DEF NodeNext, ActWait, ActTmp, Write, Registers
<1>4. CASE name = "act" /\ p.half = 0
  <2>1. nd.at = "act" /\ p.row = (IF nd.more THEN nd.actIndex + 1 ELSE nd.actIndex) % Rows
    BY <1>4 DEF ReadyFor
  <2>2. r = ActWait(nd, b)
    BY <2>1 DEF NodeNext
  <2>3. /\ r.at = IF ~b.valid THEN nd.at ELSE IF b.last THEN "IDLE" ELSE "act2"
        /\ r.actIndex = IF b.valid /\ ~b.last /\ nd.more
                        THEN (nd.actIndex + 1) % IndexMod ELSE nd.actIndex
        /\ r.tmp = IF b.valid /\ ~b.last THEN <<b.id, nd.tmp[2]>> ELSE nd.tmp
        /\ r.more = nd.more
    BY <1>2, <2>2, ActWaitFields
  <2>4. r.wr = {}
    <3>1. nd.wr \ {"act"} = {}
      BY <1>2, <2>1
    <3>2. r.wr = nd.wr \ {"act"}
      <4>1. CASE ~b.valid
        BY <1>2, <2>2, <4>1 DEF ActWait, Registers
      <4>2. CASE b.valid /\ b.last
        BY <1>2, <2>2, <4>2 DEF ActWait, Registers
      <4>3. CASE b.valid /\ ~b.last
        BY <1>2, <2>2, <4>3 DEF ActWait, Registers
      <4> QED BY <4>1, <4>2, <4>3
    <3> QED BY <3>1, <3>2
  <2>5. CASE ~b.valid
    <3>1. r.at = "act" /\ r.actIndex = nd.actIndex /\ r.more = nd.more
      BY <2>1, <2>3, <2>5
    <3> QED BY <1>3, <1>4, <2>1, <2>5, <3>1 DEF ReadyFor, Payload
  <2>6. CASE b.valid /\ b.last
    BY <1>3, <2>3, <2>6 DEF Payload
  <2>7. CASE b.valid /\ ~b.last
    <3>1. r.at = "act2" /\ r.tmp[1] = b.id
      BY <2>3, <2>7
    <3>2. r.actIndex % Rows = p.row
      BY <1>2, <2>1, <2>3, <2>7, IndexCounts
    <3>3. Payload(b) => Following(p, b.id) = [to |-> p.to, row |-> p.row, half |-> b.id]
      BY <1>1, <1>4 DEF Following, Places
    <3>4. ASSUME Payload(b) PROVE ReadyFor(r, Following(p, b.id))
      BY <1>4, <2>4, <3>1, <3>2, <3>3, <3>4 DEF ReadyFor, Payload
    <3> QED BY <1>3, <2>7, <3>4
  <2> QED BY <2>5, <2>6, <2>7
<1>5. CASE name = "act" /\ p.half # 0
  <2>1. nd.at = "act2" /\ p.row = nd.actIndex % Rows
    BY <1>5 DEF ReadyFor
  <2>2. r = ActTmp(nd, b)
    BY <2>1 DEF NodeNext
  <2>3. CASE ~b.valid
    <3>1. r = nd
      BY <2>2, <2>3 DEF ActTmp
    <3> QED BY <2>3, <3>1 DEF Payload
  <2>4. CASE b.valid
    <3>1. /\ r.at = IF b.last THEN "IDLE" ELSE "act"
          /\ r.actIndex = nd.actIndex
          /\ r.more = IF b.last THEN nd.more ELSE TRUE
      BY <1>2, <2>2, <2>4, ActTmpFields, Zenon
    <3>2. Following(p, b.id) = [to |-> p.to, row |-> (p.row + 1) % Rows, half |-> 0]
      BY <1>1, <1>5 DEF Following
    <3>3. (p.row + 1) % Rows = (nd.actIndex + 1) % Rows
      BY <1>2, <2>1, IndexCounts
    <3>4. ASSUME ~b.last PROVE ReadyFor(r, Following(p, b.id))
      BY <1>5, <3>1, <3>2, <3>3, <3>4 DEF ReadyFor
    <3> QED BY <1>3, <2>4, <3>1, <3>4
  <2> QED BY <2>3, <2>4
<1>6. CASE name # "act"
  <2>1. nd.at = name /\ nd.wr = {name} /\ nd.index % Rows = p.row
    BY <1>6 DEF ReadyFor
  <2>2. r = Write(nd, b)
    BY <1>1, <1>6, <2>1 DEF NodeNext, Names
  <2>3. CASE ~b.valid
    <3>1. r = nd
      BY <2>2, <2>3 DEF Write
    <3> QED BY <2>3, <3>1 DEF Payload
  <2>4. CASE b.valid
    <3>1. /\ r.at = IF b.last THEN "IDLE" ELSE nd.at
          /\ r.index = IF ~b.last THEN (nd.index + 1) % IndexMod
                       ELSE IF nd.at = "cam" THEN nd.index ELSE 0
      <4>1. CASE b.last
        BY <1>2, <2>2, <2>4, <4>1 DEF Write, Registers
      <4>2. CASE ~b.last
        BY <1>2, <2>2, <2>4, <4>2 DEF Write, Registers
      <4> QED BY <4>1, <4>2
    <3>2. Following(p, b.id) = [to |-> p.to, row |-> (p.row + 1) % Rows, half |-> 0]
      BY <1>1, <1>6 DEF Following
    <3>3. ((nd.index + 1) % IndexMod) % Rows = (p.row + 1) % Rows
      BY <1>2, <2>1, IndexCounts
    <3>4. ASSUME ~b.last PROVE ReadyFor(r, Following(p, b.id))
      <4>1. r.at = name /\ r.index = (nd.index + 1) % IndexMod
        BY <2>1, <3>1, <3>4
      <4>2. r.wr = nd.wr
        BY <1>2, <2>2, <2>4, <3>4 DEF Write, Registers
      <4> QED BY <1>6, <2>1, <3>2, <3>3, <4>1, <4>2 DEF ReadyFor
    <3> QED BY <1>3, <2>4, <3>1, <3>4
  <2> QED BY <2>3, <2>4
<1> QED BY <1>4, <1>5, <1>6

\* A module goes on being in the state that its d asks for.
LEMMA KeepsMatched ==
  ASSUME Plain, Types, Spaced, NEW d \in Dues, NEW e \in Dues, Linked(d), Matched(d),
         CtlSource, Modules, Moved(d, e), NEW n \in Nodes
  PROVE  MatchedAt(e, n)'
<1> DEFINE b == Input(n)
<1>1. PICK r : r = NodeNext(n, node[n], b)
  OBVIOUS
<1>2. node'[n] = r
  BY <1>1 DEF Modules
<1>3. b \in Beats /\ b.to \in Anyone /\ node[n] \in Registers /\ node[n] \in RegistersOf(n)
      /\ d[n] \in Places /\ e[n] \in Places /\ n # 0
  BY InputType, NodeNumbers DEF Types, ModuleTypes, Beats, Dues
<1>4. /\ d[n].to[1] # n => node[n].at = "IDLE"
      /\ d[n].to[1] = n => ReadyFor(node[n], d[n])
      /\ node[n].at # "IDLE" => ~node[n].out.valid
      /\ Header(b) => Rested(n)
  BY DEF Matched, MatchedAt
<1>5. d[n].to[1] = n => node[n].at # "IDLE"
  <2>1. d[n].to[1] = n => d[n].to # Nobody
    BY <1>3 DEF Nobody
  <2> QED BY <1>3, <1>4, <2>1, ReadyNotIdle
<1>6. Header(Input(n))' => d[n] = Nothing /\ ~b.valid
  BY HeaderNext
<1>7. CASE node[n].at = "IDLE" /\ ~b.valid
  <2>1. r.at = "IDLE" /\ r.wr = {} /\ r.out = Quiet
    BY <1>1, <1>7, PassOnFields DEF NodeNext, IsFor
  <2>2. e[n] = d[n]
    BY <1>7, NextDue
  <2> QED BY <1>2, <1>5, <1>7, <2>1, <2>2 DEF MatchedAt, Rested, Quiet
<1>8. CASE node[n].at = "IDLE" /\ b.valid /\ b.to[1] = n
  <2>1. Header(b)
    BY <1>3, <1>8 DEF Linked, PayloadAt, Header, Payload, Nobody
  <2>2. node[n].wr = {} /\ ~node[n].out.valid
    BY <1>4, <2>1 DEF Rested
  <2>3. e[n] = [to |-> b.to, row |-> b.row % Rows, half |-> 0]
    <3>1. e[n] = FirstOf(b) /\ b.to # Nobody
      BY <1>3, <1>8, <2>1, NextDue DEF Nobody
    <3> QED BY <3>1 DEF FirstOf, Norm
  <2>4. r = Select(n, node[n], b)
    BY <1>1, <1>8 DEF NodeNext, IsFor
  <2>5. ~r.out.valid
    <3>1. r.out = node[n].out \/ r.out = Quiet
      BY <1>3, <2>4 DEF Select, Registers
    <3> QED BY <2>2, <3>1 DEF Quiet
  <2>6. ReadyFor(r, e[n])
    <3>1. CASE b.to[2] = "act"
      <4>1. r.at = "act" /\ r.more = FALSE /\ r.actIndex = b.row
        BY <1>3, <2>4, <3>1 DEF Select, Registers
      <4> QED BY <2>3, <3>1, <4>1 DEF ReadyFor
    <3>2. CASE b.to[2] # "act"
      <4>1. r.at = b.to[2] /\ r.index = b.row
        BY <1>3, <2>4, <3>2 DEF Select, Registers
      <4>2. r.wr = node[n].wr \cup {b.to[2]}
        BY <1>3, <2>4, <3>2 DEF Select, Registers
      <4> QED BY <2>2, <2>3, <3>2, <4>1, <4>2 DEF ReadyFor
    <3> QED BY <3>1, <3>2
  <2>7. e[n].to[1] = n
    BY <1>8, <2>3
  <2> QED BY <1>2, <1>6, <1>8, <2>5, <2>6, <2>7 DEF MatchedAt
<1>9. CASE node[n].at = "IDLE" /\ b.valid /\ b.to[1] # n
  <2>1. r.at = "IDLE"
    BY <1>1, <1>9, PassOnFields DEF NodeNext, IsFor
  <2>2. e[n].to[1] # n
    <3>1. CASE Header(b)
      <4>1. e[n] = FirstOf(b)
        BY <3>1, NextDue
      <4>2. FirstOf(b) = Nothing \/ FirstOf(b).to = b.to
        BY DEF FirstOf, Norm
      <4> QED BY <1>3, <1>9, <4>1, <4>2, NothingType
    <3>2. CASE Payload(b)
      <4>1. e[n] = IF b.last THEN Nothing ELSE Following(d[n], b.id)
        BY <3>2, NextDue
      <4>2. e[n] = Nothing \/ e[n].to = d[n].to
        BY <1>3, <4>1 DEF Following, Places
      <4> QED BY <1>3, <1>5, <1>9, <4>2, NothingType
    <3> QED BY <1>9, <3>1, <3>2 DEF Header, Payload
  <2> QED BY <1>2, <1>6, <1>9, <2>1, <2>2 DEF MatchedAt
<1>10. CASE node[n].at # "IDLE"
  <2>1. d[n].to[1] = n /\ ReadyFor(node[n], d[n]) /\ ~Header(b) /\ d[n] # Nothing
    BY <1>3, <1>4, <1>10, NothingType DEF Rested
  <2>2. /\ ~b.valid => ReadyFor(r, d[n])
        /\ Payload(b) /\ b.last => r.at = "IDLE"
        /\ Payload(b) /\ ~b.last => ReadyFor(r, Following(d[n], b.id))
        /\ r.out = node[n].out
    BY <1>1, <1>3, <2>1, ReadyNext
  <2>3. ~b.valid => e[n] = d[n]
    BY NextDue
  <2>4. Payload(b) => e[n] = IF b.last THEN Nothing ELSE Following(d[n], b.id)
    BY NextDue
  <2>5. Following(d[n], b.id).to[1] = n
    BY <1>3, <2>1 DEF Following, Places, Nobody
  <2>6. ~node[n].out.valid /\ ~Header(Input(n))'
    BY <1>4, <1>6, <1>10, <2>1
  <2>7. ~b.valid \/ Payload(b)
    BY <2>1 DEF Header, Payload
  <2>8. Nothing.to[1] # n
    BY <1>3, NothingType
  <2> HIDE DEF b
  <2> QED BY <1>2, <2>1, <2>2, <2>3, <2>4, <2>5, <2>6, <2>7, <2>8 DEF MatchedAt
<1> QED BY <1>7, <1>8, <1>9, <1>10

-----------------------------------------------------------------------------
(* What the tables are written with. *)

\* The source leaves an idle cycle before every header.
LEMMA KeepsSpaced == Types /\ Spaced /\ CtlSource => Spaced'
BY DEF Types, SourceTypes, Spaced, CtlSource, SendNothing, SendHeader, SendPayload, Quiet

\* The second half of an action entry follows the first, for the same row.
LEMMA KeepsHalves == ASSUME Types, Halves, CtlSource PROVE Halves'
<1>1. \A p \in Places : HalfOf(p) => HalfOf(p)'
  BY AimGrows DEF HalfOf
<1>2. Place(cur) \in Places
  BY DEF Types, SourceTypes, Place, Places
<1>3. HalfOf(Place(cur)) /\ \A i \in DOMAIN aim : HalfOf(aim[i])
  BY DEF Halves
<1>4. \A i \in DOMAIN aim : HalfOf(aim[i])'
  <2>1. SUFFICES ASSUME NEW i \in DOMAIN aim PROVE HalfOf(aim[i])'
    OBVIOUS
  <2>2. aim'[i] = aim[i] /\ HalfOf(aim[i])
    BY <1>3, AimGrows
  <2> QED BY <2>2, AimGrows DEF HalfOf
<1>5. CASE SendNothing \/ SendHeader
  <2>1. aim' = aim
    BY <1>5 DEF SendNothing, SendHeader
  <2>2. HalfOf(Place(cur))'
    BY <1>3, <1>5, <2>1 DEF SendNothing, SendHeader, HalfOf, Place
  <2> QED BY <1>3, <2>1, <2>2 DEF Halves, HalfOf
<1>6. CASE SendPayload
  <2>1. DOMAIN aim' = DOMAIN aim \cup {NextId} /\ aim'[NextId] = Place(cur)
    BY <1>6, AimGrows
  <2>2. ASSUME NEW i, i = NextId PROVE HalfOf(aim[i])'
    <3>1. HalfOf(Place(cur)) /\ aim'[i] = Place(cur)
      BY <1>3, <2>1, <2>2
    <3> QED BY <3>1, AimGrows DEF HalfOf
  <2>3. HalfOf(Place(cur))'
    <3>1. CASE cur' = NoPacket
      BY <3>1 DEF NoPacket, HalfOf, Place
    <3>2. CASE cur' # NoPacket
      <4>1. cur' = [cur EXCEPT !.beats = @ + 1,
                               !.row = IF Completes THEN (@ + 1) % Rows ELSE @,
                               !.half = IF Completes THEN 0 ELSE NextId]
        BY <1>6, <3>2 DEF SendPayload
      <4>2. CASE Completes
        <5>1. cur'.half = 0
          BY <4>1, <4>2 DEF Types, SourceTypes
        <5> QED BY <5>1 DEF HalfOf, Place
      <4>3. CASE ~Completes
        <5>1. cur'.half = NextId /\ cur'.to = cur.to /\ cur'.row = cur.row
          BY <4>1, <4>3 DEF Types, SourceTypes
        <5>2. cur.to[2] = "act"
          BY <4>3 DEF Completes
        <5> QED BY <2>1, <5>1, <5>2 DEF HalfOf, Place
      <4> QED BY <4>2, <4>3
    <3> QED BY <3>1, <3>2
  <2>4. \A i \in DOMAIN aim' : HalfOf(aim[i])'
    BY <1>4, <2>1, <2>2
  <2> QED BY <2>3, <2>4 DEF Halves
<1> QED BY <1>5, <1>6 DEF CtlSource

\* What a module that is not idle sees.
LEMMA Attends ==
  ASSUME Types, NEW d \in Dues, Linked(d), Matched(d), NEW n \in Nodes, node[n].at # "IDLE"
  PROVE  /\ d[n].to = <<n, d[n].to[2]>> /\ d[n].to[2] \in Names /\ d[n].to # Nobody
         /\ ReadyFor(node[n], d[n])
         /\ Input(n).id # 0 => /\ Input(n).valid /\ Input(n).id \in DOMAIN aim
                               /\ aim[Input(n).id] = d[n]
         /\ Input(n).valid => Input(n).id # 0
<1>1. d[n].to[1] = n /\ ReadyFor(node[n], d[n]) /\ ~Header(Input(n))
  BY DEF Matched, MatchedAt, Rested
<1>2. d[n] \in Places /\ n # 0
  BY NodeNumbers DEF Dues
<1>3. d[n].to = <<n, d[n].to[2]>> /\ d[n].to[2] \in Names /\ d[n].to # Nobody
  BY <1>1, <1>2, Addressees DEF Places
<1>4. Input(n).valid => Input(n).id # 0
  BY <1>1 DEF Header
<1>5. ASSUME Input(n).id # 0
      PROVE  Input(n).valid /\ Input(n).id \in DOMAIN aim /\ aim[Input(n).id] = d[n]
  <2>1. Input(n).valid
    BY <1>5 DEF Linked, Bubble
  <2>2. Input(n).id \in DOMAIN aim /\ d[n] = Norm(aim[Input(n).id])
    BY <1>5, <2>1 DEF Linked, PayloadAt, Payload
  <2> QED BY <1>3, <2>1, <2>2, NothingType DEF Norm
<1> QED BY <1>1, <1>3, <1>4, <1>5

\* Module n sees the second half of an action entry, which is for p.
Loads(n, p) == /\ Input(n).valid /\ Input(n).id \in DOMAIN aim /\ aim[Input(n).id] = p
               /\ p.to = <<n, "act">> /\ p.half # 0

\* A lookup engine enables the write of its buffer when, and only when, it takes
\* the second half of an action entry; the buffer then holds that entry.
LEMMA ActLoads ==
  ASSUME Types, NEW d \in Dues, Linked(d), Matched(d), Modules, NEW n \in Nodes
  PROVE  /\ "act" \in node'[n].wr <=> Loads(n, d[n])
         /\ Loads(n, d[n]) => /\ node'[n].tmp = <<d[n].half, Input(n).id>>
                              /\ node'[n].actIndex % Rows = d[n].row
<1> DEFINE b == Input(n)
           nd == node[n]
<1>1. PICK r : r = NodeNext(n, nd, b)
  OBVIOUS
<1>2. node'[n] = r
  BY <1>1 DEF Modules
<1>3. b \in Beats /\ nd \in Registers /\ nd \in RegistersOf(n)
  BY InputType DEF Types, ModuleTypes
<1>4. Loads(n, d[n]) => nd.at = "act2"
  <2>1. SUFFICES ASSUME Loads(n, d[n]) PROVE nd.at = "act2"
    OBVIOUS
  <2>2. ReadyFor(nd, d[n])
    BY <2>1 DEF Loads, Matched, MatchedAt
  <2> QED BY <2>1, <2>2 DEF Loads, ReadyFor
<1>5. CASE nd.at = "IDLE" /\ IsFor(n, b)
  <2>1. Header(b)
    BY <1>5, NodeNumbers DEF IsFor, Linked, PayloadAt, Header, Payload, Nobody
  <2>2. nd.wr = {}
    BY <2>1 DEF Matched, MatchedAt, Rested
  <2>3. r = Select(n, nd, b)
    BY <1>1, <1>5 DEF NodeNext
  <2>4. "act" \notin r.wr
    <3>1. CASE b.to[2] = "act"
      <4>1. r.wr = nd.wr
        BY <1>3, <2>3, <3>1 DEF Select, Registers
      <4> QED BY <2>2, <4>1
    <3>2. CASE b.to[2] # "act"
      <4>1. r.wr = nd.wr \cup {b.to[2]}
        BY <1>3, <2>3, <3>2 DEF Select, Registers
      <4> QED BY <2>2, <3>2, <4>1
    <3> QED BY <3>1, <3>2
  <2> QED BY <1>2, <1>4, <1>5, <2>4
<1>6. CASE nd.at = "IDLE" /\ ~IsFor(n, b)
  <2>1. r.wr = {}
    BY <1>1, <1>6 DEF NodeNext, PassOn, Reset
  <2> QED BY <1>2, <1>4, <1>6, <2>1
<1>7. CASE nd.at = "act"
  <2>1. r = ActWait(nd, b)
    BY <1>1, <1>7 DEF NodeNext
  <2>2. "act" \notin r.wr
    <3>1. CASE ~b.valid
      BY <1>3, <2>1, <3>1 DEF ActWait, Registers
    <3>2. CASE b.valid /\ b.last
      BY <1>3, <2>1, <3>2 DEF ActWait, Registers
    <3>3. CASE b.valid /\ ~b.last
      BY <1>3, <2>1, <3>3 DEF ActWait, Registers
    <3> QED BY <3>1, <3>2, <3>3
  <2> QED BY <1>2, <1>4, <1>7, <2>2
<1>8. CASE nd.at = "act2"
  <2>1. r = ActTmp(nd, b)
    BY <1>1, <1>8 DEF NodeNext
  <2>2. /\ d[n].to = <<n, d[n].to[2]>> /\ d[n].to[2] \in Names /\ ReadyFor(nd, d[n])
        /\ b.valid => b.id # 0 /\ b.id \in DOMAIN aim /\ aim[b.id] = d[n]
    BY <1>8, Attends
  <2>3. d[n].to = <<n, "act">> /\ d[n].half # 0 /\ nd.tmp[1] = d[n].half /\ nd.wr = {}
        /\ d[n].row = nd.actIndex % Rows
    BY <1>8, <2>2 DEF ReadyFor, Names
  <2>4. CASE ~b.valid
    BY <1>2, <2>1, <2>3, <2>4 DEF ActTmp, Loads
  <2>5. CASE b.valid
    <3>1. r.tmp = <<nd.tmp[1], b.id>>
      <4>1. [nd.tmp EXCEPT ![2] = b.id] = <<nd.tmp[1], b.id>>
        BY <1>3, HalfLoads DEF Registers, Beats
      <4> QED BY <1>3, <2>1, <2>5, <4>1 DEF ActTmp, Registers
    <3>2. r.actIndex = nd.actIndex
      BY <1>3, <2>1, <2>5 DEF ActTmp, Registers
    <3>3. "act" \in r.wr
      BY <1>3, <2>1, <2>5 DEF ActTmp, Registers
    <3>4. Loads(n, d[n])
      BY <2>2, <2>3, <2>5 DEF Loads
    <3> QED BY <1>2, <2>3, <3>1, <3>2, <3>3, <3>4
  <2> QED BY <2>4, <2>5
<1>9. CASE nd.at \notin {"IDLE", "act", "act2"}
  <2>1. r = Write(nd, b)
    BY <1>1, <1>9 DEF NodeNext
  <2>2. ReadyFor(nd, d[n]) /\ nd.at # "IDLE"
    BY <1>9, Attends
  <2>3. "act" \notin nd.wr
    BY <1>9, <2>2 DEF ReadyFor
  <2>4. "act" \notin r.wr
    <3>1. CASE b.valid /\ b.last
      BY <1>3, <2>1, <2>3, <3>1 DEF Write, Registers
    <3>2. CASE ~(b.valid /\ b.last)
      BY <1>3, <2>1, <2>3, <3>2 DEF Write, Registers
    <3> QED BY <3>1, <3>2
  <2> QED BY <1>2, <1>4, <1>9, <2>4
<1> HIDE DEF nd, b
<1> QED BY <1>6, <1>7, <1>8, <1>9, <1>5

\* A lookup engine's buffer holds, when it is about to be written, the two halves
\* of one entry, and its index names that entry's row.
LEMMA KeepsBuffered ==
  ASSUME Types, NEW d \in Dues, Linked(d), Matched(d), CtlSource, Modules, NEW n \in Nodes
  PROVE  BufferedAt(n)'
<1> SUFFICES ASSUME "act" \in node'[n].wr PROVE BufferedAt(n)'
  BY DEF BufferedAt
<1> DEFINE i == Input(n).id
<1>1. Loads(n, d[n]) /\ node'[n].tmp = <<d[n].half, i>> /\ node'[n].actIndex % Rows = d[n].row
  BY ActLoads
<1>2. i \in DOMAIN aim' /\ aim'[i] = d[n] /\ d[n].to = <<n, "act">> /\ d[n].half # 0
  BY <1>1, AimGrows DEF Loads
<1> HIDE DEF i
<1>3. node'[n].tmp[2] = i /\ node'[n].tmp[1] = d[n].half
  BY <1>1
<1> QED BY <1>1, <1>2, <1>3 DEF BufferedAt

\* What an edge writes into row r of table t, if it does: the entry in the
\* buffer of an action table, the bus for another table.
LEMMA Writes ==
  ASSUME Types, WriteTables, NEW t \in Tables, NEW r \in RowSet
  PROVE  LET nd == node[t[1]]
             at == IF t[2] = "act" THEN nd.actIndex ELSE nd.index
             b  == Input(t[1])
         IN  table'[t][r] = IF t[2] \in nd.wr /\ at % Rows = r
                            THEN IF t[2] = "act" THEN nd.tmp ELSE <<b.id, b.id>>
                            ELSE table[t][r]
<1>1. table'[t][r] = TableNext(t[1], t[2], r)
  BY DEF WriteTables, RowSet
<1>2. <<t[1], t[2]>> = t
  BY TableNames
<1> QED BY <1>1, <1>2 DEF TableNext

\* A module that writes into a table other than the actions is taking payload
\* for the row it writes.
LEMMA WritesDue ==
  ASSUME Types, NEW d \in Dues, Linked(d), Matched(d), NEW t \in Tables,
         t[2] # "act", t[2] \in node[t[1]].wr
  PROVE  /\ t[1] \in Nodes /\ node[t[1]].at = t[2] /\ node[t[1]].at # "IDLE"
         /\ d[t[1]].to = t /\ d[t[1]].row = node[t[1]].index % Rows
<1> DEFINE n == t[1]
<1>1. n \in Nodes /\ t = <<n, t[2]>> /\ t[2] \in Names
  BY TableNames
<1> HIDE DEF n
<1>2. node[n].at = t[2] /\ node[n].at # "IDLE"
  <2>1. node[n] \in RegistersOf(n)
    BY <1>1 DEF Types, ModuleTypes
  <2>2. t[2] \in node[n].wr
    BY DEF n
  <2> QED BY <1>1, <2>1, <2>2 DEF RegistersOf, Names
<1>3. d[n].to = <<n, d[n].to[2]>> /\ ReadyFor(node[n], d[n])
  BY <1>1, <1>2, Attends
<1>4. d[n].to[2] = t[2] /\ d[n].row = node[n].index % Rows
  <2>1. d[n].to[2] # "act"
    <3>1. SUFFICES ASSUME d[n].to[2] = "act" PROVE FALSE
      OBVIOUS
    <3>2. node[n].at = "act" \/ node[n].at = "act2"
      BY <1>3, <3>1 DEF ReadyFor
    <3> QED BY <1>1, <1>2, <3>2 DEF Names
  <2> QED BY <1>2, <1>3, <2>1 DEF ReadyFor
<1> QED BY <1>1, <1>2, <1>3, <1>4 DEF n

\* A row that was written is named, and holds payload that was sent for it.
RowNamed(t, r) ==
  table[t][r] # Initial =>
    /\ <<t, r>> \in Named
    /\ \A h \in 1..2 : table[t][r][h] # 0 =>
         /\ table[t][r][h] \in DOMAIN aim
         /\ aim[table[t][r][h]].to = t /\ aim[table[t][r][h]].row = r

\* A row keeps holding only what was sent for it.
LEMMA KeepsRowNamed ==
  ASSUME Types, Halves, Buffered, NEW d \in Dues, Linked(d), Matched(d),
         CtlSource, WriteTables, NEW t \in Tables, NEW r \in RowSet, RowNamed(t, r)
  PROVE  RowNamed(t, r)'
<1> DEFINE n == t[1]
           nd == node[n]
           b == Input(n)
<1>1. n \in Nodes /\ t = <<n, t[2]>> /\ t # Nobody
  BY TableNames
<1>2. ASSUME NEW x, x = table'[t][r], <<t, r>> \in Named,
             \A h \in 1..2 : x[h] # 0 => /\ x[h] \in DOMAIN aim
                                         /\ aim[x[h]].to = t /\ aim[x[h]].row = r
      PROVE  RowNamed(t, r)'
  <2>1. <<t, r>> \in Named'
    BY <1>1, <1>2, NamedGrows
  <2> QED BY <1>2, <2>1, AimGrows DEF RowNamed
<1>3. CASE table'[t][r] = table[t][r]
  <2>1. CASE table[t][r] = Initial
    BY <1>3, <2>1 DEF RowNamed
  <2>2. CASE table[t][r] # Initial
    BY <1>2, <1>3, <2>2 DEF RowNamed
  <2> QED BY <2>1, <2>2
<1>4. CASE t[2] = "act" /\ t[2] \in nd.wr /\ nd.actIndex % Rows = r
  <2>1. table'[t][r] = nd.tmp
    BY <1>4, Writes
  <2>2. PICK i \in DOMAIN aim : i = nd.tmp[2] /\ aim[i].to = t /\ aim[i].row = r
                                /\ aim[i].half # 0 /\ nd.tmp[1] = aim[i].half
    BY <1>1, <1>4 DEF Buffered, BufferedAt
  <2>3. aim[i].half \in DOMAIN aim /\ aim[aim[i].half].to = t /\ aim[aim[i].half].row = r
    BY <2>2 DEF Halves, HalfOf
  <2>4. <<t, r>> \in Named
    BY <2>2 DEF Named
  <2>5. ASSUME NEW h \in 1..2
        PROVE  nd.tmp[h] \in DOMAIN aim /\ aim[nd.tmp[h]].to = t /\ aim[nd.tmp[h]].row = r
    <3>1. h = 1 \/ h = 2
      OBVIOUS
    <3> QED BY <2>2, <2>3, <3>1
  <2> QED BY <1>2, <2>1, <2>4, <2>5
<1>5. CASE t[2] # "act" /\ t[2] \in nd.wr /\ nd.index % Rows = r
  <2>1. table'[t][r] = <<b.id, b.id>>
    BY <1>5, Writes
  <2>2. d[n].to = t /\ d[n].row = r /\ nd.at # "IDLE"
    BY <1>5, WritesDue
  <2>3. <<t, r>> \in Named
    <3>1. n \in 0..LastNode
      BY <1>1, NodeNumbers
    <3> QED BY <1>1, <2>2, <3>1 DEF Linked, Asked
  <2>4. b.id # 0 => b.id \in DOMAIN aim /\ aim[b.id] = d[n]
    BY <1>1, <2>2, Attends
  <2>5. \A h \in 1..2 : <<b.id, b.id>>[h] = b.id
    OBVIOUS
  <2> HIDE DEF b, n
  <2> QED BY <1>2, <2>1, <2>2, <2>3, <2>4, <2>5
<1>6. CASE ~ (t[2] \in nd.wr /\ (IF t[2] = "act" THEN nd.actIndex ELSE nd.index) % Rows = r)
  BY <1>3, <1>6, Writes
<1> HIDE DEF nd
<1> QED BY <1>4, <1>5, <1>6

\* The invariant that is inductive: d is where the packets are, and the tables
\* have been written for them only.
Sound(d) == /\ Types /\ Spaced /\ Halves /\ Buffered
            /\ \A t \in Tables : \A r \in RowSet : RowNamed(t, r)
            /\ Linked(d) /\ Matched(d)

\* After reset the invariant holds, with nothing due anywhere.
LEMMA InitSound ==
  ASSUME CtlInit
  PROVE  \E d \in Dues : Sound(d)
<1> DEFINE d == [n \in 0..LastNode |-> Nothing]
<1>1. Types
  BY InitTypes
<1>2. d \in Dues /\ \A n \in 0..LastNode : d[n] = Nothing
  BY NothingType DEF Dues
<1> HIDE DEF d
<1>3. \A n \in Nodes : node[n] = Reset /\ Input(n) = Quiet /\ n \in 0..LastNode
                     /\ n - 1 \in 0..LastNode
  BY NodeNumbers DEF CtlInit, Input, Reset
<1>4. DOMAIN aim = {} /\ cur = NoPacket /\ Place(cur) = Nothing /\ chan = Quiet
  BY DEF CtlInit, Place, NoPacket, Nothing
<1>5. Spaced /\ Halves /\ Buffered
  BY <1>3, <1>4 DEF Spaced, Halves, HalfOf, Buffered, BufferedAt, Quiet, Reset, Nothing
<1>6. \A t \in Tables : \A r \in RowSet : RowNamed(t, r)
  BY DEF CtlInit, Fresh, RowNamed, RowSet
<1>7. Linked(d)
  <2>1. d[0] = Norm(Place(cur))
    BY <1>2, <1>4, NothingType, NodeNumbers DEF Norm
  <2>2. ASSUME NEW n \in Nodes
        PROVE  Bubble(d, n) /\ HeaderAt(d, n) /\ PayloadAt(d, n) /\ InReach(d, n)
    BY <1>2, <1>3, NothingType
       DEF Bubble, HeaderAt, PayloadAt, InReach, Quiet, Header, Payload, Beyond
  <2>3. \A n \in 0..LastNode : Asked(d, n)
    BY <1>2, NothingType DEF Asked
  <2> QED BY <2>1, <2>2, <2>3 DEF Linked
<1>8. Matched(d)
  BY <1>2, <1>3, NothingType, NodeNumbers DEF Matched, MatchedAt, Quiet, Header, Reset
<1> QED BY <1>1, <1>2, <1>5, <1>6, <1>7, <1>8 DEF Sound

\* Every clock edge keeps the invariant, for the next d.
LEMMA SoundMoves ==
  ASSUME Plain, NEW d \in Dues, Sound(d), CtlNext
  PROVE  \E e \in Dues : Moved(d, e) /\ Sound(e)'
<1>1. CtlSource /\ Modules /\ WriteTables /\ Types /\ Spaced /\ Halves /\ Buffered
      /\ Linked(d) /\ Matched(d)
  BY DEF CtlNext, Sound
<1>2. Types'
  BY <1>1, TypesInductive
<1>3. PICK e \in Dues : Moved(d, e)
  BY <1>1, <1>2, DueMoves
<1>4. Spaced' /\ Halves'
  BY <1>1, KeepsSpaced, KeepsHalves
<1>5. Linked(e)'
  BY <1>1, <1>2, <1>3, KeepsLinked
<1>6. \A n \in Nodes : MatchedAt(e, n)'
  BY <1>1, <1>3, KeepsMatched
<1>7. \A n \in Nodes : BufferedAt(n)'
  BY <1>1, KeepsBuffered
<1>8. \A t \in Tables : \A r \in RowSet : RowNamed(t, r)'
  BY <1>1, KeepsRowNamed DEF Sound
<1>9. Sound(e)'
  BY <1>2, <1>4, <1>5, <1>6, <1>7, <1>8 DEF Sound, Matched, Buffered
<1> QED BY <1>3, <1>9

\* The invariant is about the variables of the specification only.
LEMMA SoundStutters ==
  ASSUME NEW d \in Dues, Sound(d), UNCHANGED ctlVars
  PROVE  Sound(d)'
BY DEF ctlVars, Sound, Types, SourceTypes, ModuleTypes, Spaced, Halves, HalfOf, Buffered,
       BufferedAt, RowNamed, Named, Linked, Matched, MatchedAt, Bubble, HeaderAt, PayloadAt,
       InReach, Asked, Input, Place, Rested

\* Between packets an idle cycle, and no payload beat that reads like a header: then
\* a module writes only rows that a packet addressed to it names, and into a row
\* only payload that was sent for it (parser.v, key_extract.v, lookup_engine.v and
\* deparser.v; README.md:174), whatever else is on the channel, for any headers,
\* packet lengths, table sizes and pauses.
THEOREM ControlPathSound == ASSUME Plain PROVE CtlSpec => []OnlyNamedRows
<1>1. CtlInit => \E d \in Dues : Sound(d)
  BY InitSound
<1>2. (\E d \in Dues : Sound(d)) /\ [CtlNext]_ctlVars => (\E d \in Dues : Sound(d))'
  BY SoundMoves, SoundStutters
<1>3. (\E d \in Dues : Sound(d)) => OnlyNamedRows
  BY DEF Sound, RowNamed, OnlyNamedRows, RowSet
<1> QED BY <1>1, <1>2, <1>3, PTL DEF CtlSpec

-----------------------------------------------------------------------------
(***************************************************************************)
(* What the tables hold at rest.  s[n] counts the payload beats that have   *)
(* passed module n or were for a module before it.  The rows of module n    *)
(* hold the last entries among those beats: but for the row that the next   *)
(* one is for, which takes whatever is on the bus until it comes, and for   *)
(* the action entry that is still in the buffer.                            *)
(***************************************************************************)

Counts == [0..LastNode -> Nat]
Counted(s, n) ==
  /\ s[n - 1] = s[n] \/ s[n - 1] = s[n] + 1
  /\ s[n - 1] <= Len(aim)
  /\ Payload(Input(n)) => Input(n).id = s[n - 1] /\ s[n - 1] = s[n] + 1
  /\ ~Payload(Input(n)) /\ s[n - 1] # s[n] => aim[s[n - 1]].to[1] < n /\ aim[s[n - 1]].to # Nobody

\* The beats for module n that have not passed it are on their way.
OnItsWay(i, n) == \E j \in 1..n : Payload(Input(j)) /\ Input(j).id = i
Coming(s, n) == \A i \in DOMAIN aim : i > s[n] /\ aim[i].to[1] = n => OnItsWay(i, n)

\* Beat i completes an entry for row r of table t, and the entry.
Fills(i, t, r) == /\ i \in DOMAIN aim /\ aim[i].to = t /\ aim[i].row = r
                  /\ aim[i].to[2] # "act" \/ aim[i].half # 0
EntryOf(i) == <<IF aim[i].to[2] = "act" THEN aim[i].half ELSE i, i>>

\* v is the last entry for row r of table t among the first k payload beats.
LastOf(v, t, r, k) ==
  \/ v = Initial /\ \A i \in 1..k : ~Fills(i, t, r)
  \/ \E i \in 1..k : /\ Fills(i, t, r) /\ v = EntryOf(i)
                     /\ \A j \in 1..k : j > i => ~Fills(j, t, r)

WantsLast == \A t \in Tables : \A r \in RowSet : LastOf(wanted[t][r], t, r, Len(aim))

\* What row r of table t holds once the buffer is written.
Pending(t, r) == IF "act" \in node[t[1]].wr /\ node[t[1]].actIndex % Rows = r
                 THEN node[t[1]].tmp ELSE table[t][r]
HoldsLast(d, s, t, r) ==
  IF t[2] = "act" THEN LastOf(Pending(t, r), t, r, s[t[1]])
  ELSE \/ d[t[1]].to = t /\ d[t[1]].row = r
       \/ LastOf(table[t][r], t, r, s[t[1]])

\* s of the next state.
Passed(s, q) == q[0] = Len(aim') /\ \A n \in Nodes : q[n] = s[n - 1]

\* The last entry stays the last while no other is sent.
LEMMA LastStays ==
  ASSUME NEW v, NEW t, NEW r, NEW k \in Nat, LastOf(v, t, r, k), ~Fills(k + 1, t, r)
  PROVE  LastOf(v, t, r, k + 1)
BY DEF LastOf

\* There is one last entry, as long as no other is sent.
LEMMA LastIsOne ==
  ASSUME NEW v, NEW w, NEW t, NEW r, NEW k \in Nat, NEW l \in Nat, k <= l,
         LastOf(v, t, r, k), LastOf(w, t, r, l), \A i \in 1..l : i > k => ~Fills(i, t, r)
  PROVE  v = w
<1>1. CASE \A i \in 1..k : ~Fills(i, t, r)
  <2>1. \A i \in 1..l : ~Fills(i, t, r)
    BY <1>1
  <2> QED BY <1>1, <2>1 DEF LastOf
<1>2. CASE \E i \in 1..k : Fills(i, t, r)
  <2>1. PICK i \in 1..k : Fills(i, t, r) /\ v = EntryOf(i)
                          /\ \A j \in 1..k : j > i => ~Fills(j, t, r)
    BY <1>2 DEF LastOf
  <2>2. \A j \in 1..l : j > i => ~Fills(j, t, r)
    BY <2>1
  <2>3. PICK j \in 1..l : Fills(j, t, r) /\ w = EntryOf(j)
                          /\ \A m \in 1..l : m > j => ~Fills(m, t, r)
    BY <1>2 DEF LastOf
  <2>4. i = j
    BY <2>1, <2>2, <2>3
  <2> QED BY <2>1, <2>3, <2>4
<1> QED BY <1>1, <1>2

\* Sending another beat changes no earlier one.
LEMMA LastKept ==
  ASSUME Types, CtlSource, NEW v, NEW t, NEW r, NEW k \in 0..Len(aim), LastOf(v, t, r, k)
  PROVE  LastOf(v, t, r, k)'
<1>1. \A i \in 1..k : /\ i \in DOMAIN aim /\ i \in DOMAIN aim' /\ aim'[i] = aim[i]
  BY AimGrows
<1>2. \A i \in 1..k : Fills(i, t, r)' = Fills(i, t, r) /\ EntryOf(i)' = EntryOf(i)
  BY <1>1 DEF Fills, EntryOf
<1> QED BY <1>2 DEF LastOf

\* The source sends for each row what is wanted there.
LEMMA KeepsWantsLast == ASSUME Types, WantsLast, CtlSource PROVE WantsLast'
<1> SUFFICES ASSUME NEW t \in Tables, NEW r \in RowSet
             PROVE  LastOf(wanted[t][r], t, r, Len(aim))'
  BY DEF WantsLast
<1>1. PICK v, k : v = wanted[t][r] /\ k = Len(aim) /\ k \in Nat
  <2>1. Len(aim) \in Nat
    BY AimGrows
  <2> QED BY <2>1
<1>2. LastOf(v, t, r, k)'
  <2>1. LastOf(v, t, r, k) /\ k \in 0..Len(aim)
    BY <1>1 DEF WantsLast
  <2> QED BY <2>1, LastKept
<1>3. CASE ~SendPayload
  <2>1. aim' = aim /\ wanted' = wanted
    BY <1>3 DEF CtlSource, SendNothing, SendHeader
  <2> QED BY <1>1, <1>2, <2>1
<1>4. CASE SendPayload
  <2>1. /\ aim'[k + 1] = Place(cur) /\ k + 1 \in DOMAIN aim' /\ k + 1 = NextId
        /\ Len(aim') = k + 1
    <3>1. aim' = Append(aim, Place(cur)) /\ aim \in Seq(Places) /\ Place(cur) \in Places
      BY <1>4, AimGrows DEF Types, SourceTypes, Place, Places
    <3>2. Len(aim') = k + 1
      BY <1>1, <3>1, AppendProperties
    <3> QED BY <1>1, <1>4, <3>2, AimGrows DEF NextId
  <2>2. Fills(k + 1, t, r)' <=> Completes /\ cur.to = t /\ cur.row = r
    BY <2>1 DEF Fills, Completes, Place
  <2>3. cur.row \in RowSet /\ t # Nobody /\ wanted \in [Tables -> [RowSet -> Entries]]
    BY TableNames DEF Types, SourceTypes
  <2>4. CASE Completes /\ cur.to = t /\ cur.row = r
    <3>1. wanted'[t][r] = EntryOf(k + 1)'
      <4> DEFINE x == <<IF cur.to[2] = "act" THEN cur.half ELSE NextId, NextId>>
      <4>1. wanted' = [wanted EXCEPT ![cur.to][cur.row] = x]
        BY <1>4, <2>3, <2>4 DEF SendPayload
      <4>2. x = EntryOf(k + 1)'
        BY <2>1, <2>4 DEF EntryOf, Place
      <4> HIDE DEF x
      <4> QED BY <2>3, <2>4, <4>1, <4>2
    <3>2. LastOf(EntryOf(k + 1), t, r, k + 1)'
      BY <1>1, <2>2, <2>4 DEF LastOf
    <3> QED BY <2>1, <3>1, <3>2
  <2>5. CASE ~(Completes /\ cur.to = t /\ cur.row = r)
    <3>1. wanted'[t][r] = v
      <4>1. CASE Completes /\ cur.to # Nobody
        <5> DEFINE x == <<IF cur.to[2] = "act" THEN cur.half ELSE NextId, NextId>>
        <5>1. wanted' = [wanted EXCEPT ![cur.to][cur.row] = x]
          BY <1>4, <4>1 DEF SendPayload
        <5> HIDE DEF x
        <5> QED BY <1>1, <2>3, <2>5, <4>1, <5>1
      <4>2. CASE ~(Completes /\ cur.to # Nobody)
        BY <1>1, <1>4, <4>2 DEF SendPayload
      <4> QED BY <4>1, <4>2
    <3>2. ~Fills(k + 1, t, r)'
      BY <2>2, <2>5
    <3>3. LastOf(v, t, r, k + 1)'
      BY <1>1, <1>2, <3>2 DEF LastOf
    <3> QED BY <2>1, <3>1, <3>3
  <2> QED BY <2>4, <2>5
<1> QED BY <1>3, <1>4

\* There is a next s.
LEMMA CountsMove ==
  ASSUME Types, CtlSource, NEW s \in Counts
  PROVE  \E q \in Counts : Passed(s, q)
<1> DEFINE q == [n \in 0..LastNode |-> IF n = 0 THEN Len(aim') ELSE s[n - 1]]
<1>1. Len(aim') \in Nat
  BY SourceKeepsTypes DEF Types, SourceTypes
<1>2. \A n \in 1..LastNode : s[n - 1] \in Nat
  BY NodeNumbers DEF Counts
<1>3. q \in Counts
  BY <1>1, <1>2, NodeNumbers DEF Counts
<1>4. Passed(s, q)
  BY NodeNumbers DEF Passed
<1> QED BY <1>3, <1>4

\* Every payload beat is for a place.
LEMMA AimTypes ==
  ASSUME Types, NEW i \in DOMAIN aim
  PROVE  aim[i] \in Places /\ aim[i].to[1] \in Nat
<1>1. aim \in Seq(Places)
  BY DEF Types, SourceTypes
<1>2. aim[i] \in Places
  BY <1>1
<1> QED BY <1>2, Addressees DEF Places

\* The beats are counted as they pass.
LEMMA KeepsCounted ==
  ASSUME Types, NEW d \in Dues, Linked(d), Matched(d), CtlSource, Modules,
         NEW s \in Counts, NEW q \in Counts, Passed(s, q), s[0] = Len(aim),
         \A n \in Nodes : Counted(s, n), NEW n \in Nodes
  PROVE  Counted(q, n)'
<1>1. q[n] = s[n - 1] /\ q[n] \in Nat /\ n \in Nat
  BY NodeNumbers DEF Passed, Counts
<1>2. CASE n = 1
  <2>1. q[1] = Len(aim) /\ q[0] = Len(aim') /\ Input(1)' = chan' /\ Len(aim) \in Nat
    BY <1>1, <1>2, AimGrows DEF Passed, Input
  <2>2. CASE SendPayload
    <3>1. Len(aim') = Len(aim) + 1
      BY <2>2, AppendProperties DEF SendPayload, Types, SourceTypes
    <3>2. chan'.valid /\ chan'.id = Len(aim) + 1
      BY <2>2 DEF SendPayload, NextId
    <3> QED BY <1>2, <2>1, <3>1, <3>2 DEF Counted, Payload
  <2>3. CASE SendNothing \/ SendHeader
    <3>1. aim' = aim /\ ~Payload(chan')
      BY <2>3 DEF SendNothing, SendHeader, Payload, Quiet
    <3> QED BY <1>2, <2>1, <3>1 DEF Counted, Payload
  <2> QED BY <2>2, <2>3 DEF CtlSource
<1>3. CASE n # 1
  <2>1. PICK m \in Nodes : m = n - 1 /\ n = m + 1 /\ m \in Nat /\ m # 0
    BY <1>3, NodeNumbers
  <2>2. q[m] = s[m - 1] /\ q[m] \in Nat /\ q[n] = s[m] /\ Counted(s, m)
    BY <1>1, <2>1, NodeNumbers DEF Passed, Counts
  <2>3. Len(aim) <= Len(aim') /\ Len(aim) \in Nat /\ Len(aim') \in Nat
    BY SourceKeepsTypes, AimGrows, AppendProperties DEF Types, SourceTypes
  <2>4. /\ q[m] = q[n] \/ q[m] = q[n] + 1
        /\ q[m] <= Len(aim) /\ q[m] <= Len(aim')
    BY <2>2, <2>3 DEF Counted
  <2>5. q[m] # q[n] => q[m] \in DOMAIN aim /\ aim'[q[m]] = aim[q[m]]
    BY <1>1, <2>2, <2>4, AimGrows
  <2>6. CASE node[m].at = "IDLE" /\ Input(m).valid /\ Input(m).to[1] # m
    <3>1. Input(n)' = Input(m)
      BY <2>1, <2>6, OutMoves
    <3>2. Payload(Input(n))' => Input(n)'.id = q[m] /\ q[m] = q[n] + 1
      BY <2>2, <3>1 DEF Counted, Payload
    <3>3. ~Payload(Input(n))' /\ q[m] # q[n] => aim'[q[m]].to[1] < n /\ aim'[q[m]].to # Nobody
      <4>1. SUFFICES ASSUME ~Payload(Input(n))', q[m] # q[n]
                     PROVE  aim'[q[m]].to[1] < n /\ aim'[q[m]].to # Nobody
        OBVIOUS
      <4>2. aim[q[m]].to[1] < m /\ aim[q[m]].to # Nobody
        BY <2>2, <3>1, <4>1 DEF Counted, Payload
      <4>3. aim[q[m]].to[1] \in Nat
        BY <2>5, <4>1, AimTypes
      <4> QED BY <2>1, <2>5, <4>1, <4>2, <4>3
    <3> QED BY <2>1, <2>4, <3>2, <3>3 DEF Counted
  <2>7. CASE ~(node[m].at = "IDLE" /\ Input(m).valid /\ Input(m).to[1] # m)
    <3>1. ~Input(n)'.valid
      BY <2>1, <2>7, OutMoves
    <3>2. q[m] # q[n] => aim'[q[m]].to[1] < n /\ aim'[q[m]].to # Nobody
      <4>1. SUFFICES ASSUME q[m] # q[n]
                     PROVE  aim[q[m]].to[1] < n /\ aim[q[m]].to # Nobody
        BY <2>5
      <4>2. aim[q[m]].to[1] \in Nat
        BY <2>5, <4>1, AimTypes
      <4>3. CASE ~Payload(Input(m))
        BY <2>1, <2>2, <4>1, <4>2, <4>3 DEF Counted
      <4>4. CASE Payload(Input(m))
        <5>1. Input(m).to[1] # m
          BY <2>1, <4>4 DEF Linked, PayloadAt, Nobody
        <5>2. node[m].at # "IDLE"
          BY <2>7, <4>4, <5>1 DEF Payload
        <5>3. aim[Input(m).id] = d[m] /\ d[m].to # Nobody /\ d[m].to[1] = m
          BY <4>4, <5>2, Attends DEF Payload
        <5> QED BY <2>1, <2>2, <4>4, <5>3 DEF Counted
      <4> QED BY <4>3, <4>4
    <3> QED BY <2>1, <2>4, <3>1, <3>2 DEF Counted, Payload
  <2> QED BY <2>6, <2>7
<1> QED BY <1>2, <1>3

\* A beat passes the modules that it is not for.
LEMMA KeepsComing ==
  ASSUME Types, NEW d \in Dues, Linked(d), Matched(d), CtlSource, Modules,
         NEW s \in Counts, NEW q \in Counts, Passed(s, q), s[0] = Len(aim),
         NEW n \in Nodes, Counted(s, n), Coming(s, n)
  PROVE  Coming(q, n)'
<1> SUFFICES ASSUME NEW i \in DOMAIN aim', i > q[n], aim'[i].to[1] = n
             PROVE  \E j \in 1..n : Payload(Input(j)') /\ Input(j)'.id = i
  BY DEF Coming, OnItsWay, Payload
<1>1. q[n] = s[n - 1] /\ s[n - 1] \in Nat /\ s[n] \in Nat /\ n \in Nat /\ n >= 1
  BY NodeNumbers DEF Passed, Counts
<1>2. CASE i \in DOMAIN aim
  <2>1. i > s[n] /\ aim[i].to[1] = n
    <3>1. i \in Nat
      BY <1>2, AimGrows
    <3> QED BY <1>1, <1>2, <3>1, AimGrows DEF Counted
  <2>2. PICK j \in 1..n : Payload(Input(j)) /\ Input(j).id = i
    BY <1>2, <2>1 DEF Coming, OnItsWay
  <2>3. j # n
    BY <1>1, <2>2 DEF Counted
  <2>4. j \in Nodes /\ j + 1 \in Nodes /\ j + 1 \in 1..n
    BY <1>1, <2>3, NodeNumbers
  <2>5. node[j].at = "IDLE"
    <3>1. SUFFICES ASSUME node[j].at # "IDLE" PROVE FALSE
      OBVIOUS
    <3>2. aim[i] = d[j] /\ d[j].to[1] = j
      BY <2>2, <2>4, <3>1, Attends DEF Payload
    <3> QED BY <2>1, <2>3, <3>2
  <2>6. Input(j).valid /\ Input(j).to[1] # j
    BY <2>2, <2>4, NodeNumbers DEF Linked, PayloadAt, Nobody, Payload
  <2>7. Input(j + 1)' = Input(j)
    BY <2>4, <2>5, <2>6, OutMoves
  <2> QED BY <2>2, <2>4, <2>7
<1>3. CASE i \notin DOMAIN aim
  <2>1. SendPayload /\ i = NextId
    BY <1>3, AimGrows
  <2>2. chan'.valid /\ chan'.id = i /\ i # 0
    <3>1. chan'.valid /\ chan'.id = NextId
      BY <2>1 DEF SendPayload
    <3> QED BY <2>1, <3>1, AimGrows
  <2>3. Input(1)' = chan' /\ 1 \in 1..n
    BY <1>1 DEF Input
  <2>4. Payload(Input(1)') /\ Input(1)'.id = i
    BY <2>2, <2>3 DEF Payload
  <2> QED BY <2>3, <2>4
<1> QED BY <1>2, <1>3

\* A beat that fills a row is seen by the row's module.
LEMMA FillsSeen ==
  ASSUME Types, NEW d \in Dues, Linked(d), NEW s \in Counts, NEW t \in Tables, NEW r \in RowSet,
         Counted(s, t[1]), s[t[1] - 1] # s[t[1]], Fills(s[t[1] - 1], t, r)
  PROVE  /\ Input(t[1]).valid /\ Input(t[1]).id = s[t[1] - 1]
         /\ d[t[1]] = aim[Input(t[1]).id] /\ Input(t[1]).id \in DOMAIN aim
<1>1. t[1] \in Nodes /\ t # Nobody
  BY TableNames
<1>2. PICK n, k : n = t[1] /\ k = s[n - 1]
  OBVIOUS
<1>3. k \in DOMAIN aim /\ aim[k].to = t
  BY <1>2 DEF Fills
<1>4. Payload(Input(n))
  <2>1. aim[k].to[1] = n /\ n \in Nat
    BY <1>1, <1>2, <1>3, NodeNumbers
  <2> QED BY <1>1, <1>2, <2>1 DEF Counted
<1>5. Input(n).id = k
  BY <1>2, <1>4 DEF Counted
<1>6. d[n] = Norm(aim[k])
  BY <1>1, <1>2, <1>4, <1>5 DEF Linked, PayloadAt
<1> QED BY <1>1, <1>2, <1>3, <1>4, <1>5, <1>6 DEF Norm, Payload

\* A row that no beat fills in this cycle keeps its last entry.
LEMMA LastStands ==
  ASSUME Types, CtlSource, NEW s \in Counts, NEW q \in Counts, Passed(s, q),
         NEW t \in Tables, NEW r \in RowSet, Counted(s, t[1]), NEW v, LastOf(v, t, r, s[t[1]]),
         s[t[1] - 1] # s[t[1]] => ~Fills(s[t[1] - 1], t, r)
  PROVE  LastOf(v, t, r, q[t[1]])'
<1>1. t[1] \in Nodes
  BY TableNames
<1>2. PICK k, l : k = s[t[1]] /\ l = s[t[1] - 1]
  OBVIOUS
<1>3. q[t[1]] = l /\ k \in Nat /\ l \in Nat
  BY <1>1, <1>2, NodeNumbers DEF Passed, Counts
<1>4. l <= Len(aim) /\ (l = k \/ l = k + 1)
  BY <1>2 DEF Counted
<1>5. LastOf(v, t, r, l)
  <2>1. CASE l = k
    BY <1>2, <2>1
  <2>2. CASE l = k + 1
    <3>1. ~Fills(k + 1, t, r) /\ LastOf(v, t, r, k)
      BY <1>2, <1>3, <2>2
    <3> QED BY <1>3, <2>2, <3>1, LastStays
  <2> QED BY <1>4, <2>1, <2>2
<1>6. LastOf(v, t, r, l)'
  <2>1. l \in 0..Len(aim)
    BY <1>3, <1>4, AimGrows
  <2> QED BY <1>5, <2>1, LastKept
<1> QED BY <1>3, <1>6

\* A row that is filled holds the entry that fills it.
LEMMA LastMade ==
  ASSUME Types, CtlSource, NEW t \in Tables, NEW r \in RowSet, NEW i, Fills(i, t, r)
  PROVE  LastOf(EntryOf(i), t, r, i)'
<1>1. i \in DOMAIN aim' /\ aim'[i] = aim[i] /\ i \in Nat \ {0}
  BY AimGrows DEF Fills
<1>2. Fills(i, t, r)'
  BY <1>1 DEF Fills
<1> QED BY <1>1, <1>2 DEF LastOf

\* Every row goes on holding the last entry that has passed its module.
LEMMA KeepsHoldsLast ==
  ASSUME Types, NEW d \in Dues, Linked(d), Matched(d), CtlSource, Modules, WriteTables,
         NEW e \in Dues, Moved(d, e), NEW s \in Counts, NEW q \in Counts, Passed(s, q),
         NEW t \in Tables, NEW r \in RowSet, Counted(s, t[1]), HoldsLast(d, s, t, r)
  PROVE  HoldsLast(e, q, t, r)'
<1>1. t[1] \in Nodes /\ t = <<t[1], t[2]>> /\ t # Nobody
  BY TableNames
<1>2. PICK n, i, k : n = t[1] /\ i = Input(n).id /\ k = s[n - 1]
  OBVIOUS
<1>3. q[n] = k /\ k \in Nat /\ s[n] \in Nat
  BY <1>1, <1>2, NodeNumbers DEF Passed, Counts
<1>4. CASE t[2] # "act" /\ d[n].to = t /\ d[n].row = r
  <2>1. d[n].to[1] = n /\ d[n] # Nothing
    BY <1>1, <1>2, <1>4, NothingType
  <2>2. ~Header(Input(n))
    BY <1>1, <1>2, <2>1 DEF Linked, HeaderAt
  <2>3. CASE ~Input(n).valid
    <3>1. e[n] = d[n]
      BY <1>1, <1>2, <2>3, NextDue
    <3> QED BY <1>2, <1>4, <3>1 DEF HoldsLast
  <2>4. CASE Payload(Input(n))
    <3>1. ReadyFor(node[n], d[n])
      BY <1>1, <1>2, <2>1 DEF Matched, MatchedAt
    <3>2. t[2] \in node[n].wr /\ node[n].index % Rows = r
      BY <1>4, <3>1 DEF ReadyFor
    <3>3. table'[t][r] = <<i, i>>
      BY <1>2, <1>4, <3>2, Writes
    <3>4. i = k /\ i \in DOMAIN aim /\ d[n] = aim[i]
      <4>1. i = k /\ i \in DOMAIN aim /\ d[n] = Norm(aim[i])
        BY <1>1, <1>2, <2>4 DEF Counted, Linked, PayloadAt
      <4> QED BY <1>1, <1>4, <4>1, NothingType DEF Norm
    <3>5. Fills(i, t, r)
      BY <1>4, <3>4 DEF Fills
    <3>6. LastOf(EntryOf(i), t, r, i)'
      BY <3>5, LastMade
    <3>7. EntryOf(i)' = <<i, i>>
      BY <1>4, <3>4, AimGrows DEF EntryOf
    <3> QED BY <1>2, <1>3, <1>4, <3>3, <3>4, <3>6, <3>7 DEF HoldsLast
  <2> QED BY <2>2, <2>3, <2>4 DEF Header, Payload
<1>5. CASE t[2] # "act" /\ ~(d[n].to = t /\ d[n].row = r)
  <2>1. PICK v : v = table[t][r]
    OBVIOUS
  <2>2. table'[t][r] = v
    <3>1. CASE t[2] \in node[t[1]].wr /\ node[t[1]].index % Rows = r
      BY <1>2, <1>5, <3>1, WritesDue
    <3>2. CASE ~(t[2] \in node[t[1]].wr /\ node[t[1]].index % Rows = r)
      BY <1>5, <2>1, <3>2, Writes
    <3> QED BY <3>1, <3>2
  <2>3. LastOf(v, t, r, s[t[1]])
    BY <1>2, <1>5, <2>1 DEF HoldsLast
  <2>4. s[t[1] - 1] # s[t[1]] => ~Fills(s[t[1] - 1], t, r)
    BY <1>2, <1>5, FillsSeen DEF Fills
  <2>5. LastOf(v, t, r, q[t[1]])'
    BY <2>3, <2>4, LastStands
  <2> QED BY <1>5, <2>2, <2>5 DEF HoldsLast
<1>6. CASE t[2] = "act" /\ Loads(n, d[n]) /\ d[n].row = r
  <2>1. /\ "act" \in node'[n].wr /\ node'[n].actIndex % Rows = r
        /\ node'[n].tmp = <<d[n].half, i>>
    BY <1>1, <1>2, <1>6, ActLoads
  <2>2. Pending(t, r)' = <<d[n].half, i>>
    BY <1>2, <2>1 DEF Pending
  <2>3. i \in DOMAIN aim /\ aim[i] = d[n] /\ d[n].to = t /\ d[n].half # 0
    BY <1>1, <1>2, <1>6 DEF Loads
  <2>4. Fills(i, t, r)
    BY <1>6, <2>3 DEF Fills
  <2>5. LastOf(EntryOf(i), t, r, i)'
    BY <2>4, LastMade
  <2>6. EntryOf(i)' = <<d[n].half, i>>
    BY <1>6, <2>3, AimGrows DEF EntryOf
  <2>7. i = k
    <3>1. Payload(Input(n))
      BY <1>2, <1>6, <2>3, AimGrows DEF Loads, Payload
    <3> QED BY <1>2, <3>1 DEF Counted
  <2> QED BY <1>2, <1>3, <1>6, <2>2, <2>5, <2>6, <2>7 DEF HoldsLast
<1>7. CASE t[2] = "act" /\ ~(Loads(n, d[n]) /\ d[n].row = r)
  <2>1. PICK v : v = Pending(t, r)
    OBVIOUS
  <2>2. table'[t][r] = v
    BY <1>7, <2>1, Writes DEF Pending
  <2>3. ~("act" \in node'[n].wr /\ node'[n].actIndex % Rows = r)
    <3>1. SUFFICES ASSUME "act" \in node'[n].wr, node'[n].actIndex % Rows = r PROVE FALSE
      OBVIOUS
    <3>2. Loads(n, d[n]) /\ d[n].row = r
      BY <1>1, <1>2, <3>1, ActLoads
    <3> QED BY <1>7, <3>2
  <2>4. Pending(t, r)' = v
    BY <1>2, <2>2, <2>3 DEF Pending
  <2>5. LastOf(v, t, r, s[t[1]])
    BY <1>7, <2>1 DEF HoldsLast
  <2>6. s[t[1] - 1] # s[t[1]] => ~Fills(s[t[1] - 1], t, r)
    <3>1. SUFFICES ASSUME s[n - 1] # s[n], Fills(s[n - 1], t, r) PROVE FALSE
      BY <1>2
    <3>2. Input(n).valid /\ i = k /\ d[n] = aim[i] /\ i \in DOMAIN aim
      BY <1>2, <3>1, FillsSeen
    <3>3. aim[i].to = t /\ aim[i].row = r /\ aim[i].half # 0
      BY <1>2, <1>7, <3>1, <3>2 DEF Fills
    <3> QED BY <1>1, <1>2, <1>7, <3>2, <3>3 DEF Loads
  <2>7. LastOf(v, t, r, q[t[1]])'
    BY <2>5, <2>6, LastStands
  <2> QED BY <1>7, <2>4, <2>7 DEF HoldsLast
<1> QED BY <1>4, <1>5, <1>6, <1>7

Faithful(d, s) ==
  /\ Sound(d) /\ s[0] = Len(aim) /\ WantsLast
  /\ \A n \in Nodes : Counted(s, n) /\ Coming(s, n)
  /\ \A t \in Tables : \A r \in RowSet : HoldsLast(d, s, t, r)

\* After reset nothing has been sent and every row is as it was.
LEMMA InitFaithful ==
  ASSUME CtlInit
  PROVE  \E d \in Dues : \E s \in Counts : Faithful(d, s)
<1> DEFINE s == [n \in 0..LastNode |-> 0]
<1>1. PICK d \in Dues : Sound(d)
  BY InitSound
<1>2. s \in Counts /\ s[0] = 0 /\ \A n \in Nodes : s[n] = 0 /\ s[n - 1] = 0
  BY NodeNumbers DEF Counts
<1> HIDE DEF s
<1>3. aim = <<>> /\ Len(aim) = 0 /\ DOMAIN aim = {}
  BY DEF CtlInit
<1>4. \A v, t, r : v = Initial => LastOf(v, t, r, 0)
  BY DEF LastOf
<1>5. WantsLast
  <2>1. \A t \in Tables : \A r \in RowSet : wanted[t][r] = Initial
    BY DEF CtlInit, Fresh, RowSet
  <2> QED BY <1>3, <1>4, <2>1 DEF WantsLast
<1>6. ASSUME NEW n \in Nodes PROVE node[n] = Reset /\ ~Input(n).valid
  BY <1>6, NodeNumbers DEF CtlInit, Input, Reset, Quiet
<1>7. ASSUME NEW n \in Nodes PROVE Counted(s, n) /\ Coming(s, n)
  BY <1>2, <1>3, <1>6 DEF Counted, Coming, Payload
<1>8. ASSUME NEW t \in Tables, NEW r \in RowSet PROVE HoldsLast(d, s, t, r)
  <2>1. t[1] \in Nodes
    BY TableNames
  <2>2. table[t][r] = Initial /\ Pending(t, r) = Initial
    BY <1>6, <2>1 DEF CtlInit, Fresh, RowSet, Pending, Reset
  <2> QED BY <1>2, <1>4, <2>1, <2>2 DEF HoldsLast
<1> QED BY <1>1, <1>2, <1>3, <1>5, <1>7, <1>8 DEF Faithful

\* Every clock edge keeps the invariant, for the next d and s.
LEMMA FaithfulMoves ==
  ASSUME Plain, NEW d \in Dues, NEW s \in Counts, Faithful(d, s), CtlNext
  PROVE  \E e \in Dues : \E q \in Counts : Faithful(e, q)'
<1>1. Sound(d) /\ Types /\ Linked(d) /\ Matched(d) /\ CtlSource /\ Modules /\ WriteTables
  BY DEF Faithful, Sound, CtlNext
<1>2. PICK e \in Dues : Moved(d, e) /\ Sound(e)'
  BY <1>1, SoundMoves
<1>3. PICK q \in Counts : Passed(s, q)
  BY <1>1, CountsMove
<1>4. q[0] = Len(aim')
  BY <1>3 DEF Passed
<1>5. WantsLast'
  BY <1>1, KeepsWantsLast DEF Faithful
<1>6. ASSUME NEW n \in Nodes PROVE Counted(q, n)' /\ Coming(q, n)'
  BY <1>1, <1>3, KeepsCounted, KeepsComing DEF Faithful
<1>7. ASSUME NEW t \in Tables, NEW r \in RowSet PROVE HoldsLast(e, q, t, r)'
  <2>1. t[1] \in Nodes
    BY TableNames
  <2> QED BY <1>1, <1>2, <1>3, <2>1, KeepsHoldsLast DEF Faithful
<1>8. Faithful(e, q)'
  BY <1>2, <1>4, <1>5, <1>6, <1>7 DEF Faithful
<1> QED BY <1>8

\* The invariant is about the variables of the specification only.
LEMMA FaithfulStutters ==
  ASSUME NEW d \in Dues, NEW s \in Counts, Faithful(d, s), UNCHANGED ctlVars
  PROVE  Faithful(d, s)'
<1>1. Sound(d)'
  BY SoundStutters DEF Faithful
<1>2. \A n \in Nodes : Input(n)' = Input(n)
  BY DEF Input, ctlVars
<1> QED BY <1>1, <1>2 DEF ctlVars, Faithful, WantsLast, Counted, Coming, OnItsWay, Payload,
           Input, HoldsLast, Pending, LastOf, Fills, EntryOf

\* At rest every beat has passed its module, so every row holds the last entry
\* that was sent for it.
LEMMA FaithfulAtRest ==
  ASSUME NEW d \in Dues, NEW s \in Counts, Faithful(d, s), Settled
  PROVE  table = wanted
<1>1. Types /\ Matched(d) /\ Len(aim) \in Nat /\ DOMAIN aim = 1..Len(aim)
  BY DEF Faithful, Sound, Types, SourceTypes
<1>2. \A j \in Nodes : ~Payload(Input(j))
  <2>1. SUFFICES ASSUME NEW j \in Nodes PROVE ~Input(j).valid
    BY DEF Payload
  <2>2. j = 1 \/ j - 1 \in Nodes
    BY NodeNumbers
  <2> QED BY <2>2 DEF Settled, Input
<1>3. ASSUME NEW t \in Tables, NEW r \in RowSet PROVE table[t][r] = wanted[t][r]
  <2>1. PICK n : n = t[1]
    OBVIOUS
  <2>2. n \in Nodes /\ s[n] \in Nat /\ n \in Nat /\ t # Nobody
    BY <2>1, TableNames, NodeNumbers DEF Counts
  <2>3. LastOf(table[t][r], t, r, s[n])
    <3>1. node[n].at = "IDLE" /\ node[n].wr = {}
      BY <2>2 DEF Settled
    <3>2. d[n].to # t
      <4>1. SUFFICES ASSUME d[n].to = t PROVE FALSE
        OBVIOUS
      <4>2. ReadyFor(node[n], d[n]) /\ d[n] \in Places
        BY <1>1, <2>1, <2>2, <4>1, NodeNumbers DEF Matched, MatchedAt, Dues
      <4> QED BY <2>2, <3>1, <4>1, <4>2, ReadyNotIdle
    <3> QED BY <2>1, <3>1, <3>2 DEF Faithful, HoldsLast, Pending
  <2>4. LastOf(wanted[t][r], t, r, Len(aim))
    BY DEF Faithful, WantsLast
  <2>5. \A i \in DOMAIN aim : Fills(i, t, r) => i <= s[n]
    <3>1. SUFFICES ASSUME NEW i \in DOMAIN aim, Fills(i, t, r), i > s[n] PROVE FALSE
      BY <1>1, <2>2
    <3>2. PICK j \in 1..n : Payload(Input(j))
      BY <2>1, <2>2, <3>1 DEF Faithful, Coming, OnItsWay, Fills
    <3> QED BY <1>2, <2>2, <3>2, NodeNumbers
  <2>6. CASE s[n] <= Len(aim)
    BY <1>1, <2>2, <2>3, <2>4, <2>5, <2>6, LastIsOne
  <2>7. CASE s[n] > Len(aim)
    <3>1. s[n] <= s[n - 1] /\ s[n - 1] <= Len(aim)
      BY <2>2, NodeNumbers DEF Faithful, Counted, Counts
    <3> QED BY <1>1, <2>2, <2>7, <3>1, NodeNumbers DEF Counts
  <2> QED BY <1>1, <2>2, <2>6, <2>7
<1> QED BY <1>1, <1>3 DEF Types, SourceTypes

\* For the same traffic: whenever the control path is at rest, every row of every
\* table holds exactly what the packets asked for, the latest packet winning
\* (README.md:174, "modify the table entry accordingly").
THEOREM TablesFaithful == ASSUME Plain PROVE CtlSpec => []TablesAsAsked
<1>1. CtlInit => \E d \in Dues : \E s \in Counts : Faithful(d, s)
  BY InitFaithful
<1>2. (\E d \in Dues : \E s \in Counts : Faithful(d, s)) /\ [CtlNext]_ctlVars
        => (\E d \in Dues : \E s \in Counts : Faithful(d, s))'
  BY FaithfulMoves, FaithfulStutters
<1>3. (\E d \in Dues : \E s \in Counts : Faithful(d, s)) => TablesAsAsked
  BY FaithfulAtRest DEF TablesAsAsked
<1> QED BY <1>1, <1>2, <1>3, PTL DEF CtlSpec
=============================================================================
