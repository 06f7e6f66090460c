------------------------------- MODULE CtrlPath -------------------------------
(***************************************************************************)
(* The control path of rmt_wrapper.v: control packets leave pkt_filter and  *)
(* visit the parser, each stage's key extractor and lookup engine, and the  *)
(* deparser, one register per module and no back-pressure.  The module a    *)
(* packet is addressed to takes it off the channel and writes its payload   *)
(* beats into consecutive rows of one of its tables.                        *)
(*                                                                         *)
(* The 512-bit control state machines.  A beat is abstracted to the table   *)
(* and row it would name if it were a header, and the identity of its       *)
(* payload.                                                                 *)
(***************************************************************************)
EXTENDS Naturals, Sequences

CONSTANTS
  Stages,     \* match-action stages (5 in rmt_wrapper)
  Rows,       \* rows of a table (16)
  IndexMod,   \* range of a table index register (256)
  MaxCtl,     \* bound: control packets sent
  MaxPayload, \* bound: payload beats of a packet
  MinIdle,    \* idle cycles pkt_filter leaves between two packets
  Pauses,     \* TRUE: there may be idle cycles inside a packet
  Headers,    \* bound: the <<table, row>> that headers name
  Lookalikes  \* the <<table, row>> that a payload beat may seem to name

Nodes == 1..(2 * Stages + 2)

Kind(n) == IF n = 1 THEN "parser"
           ELSE IF n = 2 * Stages + 2 THEN "deparser"
           ELSE IF n % 2 = 0 THEN "key_extract" ELSE "lookup_engine"

\* The tables of a module, as mod_id and resv of a header select them.
TablesOf(n) == IF Kind(n) \in {"parser", "deparser"} THEN {"parse"}
               ELSE IF Kind(n) = "key_extract" THEN {"offset", "mask"}
               ELSE {"cam", "act"}

Tables == UNION {{<<n, name>> : name \in TablesOf(n)} : n \in Nodes}

\* A header for a module that has no control path, or a beat that is none.
Nobody == <<0, "none">>
Anyone == Tables \cup {Nobody}

ASSUME CtrlAssumption ==
  /\ Stages \in Nat /\ MaxCtl \in Nat /\ MinIdle \in Nat
  /\ Rows \in Nat \ {0} /\ IndexMod \in Nat \ {0} /\ IndexMod % Rows = 0
  /\ MaxPayload \in Nat \ {0} /\ Pauses \in BOOLEAN
  /\ Headers \subseteq Anyone \X (0..(IndexMod - 1))
  /\ Lookalikes \subseteq Anyone \X (0..(IndexMod - 1))

\* One cycle of the channel; id 0 is the zeros of an idle bus.
Beats == [valid : BOOLEAN, last : BOOLEAN, to : Anyone,
          row : 0..(IndexMod - 1), id : Nat]
Quiet == [valid |-> FALSE, last |-> FALSE, to |-> Nobody, row |-> 0, id |-> 0]

VARIABLES
  chan,    \* c_m_axis of pkt_filter
  cur,     \* source: the packet being sent
  idle,    \* source: idle cycles since the last packet
  sentCtl, \* source: packets started
  node,    \* the control registers of each module
  table,   \* the tables' contents
  wanted,  \* history: what the packets sent so far ask the tables to hold
  aim      \* history: the entry that each payload beat sent so far is for

ctlVars == <<chan, cur, idle, sentCtl, node, table, wanted, aim>>

-----------------------------------------------------------------------------
(* Control packets as pkt_filter passes them on. *)

NoPacket == [to |-> Nobody, row |-> 0, beats |-> 0, half |-> 0]

\* The entry that the next payload beat is for, and the beat that holds its
\* first half.  A payload beat is known by its number.
Place(c) == [to |-> c.to, row |-> c.row, half |-> c.half]
NextId == Len(aim) + 1

SendNothing ==
  /\ cur = NoPacket \/ Pauses
  /\ chan' = Quiet
  /\ idle' = IF cur = NoPacket /\ idle < MinIdle THEN idle + 1 ELSE idle
  /\ UNCHANGED <<cur, sentCtl, wanted, aim>>

SendHeader ==
  /\ cur = NoPacket /\ idle >= MinIdle /\ sentCtl < MaxCtl
  /\ \E h \in Headers :
       /\ chan' = [valid |-> TRUE, last |-> FALSE, to |-> h[1], row |-> h[2], id |-> 0]
       /\ cur' = [to |-> h[1], row |-> h[2] % Rows, beats |-> 1, half |-> 0]
  /\ sentCtl' = sentCtl + 1 /\ idle' = 0
  /\ UNCHANGED <<wanted, aim>>

\* An action entry takes two payload beats, any other entry takes one.
Completes == cur.to[2] # "act" \/ cur.half # 0

SendPayload ==
  /\ cur # NoPacket
  /\ aim' = Append(aim, Place(cur))
  /\ \E last \in BOOLEAN, l \in Lookalikes :
       /\ cur.beats = MaxPayload => last
       /\ chan' = [valid |-> TRUE, last |-> last, to |-> l[1], row |-> l[2], id |-> NextId]
       /\ cur' = IF last THEN NoPacket
                 ELSE [cur EXCEPT !.beats = @ + 1,
                                  !.row = IF Completes THEN (@ + 1) % Rows ELSE @,
                                  !.half = IF Completes THEN 0 ELSE NextId]
  /\ wanted' = IF Completes /\ cur.to # Nobody
               THEN [wanted EXCEPT ![cur.to][cur.row] =
                       <<IF cur.to[2] = "act" THEN cur.half ELSE NextId, NextId>>]
               ELSE wanted
  /\ UNCHANGED <<idle, sentCtl>>

CtlSource == SendNothing \/ SendHeader \/ SendPayload

-----------------------------------------------------------------------------
(* The control state machine of a module; nd is its registers, b the beat on *)
(* its c_s_axis.                                                             *)

Reset == [at |-> "IDLE", wr |-> {}, index |-> 0, actIndex |-> 0,
          tmp |-> <<0, 0>>, more |-> FALSE, out |-> Quiet]

IsFor(n, b) == b.valid /\ b.to[1] = n

\* IDLE, not addressed: pass the beat on, clear everything else.
PassOn(b) == [Reset EXCEPT !.out = IF b.valid THEN b ELSE Quiet]

\* IDLE, addressed.  A lookup engine leaves its c_m_axis register as it is.
Select(n, nd, b) ==
  LET name == b.to[2]
      sel  == IF name = "act"
              THEN [nd EXCEPT !.at = "act", !.actIndex = b.row, !.more = FALSE]
              ELSE [nd EXCEPT !.at = name, !.wr = @ \cup {name}, !.index = b.row]
  IN  IF Kind(n) = "lookup_engine" THEN sel ELSE [sel EXCEPT !.out = Quiet]

\* Bug variant of Write: the index is not advanced.
WriteSameRow(nd, b) ==
  IF b.valid /\ b.last
  THEN [nd EXCEPT !.at = "IDLE", !.wr = @ \ {nd.at},
                  !.index = IF nd.at = "cam" THEN @ ELSE 0]
  ELSE nd

\* Bug variant of Write: the write enable outlives the packet.
WriteTooLong(nd, b) ==
  IF b.valid /\ b.last
  THEN [nd EXCEPT !.at = "IDLE", !.index = (@ + 1) % IndexMod]
  ELSE IF b.valid THEN [nd EXCEPT !.index = (@ + 1) % IndexMod]
  ELSE nd

\* WRITE_C, WRITE_OFF_C, WRITE_MASK_C, CAM_TMP_ENTRY.
Write(nd, b) ==
  IF b.valid /\ b.last
  THEN [nd EXCEPT !.at = "IDLE", !.wr = @ \ {nd.at},
                  !.index = IF nd.at = "cam" THEN @ ELSE 0]
  ELSE IF b.valid THEN [nd EXCEPT !.index = (@ + 1) % IndexMod]
  ELSE nd

\* ACT_TMP_ENTRY_WAIT: the first half of an action entry.
ActWait(nd, b) ==
  LET off == [nd EXCEPT !.wr = @ \ {"act"}]
  IN  IF ~b.valid THEN off
      ELSE IF b.last THEN [off EXCEPT !.at = "IDLE"]
      ELSE [off EXCEPT !.at = "act2", !.tmp[1] = b.id,
                       !.actIndex = IF nd.more THEN (@ + 1) % IndexMod ELSE @]

\* Bug variant of ActTmp: the entry that ends a packet is not written.
ActTmpForgetsLast(nd, b) ==
  IF ~b.valid THEN nd
  ELSE IF b.last THEN [nd EXCEPT !.tmp[2] = b.id, !.at = "IDLE"]
  ELSE [nd EXCEPT !.tmp[2] = b.id, !.wr = @ \cup {"act"},
                  !.at = "act", !.more = TRUE]

\* ACT_TMP_ENTRY: its second half.
ActTmp(nd, b) ==
  IF ~b.valid THEN nd
  ELSE [nd EXCEPT !.tmp[2] = b.id, !.wr = @ \cup {"act"},
                  !.at = IF b.last THEN "IDLE" ELSE "act",
                  !.more = IF b.last THEN @ ELSE TRUE]

NodeNext(n, nd, b) ==
  IF nd.at = "IDLE" THEN IF IsFor(n, b) THEN Select(n, nd, b) ELSE PassOn(b)
  ELSE IF nd.at = "act" THEN ActWait(nd, b)
  ELSE IF nd.at = "act2" THEN ActTmp(nd, b)
  ELSE Write(nd, b)

\* c_s_axis of module n.
Input(n) == IF n = 1 THEN chan ELSE node[n - 1].out

Modules == node' = [n \in Nodes |-> NodeNext(n, node[n], Input(n))]

\* While a write enable is up, every edge writes what is on the bus (the
\* buffered entry, for an action), whether or not it is valid.
TableNext(n, name, r) ==
  LET nd == node[n]
      at == IF name = "act" THEN nd.actIndex ELSE nd.index
  IN  IF name \in nd.wr /\ at % Rows = r
      THEN IF name = "act" THEN nd.tmp ELSE <<Input(n).id, Input(n).id>>
      ELSE table[<<n, name>>][r]

WriteTables ==
  table' = [t \in Tables |-> [r \in 0..(Rows - 1) |-> TableNext(t[1], t[2], r)]]

-----------------------------------------------------------------------------
Initial == <<>>  \* what a table row holds before it is first written
Fresh == [t \in Tables |-> [r \in 0..(Rows - 1) |-> Initial]]

CtlInit ==
  /\ chan = Quiet /\ cur = NoPacket /\ idle = MinIdle
  /\ sentCtl = 0
  /\ node = [n \in Nodes |-> Reset]
  /\ table = Fresh /\ wanted = Fresh /\ aim = <<>>

\* One clock edge.
CtlNext == CtlSource /\ Modules /\ WriteTables

CtlSpec == CtlInit /\ [][CtlNext]_ctlVars /\ WF_ctlVars(CtlNext)

-----------------------------------------------------------------------------
Entries == {Initial} \cup (Nat \X Nat)

\* Types of the registers, and an idle module enables no write but the last
\* one of an action packet.
CtlTypeOK ==
  /\ chan \in Beats
  /\ \A n \in Nodes :
       /\ node[n].at \in {"IDLE", "act2"} \cup TablesOf(n)
       /\ node[n].wr \subseteq TablesOf(n)
       /\ node[n].index \in 0..(IndexMod - 1) /\ node[n].actIndex \in 0..(IndexMod - 1)
       /\ node[n].tmp \in Nat \X Nat /\ node[n].more \in BOOLEAN
       /\ node[n].out \in Beats
       /\ node[n].at = "IDLE" => node[n].wr \subseteq {"act"}
  /\ \A t \in Tables, r \in 0..(Rows - 1) :
       table[t][r] \in Entries /\ wanted[t][r] \in Entries

\* A module writes only rows that a packet addressed to it names, counting on
\* from the header's index, and writes into a row only payload that was sent
\* for it, or the zeros of an idle bus: whatever passes by, whatever is pausing,
\* no row of another module, another table or beyond the packet's end is
\* touched.
Named == {<<aim[i].to, aim[i].row>> : i \in DOMAIN aim} \cup {<<cur.to, cur.row>>}
OnlyNamedRows ==
  \A t \in Tables, r \in 0..(Rows - 1) :
    table[t][r] # Initial =>
      /\ <<t, r>> \in Named
      /\ \A h \in 1..2 : LET id == table[t][r][h] IN
           id # 0 => id \in DOMAIN aim /\ aim[id].to = t /\ aim[id].row = r

\* Nothing is on its way.
Settled ==
  /\ ~chan.valid /\ cur = NoPacket
  /\ \A n \in Nodes : /\ node[n].at = "IDLE" /\ node[n].wr = {}
                      /\ ~node[n].out.valid

\* Once the channel is quiet, the tables hold exactly what the packets asked
\* for, the latest packet winning (README.md:174, "modify the table entry
\* accordingly").
TablesAsAsked == Settled => table = wanted

\* README.md:174, "Otherwise, it will pass the packet to the next module": a
\* packet's payload is not taken for a command by a module on its way.
PayloadNotObeyed == OnlyNamedRows

\* Every control packet takes effect.
AllWritten ==
  (sentCtl = MaxCtl /\ cur = NoPacket) ~> (table = wanted)
=============================================================================
