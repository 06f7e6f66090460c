-------------------------------- MODULE Parser --------------------------------
(***************************************************************************)
(* The data path of parser.v with its ten sub_parsers.                     *)
(*                                                                         *)
(* A beat is the number of the beat, 0 standing for zeroed registers.  A   *)
(* PHV is abstracted to where it comes from: the beats the two halves of    *)
(* the header were taken from, the beat whose VLAN bits addressed the      *)
(* parse action RAM, and the beat that addressed it for the comparator     *)
(* instructions (condi_action).  All ten parse actions are valid.          *)
(***************************************************************************)
EXTENDS Naturals, Sequences

VARIABLES
  before,  \* s_axis_tvalid_before
  seg,     \* pkt_seg_cnt
  hdr,     \* pkt_hdr_field: the beats in its low and high half
  pstate,  \* parse_state
  rows,    \* beats that addressed parse_act_ram in the last four cycles
  sub,     \* the sub_parsers' val_out
  vals     \* val_2B, val_4B and val_6B, and phv_valid_out_reg

parserVars == <<before, seg, hdr, pstate, rows, sub, vals>>

SegNum == 2  \* SEG_NUM: 512-bit segments of the 1024-bit header

\* The containers when they are cleared.
Cleared == [lo |-> 0, hi |-> 0, row |-> 0]

ParserInit ==
  /\ before = FALSE /\ seg = 0 /\ hdr = [lo |-> 0, hi |-> 0]
  /\ pstate = "IDLE" /\ rows = <<0, 0, 0, 0>> /\ sub = Cleared
  /\ vals = [valid |-> FALSE, val |-> Cleared]

\* The RAM answers two cycles after it is addressed; the comparator
\* instructions take two registers more.
BramOut == rows[2]
CondiAction == rows[4]

\* The PHV on the wires to stage 0.
PhvOut == [valid |-> vals.valid, val |-> vals.val, cond |-> CondiAction]

FirstSegment(tvalid) == tvalid /\ ~before

Segments(tvalid, num) ==
  /\ before' = tvalid
  /\ seg' = IF FirstSegment(tvalid) THEN 0
            ELSE IF tvalid THEN (seg + 1) % 16 ELSE seg
  /\ hdr' = IF FirstSegment(tvalid) THEN [lo |-> num, hi |-> 0]
            ELSE IF tvalid /\ seg < SegNum - 1 THEN [hdr EXCEPT !.hi = num]
            ELSE hdr

ParseIdle(tvalid) ==
  /\ pstate = "IDLE"
  /\ pstate' = IF FirstSegment(tvalid) THEN "WAIT1" ELSE "IDLE"
  /\ vals' = [valid |-> FALSE, val |-> Cleared]
  /\ UNCHANGED sub

ParseWait1 ==
  /\ pstate = "WAIT1" /\ pstate' = "WAIT2"
  /\ UNCHANGED <<sub, vals>>

\* Bug variant of ParseWait2: the action is looked up one cycle late.
ParseWait2Late ==
  /\ pstate = "WAIT2" /\ pstate' = "PHVGEN"
  /\ sub' = [lo |-> hdr.lo, hi |-> hdr.hi, row |-> rows[1]]
  /\ UNCHANGED vals

\* pkt_hdr_field_valid is up: the sub_parsers sample header and action.
ParseWait2 ==
  /\ pstate = "WAIT2" /\ pstate' = "PHVGEN"
  /\ sub' = [lo |-> hdr.lo, hi |-> hdr.hi, row |-> BramOut]
  /\ UNCHANGED vals

ParsePhvGen ==
  /\ pstate = "PHVGEN" /\ pstate' = "IDLE"
  /\ vals' = [valid |-> TRUE, val |-> sub]
  /\ UNCHANGED sub

\* Bug variant of ShiftRows: the oldest row is kept.
ShiftRowsGrows(num) == rows' = <<num>> \o rows

ShiftRows(num) == rows' = <<num, rows[1], rows[2], rows[3]>>

\* One clock edge with beat num on s_axis; its VLAN bits address the RAM
\* whether or not it is valid.
ParserTick(tvalid, num) ==
  /\ Segments(tvalid, num)
  /\ ShiftRows(num)
  /\ ParseIdle(tvalid) \/ ParseWait1 \/ ParseWait2 \/ ParsePhvGen

-----------------------------------------------------------------------------
Vals == [lo : Nat, hi : Nat, row : Nat]

\* The types of the parser's registers.
ParserTypeOK ==
  /\ before \in BOOLEAN /\ seg \in 0..15
  /\ hdr \in [lo : Nat, hi : Nat]
  /\ pstate \in {"IDLE", "WAIT1", "WAIT2", "PHVGEN"}
  /\ rows \in Nat \X Nat \X Nat \X Nat
  /\ sub \in Vals /\ vals \in [valid : BOOLEAN, val : Vals]
=============================================================================
