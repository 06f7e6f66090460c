--------------------------------- MODULE Stage ---------------------------------
(***************************************************************************)
(* A match-action stage, stage.v: key_extract_2, lookup_engine and          *)
(* action_engine with their registers.  Contents follow the abstraction of *)
(* Parser: a PHV is where it comes from, a key is the containers it was    *)
(* taken from; whether the CAM matches a key is left open.                 *)
(***************************************************************************)
EXTENDS Naturals, Sequences

VARIABLES
  delay,   \* key_extract_2: phv_out_delay[0], phv_out_delay[1]
  cont,    \* key_extract_2: cont_6B, cont_4B, cont_2B and com_op
  key,     \* key_extract_2: phv_out with key_out
  lstate,  \* lookup_engine: lookup_state
  lreg,    \* lookup_engine: phv_reg, and the key the CAM compares
  act,     \* lookup_engine: phv_out and action_valid, with that key
  xbar,    \* crossbar: operands and alu_in_valid
  astate,  \* the ALUs' state (they move together)
  alu,     \* the ALUs' results, and phv_valid_bit
  outPhv   \* action_engine: phv_out and phv_valid_out

stageVars == <<delay, cont, key, lstate, lreg, act, xbar, astate, alu, outPhv>>

NoVal == [lo |-> 0, hi |-> 0, row |-> 0]
NoPhv == [valid |-> FALSE, val |-> NoVal, cond |-> 0]
NoReg == [valid |-> FALSE, val |-> NoVal, key |-> NoVal, cond |-> 0]

StageInit ==
  /\ delay = <<NoPhv, NoPhv>> /\ cont = NoPhv
  /\ key = NoReg /\ lreg = NoReg /\ act = NoReg
  /\ lstate = "IDLE" /\ astate = "IDLE"
  /\ xbar = NoReg /\ alu = NoReg /\ outPhv = NoReg

Invalid(r) == [r EXCEPT !.valid = FALSE]

\* Three registers for the PHV; the key is taken when the PHV enters the
\* third, from the container registers, which follow phv_in at one cycle.
KeyExtract(phvIn) ==
  /\ delay' = <<phvIn, delay[1]>>
  /\ cont' = phvIn
  /\ key' = [valid |-> delay[2].valid, val |-> delay[2].val,
             key |-> IF delay[2].valid THEN cont.val ELSE NoVal,
             cond |-> IF delay[2].valid THEN cont.cond ELSE 0]

\* A valid key overwrites phv_reg in any state.
LatchPhv == lreg' = IF key.valid THEN key ELSE lreg

LookupIdle ==
  /\ lstate = "IDLE"
  /\ lstate' = IF key.valid THEN "WAIT1" ELSE "IDLE"
  /\ act' = Invalid(act)

LookupMiss ==
  /\ lstate = "WAIT1" /\ lstate' = "IDLE"
  /\ act' = [lreg EXCEPT !.valid = TRUE]

LookupHit ==
  /\ lstate = "WAIT1" /\ lstate' = "WAIT2"
  /\ UNCHANGED act

LookupWait2 ==
  /\ lstate = "WAIT2" /\ lstate' = "TRANS"
  /\ UNCHANGED act

LookupTrans ==
  /\ lstate = "TRANS" /\ lstate' = "IDLE"
  /\ act' = [lreg EXCEPT !.valid = TRUE]

LookupEngine ==
  /\ LatchPhv
  /\ LookupIdle \/ LookupMiss \/ LookupHit \/ LookupWait2 \/ LookupTrans

Crossbar == xbar' = IF act.valid THEN act ELSE Invalid(xbar)

\* Operands that come while an ALU is busy are not looked at.
AluIdle ==
  /\ astate = "IDLE"
  /\ astate' = IF xbar.valid THEN "OP_1" ELSE "IDLE"
  /\ alu' = IF xbar.valid THEN Invalid(xbar) ELSE Invalid(alu)

AluOp1 ==
  /\ astate = "OP_1" /\ astate' = "OP_2"
  /\ alu' = Invalid(alu)

\* Bug variant of AluOp2: the result is not announced as valid.
AluOp2Silent ==
  /\ astate = "OP_2" /\ astate' = "IDLE"
  /\ alu' = Invalid(alu)

AluOp2 ==
  /\ astate = "OP_2" /\ astate' = "IDLE"
  /\ alu' = [alu EXCEPT !.valid = TRUE]

\* Bug variant of Collect: phv_valid_out_r keeps the register's value.
CollectKeepsValid == outPhv' = IF alu.valid THEN alu ELSE outPhv

Collect == outPhv' = IF alu.valid THEN alu ELSE Invalid(outPhv)

ActionEngine ==
  /\ Crossbar
  /\ AluIdle \/ AluOp1 \/ AluOp2
  /\ Collect

\* One clock edge of the stage with phvIn on its input.
StageTick(phvIn) == KeyExtract(phvIn) /\ LookupEngine /\ ActionEngine

-----------------------------------------------------------------------------
StageVals == [lo : Nat, hi : Nat, row : Nat]
Phvs == [valid : BOOLEAN, val : StageVals, cond : Nat]
KeyedPhvs == [valid : BOOLEAN, val : StageVals, key : StageVals, cond : Nat]

\* The types of the stage's registers.
StageTypeOK ==
  /\ delay \in Phvs \X Phvs /\ cont \in Phvs
  /\ {key, lreg, act, xbar, alu, outPhv} \subseteq KeyedPhvs
  /\ lstate \in {"IDLE", "WAIT1", "WAIT2", "TRANS"}
  /\ astate \in {"IDLE", "OP_1", "OP_2"}
=============================================================================
