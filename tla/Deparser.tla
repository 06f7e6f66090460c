------------------------------- MODULE Deparser -------------------------------
(***************************************************************************)
(* deparser.v with its sub_deparsers: it takes the first two beats of a     *)
(* packet and the PHV from the heads of the two FIFOs, writes the PHV's     *)
(* containers into the beats, and streams the packet out.                   *)
(***************************************************************************)
EXTENDS Naturals, Sequences

VARIABLES
  dstate,   \* deparse_state
  rdPkt,    \* pkt_fifo_rd_en
  rdPhv,    \* phv_fifo_rd_en
  beat0,    \* deparse_tdata_stored_r and tlast, low half
  beat1,    \* ... high half
  usedPhv,  \* deparse_phv_stored_r
  out       \* depar_out: the beat, and the packet whose PHV rewrote it

deparserVars == <<dstate, rdPkt, rdPhv, beat0, beat1, usedPhv, out>>

\* A word is what the packet FIFO holds: a beat's number, place and tlast.
NoWord == [num |-> 0, idx |-> 1, last |-> FALSE]

DeparserInit ==
  /\ dstate = "IDLE" /\ rdPkt = FALSE /\ rdPhv = FALSE
  /\ beat0 = NoWord /\ beat1 = NoWord
  /\ usedPhv = 0
  /\ out = [valid |-> FALSE, word |-> NoWord, by |-> 0]

Emit(w, by) == out' = [valid |-> TRUE, word |-> w, by |-> by]

\* out keeps its last beat, valid, when there is more work to do.
DepIdle(pktEmpty, phvEmpty) ==
  /\ dstate = "IDLE"
  /\ IF ~phvEmpty /\ ~pktEmpty
     THEN /\ rdPkt' = TRUE /\ dstate' = "BUF_HDR_0"
          /\ UNCHANGED <<rdPhv, out>>
     ELSE /\ rdPkt' = FALSE /\ rdPhv' = FALSE
          /\ out' = [out EXCEPT !.valid = FALSE, !.word.last = FALSE]
          /\ UNCHANGED dstate
  /\ UNCHANGED <<beat0, beat1, usedPhv>>

DepBufHdr0(head, phvHead) ==
  /\ dstate = "BUF_HDR_0"
  /\ beat0' = head /\ usedPhv' = phvHead
  /\ rdPkt' = TRUE
  /\ dstate' = IF head.last THEN "WAIT_ONE" ELSE "BUF_HDR_1"
  /\ UNCHANGED <<rdPhv, beat1, out>>

DepBufHdr1(head) ==
  /\ dstate = "BUF_HDR_1" /\ dstate' = "WAIT_SUB"
  /\ beat1' = head
  /\ rdPkt' = FALSE
  /\ UNCHANGED <<rdPhv, beat0, usedPhv, out>>

DepWaitOne ==
  /\ dstate = "WAIT_ONE" /\ dstate' = "WAIT_SUB"
  /\ rdPkt' = FALSE
  /\ UNCHANGED <<rdPhv, beat0, beat1, usedPhv, out>>

DepWaitSub ==
  /\ dstate = "WAIT_SUB" /\ dstate' = "REFORM_HDR"
  /\ rdPkt' = FALSE
  /\ UNCHANGED <<rdPhv, beat0, beat1, usedPhv, out>>

\* Bug variant of DepReformHdr: the PHV is not taken off its FIFO.
DepReformHdrKeepsPhv ==
  /\ dstate = "REFORM_HDR" /\ dstate' = "FLUSH_PKT_0"
  /\ rdPkt' = FALSE
  /\ UNCHANGED <<rdPhv, beat0, beat1, usedPhv, out>>

\* The containers are written into the stored beats; the PHV is popped.
DepReformHdr ==
  /\ dstate = "REFORM_HDR" /\ dstate' = "FLUSH_PKT_0"
  /\ rdPkt' = FALSE /\ rdPhv' = TRUE
  /\ UNCHANGED <<beat0, beat1, usedPhv, out>>

DepFlushPkt0(tready) ==
  /\ dstate = "FLUSH_PKT_0"
  /\ rdPhv' = FALSE
  /\ Emit(beat0, usedPhv)
  /\ dstate' = IF ~tready THEN dstate
               ELSE IF beat0.last THEN "IDLE" ELSE "FLUSH_PKT_1"
  /\ UNCHANGED <<rdPkt, beat0, beat1, usedPhv>>

\* Bug variant of DepFlushPkt1: the rest of a long packet is not read.
DepFlushPkt1Stops(tready) ==
  /\ dstate = "FLUSH_PKT_1"
  /\ Emit(beat1, usedPhv)
  /\ dstate' = IF tready THEN "IDLE" ELSE dstate
  /\ UNCHANGED <<rdPkt, rdPhv, beat0, beat1, usedPhv>>

DepFlushPkt1(tready) ==
  /\ dstate = "FLUSH_PKT_1"
  /\ Emit(beat1, usedPhv)
  /\ rdPkt' = (rdPkt \/ (tready /\ ~beat1.last))
  /\ dstate' = IF ~tready THEN dstate
               ELSE IF beat1.last THEN "IDLE" ELSE "FLUSH_PKT"
  /\ UNCHANGED <<rdPhv, beat0, beat1, usedPhv>>

\* rd_en stays up when the packet ends: the IDLE cycle pops once more.
DepFlushPkt(pktEmpty, head, tready) ==
  /\ dstate = "FLUSH_PKT"
  /\ Emit(head, 0)
  /\ dstate' = IF ~pktEmpty /\ tready /\ ~head.last THEN dstate ELSE "IDLE"
  /\ UNCHANGED <<rdPkt, rdPhv, beat0, beat1, usedPhv>>

\* One clock edge; head and phvHead are on the FIFOs' outputs.
DeparserTick(pktEmpty, head, phvEmpty, phvHead, tready) ==
  \/ DepIdle(pktEmpty, phvEmpty)
  \/ DepBufHdr0(head, phvHead) \/ DepBufHdr1(head)
  \/ DepWaitOne \/ DepWaitSub \/ DepReformHdr
  \/ DepFlushPkt0(tready) \/ DepFlushPkt1(tready)
  \/ DepFlushPkt(pktEmpty, head, tready)

-----------------------------------------------------------------------------
Words == [num : Nat, idx : Nat, last : BOOLEAN]

\* The types of the deparser's registers.
DeparserTypeOK ==
  /\ dstate \in {"IDLE", "BUF_HDR_0", "BUF_HDR_1", "WAIT_ONE", "WAIT_SUB",
                 "REFORM_HDR", "FLUSH_PKT_0", "FLUSH_PKT_1", "FLUSH_PKT"}
  /\ rdPkt \in BOOLEAN /\ rdPhv \in BOOLEAN
  /\ beat0 \in Words /\ beat1 \in Words /\ usedPhv \in Nat
  /\ out \in [valid : BOOLEAN, word : Words, by : Nat]
=============================================================================
