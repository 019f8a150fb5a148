------------------------------- MODULE IsoTp -------------------------------
(***************************************************************************)
(* One ISO 15765-2 endpoint: the class IsoTp of src/isotp.cpp.             *)
(*                                                                         *)
(* A PDU is an identity with a length. What a frame carries of it is the   *)
(* identity and the position of its first payload byte; the bytes held in  *)
(* the receive buffer are summed up by the PDU they all come from, or      *)
(* Garbled once a piece of another PDU, or a piece at the wrong position,  *)
(* has been copied among them.                                             *)
(*                                                                         *)
(* There is no clock: a frame that is due under STmin is one that NextTx-  *)
(* Frame may emit now, and the N_Bs timer of txTimedOut may have run out   *)
(* whenever the sender waits for flow control.                             *)
(***************************************************************************)
EXTENDS Integers

CONSTANTS
  Pdus,         (* the PDUs a caller may hand to beginSend               *)
  Length,       (* their lengths, pdu_len                                *)
  MaxPdu,       (* kMaxPdu, the size of the two buffers                  *)
  RxBlockSize,  (* kRxBlockSize, the block size our flow control asks    *)
  Frames,       (* the frames the bus may deliver to feed                *)
  NoPdu,        (* no PDU                                                *)
  Garbled       (* the content of a buffer that mixes PDUs               *)

ASSUME LengthAssumption == Length \in [Pdus -> Nat]
ASSUME MaxPduAssumption == MaxPdu \in 8 .. 4095
ASSUME RxBlockSizeAssumption == RxBlockSize \in 0 .. 255
ASSUME MarkerAssumption == NoPdu \notin Pdus /\ Garbled \notin Pdus /\ NoPdu # Garbled

(* An operator defined just before another one with the same parameters,    *)
(* and used nowhere, is that one with a slip a programmer could make: what  *)
(* the properties below must be able to tell apart from the code.           *)

VARIABLES
  rx,   (* rx_len_, rx_have_, next_seq_, in_multi_, and whose bytes rx_ holds *)
  tx    (* tx_state_, tx_/tx_len_, tx_pos_, tx_seq_, tx_bs_, tx_block_left_   *)

vars == <<rx, tx>>

----------------------------------------------------------------------------
(* Frames. The sequence number of a consecutive frame is the low nibble of *)
(* its PCI byte: 0x21, ..., 0x2F, 0x20 are 1, ..., 15, 0.                  *)

Sources == Pdus \cup {NoPdu, Garbled}

Frame ==
       [kind : {"SF"}, len : 0 .. 7, dlc : 1 .. 8, pdu : Sources]
  \cup [kind : {"FF"}, len : 0 .. 4095, dlc : 1 .. 8, pdu : Sources]
  \cup [kind : {"CF"}, seq : 0 .. 15, dlc : 1 .. 8, pdu : Sources, at : Nat]
  \cup [kind : {"FC"}, fs : 0 .. 15, bs : 0 .. 255, dlc : 1 .. 8]
  \cup [kind : {"Other"}]    (* dlc 0, or a PCI byte no frame type has *)

ASSUME FramesAssumption == Frames \subseteq Frame

Status == {"NeedFlowControl", "Continue", "Done", "Error",
           "TxClearToSend", "TxWait", "TxAbort"}

SingleFrame(p) == [kind |-> "SF", len |-> Length[p], dlc |-> Length[p] + 1, pdu |-> p]
FirstFrame(p)  == [kind |-> "FF", len |-> Length[p], dlc |-> 8, pdu |-> p]
ConsecutiveFrame ==
  [kind |-> "CF", seq |-> tx.seq, dlc |-> 8, pdu |-> tx.pdu, at |-> tx.pos]
FlowControlShort == [kind |-> "FC", fs |-> 0, bs |-> RxBlockSize - 1, dlc |-> 3]
FlowControl == [kind |-> "FC", fs |-> 0, bs |-> RxBlockSize, dlc |-> 3]

Least(m, n) == IF m < n THEN m ELSE n
NextSeqFromOne(s) == IF s = 15 THEN 1 ELSE s + 1
NextSeq(s) == (s + 1) % 16

TxLen == IF tx.pdu \in Pdus THEN Length[tx.pdu] ELSE 0

----------------------------------------------------------------------------
Init ==
  /\ rx = [len |-> 0, have |-> 0, seq |-> 1, multi |-> FALSE, from |-> NoPdu]
  /\ tx = [state |-> "Idle", pdu |-> NoPdu, pos |-> 0, seq |-> 1, bs |-> 0, left |-> 0]

(* reset(): forget a reassembly; the bytes stay in the buffer. *)
Reset ==
  /\ rx' = [len |-> 0, have |-> 0, seq |-> 1, multi |-> FALSE, from |-> rx.from]
  /\ UNCHANGED tx

----------------------------------------------------------------------------
(* feed(f), returning st: one operator per kind of frame. *)

SingleFits(f) == f.len <= f.dlc - 1
ValidFirst(f) == f.dlc >= 2 /\ f.len > 7 /\ f.len <= MaxPdu
InSequenceUnchecked(f) == rx.multi
InSequence(f) == rx.multi /\ f.seq = rx.seq

(* The piece a consecutive frame adds, clamped to what is still missing. *)
UnclampedChunk(f) == Least(7, f.dlc - 1)
Chunk(f) == Least(Least(7, f.dlc - 1), rx.len - rx.have)

(* Whose bytes the buffer holds once the frame's have been copied into it. *)
Source(f) == IF f.pdu = rx.from /\ f.at = rx.have THEN rx.from ELSE Garbled

FeedSingle(f, st) ==
  /\ f.kind = "SF"
  /\ \/ /\ ~SingleFits(f)
        /\ st = "Error"
        /\ Reset
     \/ /\ SingleFits(f)
        /\ st = "Done"
        /\ rx' = [len |-> f.len, have |-> f.len, seq |-> rx.seq, multi |-> FALSE,
                  from |-> f.pdu]
        /\ UNCHANGED tx

FeedFirst(f, st) ==
  /\ f.kind = "FF"
  /\ \/ /\ ~ValidFirst(f)
        /\ st = "Error"
        /\ Reset
     \/ /\ ValidFirst(f)
        /\ st = "NeedFlowControl"
        /\ rx' = [len |-> f.len, have |-> Least(6, f.dlc - 2), seq |-> 1,
                  multi |-> TRUE, from |-> f.pdu]
        /\ UNCHANGED tx

FeedConsecutive(f, st) ==
  /\ f.kind = "CF"
  /\ \/ /\ ~rx.multi
        /\ st = "Error"
        /\ UNCHANGED rx
     \/ /\ rx.multi /\ ~InSequence(f)
        /\ st = "Error"
        /\ Reset
     \/ /\ InSequence(f)
        /\ st = IF rx.have + Chunk(f) >= rx.len THEN "Done" ELSE "Continue"
        /\ rx' = [len   |-> rx.len,
                  have  |-> rx.have + Chunk(f),
                  seq   |-> NextSeq(rx.seq),
                  multi |-> rx.have + Chunk(f) < rx.len,
                  from  |-> Source(f)]
  /\ UNCHANGED tx

ClearToSend(f) == f.fs = 0 /\ f.dlc >= 3

FeedFlowControl(f, st) ==
  /\ f.kind = "FC"
  /\ \/ /\ tx.state = "Idle"
        /\ st = "Continue"
        /\ UNCHANGED tx
     \/ /\ tx.state # "Idle"
        /\ f.fs = 1
        /\ st = "TxWait"
        /\ tx' = [tx EXCEPT !.state = "WaitFlowControl"]
     \/ /\ tx.state # "Idle"
        /\ f.fs # 1 /\ ~ClearToSend(f)
        /\ st = "TxAbort"
        /\ tx' = [tx EXCEPT !.state = "Idle"]
     \/ /\ tx.state # "Idle"
        /\ ClearToSend(f)
        /\ st = "TxClearToSend"
        /\ tx' = [state |-> "Sending", pdu |-> tx.pdu, pos |-> tx.pos, seq |-> tx.seq,
                  bs |-> f.bs, left |-> f.bs]
  /\ UNCHANGED rx

FeedOther(f, st) == f.kind = "Other" /\ st = "Error" /\ UNCHANGED vars

Feed(f, st) ==
  \/ FeedSingle(f, st)
  \/ FeedFirst(f, st)
  \/ FeedConsecutive(f, st)
  \/ FeedFlowControl(f, st)
  \/ FeedOther(f, st)

(* What feed(f) is about to return, for a caller that resets the receiver  *)
(* in the same step: f is refused, or f completes the PDU Received(f).     *)
Rejects(f) ==
  \/ f.kind = "SF" /\ ~SingleFits(f)
  \/ f.kind = "FF" /\ ~ValidFirst(f)
  \/ f.kind = "CF" /\ ~InSequence(f)
  \/ f.kind = "Other"

Completes(f) ==
  \/ f.kind = "SF" /\ SingleFits(f)
  \/ f.kind = "CF" /\ InSequence(f) /\ rx.have + Chunk(f) >= rx.len

Received(f) == IF f.kind = "SF" THEN f.pdu ELSE Source(f)

----------------------------------------------------------------------------
(* beginSend(p), producing the frame f to put on the bus now. *)

BeginSend(p, f) ==
  /\ Length[p] \in 1 .. MaxPdu
  /\ \/ /\ Length[p] <= 7
        /\ f = SingleFrame(p)
        /\ tx' = [tx EXCEPT !.state = "Idle"]
     \/ /\ Length[p] > 7
        /\ f = FirstFrame(p)
        /\ tx' = [state |-> "WaitFlowControl", pdu |-> p, pos |-> 6, seq |-> 1,
                  bs |-> 0, left |-> 0]
  /\ UNCHANGED rx

BlockOpenAlways == TRUE
BlockOpen == tx.bs = 0 \/ tx.left > 0

BlockLeftAlways == tx.left - 1
BlockLeft == IF tx.bs # 0 THEN tx.left - 1 ELSE tx.left

(* nextTxFrame when a frame is due: it emits f ... *)
NextTxFrame(f) ==
  /\ tx.state = "Sending" /\ tx.pos < TxLen /\ BlockOpen
  /\ f = ConsecutiveFrame
  /\ LET pos == tx.pos + Least(7, TxLen - tx.pos)
     IN  tx' = [state |-> IF pos >= TxLen THEN "Idle" ELSE "Sending",
                pdu   |-> tx.pdu,
                pos   |-> pos,
                seq   |-> NextSeq(tx.seq),
                bs    |-> tx.bs,
                left  |-> BlockLeft]
  /\ UNCHANGED rx

(* ... and when nothing is owed, or the peer's block is used up, it stops. *)
NextTxPause ==
  /\ tx.state = "Sending"
  /\ tx.pos >= TxLen \/ ~BlockOpen
  /\ tx' = [tx EXCEPT !.state = IF tx.pos >= TxLen THEN "Idle" ELSE "WaitFlowControl"]
  /\ UNCHANGED rx

(* txTimedOut may hold whenever the sender waits for flow control. *)
TxMayTimeOut == tx.state = "WaitFlowControl"

TxReset == tx' = [tx EXCEPT !.state = "Idle"] /\ UNCHANGED rx

----------------------------------------------------------------------------
Next ==
  \/ \E f \in Frames, st \in Status : Feed(f, st)
  \/ \E p \in Pdus : \E f \in {SingleFrame(p), FirstFrame(p)} : BeginSend(p, f)
  \/ NextTxFrame(ConsecutiveFrame)
  \/ NextTxPause
  \/ Reset
  \/ TxReset

Spec == Init /\ [][Next]_vars

----------------------------------------------------------------------------
(* Every field of the endpoint is in the range of its C++ type and role. *)
TypeOK ==
  /\ rx \in [len : Nat, have : Nat, seq : 0 .. 15, multi : BOOLEAN, from : Sources]
  /\ tx \in [state : {"Idle", "WaitFlowControl", "Sending"}, pdu : Pdus \cup {NoPdu},
             pos : Nat, seq : 0 .. 15, bs : 0 .. 255, left : 0 .. 255]

(* The two copies into rx_ stay inside the announced length and the buffer, *)
(* and a reassembly that is still open always misses a byte: rx_len_ -      *)
(* rx_have_, a size_t, can never wrap (src/isotp.cpp:65-67, 85).            *)
RxBounded ==
  /\ rx.have <= rx.len /\ rx.len <= MaxPdu
  /\ rx.multi => rx.have < rx.len /\ rx.len > 7

(* A sender that is waiting or sending always owes the peer payload, and    *)
(* its sequence number is the one the position calls for, through the wrap  *)
(* from 0x2F to 0x20: no flow control, in any order, makes it skip, repeat  *)
(* or overrun (src/isotp.cpp:157-182).                                      *)
TxOnSchedule ==
  tx.state # "Idle" =>
    /\ tx.pos < TxLen /\ TxLen <= MaxPdu
    /\ \E k \in 0 .. MaxPdu : tx.pos = 6 + 7 * k /\ tx.seq = (k + 1) % 16

=============================================================================
