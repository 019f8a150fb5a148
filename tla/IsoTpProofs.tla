---------------------------- MODULE IsoTpProofs ----------------------------
(***************************************************************************)
(* The endpoint of IsoTp.tla keeps its types, its buffers' bounds and its  *)
(* transmit schedule whatever frames arrive, for every buffer size, block  *)
(* size and set of PDUs. The three are proved together: the type of        *)
(* rx.have needs the bound that makes the clamp of Chunk a natural number, *)
(* and the credit of a block needs the type of tx.left.                    *)
(***************************************************************************)
EXTENDS IsoTp, TLAPS

Inv == TypeOK /\ RxBounded /\ TxOnSchedule

----------------------------------------------------------------------------
(* The wrapped sequence number is a nibble, and follows the frame count. *)
LEMMA NextSeqFollows ==
  /\ \A s \in 0 .. 15 : NextSeq(s) \in 0 .. 15
  /\ \A k \in Nat : NextSeq((k + 1) % 16) = (k + 2) % 16
BY SMT DEF NextSeq

(* The fields of an endpoint, one by one. *)
LEMMA RxFields ==
  TypeOK => /\ rx.len \in Nat /\ rx.have \in Nat
            /\ rx.seq \in 0 .. 15 /\ rx.from \in Sources
BY DEF TypeOK

LEMMA TxFields ==
  TypeOK => /\ tx.pdu \in Pdus \cup {NoPdu} /\ tx.pos \in Nat /\ tx.seq \in 0 .. 15
            /\ tx.bs \in 0 .. 255 /\ tx.left \in 0 .. 255
BY DEF TypeOK

(* The clamped piece fits what is missing, and is no more than a frame's. *)
LEMMA ChunkFits ==
  ASSUME TypeOK, RxBounded, NEW f, f.dlc \in 1 .. 8
  PROVE  Chunk(f) \in 0 .. 7 /\ Chunk(f) <= rx.len - rx.have
<1> DEFINE a == Least(7, f.dlc - 1)
           b == rx.len - rx.have
<1>1. a \in 0 .. 7
  BY DEF Least
<1>2. b \in Nat
  BY RxFields DEF RxBounded
<1>3. Chunk(f) = Least(a, b)
  BY DEF Chunk
<1> HIDE DEF a, b
<1>4. Least(a, b) \in 0 .. 7 /\ Least(a, b) <= b
  BY <1>1, <1>2 DEF Least
<1> QED BY <1>3, <1>4 DEF b

----------------------------------------------------------------------------
(* A step of the receive side keeps the invariant when the new reassembly  *)
(* is within its bounds, and a step of the transmit side when the new      *)
(* transfer is on schedule; neither side reads or writes the other's.      *)
LEMMA RxStepInv ==
  ASSUME Inv, UNCHANGED tx,
         NEW len \in Nat, NEW have \in Nat, NEW seq \in 0 .. 15, NEW multi \in BOOLEAN,
         NEW from \in Sources,
         have <= len, len <= MaxPdu, multi => have < len /\ len > 7,
         rx' = [len |-> len, have |-> have, seq |-> seq, multi |-> multi, from |-> from]
  PROVE  Inv'
<1>2. TypeOK'
  BY DEF Inv, TypeOK
<1>3. RxBounded'
  BY DEF RxBounded
<1>4. TxOnSchedule'
  BY DEF Inv, TxOnSchedule, TxLen
<1> QED BY <1>2, <1>3, <1>4 DEF Inv

OnSchedule(state, pdu, pos, seq) ==
  state # "Idle" =>
    /\ pdu \in Pdus /\ pos < Length[pdu] /\ Length[pdu] <= MaxPdu
    /\ \E k \in 0 .. MaxPdu : pos = 6 + 7 * k /\ seq = (k + 1) % 16

LEMMA TxStepInv ==
  ASSUME Inv, UNCHANGED rx,
         NEW state \in {"Idle", "WaitFlowControl", "Sending"}, NEW pdu \in Pdus \cup {NoPdu},
         NEW pos \in Nat, NEW seq \in 0 .. 15, NEW bs \in 0 .. 255, NEW left \in 0 .. 255,
         OnSchedule(state, pdu, pos, seq),
         tx' = [state |-> state, pdu |-> pdu, pos |-> pos, seq |-> seq, bs |-> bs, left |-> left]
  PROVE  Inv'
<1>1. TypeOK'
  BY DEF Inv, TypeOK
<1>2. RxBounded'
  BY DEF Inv, RxBounded
<1>3. TxOnSchedule'
  BY DEF TxOnSchedule, TxLen, OnSchedule
<1> QED BY <1>1, <1>2, <1>3 DEF Inv

(* Stopping or pausing the sender keeps its position. *)
LEMMA PauseInv ==
  ASSUME Inv, UNCHANGED rx, NEW s \in {"Idle", "WaitFlowControl"},
         tx' = [tx EXCEPT !.state = s], s # "Idle" => tx.state # "Idle"
  PROVE  Inv'
<1>1. TypeOK'
  BY DEF Inv, TypeOK
<1>2. tx'.state = s /\ tx'.pdu = tx.pdu /\ tx'.pos = tx.pos /\ tx'.seq = tx.seq
  BY DEF Inv, TypeOK
<1>3. TxOnSchedule'
  BY <1>2 DEF Inv, TxOnSchedule, TxLen
<1>4. RxBounded'
  BY DEF Inv, RxBounded
<1> QED BY <1>1, <1>3, <1>4 DEF Inv

LEMMA StutterInv == Inv /\ UNCHANGED vars => Inv'
BY DEF vars, Inv, TypeOK, RxBounded, TxOnSchedule, TxLen

----------------------------------------------------------------------------
LEMMA InitInv == Init => Inv
<1> SUFFICES ASSUME Init PROVE Inv
  OBVIOUS
<1>1. TypeOK
  BY DEF Init, TypeOK, Sources
<1>2. RxBounded /\ TxOnSchedule
  BY MaxPduAssumption DEF Init, RxBounded, TxOnSchedule
<1> QED BY <1>1, <1>2 DEF Inv

(* reset() empties the reassembly and leaves the sender alone. *)
LEMMA ResetInv == Inv /\ Reset => Inv'
<1> SUFFICES ASSUME Inv, Reset PROVE Inv'
  OBVIOUS
<1> DEFINE closed == FALSE
           zero   == 0
           first  == 1
<1>1. rx.from \in Sources /\ zero \in Nat /\ first \in 0 .. 15 /\ zero <= zero /\ zero <= MaxPdu
  BY RxFields, MaxPduAssumption DEF Inv
<1>2. closed \in BOOLEAN /\ ~closed
  OBVIOUS
<1>3. /\ rx' = [len |-> zero, have |-> zero, seq |-> first, multi |-> closed, from |-> rx.from]
      /\ UNCHANGED tx
  BY DEF Reset
<1> HIDE DEF closed, zero, first
<1> QED BY <1>1, <1>2, <1>3, RxStepInv

LEMMA FeedSingleInv ==
  ASSUME Inv, NEW f \in Frame, NEW st, FeedSingle(f, st)
  PROVE  Inv'
<1>1. CASE Reset
  BY <1>1, ResetInv
<1>2. CASE /\ rx' = [len |-> f.len, have |-> f.len, seq |-> rx.seq, multi |-> FALSE,
                     from |-> f.pdu]
           /\ UNCHANGED tx
  <2> DEFINE len    == f.len
             closed == FALSE
  <2>1. len \in 0 .. 7 /\ f.pdu \in Sources
    BY DEF Frame, FeedSingle
  <2>2. rx.seq \in 0 .. 15 /\ closed \in BOOLEAN /\ ~closed
    BY RxFields DEF Inv
  <2>3. rx' = [len |-> len, have |-> len, seq |-> rx.seq, multi |-> closed, from |-> f.pdu]
    BY <1>2
  <2> HIDE DEF len, closed
  <2>4. len \in Nat /\ len <= len /\ len <= MaxPdu
    BY <2>1, MaxPduAssumption
  <2> QED BY <1>2, <2>1, <2>2, <2>3, <2>4, RxStepInv
<1> QED BY <1>1, <1>2 DEF FeedSingle

LEMMA FeedFirstInv ==
  ASSUME Inv, NEW f \in Frame, NEW st, FeedFirst(f, st)
  PROVE  Inv'
<1>1. CASE Reset
  BY <1>1, ResetInv
<1>2. CASE /\ ValidFirst(f)
           /\ rx' = [len |-> f.len, have |-> Least(6, f.dlc - 2), seq |-> 1,
                     multi |-> TRUE, from |-> f.pdu]
           /\ UNCHANGED tx
  <2> DEFINE len  == f.len
             have == Least(6, f.dlc - 2)
             open  == TRUE
             first == 1
  <2>1. len \in 0 .. 4095 /\ f.dlc \in 1 .. 8 /\ f.pdu \in Sources
    BY DEF Frame, FeedFirst
  <2>2. len > 7 /\ len <= MaxPdu /\ f.dlc >= 2
    BY <1>2 DEF ValidFirst
  <2>3. have \in 0 .. 6
    BY <2>1, <2>2 DEF Least
  <2>4. /\ rx' = [len |-> len, have |-> have, seq |-> first, multi |-> open, from |-> f.pdu]
        /\ UNCHANGED tx
    BY <1>2
  <2>5. open \in BOOLEAN /\ first \in 0 .. 15
    OBVIOUS
  <2> HIDE DEF len, have, open, first
  <2>6. /\ len \in Nat /\ have \in Nat /\ have < len /\ have <= len /\ len > 7
        /\ len <= MaxPdu /\ f.pdu \in Sources
    BY <2>1, <2>2, <2>3
  <2> QED BY <2>4, <2>5, <2>6, RxStepInv
<1> QED BY <1>1, <1>2 DEF FeedFirst

LEMMA FeedConsecutiveInv ==
  ASSUME Inv, NEW f \in Frame, NEW st, FeedConsecutive(f, st)
  PROVE  Inv'
<1>1. CASE UNCHANGED vars
  BY <1>1, StutterInv
<1>2. CASE Reset
  BY <1>2, ResetInv
<1>3. CASE /\ rx.multi /\ UNCHANGED tx
           /\ rx' = [len   |-> rx.len,
                     have  |-> rx.have + Chunk(f),
                     seq   |-> NextSeq(rx.seq),
                     multi |-> rx.have + Chunk(f) < rx.len,
                     from  |-> Source(f)]
  <2>1. f.dlc \in 1 .. 8
    BY DEF Frame, FeedConsecutive
  <2>2. Chunk(f) \in 0 .. 7 /\ Chunk(f) <= rx.len - rx.have
    BY <2>1, ChunkFits DEF Inv
  <2> DEFINE have  == rx.have + Chunk(f)
             multi == rx.have + Chunk(f) < rx.len
             from  == Source(f)
  <2>3. /\ rx.len \in Nat /\ rx.len <= MaxPdu /\ rx.len > 7
        /\ have \in Nat /\ have <= rx.len /\ multi \in BOOLEAN
        /\ multi => have < rx.len
    BY <1>3, <2>2, RxFields DEF Inv, RxBounded
  <2>4. NextSeq(rx.seq) \in 0 .. 15 /\ from \in Sources
    BY RxFields, NextSeqFollows DEF Inv, Sources, Source
  <2>5. rx' = [len |-> rx.len, have |-> have, seq |-> NextSeq(rx.seq), multi |-> multi,
               from |-> from]
    BY <1>3
  <2> HIDE DEF have, multi, from
  <2> QED BY <1>3, <2>3, <2>4, <2>5, RxStepInv
<1> QED BY <1>1, <1>2, <1>3 DEF FeedConsecutive, InSequence, vars

LEMMA FeedFlowControlInv ==
  ASSUME Inv, NEW f \in Frame, NEW st, FeedFlowControl(f, st)
  PROVE  Inv'
<1>1. UNCHANGED rx /\ f.bs \in 0 .. 255
  BY DEF FeedFlowControl, Frame
<1>2. CASE UNCHANGED tx
  BY <1>1, <1>2, StutterInv DEF vars
<1>3. CASE tx' = [tx EXCEPT !.state = "Idle"]
  BY <1>1, <1>3, PauseInv
<1>4. CASE tx.state # "Idle" /\ tx' = [tx EXCEPT !.state = "WaitFlowControl"]
  BY <1>1, <1>4, PauseInv
<1>5. CASE /\ tx.state # "Idle"
           /\ tx' = [state |-> "Sending", pdu |-> tx.pdu, pos |-> tx.pos, seq |-> tx.seq,
                     bs |-> f.bs, left |-> f.bs]
  <2>1. OnSchedule("Sending", tx.pdu, tx.pos, tx.seq)
    BY <1>5, TxFields DEF Inv, OnSchedule, TxOnSchedule, TxLen
  <2> QED BY <1>1, <1>5, <2>1, TxFields, TxStepInv DEF Inv
<1> QED BY <1>2, <1>3, <1>4, <1>5 DEF FeedFlowControl

LEMMA FeedInv ==
  ASSUME Inv, NEW f \in Frame, NEW st, Feed(f, st)
  PROVE  Inv'
BY FeedSingleInv, FeedFirstInv, FeedConsecutiveInv, FeedFlowControlInv, StutterInv
   DEF Feed, FeedOther

LEMMA BeginSendInv ==
  ASSUME Inv, NEW p \in Pdus, NEW f, BeginSend(p, f)
  PROVE  Inv'
<1>1. CASE tx' = [tx EXCEPT !.state = "Idle"]
  BY <1>1, PauseInv DEF BeginSend
<1>2. CASE /\ Length[p] > 7
           /\ tx' = [state |-> "WaitFlowControl", pdu |-> p, pos |-> 6, seq |-> 1,
                     bs |-> 0, left |-> 0]
  <2>1. Length[p] \in 8 .. MaxPdu
    BY <1>2, LengthAssumption, MaxPduAssumption DEF BeginSend
  <2>2. 0 \in 0 .. MaxPdu /\ 6 = 6 + 7 * 0 /\ 1 = (0 + 1) % 16
    BY MaxPduAssumption
  <2>3. OnSchedule("WaitFlowControl", p, 6, 1)
    BY <2>1, <2>2 DEF OnSchedule
  <2>4. 6 \in Nat /\ 1 \in 0 .. 15 /\ 0 \in 0 .. 255 /\ p \in Pdus \cup {NoPdu}
    OBVIOUS
  <2> QED BY <1>2, <2>3, <2>4, TxStepInv DEF BeginSend
<1> QED BY <1>1, <1>2 DEF BeginSend

LEMMA NextTxFrameInv ==
  ASSUME Inv, NEW f, NextTxFrame(f)
  PROVE  Inv'
<1> DEFINE pos   == tx.pos + Least(7, TxLen - tx.pos)
           state == IF pos >= TxLen THEN "Idle" ELSE "Sending"
           left  == BlockLeft
<1>1. /\ tx.pdu \in Pdus /\ TxLen = Length[tx.pdu] /\ TxLen \in Nat
      /\ tx.pos < TxLen /\ TxLen <= MaxPdu
  BY TxFields, LengthAssumption DEF Inv, NextTxFrame, TxOnSchedule, TxLen
<1>2. pos \in Nat /\ (pos < TxLen => pos = tx.pos + 7)
  BY <1>1, TxFields DEF Inv, Least
<1>3. left \in 0 .. 255
  BY TxFields DEF Inv, NextTxFrame, BlockOpen, BlockLeft
<1>4. NextSeq(tx.seq) \in 0 .. 15
  BY TxFields, NextSeqFollows DEF Inv
<1>5. /\ tx' = [state |-> state, pdu |-> tx.pdu, pos |-> pos, seq |-> NextSeq(tx.seq),
                bs |-> tx.bs, left |-> left]
      /\ UNCHANGED rx
  BY DEF NextTxFrame
<1>6. OnSchedule(state, tx.pdu, pos, NextSeq(tx.seq))
  <2> SUFFICES ASSUME pos < TxLen
               PROVE  \E k \in 0 .. MaxPdu : pos = 6 + 7 * k /\ NextSeq(tx.seq) = (k + 1) % 16
    BY <1>1, <1>2 DEF OnSchedule
  <2>1. PICK k \in 0 .. MaxPdu : tx.pos = 6 + 7 * k /\ tx.seq = (k + 1) % 16
    BY DEF Inv, NextTxFrame, TxOnSchedule
  <2>2. pos = 6 + 7 * (k + 1) /\ k + 1 \in 0 .. MaxPdu
    BY <1>1, <1>2, <2>1, MaxPduAssumption
  <2>3. NextSeq(tx.seq) = ((k + 1) + 1) % 16
    BY <2>1, NextSeqFollows
  <2> HIDE DEF pos
  <2> QED BY <2>2, <2>3
<1>7. state \in {"Idle", "WaitFlowControl", "Sending"}
  OBVIOUS
<1> HIDE DEF pos, state, left
<1> QED BY <1>2, <1>3, <1>4, <1>5, <1>6, <1>7, TxFields, TxStepInv DEF Inv

LEMMA NextInv == Inv /\ [Next]_vars => Inv'
<1> SUFFICES ASSUME Inv, [Next]_vars PROVE Inv'
  OBVIOUS
<1>1. CASE \E f \in Frames, st \in Status : Feed(f, st)
  BY <1>1, FeedInv, FramesAssumption
<1>2. CASE \E p \in Pdus : \E f \in {SingleFrame(p), FirstFrame(p)} : BeginSend(p, f)
  BY <1>2, BeginSendInv
<1>3. CASE NextTxFrame(ConsecutiveFrame)
  BY <1>3, NextTxFrameInv
<1>4. CASE NextTxPause
  BY <1>4, PauseInv DEF NextTxPause
<1>5. CASE Reset
  BY <1>5, ResetInv
<1>6. CASE TxReset
  BY <1>6, PauseInv DEF TxReset
<1>7. CASE UNCHANGED vars
  BY <1>7, StutterInv
<1> QED BY <1>1, <1>2, <1>3, <1>4, <1>5, <1>6, <1>7 DEF Next

LEMMA SpecInv == Spec => []Inv
BY InitInv, NextInv, PTL DEF Spec

----------------------------------------------------------------------------
(* Every reachable state of an endpoint is well typed. *)
THEOREM TypeCorrect == Spec => []TypeOK
BY SpecInv, PTL DEF Inv

(* No frame, well formed or not, takes the reassembly outside rx_ or wraps *)
(* the count of the bytes still missing (IsoTp::feed).                     *)
THEOREM ReassemblyBounded == Spec => []RxBounded
BY SpecInv, PTL DEF Inv

(* The sender's position and sequence number stay in step, and it never    *)
(* waits or sends with nothing left to send (IsoTp::nextTxFrame).          *)
THEOREM SenderOnSchedule == Spec => []TxOnSchedule
BY SpecInv, PTL DEF Inv

=============================================================================
