----------------------------- MODULE IsoTpLink -----------------------------
(***************************************************************************)
(* The tester and one ECU exchanging PDUs over CAN. The tester is an IsoTp *)
(* endpoint driven as DiagShell::poll and DiagShell::feedDiagFrame drive   *)
(* it. The ECU is not in the repository: it is a second endpoint with the  *)
(* same state machine whose flow control follows ISO 15765-2, a fresh one  *)
(* after the first frame and after every block of the size it asked for.   *)
(*                                                                         *)
(* Lossy says that frames may be lost (overrun, a full transmit queue),    *)
(* Reordering that the tester's controller may put a frame on the bus, or  *)
(* hand one up, before an older one, as Mcp2515 shows it does.             *)
(*                                                                         *)
(* A side offers a PDU only when the wire is quiet: a command is refused   *)
(* while a reply is awaited, and an ECU replies to a request. The N_Bs     *)
(* timer (one second) runs out only when nothing is under way.             *)
(***************************************************************************)
EXTENDS Integers, FiniteSets, Sequences, SequencesExt

CONSTANTS
  TesterPdus, EcuPdus,      (* requests and replies                         *)
  Length, MaxPdu, RxBlockSize, NoPdu, Garbled,
  EcuBlockSizes,            (* block sizes the ECU's flow control may ask   *)
  EcuAnswers,               (* flow status it may give: 0 CTS, 1 WAIT, 2 OVERFLOW *)
  Lossy, Reordering         (* what the wire may do                         *)

ASSUME PduAssumption ==
  /\ Length \in [TesterPdus \cup EcuPdus -> Nat] /\ MaxPdu \in 8 .. 4095 /\ RxBlockSize \in 0 .. 255
  /\ NoPdu \notin TesterPdus \cup EcuPdus /\ Garbled \notin TesterPdus \cup EcuPdus /\ NoPdu # Garbled
ASSUME EcuAssumption == EcuBlockSizes \subseteq 0 .. 255 /\ EcuAnswers \subseteq 0 .. 2
ASSUME WireAssumption == Lossy \in BOOLEAN /\ Reordering \in BOOLEAN

VARIABLES
  rxT, txT,        (* the tester's endpoint                                  *)
  rxE, txE,        (* the ECU's                                              *)
  toE, toT,        (* frames on the wire, oldest first                       *)
  ecuOwes,         (* the ECU owes the tester a flow control                 *)
  ecuLeft,         (* frames the ECU still grants; -1: an unlimited block    *)
  offerT, handedE, (* the request under way and the one the ECU got last     *)
  offerE, handedT  (* the reply under way and the one the tester got last    *)

wire  == <<toE, toT>>
grant == <<ecuOwes, ecuLeft>>
ghost == <<offerT, handedE, offerE, handedT>>
vars  == <<rxT, txT, rxE, txE, wire, grant, ghost>>

AllPdus == TesterPdus \cup EcuPdus

T == INSTANCE IsoTp WITH Pdus <- AllPdus, Frames <- {}, rx <- rxT, tx <- txT
E == INSTANCE IsoTp WITH Pdus <- AllPdus, Frames <- {}, rx <- rxE, tx <- txE

Quiet == toE = <<>> /\ toT = <<>> /\ ~ecuOwes

Init ==
  /\ T!Init /\ E!Init
  /\ toE = <<>> /\ toT = <<>>
  /\ ecuOwes = FALSE /\ ecuLeft = 0
  /\ offerT = NoPdu /\ offerE = NoPdu
  /\ handedE = [pdu |-> NoPdu, odd |-> FALSE]
  /\ handedT = [pdu |-> NoPdu, odd |-> FALSE]

HandUp(handed, p) == [pdu |-> p, odd |-> ~handed.odd]

----------------------------------------------------------------------------
(* The tester. *)

(* sendPdu *)
TesterOffers ==
  /\ Quiet /\ txT.state = "Idle"
  /\ \E p \in TesterPdus : \E f \in {T!SingleFrame(p), T!FirstFrame(p)} :
        /\ T!BeginSend(p, f)
        /\ toE' = Append(toE, f)
        /\ offerT' = p
  /\ UNCHANGED <<rxE, txE, toT, grant, handedE, offerE, handedT>>

(* poll(): the next consecutive frame that the ECU has cleared us to send,  *)
(* or a pause at the end of a block ...                                     *)
TesterPumps ==
  /\ \/ T!NextTxFrame(T!ConsecutiveFrame) /\ toE' = Append(toE, T!ConsecutiveFrame)
     \/ T!NextTxPause /\ UNCHANGED toE
  /\ UNCHANGED <<rxE, txE, toT, grant, ghost>>

(* ... a transfer abandoned because the controller's buffers stay full ...  *)
TesterCannotTransmit ==
  /\ Lossy
  /\ txT.state = "Sending" /\ txT.pos < T!TxLen /\ T!BlockOpen
  /\ T!TxReset
  /\ UNCHANGED <<rxE, txE, wire, grant, ghost>>

(* ... and one that the ECU never answered. *)
TesterGivesUp ==
  /\ Quiet /\ T!TxMayTimeOut
  /\ T!TxReset
  /\ UNCHANGED <<rxE, txE, wire, grant, ghost>>

(* feedDiagFrame: a reply that completes is handed to handleResponse; after *)
(* it, and after an error, the reassembly is reset; a first frame is        *)
(* answered with flow control; TxAbort resets the sender, which it left     *)
(* Idle.                                                                    *)
TesterReceives ==
  /\ toT # <<>>
  /\ toT' = Tail(toT)
  /\ LET f == Head(toT)
     IN  \/ /\ T!Rejects(f)
            /\ T!Reset
            /\ UNCHANGED <<toE, ghost>>
         \/ /\ T!Completes(f)
            /\ T!Reset
            /\ handedT' = HandUp(handedT, T!Received(f))
            /\ offerE' = NoPdu
            /\ UNCHANGED <<toE, offerT, handedE>>
         \/ /\ T!Feed(f, "NeedFlowControl")
            /\ toE' = Append(toE, T!FlowControl)
            /\ UNCHANGED ghost
         \/ /\ \E st \in {"Continue", "TxClearToSend", "TxWait", "TxAbort"} : T!Feed(f, st)
            /\ UNCHANGED <<toE, ghost>>
  /\ UNCHANGED <<rxE, txE, grant>>

----------------------------------------------------------------------------
(* The ECU. *)

EcuOffers ==
  /\ Quiet /\ txE.state = "Idle"
  /\ \E p \in EcuPdus : \E f \in {E!SingleFrame(p), E!FirstFrame(p)} :
        /\ E!BeginSend(p, f)
        /\ toT' = Append(toT, f)
        /\ offerE' = p
  /\ UNCHANGED <<rxT, txT, toE, grant, handedT, offerT, handedE>>

EcuPumps ==
  /\ \/ E!NextTxFrame(E!ConsecutiveFrame) /\ toT' = Append(toT, E!ConsecutiveFrame)
     \/ E!NextTxPause /\ UNCHANGED toT
  /\ UNCHANGED <<rxT, txT, toE, grant, ghost>>

EcuGivesUp ==
  /\ Quiet /\ E!TxMayTimeOut
  /\ E!TxReset
  /\ UNCHANGED <<rxT, txT, wire, grant, ghost>>

EcuReceives ==
  /\ toE # <<>>
  /\ toE' = Tail(toE)
  /\ LET f == Head(toE)
     IN  \/ /\ E!Rejects(f)
            /\ E!Reset
            /\ ecuOwes' = FALSE /\ UNCHANGED <<ecuLeft, ghost>>
         \/ /\ E!Completes(f)
            /\ E!Reset
            /\ handedE' = HandUp(handedE, E!Received(f))
            /\ offerT' = NoPdu
            /\ ecuOwes' = FALSE /\ UNCHANGED <<ecuLeft, offerE, handedT>>
         \/ /\ E!Feed(f, "NeedFlowControl")
            /\ ecuOwes' = TRUE /\ UNCHANGED <<ecuLeft, ghost>>
         \/ /\ f.kind = "CF" /\ E!Feed(f, "Continue")
            /\ ecuLeft' = IF ecuLeft > 0 THEN ecuLeft - 1 ELSE ecuLeft
            /\ ecuOwes' = (ecuLeft = 1)
            /\ UNCHANGED ghost
         \/ /\ f.kind = "FC"
            /\ \E st \in {"Continue", "TxClearToSend", "TxWait", "TxAbort"} : E!Feed(f, st)
            /\ UNCHANGED <<grant, ghost>>
  /\ UNCHANGED <<rxT, txT, toT>>

(* The flow control the ECU owes: clear to send, wait, or refuse. It sends  *)
(* one wait at a time (the bound on waits under way).                       *)
EcuFlowControl(fs) ==
  /\ ecuOwes /\ fs \in EcuAnswers
  /\ fs = 1 => toT = <<>>
  /\ \E bs \in EcuBlockSizes :
        /\ toT' = Append(toT, [kind |-> "FC", fs |-> fs, bs |-> bs, dlc |-> 3])
        /\ ecuOwes' = (fs = 1)
        /\ ecuLeft' = IF fs # 0 THEN 0 ELSE IF bs = 0 THEN -1 ELSE bs
  /\ IF fs = 2 THEN E!Reset ELSE UNCHANGED <<rxE, txE>>
  /\ UNCHANGED <<rxT, txT, toE, ghost>>

----------------------------------------------------------------------------
(* The wire. *)

Lose ==
  /\ Lossy
  /\ \/ \E i \in 1 .. Len(toE) : toE' = RemoveAt(toE, i) /\ UNCHANGED toT
     \/ \E i \in 1 .. Len(toT) : toT' = RemoveAt(toT, i) /\ UNCHANGED toE
  /\ UNCHANGED <<rxT, txT, rxE, txE, grant, ghost>>

Overtaken(s) == <<s[2], s[1]>> \o SubSeq(s, 3, Len(s))
Overtake ==
  /\ Reordering
  /\ \/ Len(toT) >= 2 /\ toT' = Overtaken(toT) /\ UNCHANGED toE
     \/ Len(toE) >= 2 /\ toE' = Overtaken(toE) /\ UNCHANGED toT
  /\ UNCHANGED <<rxT, txT, rxE, txE, grant, ghost>>

Next ==
  \/ TesterOffers \/ TesterPumps \/ TesterCannotTransmit \/ TesterGivesUp \/ TesterReceives
  \/ EcuOffers \/ EcuPumps \/ EcuGivesUp \/ EcuReceives
  \/ \E fs \in EcuAnswers : EcuFlowControl(fs)
  \/ Lose \/ Overtake

Spec == Init /\ [][Next]_vars

(* The main loop never stops polling, a conforming ECU acts on what it has  *)
(* to do, and one that asks to wait clears us to send in the end. Nothing   *)
(* is assumed of new offers, of the wire's faults or of giving up.          *)
Fairness ==
  /\ WF_vars(TesterPumps) /\ WF_vars(TesterReceives)
  /\ WF_vars(EcuPumps) /\ WF_vars(EcuReceives)
  /\ SF_vars(EcuFlowControl(0))

FairSpec == Spec /\ Fairness

----------------------------------------------------------------------------
TypeOK == T!TypeOK /\ E!TypeOK

(* A request reaches the ECU, and a reply the shell, only as the PDU that   *)
(* was offered last, whole, in order and once, whatever frames the wire     *)
(* loses or swaps and whichever transfers were abandoned half-way           *)
(* (IsoTp::feed's sequence check, and the restart on a first frame).        *)
Requests == INSTANCE PduTransfer WITH Pdus <- TesterPdus, offered <- offerT, handed <- handedE
Replies  == INSTANCE PduTransfer WITH Pdus <- EcuPdus, offered <- offerE, handed <- handedT
PdusWholeAndOnce == Requests!Spec /\ Replies!Spec

(* No consecutive frame reaches an ECU that has not cleared it: at most the *)
(* granted frames are under way, and none before the next flow control      *)
(* (src/isotp.cpp:162-168; the comment at 91-94 is about this overrun).     *)
CfUnderWay == Cardinality({i \in DOMAIN toE : toE[i].kind = "CF"})
NoOverrun ==
  ecuLeft >= 0 => CfUnderWay <= (IF ecuOwes THEN 0 ELSE ecuLeft)

(* On a wire that loses nothing, a PDU that was offered is handed up, and   *)
(* no side is left waiting for the other for ever.                          *)
PdusArrive ==
  /\ offerT # NoPdu ~> offerT = NoPdu
  /\ offerE # NoPdu ~> offerE = NoPdu

(* "we make the ECU pause for a new FC every 8 consecutive frames instead   *)
(* of letting it stream unbounded" (include/psa/isotp.hpp:39-40): an ECU    *)
(* that pauses at the end of a block is cleared to send the next one.       *)
PausedEcuResumes ==
  txE.state = "WaitFlowControl" ~> txE.state = "Sending"
=============================================================================
