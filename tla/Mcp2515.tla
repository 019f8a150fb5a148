------------------------------ MODULE Mcp2515 ------------------------------
(***************************************************************************)
(* The CAN controller's driver (src/mcp2515.cpp) behind the CAN manager,   *)
(* as the shell and the main loop call it, against the controller itself.  *)
(*                                                                         *)
(* The driver runs on one thread: `call` is the call under way, one step   *)
(* per exchange on SPI whose moment matters, and the controller transmits, *)
(* receives and changes mode between any two of them. The controller is    *)
(* not in the repository: its three transmit buffers by priority, two      *)
(* receive buffers with roll-over, transmit error counter and mode request *)
(* are those the driver programs and reads.                                *)
(*                                                                         *)
(* A frame is an identity: transmit frames are numbered, and a number is   *)
(* used again once nothing refers to it any more; so are received frames.  *)
(***************************************************************************)
EXTENDS Naturals, FiniteSets, Sequences, SequencesExt

CONSTANTS
  Outgoing, Incoming,   (* numbers of frames to send and of frames received   *)
  Callers,              (* of {"sendFrame", "obd"}, who sends                 *)
  BusModes,             (* the arguments [rate, mode] setBusMode is given     *)
  TxRetries,            (* kTxRetries of DiagShell::sendFrame                 *)
  PassiveAt             (* failed transmissions until TXEP is raised          *)

ASSUME OutgoingAssumption ==
  IsFiniteSet(Outgoing) /\ Outgoing = 1 .. Cardinality(Outgoing) /\ Cardinality(Outgoing) >= 5
ASSUME IncomingAssumption ==
  IsFiniteSet(Incoming) /\ Incoming = 1 .. Cardinality(Incoming) /\ Cardinality(Incoming) >= 3
ASSUME BoundsAssumption == TxRetries \in Nat \ {0} /\ PassiveAt \in Nat \ {0}

TxBufs == 0 .. 2
RxBufs == 0 .. 1
Free == 0
Modes == {"config", "listen", "normal"}
Rates == {125, 500}

ASSUME BusModesAssumption == BusModes \subseteq [rate : Rates, mode : {"listen", "normal"}]

VARIABLES
  ready,      (* can_ready_                                                 *)
  reqop, mode, rate,   (* mode asked for and mode in force; the CNF registers *)
  txb,        (* frame latched in each transmit buffer; Free: TXREQ clear   *)
  air,        (* buffer and frame being transmitted                         *)
  tec,        (* transmit errors, up to PassiveAt                           *)
  rxb,        (* frame in each receive buffer; Free: its interrupt flag clear *)
  call,       (* the driver's call under way                                *)
  queued,     (* history: frames send accepted, not gone and not dropped    *)
  waiting,    (* history: frames received and not handed up                 *)
  target      (* history: the last bus mode the shell has asked for         *)

chip == <<reqop, mode, rate, txb, air, tec, rxb>>
history == <<queued, waiting, target>>
vars == <<ready, chip, call, history>>

Idle == [op |-> "idle"]
NoAir == [buf |-> 0, frame |-> Free]
NoTarget == [rate |-> 500, mode |-> "normal"]

Least(S) == CHOOSE n \in S : \A m \in S : n <= m
LatchedFrames == {txb[i] : i \in TxBufs} \ {Free}
HeldFrames == {rxb[i] : i \in RxBufs} \ {Free}
NextOutgoing ==
  Least(Outgoing \ (LatchedFrames \cup ToSet(queued) \cup {air.frame}))

GaveUp == tec = PassiveAt     (* EFLG_TXEP or EFLG_TXBO *)

(* CanManager::init, in normal mode at 500k; it fails when no chip answers. *)
Init ==
  /\ ready \in BOOLEAN
  /\ mode = "normal" /\ reqop = "normal" /\ rate = 500
  /\ txb = [i \in TxBufs |-> Free] /\ air = NoAir /\ tec = 0
  /\ rxb = [i \in RxBufs |-> Free]
  /\ call = Idle
  /\ queued = <<>> /\ waiting = {} /\ target = NoTarget

----------------------------------------------------------------------------
(* Mcp2515::recoverBus: abort, clear the three TXREQ. What is on the wire   *)
(* at that moment is not called back.                                       *)

RecoverBusAllButLast ==
  /\ txb' = [i \in TxBufs |-> IF i = 2 THEN txb[i] ELSE Free]
  /\ queued' = <<>>
RecoverBus ==
  /\ txb' = [i \in TxBufs |-> Free]
  /\ queued' = <<>>

(* The shell's response timeout calls it. *)
ResponseTimeout ==
  /\ ready /\ call = Idle
  /\ RecoverBus
  /\ UNCHANGED <<ready, reqop, mode, rate, air, tec, rxb, call, waiting, target>>

----------------------------------------------------------------------------
(* Mcp2515::send, under DiagShell::sendFrame or for the OBD poll. *)

StartSend(c) ==
  /\ ready /\ call = Idle
  /\ call' = [op |-> "scan", buf |-> 0, caller |-> c, attempt |-> 1]
  /\ UNCHANGED <<ready, chip, history>>

(* Reading the control register of one buffer after the other. *)
Taken(i) == txb[i] # Free

SendScan ==
  /\ call.op = "scan"
  /\ call' = IF ~Taken(call.buf) THEN [call EXCEPT !.op = "load"]
             ELSE IF call.buf = 2 THEN [call EXCEPT !.op = "busy"]
             ELSE [call EXCEPT !.buf = call.buf + 1]
  /\ UNCHANGED <<ready, chip, history>>

SendLoad ==
  /\ call.op = "load"
  /\ txb' = [txb EXCEPT ![call.buf] = NextOutgoing]
  /\ queued' = Append(queued, NextOutgoing)
  /\ call' = Idle
  /\ UNCHANGED <<ready, reqop, mode, rate, air, tec, rxb, waiting, target>>

(* AllTxBusy: drop what is latched if the controller has given up, and try  *)
(* again, up to kTxRetries times and a last recovery, in sendFrame.         *)
MayRetryOnceMore(c) == c.caller = "sendFrame" /\ c.attempt <= TxRetries
MayRetry(c) == c.caller = "sendFrame" /\ c.attempt < TxRetries
LastAttempt(c) == c.caller = "sendFrame" /\ c.attempt = TxRetries
RescueLate(c) == LastAttempt(c)
Rescue(c) == GaveUp \/ LastAttempt(c)

SendBusy ==
  /\ call.op = "busy"
  /\ IF Rescue(call) THEN RecoverBus ELSE UNCHANGED <<txb, queued>>
  /\ call' = IF MayRetry(call)
             THEN [call EXCEPT !.op = "scan", !.buf = 0, !.attempt = call.attempt + 1]
             ELSE Idle
  /\ UNCHANGED <<ready, reqop, mode, rate, air, tec, rxb, waiting, target>>

----------------------------------------------------------------------------
(* Mcp2515::read, which the main loop calls while hasRx says there is one.  *)

StartRead ==
  /\ ready /\ call = Idle
  /\ HeldFrames # {}
  /\ call' = [op |-> "data", buf |-> IF rxb[0] # Free THEN 0 ELSE 1]
  /\ UNCHANGED <<ready, chip, history>>

ReadData ==
  /\ call.op = "data"
  /\ call' = [op |-> "clear", buf |-> call.buf, frame |-> rxb[call.buf]]
  /\ UNCHANGED <<ready, chip, history>>

ClearedBoth(i) == [j \in RxBufs |-> Free]
Cleared(i) == [rxb EXCEPT ![i] = Free]

ReadClear ==
  /\ call.op = "clear"
  /\ rxb' = Cleared(call.buf)
  /\ waiting' = waiting \ {call.frame}
  /\ call' = Idle
  /\ UNCHANGED <<ready, reqop, mode, rate, txb, air, tec, queued, target>>

----------------------------------------------------------------------------
(* DiagShell::setBusMode: setBaudRate, whose result is dropped, and then    *)
(* the mode. setMode asks for a mode and polls for it for a while; it fails *)
(* when the controller has not got there by then.                           *)

SetBusMode(m) ==
  /\ ready /\ call = Idle
  /\ reqop' = "config"
  /\ target' = m
  /\ call' = [op |-> "rate", prev |-> mode, rate |-> m.rate, mode |-> m.mode]
  /\ UNCHANGED <<ready, mode, rate, txb, air, tec, rxb, queued, waiting>>

SetRate ==
  /\ call.op = "rate" /\ mode = "config"
  /\ rate' = call.rate
  /\ reqop' = IF call.prev = "config" THEN "listen" ELSE call.prev
  /\ call' = [call EXCEPT !.op = "mode"]
  /\ UNCHANGED <<ready, mode, txb, air, tec, rxb, history>>

AfterFailedRateStops == Idle
AfterFailedRate == [call EXCEPT !.op = "mode"]

SetRateFails ==
  /\ call.op = "rate" /\ mode # "config"
  /\ call' = AfterFailedRate
  /\ UNCHANGED <<ready, chip, history>>

SetMode ==
  /\ call.op = "mode"
  /\ reqop' = call.mode
  /\ call' = [op |-> "poll"]
  /\ UNCHANGED <<ready, mode, rate, txb, air, tec, rxb, history>>

SetModeReturns ==
  /\ call.op = "poll"
  /\ call' = Idle
  /\ UNCHANGED <<ready, chip, history>>

----------------------------------------------------------------------------
(* The controller. It sends the frame of the latched buffer with the highest *)
(* priority, TXB0 first as init programs it, and does not interrupt a frame. *)

Transmit ==
  /\ mode = "normal" /\ air = NoAir
  /\ LatchedFrames # {}
  /\ LET i == Least({j \in TxBufs : txb[j] # Free})
     IN  air' = [buf |-> i, frame |-> txb[i]]
  /\ UNCHANGED <<ready, reqop, mode, rate, txb, tec, rxb, call, history>>

Acknowledged ==
  /\ air # NoAir
  /\ txb' = IF txb[air.buf] = air.frame THEN [txb EXCEPT ![air.buf] = Free] ELSE txb
  /\ queued' = IF air.frame \in ToSet(queued)
               THEN RemoveAt(queued, CHOOSE i \in DOMAIN queued : queued[i] = air.frame)
               ELSE queued
  /\ air' = NoAir
  /\ tec' = IF tec > 0 THEN tec - 1 ELSE 0
  /\ UNCHANGED <<ready, reqop, mode, rate, rxb, call, waiting, target>>

NotAcknowledged ==
  /\ air # NoAir
  /\ air' = NoAir
  /\ tec' = IF tec < PassiveAt THEN tec + 1 ELSE tec
  /\ UNCHANGED <<ready, reqop, mode, rate, txb, rxb, call, history>>

(* A frame on the bus goes to RXB0, rolls over to RXB1, or is lost. *)
Receive ==
  /\ ready /\ mode \in {"normal", "listen"}
  /\ LET f == Least(Incoming \ (waiting \cup HeldFrames))
     IN  \/ /\ rxb[0] = Free
            /\ rxb' = [rxb EXCEPT ![0] = f] /\ waiting' = waiting \cup {f}
         \/ /\ rxb[0] # Free /\ rxb[1] = Free
            /\ rxb' = [rxb EXCEPT ![1] = f] /\ waiting' = waiting \cup {f}
  /\ UNCHANGED <<ready, reqop, mode, rate, txb, air, tec, call, queued, target>>

(* A mode change waits for the frame on the wire; the error counter starts   *)
(* again in configuration mode.                                              *)
EnterMode ==
  /\ mode # reqop /\ air = NoAir
  /\ mode' = reqop
  /\ tec' = IF reqop = "config" THEN 0 ELSE tec
  /\ UNCHANGED <<ready, reqop, rate, txb, air, rxb, call, history>>

----------------------------------------------------------------------------
Driver ==
  \/ SendScan \/ SendLoad \/ SendBusy
  \/ ReadData \/ ReadClear
  \/ SetRate \/ SetRateFails \/ SetMode \/ SetModeReturns

Next ==
  \/ ResponseTimeout
  \/ \E c \in Callers : StartSend(c)
  \/ StartRead
  \/ \E m \in BusModes : SetBusMode(m)
  \/ Driver
  \/ Transmit \/ Acknowledged \/ NotAcknowledged \/ Receive \/ EnterMode

Spec == Init /\ [][Next]_vars

(* Calls return, the controller works, and the poll that `obd` starts comes  *)
(* round again in the main loop however often others call the driver in     *)
(* between. Nothing is assumed of acknowledgement, nor of the shell.        *)
Fairness ==
  /\ WF_vars(Driver)
  /\ WF_vars(Transmit)
  /\ WF_vars(Acknowledged \/ NotAcknowledged)
  /\ SF_vars(StartSend("obd"))

FairSpec == Spec /\ Fairness

----------------------------------------------------------------------------
(* Every variable is in the range of its register or of its role, and       *)
(* sendFrame tries no more often than kTxRetries (src/diag_shell.cpp:1194). *)
TypeOK ==
  /\ ready \in BOOLEAN
  /\ reqop \in Modes /\ mode \in Modes /\ rate \in Rates
  /\ txb \in [TxBufs -> Outgoing \cup {Free}]
  /\ rxb \in [RxBufs -> Incoming \cup {Free}]
  /\ air \in [buf : TxBufs, frame : Outgoing \cup {Free}]
  /\ tec \in 0 .. PassiveAt
  /\ call.op \in {"scan", "load", "busy"} => call.buf \in TxBufs /\ call.attempt \in 1 .. TxRetries
  /\ queued \in Seq(Outgoing) /\ waiting \subseteq Incoming

(* A frame that send has accepted stays latched until it has gone or has     *)
(* been given up: a buffer is never overwritten, although the controller     *)
(* frees and takes buffers while send looks for one                          *)
(* (src/mcp2515.cpp:212-251). And whatever has gone or been given up, at a   *)
(* timeout, after the last retry or by the rescue of send, is in no buffer   *)
(* any more, so that no later acknowledgement can bring it back: it "goes    *)
(* out the moment the bus comes up: a stale session-open, or worse a stale   *)
(* write, arriving long after we told the user it timed out"                 *)
(* (src/diag_shell.cpp:106-115).                                             *)
LatchedIsQueued == LatchedFrames = ToSet(queued)

(* Every frame the controller kept is handed up exactly once: it is still   *)
(* held until the call that reads it takes it, and clearing a flag never     *)
(* throws away a frame that has arrived during the read                     *)
(* (src/mcp2515.cpp:181-209).                                               *)
ReceivedStaysHeld == waiting = HeldFrames

(* Once setBusMode has returned, the mode asked for last is the one the      *)
(* shell asked for, whichever of its steps failed: the controller is never   *)
(* left in configuration mode, deaf and mute (src/diag_shell.cpp:1174-1184). *)
ModeAsAsked == ready /\ call = Idle => reqop = target.mode

(* Three latched buffers do not shut the transmitter for ever: while the     *)
(* shell asks for normal mode, one of them is freed, by an acknowledgement   *)
(* or by the rescue of send once nothing acknowledges                        *)
(* (src/mcp2515.cpp:221-229).                                                *)
AllLatched == \A i \in TxBufs : txb[i] # Free
BusyEnds == ready /\ AllLatched ~> ~AllLatched \/ mode # "normal" \/ reqop # "normal"

(* Descending priorities are programmed because equal ones "reversed the     *)
(* consecutive frames of every multi-frame ISO-TP request"                   *)
(* (src/mcp2515.cpp:101-107): frames leave in the order they were accepted.  *)
SentInOrder ==
  [][\A f \in ToSet(queued) : f = air.frame /\ Acknowledged => f = Head(queued)]_vars
=============================================================================
