--------------------------- MODULE Mcp2515Proofs ----------------------------
(***************************************************************************)
(* The promises of the CAN driver for any number of frames and retries:    *)
(* what the controller received is handed up and nothing else is thrown    *)
(* away, setBusMode leaves the mode it was asked for, and the frames that  *)
(* are latched are those send accepted and nothing has dropped.            *)
(*                                                                         *)
(* The first is inductive with what a read that is under way has seen: the *)
(* frame it copied is still in its buffer until the flag is cleared, and no *)
(* frame is in both buffers. The second needs to follow the mode through   *)
(* the call that sets it. The third rests on the buffer that send has      *)
(* found free staying so until it is loaded, and on the frame on the wire  *)
(* never being given to another one while it is there.                     *)
(***************************************************************************)
EXTENDS Mcp2515, FiniteSetTheorems, SequenceTheorems, TLAPS

(* The smallest number of a frame that is not in the two buffers. *)
LEMMA NewFrame ==
  ASSUME NEW a, NEW b
  PROVE  /\ Least(Incoming \ {a, b}) \in Incoming \ {a, b}
         /\ Least(Incoming \ {a, b}) # Free
<1>1. Incoming \subseteq Nat /\ {1, 2, 3} \subseteq Incoming /\ Free \notin Incoming
  <2>1. Cardinality(Incoming) \in Nat
    BY IncomingAssumption, FS_CardinalityType
  <2> QED BY <2>1, IncomingAssumption DEF Free
<1>2. Incoming \ {a, b} # {}
  BY <1>1
<1>3. \E n \in Incoming \ {a, b} : \A m \in Incoming \ {a, b} : n <= m
  BY <1>1, <1>2
<1>4. Least(Incoming \ {a, b}) \in Incoming \ {a, b}
  BY <1>3 DEF Least
<1> QED BY <1>1, <1>4

----------------------------------------------------------------------------
(* What was received is in a buffer, once. *)
Reading ==
  /\ rxb \in [RxBufs -> Incoming \cup {Free}]
  /\ rxb[0] = rxb[1] => rxb[0] = Free
  /\ call.op \in {"data", "clear"} => call.buf \in RxBufs /\ rxb[call.buf] # Free
  /\ call.op = "clear" => call.frame = rxb[call.buf]

RxInv == Reading /\ ReceivedStaysHeld

LEMMA Held == ASSUME Reading PROVE HeldFrames = {rxb[0], rxb[1]} \ {Free}
BY DEF HeldFrames, RxBufs

LEMMA ReceiveInv == ASSUME RxInv, Receive PROVE RxInv'
<1> DEFINE f == Least(Incoming \ (waiting \cup HeldFrames))
<1>1. waiting \cup HeldFrames = {rxb[0], rxb[1]} \ {Free}
  BY Held DEF RxInv, ReceivedStaysHeld
<1>2. Incoming \ (waiting \cup HeldFrames) = Incoming \ {rxb[0], rxb[1]}
  <2>1. Free \notin Incoming
    BY IncomingAssumption, FS_CardinalityType DEF Free
  <2> QED BY <1>1, <2>1
<1>3. f \in Incoming /\ f \notin {rxb[0], rxb[1]} /\ f # Free
  BY <1>2, NewFrame
<1> HIDE DEF f
<1>4. UNCHANGED call
  BY DEF Receive
<1>5. PICK i \in RxBufs : rxb[i] = Free /\ rxb' = [rxb EXCEPT ![i] = f] /\ waiting' = waiting \cup {f}
  BY DEF Receive, f, RxBufs
<1>6. Reading'
  BY <1>3, <1>4, <1>5 DEF RxInv, Reading, RxBufs, Free
<1>7. HeldFrames' = HeldFrames \cup {f}
  BY <1>3, <1>5 DEF HeldFrames, RxInv, Reading
<1> QED BY <1>5, <1>6, <1>7 DEF RxInv, ReceivedStaysHeld

LEMMA ReadClearInv == ASSUME RxInv, ReadClear PROVE RxInv'
<1>1. /\ call.buf \in RxBufs /\ rxb[call.buf] # Free /\ call.frame = rxb[call.buf]
      /\ rxb' = [rxb EXCEPT ![call.buf] = Free] /\ waiting' = waiting \ {call.frame}
      /\ call' = Idle
  BY DEF RxInv, Reading, ReadClear, Cleared
<1>2. Reading'
  BY <1>1 DEF RxInv, Reading, Idle, RxBufs, Free
<1>3. HeldFrames' = HeldFrames \ {call.frame}
  BY <1>1 DEF HeldFrames, RxInv, Reading, RxBufs
<1> QED BY <1>1, <1>2, <1>3 DEF RxInv, ReceivedStaysHeld

LEMMA StartReadInv == ASSUME RxInv, StartRead PROVE RxInv'
<1>1. rxb[0] # Free \/ rxb[1] # Free
  BY Held DEF StartRead, RxInv
<1>2. call'.op = "data" /\ call'.buf \in RxBufs /\ rxb[call'.buf] # Free /\ UNCHANGED <<rxb, waiting>>
  BY <1>1 DEF StartRead, RxBufs, chip, history
<1> QED BY <1>2 DEF RxInv, Reading, ReceivedStaysHeld, HeldFrames

LEMMA ReadDataInv == ASSUME RxInv, ReadData PROVE RxInv'
<1>1. /\ call'.op = "clear" /\ call'.buf = call.buf /\ call'.frame = rxb[call.buf]
      /\ UNCHANGED <<rxb, waiting>> /\ call.op = "data"
  BY DEF ReadData, chip, history
<1> QED BY <1>1 DEF RxInv, Reading, ReceivedStaysHeld, HeldFrames

(* The other calls and the other steps of the controller. *)
LEMMA ElsewhereInv ==
  ASSUME RxInv, UNCHANGED <<rxb, waiting>>, call' = call \/ call'.op \notin {"data", "clear"}
  PROVE  RxInv'
BY DEF RxInv, Reading, ReceivedStaysHeld, HeldFrames

LEMMA RxInvStep == ASSUME RxInv, [Next]_vars PROVE RxInv'
<1> USE DEF chip, history, Idle
<1>1. CASE ResponseTimeout
  BY <1>1, ElsewhereInv DEF ResponseTimeout
<1>2. ASSUME NEW c \in Callers, StartSend(c) PROVE RxInv'
  BY <1>2, ElsewhereInv DEF StartSend
<1>3. CASE SendScan
  BY <1>3, ElsewhereInv DEF SendScan
<1>4. CASE SendLoad
  BY <1>4, ElsewhereInv DEF SendLoad
<1>5. CASE SendBusy
  BY <1>5, ElsewhereInv DEF SendBusy
<1>6. ASSUME NEW m \in BusModes, SetBusMode(m) PROVE RxInv'
  BY <1>6, ElsewhereInv DEF SetBusMode
<1>7. CASE SetRate
  BY <1>7, ElsewhereInv DEF SetRate
<1>8. CASE SetRateFails
  BY <1>8, ElsewhereInv DEF SetRateFails, AfterFailedRate
<1>9. CASE SetMode
  BY <1>9, ElsewhereInv DEF SetMode
<1>10. CASE SetModeReturns
  BY <1>10, ElsewhereInv DEF SetModeReturns
<1>11. CASE Transmit \/ Acknowledged \/ NotAcknowledged \/ EnterMode
  BY <1>11, ElsewhereInv DEF Transmit, Acknowledged, NotAcknowledged, EnterMode
<1>12. CASE UNCHANGED vars
  BY <1>12, ElsewhereInv DEF vars
<1> QED BY <1>1, <1>2, <1>3, <1>4, <1>5, <1>6, <1>7, <1>8, <1>9, <1>10, <1>11, <1>12,
           ReceiveInv, StartReadInv, ReadDataInv, ReadClearInv DEF Next, Driver

(* Every frame the controller kept is handed up exactly once, and clearing a *)
(* flag throws none away (mcp2515.cpp:181-209).                              *)
THEOREM ReceivedOnce == Spec => []ReceivedStaysHeld
<1>1. Init => RxInv
  BY DEF Init, RxInv, Reading, ReceivedStaysHeld, HeldFrames, RxBufs, Idle
<1>2. RxInv /\ [Next]_vars => RxInv'
  BY RxInvStep
<1>3. RxInv => ReceivedStaysHeld
  BY DEF RxInv
<1> QED BY <1>1, <1>2, <1>3, PTL DEF Spec

----------------------------------------------------------------------------
(* The mode asked for is the one the call under way will ask for. *)
ModeInv ==
  IF call.op \in {"rate", "mode"} THEN call.mode = target.mode ELSE reqop = target.mode

(* Whether setBaudRate reaches configuration mode or not, when setBusMode    *)
(* returns the last mode asked for is its own (diag_shell.cpp:1174-1184).    *)
THEOREM ModeLeftAsAsked == Spec => []ModeAsAsked
<1>1. Init => ModeInv
  BY DEF Init, ModeInv, Idle, NoTarget
<1>2. ModeInv /\ [Next]_vars => ModeInv'
  <2> SUFFICES ASSUME ModeInv, [Next]_vars PROVE ModeInv'
    OBVIOUS
  <2> USE DEF ModeInv, chip, history, Idle
  <2>1. CASE ResponseTimeout
    BY <2>1 DEF ResponseTimeout
  <2>2. ASSUME NEW c \in Callers, StartSend(c) PROVE ModeInv'
    BY <2>2 DEF StartSend
  <2>3. CASE SendScan
    BY <2>3 DEF SendScan
  <2>4. CASE SendLoad
    BY <2>4 DEF SendLoad
  <2>5. CASE SendBusy
    BY <2>5 DEF SendBusy
  <2>6. CASE StartRead \/ ReadData \/ ReadClear
    BY <2>6 DEF StartRead, ReadData, ReadClear
  <2>7. ASSUME NEW m \in BusModes, SetBusMode(m) PROVE ModeInv'
    BY <2>7 DEF SetBusMode
  <2>8. CASE SetRate
    BY <2>8 DEF SetRate
  <2>9. CASE SetRateFails
    BY <2>9 DEF SetRateFails, AfterFailedRate
  <2>10. CASE SetMode
    BY <2>10 DEF SetMode
  <2>11. CASE SetModeReturns
    BY <2>11 DEF SetModeReturns
  <2>12. CASE Transmit \/ Acknowledged \/ NotAcknowledged \/ Receive \/ EnterMode
    BY <2>12 DEF Transmit, Acknowledged, NotAcknowledged, Receive, EnterMode
  <2>13. CASE UNCHANGED vars
    BY <2>13 DEF vars
  <2> QED BY <2>1, <2>2, <2>3, <2>4, <2>5, <2>6, <2>7, <2>8, <2>9, <2>10, <2>11, <2>12, <2>13
          DEF Next, Driver
<1>3. ModeInv => ModeAsAsked
  BY DEF ModeInv, ModeAsAsked, Idle
<1> QED BY <1>1, <1>2, <1>3, PTL DEF Spec

----------------------------------------------------------------------------
(* What is latched is what was accepted and has not gone. *)

Calls ==
       [op : {"idle", "poll"}]
  \cup [op : {"scan", "load", "busy"}, buf : TxBufs, caller : Callers, attempt : 1 .. TxRetries]
  \cup [op : {"data"}, buf : RxBufs]
  \cup [op : {"clear"}, buf : RxBufs, frame : Incoming \cup {Free}]
  \cup [op : {"rate", "mode"}, prev : Modes, rate : Rates, mode : Modes]

Once(q) == \A i, j \in 1 .. Len(q) : q[i] = q[j] => i = j

Registers ==
  /\ ready \in BOOLEAN
  /\ reqop \in Modes /\ mode \in Modes /\ rate \in Rates /\ tec \in 0 .. PassiveAt
  /\ air \in [buf : TxBufs, frame : Outgoing \cup {Free}]
  /\ rxb \in [RxBufs -> Incoming \cup {Free}]
  /\ call \in Calls

Queue ==
  /\ txb \in [TxBufs -> Outgoing \cup {Free}]
  /\ \A i, j \in TxBufs : txb[i] = txb[j] => i = j \/ txb[i] = Free
  /\ air.frame \in LatchedFrames => txb[air.buf] = air.frame
  /\ call.op = "load" => txb[call.buf] = Free
  /\ queued \in Seq(Outgoing) /\ Once(queued)
  /\ LatchedIsQueued

LEMMA Numbers ==
  /\ Outgoing \subseteq Nat /\ 1 .. 5 \subseteq Outgoing /\ Free \notin Outgoing
  /\ Incoming \subseteq Nat /\ Free \notin Incoming
<1>1. Cardinality(Outgoing) \in Nat /\ Cardinality(Incoming) \in Nat
  BY OutgoingAssumption, IncomingAssumption, FS_CardinalityType
<1> QED BY <1>1, OutgoingAssumption, IncomingAssumption DEF Free

(* There is always a number for the next frame: the three buffers and the    *)
(* wire hold four at most.                                                   *)
LEMMA NextIsNew ==
  ASSUME Registers, Queue
  PROVE  /\ NextOutgoing \in Outgoing /\ NextOutgoing # Free
         /\ NextOutgoing \notin LatchedFrames /\ NextOutgoing \notin ToSet(queued)
         /\ NextOutgoing # air.frame
<1> DEFINE S == Outgoing \ {txb[0], txb[1], txb[2], air.frame}
<1>1. LatchedFrames \cup ToSet(queued) \cup {air.frame} = ({txb[0], txb[1], txb[2]} \ {Free}) \cup {air.frame}
  BY DEF Queue, LatchedIsQueued, LatchedFrames, TxBufs
<1>2. Outgoing \ (LatchedFrames \cup ToSet(queued) \cup {air.frame}) = S
  BY <1>1, Numbers
<1>4. \E n \in S : \A m \in S : n <= m
  <2>1. {1, 2, 3, 4, 5} \subseteq Outgoing /\ \A m \in Outgoing : m \in Nat /\ m # 0
    BY Numbers DEF Free
  <2>2. \A m \in S : m \in Nat /\ m # 0
    BY <2>1
  <2>3. CASE 1 \in S
    BY <2>2, <2>3
  <2>4. CASE 1 \notin S /\ 2 \in S
    BY <2>2, <2>4
  <2>5. CASE 1 \notin S /\ 2 \notin S /\ 3 \in S
    BY <2>2, <2>5
  <2>6. CASE 1 \notin S /\ 2 \notin S /\ 3 \notin S /\ 4 \in S
    BY <2>2, <2>6
  <2>7. CASE 1 \notin S /\ 2 \notin S /\ 3 \notin S /\ 4 \notin S
    <3>1. 5 \in S
      BY <2>1, <2>7
    <3> QED BY <2>2, <2>7, <3>1
  <2> QED BY <2>3, <2>4, <2>5, <2>6, <2>7
<1> HIDE DEF S
<1>5. Least(S) \in S
  BY <1>4 DEF Least
<1>6. NextOutgoing \in S
  BY <1>2, <1>5 DEF NextOutgoing
<1>7. NextOutgoing \notin LatchedFrames
  BY <1>6 DEF S, LatchedFrames, TxBufs
<1> QED BY <1>6, <1>7, Numbers DEF S, Queue, LatchedIsQueued

(* A queue without one of its frames.                                        *)
LEMMA QueueWithout ==
  ASSUME NEW q \in Seq(Outgoing), Once(q), NEW n \in 1 .. Len(q), NEW r, r = RemoveAt(q, n)
  PROVE  r \in Seq(Outgoing) /\ Once(r) /\ ToSet(r) = ToSet(q) \ {q[n]}
<1>1. n \in Nat /\ 1 <= n /\ n <= Len(q) /\ Len(q) \in Nat
  OBVIOUS
<1> DEFINE x == SubSeq(q, 1, n - 1)
           y == SubSeq(q, n + 1, Len(q))
<1>3. x \in Seq(Outgoing) /\ Len(x) = n - 1 /\ \A i \in 1 .. n - 1 : x[i] = q[i]
  BY <1>1
<1>4. y \in Seq(Outgoing) /\ Len(y) = Len(q) - n /\ \A i \in 1 .. Len(q) - n : y[i] = q[i + n]
  BY <1>1
<1>5. r = x \o y
  BY DEF RemoveAt
<1> HIDE DEF x, y
<1>6. /\ x \o y \in Seq(Outgoing) /\ Len(x \o y) = Len(x) + Len(y)
      /\ \A i \in 1 .. Len(x) + Len(y) : (x \o y)[i] = IF i <= Len(x) THEN x[i] ELSE y[i - Len(x)]
  BY <1>3, <1>4, ConcatProperties
<1>7. r \in Seq(Outgoing) /\ Len(r) = Len(q) - 1 /\ Len(q) \in Nat \ {0}
  BY <1>1, <1>3, <1>4, <1>5, <1>6
<1>8. ASSUME NEW i \in 1 .. Len(r) PROVE r[i] = IF i < n THEN q[i] ELSE q[i + 1]
  <2>1. i \in 1 .. Len(x) + Len(y) /\ Len(x) = n - 1
    BY <1>3, <1>5, <1>6
  <2>2. CASE i < n
    BY <1>1, <1>3, <1>5, <1>6, <2>1, <2>2
  <2>3. CASE ~(i < n)
    <3>1. i - Len(x) \in 1 .. Len(q) - n /\ (i - Len(x)) + n = i + 1
      BY <1>1, <1>4, <2>1, <2>3
    <3>2. y[i - Len(x)] = q[i + 1]
      BY <1>4, <3>1
    <3> QED BY <1>1, <1>5, <1>6, <2>1, <2>3, <3>2
  <2> QED BY <2>2, <2>3
<1>9. Once(r)
  <2> SUFFICES ASSUME NEW i \in 1 .. Len(r), NEW j \in 1 .. Len(r), r[i] = r[j] PROVE i = j
    BY DEF Once
  <2> DEFINE h(k) == IF k < n THEN k ELSE k + 1
  <2>1. h(i) \in 1 .. Len(q) /\ h(j) \in 1 .. Len(q) /\ r[i] = q[h(i)] /\ r[j] = q[h(j)]
    BY <1>1, <1>7, <1>8
  <2>2. h(i) = h(j)
    BY <2>1 DEF Once
  <2> QED BY <1>1, <2>2
<1>10. ToSet(r) = ToSet(q) \ {q[n]}
  <2>1. ASSUME NEW i \in 1 .. Len(r) PROVE r[i] \in ToSet(q) \ {q[n]}
    <3>1. \E k \in 1 .. Len(q) : k # n /\ r[i] = q[k]
      <4>1. CASE i < n
        BY <1>1, <1>7, <1>8, <4>1
      <4>2. CASE ~(i < n)
        <5>1. i + 1 \in 1 .. Len(q) /\ i + 1 # n
          BY <1>1, <1>7, <4>2
        <5> QED BY <1>8, <4>2, <5>1
      <4> QED BY <4>1, <4>2
    <3>2. PICK k \in 1 .. Len(q) : k # n /\ r[i] = q[k]
      BY <3>1
    <3>3. q[k] # q[n]
      BY <1>1, <3>2 DEF Once
    <3> QED BY <3>2, <3>3 DEF ToSet
  <2>2. ASSUME NEW k \in 1 .. Len(q), q[k] # q[n] PROVE \E i \in 1 .. Len(r) : r[i] = q[k]
    <3>1. CASE k < n
      <4>1. k \in 1 .. Len(r)
        BY <1>1, <1>7, <3>1
      <4> QED BY <1>8, <3>1, <4>1
    <3>2. CASE n < k
      <4>1. k - 1 \in 1 .. Len(r) /\ ~(k - 1 < n) /\ (k - 1) + 1 = k
        BY <1>1, <1>7, <3>2
      <4>2. r[k - 1] = q[(k - 1) + 1]
        BY <1>8, <4>1
      <4> QED BY <4>1, <4>2
    <3>3. k # n
      BY <1>1, <2>2
    <3> QED BY <1>1, <3>1, <3>2, <3>3
  <2>3. DOMAIN r = 1 .. Len(r) /\ DOMAIN q = 1 .. Len(q)
    BY <1>7
  <2>4. \A e : e \in ToSet(r) <=> \E i \in 1 .. Len(r) : r[i] = e
    BY <2>3 DEF ToSet
  <2>5. \A e : e \in ToSet(q) <=> \E k \in 1 .. Len(q) : q[k] = e
    BY <2>3 DEF ToSet
  <2>6. ASSUME NEW e \in ToSet(r) PROVE e \in ToSet(q) \ {q[n]}
    BY <2>1, <2>4, <2>6
  <2>7. ASSUME NEW e \in ToSet(q) \ {q[n]} PROVE e \in ToSet(r)
    BY <2>2, <2>4, <2>5, <2>7
  <2> QED BY <2>6, <2>7
<1> QED BY <1>7, <1>9, <1>10

LEMMA QueueDrops ==
  ASSUME NEW q \in Seq(Outgoing), Once(q), NEW f \in ToSet(q)
  PROVE  LET r == RemoveAt(q, CHOOSE i \in DOMAIN q : q[i] = f)
         IN  r \in Seq(Outgoing) /\ Once(r) /\ ToSet(r) = ToSet(q) \ {f}
<1> DEFINE n == CHOOSE i \in DOMAIN q : q[i] = f
<1>1. n \in 1 .. Len(q) /\ q[n] = f
  BY DEF ToSet
<1> HIDE DEF n
<1>2. RemoveAt(q, n) \in Seq(Outgoing) /\ Once(RemoveAt(q, n)) /\ ToSet(RemoveAt(q, n)) = ToSet(q) \ {q[n]}
  BY <1>1, QueueWithout
<1> QED BY <1>1, <1>2 DEF n

LEMMA QueueGrows ==
  ASSUME NEW q \in Seq(Outgoing), Once(q), NEW f \in Outgoing, f \notin ToSet(q)
  PROVE  Append(q, f) \in Seq(Outgoing) /\ Once(Append(q, f)) /\ ToSet(Append(q, f)) = ToSet(q) \cup {f}
<1> DEFINE r == Append(q, f)
<1>1. /\ r \in Seq(Outgoing) /\ Len(r) = Len(q) + 1 /\ Len(q) \in Nat
      /\ r[Len(q) + 1] = f /\ \A i \in 1 .. Len(q) : r[i] = q[i]
  OBVIOUS
<1> HIDE DEF r
<1>2. /\ DOMAIN r = 1 .. Len(r) /\ DOMAIN q = 1 .. Len(q)
      /\ 1 .. Len(r) = (1 .. Len(q)) \cup {Len(q) + 1}
  BY <1>1
<1>3. \A i \in 1 .. Len(q) : q[i] # f
  BY <1>2 DEF ToSet
<1>4. Once(r)
  BY <1>1, <1>2, <1>3 DEF Once
<1>5. ToSet(r) = ToSet(q) \cup {f}
  BY <1>1, <1>2 DEF ToSet
<1> QED BY <1>1, <1>4, <1>5 DEF r

TxInv == Registers /\ Queue /\ RxInv

(* Nothing of the queue or of the transmit buffers changes. *)
LEMMA QueueKept ==
  ASSUME Queue, UNCHANGED <<txb, queued>>,
         air' = air \/ air'.frame \notin LatchedFrames \/ txb[air'.buf] = air'.frame,
         call'.op = "load" => txb[call'.buf] = Free
  PROVE  Queue'
<1>1. LatchedFrames' = LatchedFrames
  BY DEF LatchedFrames
<1> QED BY <1>1 DEF Queue, LatchedIsQueued

LEMMA NothingLatched ==
  ASSUME Queue, RecoverBus, UNCHANGED air, call'.op # "load"
  PROVE  Queue'
<1>1. txb' = [i \in TxBufs |-> Free] /\ queued' = <<>>
  BY DEF RecoverBus
<1>2. LatchedFrames' = {}
  BY <1>1 DEF LatchedFrames
<1>3. queued' \in Seq(Outgoing) /\ Once(queued') /\ ToSet(queued') = {}
  BY <1>1 DEF Once, ToSet
<1> QED BY <1>1, <1>2, <1>3 DEF Queue, LatchedIsQueued

(* The buffer that was found free is still free when it is loaded. *)
LEMMA SendLoadQueue == ASSUME TxInv, SendLoad PROVE Queue'
<1> DEFINE f == NextOutgoing
<1>1. /\ f \in Outgoing /\ f # Free /\ f \notin LatchedFrames /\ f \notin ToSet(queued)
      /\ f # air.frame
  BY NextIsNew DEF TxInv
<1>2. call.buf \in TxBufs /\ txb[call.buf] = Free
  BY DEF TxInv, Registers, Queue, SendLoad, Calls
<1>3. /\ txb' = [txb EXCEPT ![call.buf] = f] /\ queued' = Append(queued, f)
      /\ air' = air /\ call'.op = "idle"
  BY DEF SendLoad, Idle
<1> HIDE DEF f
<1>4. queued' \in Seq(Outgoing) /\ Once(queued') /\ ToSet(queued') = ToSet(queued) \cup {f}
  BY <1>1, <1>3, QueueGrows DEF TxInv, Queue
<1>5. txb \in [TxBufs -> Outgoing \cup {Free}] /\ txb' \in [TxBufs -> Outgoing \cup {Free}]
  BY <1>1, <1>3 DEF TxInv, Queue
<1>6. \A i \in TxBufs : txb'[i] = IF i = call.buf THEN f ELSE txb[i]
  BY <1>3, <1>5
<1>7. LatchedFrames' = LatchedFrames \cup {f}
  BY <1>1, <1>2, <1>6 DEF LatchedFrames
<1>8. \A i \in TxBufs : txb[i] # f
  BY <1>1 DEF LatchedFrames
<1>9. \A i, j \in TxBufs : txb'[i] = txb'[j] => i = j \/ txb'[i] = Free
  BY <1>6, <1>8 DEF TxInv, Queue
<1>10. air'.frame \in LatchedFrames' => txb'[air'.buf] = air'.frame
  <2> SUFFICES ASSUME air.frame \in LatchedFrames' PROVE txb'[air.buf] = air.frame
    BY <1>3
  <2>1. air.frame \in LatchedFrames /\ air.buf \in TxBufs
    BY <1>1, <1>7 DEF TxInv, Registers
  <2>2. txb[air.buf] = air.frame /\ air.frame # Free
    BY <2>1 DEF TxInv, Queue, LatchedFrames
  <2> QED BY <1>2, <1>6, <2>1, <2>2
<1> QED BY <1>3, <1>4, <1>5, <1>7, <1>9, <1>10 DEF Queue, LatchedIsQueued, TxInv

(* A frame that has gone leaves its buffer and the queue together: a frame  *)
(* still queued is latched, and the one on the wire in its own buffer.       *)
LEMMA AcknowledgedQueue == ASSUME TxInv, Acknowledged PROVE Queue'
<1> DEFINE f == air.frame
<1>1. /\ air.buf \in TxBufs /\ txb \in [TxBufs -> Outgoing \cup {Free}]
      /\ f \in LatchedFrames => txb[air.buf] = f
      /\ ToSet(queued) = LatchedFrames /\ queued \in Seq(Outgoing) /\ Once(queued)
  BY DEF TxInv, Registers, Queue, LatchedIsQueued
<1>2. air' = NoAir /\ call' = call
  BY DEF Acknowledged
<1>3. Free \notin LatchedFrames'
  BY DEF LatchedFrames
<1>4. call.op = "load" => txb[call.buf] = Free
  BY DEF TxInv, Queue
<1>5. CASE f \in LatchedFrames
  <2>1. txb[air.buf] = f /\ f # Free
    BY <1>1, <1>5 DEF LatchedFrames
  <2>2. txb' = [txb EXCEPT ![air.buf] = Free]
    BY <2>1 DEF Acknowledged
  <2>3. queued' = RemoveAt(queued, CHOOSE i \in DOMAIN queued : queued[i] = f)
    BY <1>1, <1>5 DEF Acknowledged
  <2> HIDE DEF f
  <2>4. queued' \in Seq(Outgoing) /\ Once(queued') /\ ToSet(queued') = ToSet(queued) \ {f}
    BY <1>1, <1>5, <2>3, QueueDrops
  <2>5. txb' \in [TxBufs -> Outgoing \cup {Free}] /\ \A i \in TxBufs : txb'[i] = IF i = air.buf THEN Free ELSE txb[i]
    BY <1>1, <2>2
  <2>6. \A i, j \in TxBufs : txb[i] = txb[j] => i = j \/ txb[i] = Free
    BY DEF TxInv, Queue
  <2>7. \A i, j \in TxBufs : txb'[i] = txb'[j] => i = j \/ txb'[i] = Free
    BY <2>5, <2>6
  <2>8. LatchedFrames' = LatchedFrames \ {f}
    BY <1>1, <2>1, <2>5, <2>6 DEF LatchedFrames
  <2>9. call.op = "load" => call.buf \in TxBufs
    BY DEF TxInv, Registers, Calls
  <2> QED BY <1>1, <1>2, <1>3, <1>4, <2>4, <2>5, <2>7, <2>8, <2>9 DEF Queue, LatchedIsQueued, NoAir
<1>6. CASE f \notin LatchedFrames
  <2>1. queued' = queued
    BY <1>1, <1>6 DEF Acknowledged
  <2>2. txb' = txb
    <3>1. txb[air.buf] = f => f = Free
      BY <1>1, <1>6 DEF LatchedFrames
    <3>2. CASE txb[air.buf] # f
      BY <3>2 DEF Acknowledged
    <3>3. CASE txb[air.buf] = f
      <4>1. txb' = [txb EXCEPT ![air.buf] = txb[air.buf]]
        BY <3>1, <3>3 DEF Acknowledged
      <4> QED BY <1>1, <4>1
    <3> QED BY <3>2, <3>3
  <2>3. air'.frame \notin LatchedFrames
    BY <1>2 DEF NoAir, LatchedFrames
  <2> QED BY <1>2, <1>4, <2>1, <2>2, <2>3, QueueKept DEF TxInv
<1> QED BY <1>5, <1>6

LEMMA TransmitQueue == ASSUME TxInv, Transmit PROVE Queue' /\ air' \in [buf : TxBufs, frame : Outgoing \cup {Free}]
<1> DEFINE S == {j \in TxBufs : txb[j] # Free}
           n == Least(S)
<1>1. air' = [buf |-> n, frame |-> txb[n]] /\ UNCHANGED <<txb, queued, call>>
  BY DEF Transmit, history
<1>2. S # {}
  BY DEF Transmit, LatchedFrames
<1>3. \E k \in S : \A m \in S : k <= m
  BY <1>2 DEF TxBufs
<1>4. n \in S
  BY <1>3 DEF Least
<1> HIDE DEF n
<1>5. n \in TxBufs /\ txb[n] \in Outgoing \cup {Free}
  BY <1>4 DEF TxInv, Queue
<1>6. air'.buf = n /\ air'.frame = txb[n]
  BY <1>1
<1>7. Queue'
  BY <1>1, <1>6, QueueKept DEF TxInv, Queue
<1> QED BY <1>1, <1>5, <1>7

(* A call that starts, goes on or returns without touching the registers.    *)
LEMMA CallGoesOn ==
  ASSUME TxInv, UNCHANGED <<ready, chip, queued>>, call' \in Calls,
         call'.op = "load" => txb[call'.buf] = Free
  PROVE  Registers' /\ Queue'
BY QueueKept DEF TxInv, Registers, chip

LEMMA SendStep ==
  ASSUME TxInv, (\E c \in Callers : StartSend(c)) \/ SendScan \/ SendLoad \/ SendBusy \/ ResponseTimeout
  PROVE  Registers' /\ Queue'
<1>0. TxRetries \in Nat /\ TxRetries >= 1 /\ Idle \in Calls /\ call \in Calls
  BY BoundsAssumption DEF Idle, Calls, TxInv, Registers
<1>1. ASSUME NEW c \in Callers, StartSend(c) PROVE Registers' /\ Queue'
  <2>1. call' = [op |-> "scan", buf |-> 0, caller |-> c, attempt |-> 1] /\ UNCHANGED <<ready, chip, queued>>
    BY <1>1 DEF StartSend, history
  <2>2. call' \in Calls
    BY <1>0, <2>1 DEF Calls, TxBufs
  <2> QED BY <2>1, <2>2, CallGoesOn
<1>2. CASE SendScan
  <2>1. call \in [op : {"scan", "load", "busy"}, buf : TxBufs, caller : Callers, attempt : 1 .. TxRetries]
    BY <1>0, <1>2 DEF SendScan, Calls
  <2>2. UNCHANGED <<ready, chip, queued>>
    BY <1>2 DEF SendScan, history
  <2>3. CASE ~Taken(call.buf)
    <3>1. call' = [call EXCEPT !.op = "load"]
      BY <1>2, <2>3 DEF SendScan
    <3>2. call' \in Calls /\ txb[call'.buf] = Free
      BY <2>1, <2>3, <3>1 DEF Calls, Taken
    <3> QED BY <2>2, <3>2, CallGoesOn
  <2>4. CASE Taken(call.buf) /\ call.buf = 2
    <3>1. call' = [call EXCEPT !.op = "busy"]
      BY <1>2, <2>4 DEF SendScan
    <3>2. call' \in Calls /\ call'.op # "load"
      BY <2>1, <3>1 DEF Calls
    <3> QED BY <2>2, <3>2, CallGoesOn
  <2>5. CASE Taken(call.buf) /\ call.buf # 2
    <3>1. call' = [call EXCEPT !.buf = call.buf + 1]
      BY <1>2, <2>5 DEF SendScan
    <3>2. call.buf + 1 \in TxBufs
      BY <2>1, <2>5 DEF TxBufs
    <3>3. call' \in Calls /\ call'.op = "scan"
      BY <1>2, <2>1, <3>1, <3>2 DEF Calls, SendScan
    <3> QED BY <2>2, <3>3, CallGoesOn
  <2> QED BY <2>3, <2>4, <2>5
<1>3. CASE SendLoad
  <2>1. call' = Idle /\ UNCHANGED <<ready, reqop, mode, rate, air, tec, rxb>>
    BY <1>3 DEF SendLoad
  <2> QED BY <1>0, <1>3, <2>1, SendLoadQueue DEF TxInv, Registers
<1>4. CASE SendBusy
  <2>1. call \in [op : {"scan", "load", "busy"}, buf : TxBufs, caller : Callers, attempt : 1 .. TxRetries]
    BY <1>0, <1>4 DEF SendBusy, Calls
  <2>2. call' \in Calls /\ call'.op # "load"
    <3>1. CASE MayRetry(call)
      <4>1. call' = [call EXCEPT !.op = "scan", !.buf = 0, !.attempt = call.attempt + 1]
        BY <1>4, <3>1 DEF SendBusy
      <4>2. call.attempt + 1 \in 1 .. TxRetries /\ 0 \in TxBufs
        BY <1>0, <2>1, <3>1 DEF MayRetry, TxBufs
      <4> QED BY <2>1, <4>1, <4>2 DEF Calls
    <3>2. CASE ~MayRetry(call)
      BY <1>0, <1>4, <3>2 DEF SendBusy, Idle
    <3> QED BY <3>1, <3>2
  <2>3. UNCHANGED <<ready, reqop, mode, rate, air, tec, rxb>> /\ (RecoverBus \/ UNCHANGED <<txb, queued>>)
    BY <1>4 DEF SendBusy
  <2>4. Queue'
    BY <2>2, <2>3, NothingLatched, QueueKept DEF TxInv
  <2> QED BY <2>2, <2>3, <2>4 DEF TxInv, Registers
<1>5. CASE ResponseTimeout
  <2>1. RecoverBus /\ UNCHANGED <<ready, reqop, mode, rate, air, tec, rxb, call>> /\ call.op # "load"
    BY <1>5 DEF ResponseTimeout, Idle
  <2> QED BY <2>1, NothingLatched DEF TxInv, Registers
<1> QED BY <1>1, <1>2, <1>3, <1>4, <1>5

LEMMA ReadStep ==
  ASSUME TxInv, StartRead \/ ReadData \/ ReadClear
  PROVE  Registers' /\ Queue'
<1>0. Idle \in Calls /\ call \in Calls /\ rxb \in [RxBufs -> Incoming \cup {Free}]
  BY DEF Idle, Calls, TxInv, Registers
<1>1. CASE StartRead
  <2>1. call'.op = "data" /\ call' \in Calls /\ UNCHANGED <<ready, chip, queued>>
    BY <1>1 DEF StartRead, history, Calls, RxBufs
  <2> QED BY <2>1, CallGoesOn
<1>2. CASE ReadData
  <2>1. call \in [op : {"data"}, buf : RxBufs]
    BY <1>0, <1>2 DEF ReadData, Calls
  <2>2. rxb[call.buf] \in Incoming \cup {Free}
    BY <1>0, <2>1
  <2>3. call'.op = "clear" /\ call' \in Calls /\ UNCHANGED <<ready, chip, queued>>
    BY <1>2, <2>1, <2>2 DEF ReadData, history, Calls
  <2> QED BY <2>3, CallGoesOn
<1>3. CASE ReadClear
  <2>1. /\ rxb' = [rxb EXCEPT ![call.buf] = Free] /\ call' = Idle
        /\ UNCHANGED <<ready, reqop, mode, rate, txb, air, tec, queued>>
    BY <1>3 DEF ReadClear, Cleared
  <2>2. rxb' \in [RxBufs -> Incoming \cup {Free}]
    BY <1>0, <2>1
  <2>3. Queue'
    BY <2>1, QueueKept DEF TxInv, Idle
  <2> QED BY <1>0, <2>1, <2>2, <2>3 DEF TxInv, Registers
<1> QED BY <1>1, <1>2, <1>3

LEMMA BusModeStep ==
  ASSUME TxInv, (\E m \in BusModes : SetBusMode(m)) \/ SetRate \/ SetRateFails \/ SetMode \/ SetModeReturns
  PROVE  Registers' /\ Queue'
<1>0. Idle \in Calls /\ [op |-> "poll"] \in Calls /\ call \in Calls /\ mode \in Modes
  BY DEF Idle, Calls, TxInv, Registers
<1>1. /\ call' \in Calls /\ call'.op # "load" /\ reqop' \in Modes /\ rate' \in Rates
      /\ UNCHANGED <<ready, mode, txb, air, tec, rxb, queued>>
  <2>0. reqop \in Modes /\ rate \in Rates
    BY DEF TxInv, Registers
  <2>1. ASSUME NEW m \in BusModes, SetBusMode(m) PROVE <1>1!:
    <3>1. m.rate \in Rates /\ m.mode \in Modes
      BY BusModesAssumption DEF Modes
    <3> QED BY <1>0, <2>0, <2>1, <3>1 DEF SetBusMode, Calls, Modes
  <2>2. ASSUME call.op \in {"rate", "mode"}
        PROVE  call \in [op : {"rate", "mode"}, prev : Modes, rate : Rates, mode : Modes]
    BY <1>0, <2>2 DEF Calls
  <2>3. CASE SetRate
    BY <2>0, <2>2, <2>3 DEF SetRate, Calls, Modes, history
  <2>4. CASE SetRateFails
    BY <2>0, <2>2, <2>4 DEF SetRateFails, AfterFailedRate, Calls, history, chip
  <2>5. CASE SetMode
    BY <1>0, <2>0, <2>2, <2>5 DEF SetMode, history
  <2>6. CASE SetModeReturns
    BY <1>0, <2>0, <2>6 DEF SetModeReturns, Idle, history, chip
  <2> QED BY <2>1, <2>3, <2>4, <2>5, <2>6
<1>2. Queue'
  BY <1>1, QueueKept DEF TxInv
<1> QED BY <1>1, <1>2 DEF TxInv, Registers

LEMMA ControllerStep ==
  ASSUME TxInv, Transmit \/ Acknowledged \/ NotAcknowledged \/ Receive \/ EnterMode
  PROVE  Registers' /\ Queue'
<1>0. NoAir \in [buf : TxBufs, frame : Outgoing \cup {Free}] /\ Free \notin LatchedFrames
  BY DEF NoAir, TxBufs, LatchedFrames
<1>1. tec \in 0 .. PassiveAt /\ PassiveAt \in Nat
  BY BoundsAssumption DEF TxInv, Registers
<1>2. CASE Transmit
  BY <1>2, TransmitQueue DEF Transmit, history, TxInv, Registers
<1>3. CASE Acknowledged
  <2>1. tec' \in 0 .. PassiveAt /\ air' = NoAir /\ UNCHANGED <<ready, reqop, mode, rate, rxb, call>>
    BY <1>1, <1>3 DEF Acknowledged
  <2> QED BY <1>0, <1>3, <2>1, AcknowledgedQueue DEF TxInv, Registers
<1>4. CASE NotAcknowledged
  <2>1. tec' \in 0 .. PassiveAt /\ air' = NoAir /\ UNCHANGED <<ready, reqop, mode, rate, txb, rxb, call, queued>>
    BY <1>1, <1>4 DEF NotAcknowledged, history
  <2>2. Queue'
    BY <1>0, <2>1, QueueKept DEF TxInv, Queue, NoAir
  <2> QED BY <1>0, <2>1, <2>2 DEF TxInv, Registers
<1>5. CASE Receive
  <2>1. RxInv'
    BY <1>5, ReceiveInv DEF TxInv
  <2>2. UNCHANGED <<ready, reqop, mode, rate, txb, air, tec, call, queued>>
    BY <1>5 DEF Receive
  <2>3. Queue'
    BY <2>2, QueueKept DEF TxInv, Queue
  <2> QED BY <2>1, <2>2, <2>3 DEF TxInv, Registers, RxInv, Reading
<1>6. CASE EnterMode
  <2>1. tec' \in 0 .. PassiveAt /\ mode' \in Modes /\ UNCHANGED <<ready, reqop, rate, txb, air, rxb, call, queued>>
    BY <1>1, <1>6 DEF EnterMode, history, TxInv, Registers
  <2>2. Queue'
    BY <2>1, QueueKept DEF TxInv, Queue
  <2> QED BY <2>1, <2>2 DEF TxInv, Registers
<1> QED BY <1>2, <1>3, <1>4, <1>5, <1>6

LEMMA TxInvariant == Spec => []TxInv
<1>1. Init => TxInv
  <2> SUFFICES ASSUME Init PROVE TxInv
    OBVIOUS
  <2>1. Registers /\ RxInv
    BY BoundsAssumption DEF Init, Registers, RxInv, Reading, ReceivedStaysHeld, HeldFrames, RxBufs,
       TxBufs, Idle, NoAir, Calls, Modes, Rates
  <2>2. LatchedFrames = {}
    BY DEF Init, LatchedFrames
  <2>3. <<>> \in Seq(Outgoing) /\ ToSet(<<>>) = {} /\ Once(<<>>)
    BY DEF ToSet, Once
  <2>4. Queue
    BY <2>2, <2>3 DEF Init, Queue, LatchedIsQueued, Idle
  <2> QED BY <2>1, <2>4 DEF TxInv
<1>2. TxInv /\ [Next]_vars => TxInv'
  <2> SUFFICES ASSUME TxInv, [Next]_vars PROVE TxInv'
    OBVIOUS
  <2>1. CASE UNCHANGED vars
    BY <2>1, QueueKept DEF vars, chip, history, TxInv, Registers, RxInv, Reading, ReceivedStaysHeld,
       HeldFrames, Queue
  <2>2. CASE Next
    <3>1. Registers' /\ Queue'
      BY <2>2, SendStep, ReadStep, BusModeStep, ControllerStep DEF Next, Driver
    <3>2. RxInv'
      BY <2>2, RxInvStep DEF TxInv
    <3> QED BY <3>1, <3>2 DEF TxInv
  <2> QED BY <2>1, <2>2
<1> QED BY <1>1, <1>2, PTL DEF Spec

(* Every variable is in the range of its register or of its role, and        *)
(* sendFrame tries no more often than kTxRetries (diag_shell.cpp:1194).      *)
THEOREM TypeCorrect == Spec => []TypeOK
<1>1. TxInv => TypeOK
  <2> SUFFICES ASSUME TxInv PROVE TypeOK
    OBVIOUS
  <2>1. waiting \subseteq Incoming
    BY Held DEF TxInv, RxInv, Reading, ReceivedStaysHeld, RxBufs
  <2>2. call.op \in {"scan", "load", "busy"} => call.buf \in TxBufs /\ call.attempt \in 1 .. TxRetries
    BY DEF TxInv, Registers, Calls
  <2> QED BY <2>1, <2>2 DEF TxInv, TypeOK, Registers, Queue
<1> QED BY <1>1, TxInvariant, PTL

(* What is latched is what send accepted and nothing has dropped: no buffer  *)
(* is overwritten, and no acknowledgement brings a dropped frame back        *)
(* (mcp2515.cpp:212-251, diag_shell.cpp:106-115).                            *)
THEOREM LatchedAccepted == Spec => []LatchedIsQueued
<1>1. TxInv => LatchedIsQueued
  BY DEF TxInv, Queue
<1> QED BY <1>1, TxInvariant, PTL
=============================================================================
