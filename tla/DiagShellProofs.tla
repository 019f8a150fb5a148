--------------------------- MODULE DiagShellProofs --------------------------
(***************************************************************************)
(* What the shell keeps for every table of ECUs, range of identifiers and  *)
(* zones, number of records, set of commands and answers, and under every  *)
(* fault: types, cursors inside their tables, a session that has an ECU,   *)
(* and no write begun in read-only mode.                                   *)
(*                                                                         *)
(* Ranges and cursors are one inductive invariant (Inv): a cursor that is  *)
(* advanced stays in its range only because its job was inside the table,  *)
(* and a job is inside only because the cursor it took over was one. Every *)
(* handler of replies, timer and command has a lemma that it keeps Inv,    *)
(* and that it leaves the shell connected only with an ECU; 'lidscan stop' *)
(* is the one command that does not. The action property needs to know     *)
(* what each of them sends (Reads) and starts (Guarded).                   *)
(*                                                                         *)
(* The second part is what the jobs keep when nothing disturbs them:       *)
(* whoever waits has one request outstanding, and the reply that is taken  *)
(* is the reply to it, although a reply says only who sent it and which    *)
(* class of service it answers. Its inductive invariant (JobsInv) follows  *)
(* that request: it is being transferred, or is the last one on its way to *)
(* the ECU, or its replies are the last on their way back (Awaited); while *)
(* no reply is awaited, only keep-alives are under way to the ECU of the   *)
(* session (Alone). It needs that each job waits for what it has asked     *)
(* last (Jobs), and that a step is taken with nothing else under way       *)
(* (Over): a reply that is not a plea for patience is the last on the      *)
(* wire, and timers and users wait for it. So every handler, timer and     *)
(* command sends into silence, and what it sends is what is awaited next.  *)
(***************************************************************************)
EXTENDS DiagShell, SequenceTheorems, TLAPS

(* The ranges of state_ and of the jobs. *)
States == {"Idle", "WaitingResponse", "Connected"}
Scans == [on : BOOLEAN, pdi : BOOLEAN, index : 0 .. Len(EcuTable) + 1,
          results : [1 .. Len(EcuTable) -> {"not scanned", "no comm", "ok"}]]
Lids == [on : BOOLEAN, id : 0 .. LidEnd, hits : Nat]
Cfgs == [on : BOOLEAN, index : 0 .. Zones + 1]
Flashes == [active : BOOLEAN, opening : BOOLEAN, step : Steps,
            staged : 0 .. MaxStaged, index : 0 .. MaxStaged]

(* Each job with its cursor. *)
ScanIn(s) == s \in Scans /\ (s.on => s.index \in 1 .. Len(EcuTable))
LidIn(l) == l \in Lids /\ (l.on => l.id \in 1 .. LidEnd)
CfgIn(c) == c \in Cfgs /\ (c.on => c.index \in 1 .. Zones)
ProcIn(p) == p = NoProc \/ p \in [name : DOMAIN Procedures, step : Nat]
FlashIn(f) == f \in Flashes /\ f.index <= f.staged

(* The ranges of what belongs to the session. *)
Session ==
  /\ state \in States
  /\ ecu \in Range(EcuTable) \cup {NoEcu}
  /\ unlocked \in BOOLEAN /\ live \in BOOLEAN
  /\ pending \in 0 .. MaxResponsePending

(* The inductive invariant. *)
Inv ==
  /\ Session /\ rw \in BOOLEAN
  /\ ScanIn(scan) /\ LidIn(lid) /\ CfgIn(cfg) /\ ProcIn(proc) /\ FlashIn(flash)

----------------------------------------------------------------------------
(* The ECU at a place of the table. *)
LEMMA Table ==
  /\ Len(EcuTable) \in Nat \ {0}
  /\ \A i \in 1 .. Len(EcuTable) : EcuTable[i] \in Range(EcuTable)
  /\ NoEcu \notin Range(EcuTable)
BY TableAssumption DEF Range

LEMMA InitInv == Init => Inv
<1> SUFFICES ASSUME Init PROVE Inv
  OBVIOUS
<1>1. unlocked \in BOOLEAN /\ live \in BOOLEAN /\ rw \in BOOLEAN
  BY Zenon DEF Init
<1>2. Session
  <2>1. state = "Idle" /\ ecu = NoEcu /\ pending = 0
    BY Zenon DEF Init
  <2> QED BY <1>1, <2>1, BoundAssumption DEF Session, States
<1>3. ScanIn(scan)
  <2> DEFINE none == [i \in 1 .. Len(EcuTable) |-> "not scanned"]
  <2>1. scan = [on |-> FALSE, pdi |-> FALSE, index |-> 0, results |-> none]
    BY Zenon DEF Init
  <2>2. none \in [1 .. Len(EcuTable) -> {"not scanned", "no comm", "ok"}]
    OBVIOUS
  <2>3. 0 \in 0 .. Len(EcuTable) + 1
    BY Table
  <2> HIDE DEF none
  <2> QED BY <2>1, <2>2, <2>3 DEF ScanIn, Scans
<1>4. LidIn(lid) /\ CfgIn(cfg)
  <2>1. lid = [on |-> FALSE, id |-> 0, hits |-> 0] /\ cfg = [on |-> FALSE, index |-> 0]
    BY Zenon DEF Init
  <2> QED BY <2>1, BoundAssumption DEF LidIn, Lids, CfgIn, Cfgs
<1>5. ProcIn(proc) /\ FlashIn(flash)
  <2>1. /\ flash = [active |-> FALSE, opening |-> FALSE, step |-> "Idle", staged |-> 0, index |-> 0]
        /\ proc = NoProc
    BY Zenon DEF Init
  <2> QED BY <2>1, BoundAssumption DEF ProcIn, FlashIn, Flashes, Steps
<1> QED BY <1>1, <1>2, <1>3, <1>4, <1>5 DEF Inv

(* The sweep, the scan and the procedure advance within their range. *)
LEMMA LidScanSendIn ==
  ASSUME NEW l, LidIn(l), LidScanSend(l)
  PROVE  LidIn(lid') /\ state' = "WaitingResponse" /\ pending' = 0
BY DEF LidScanSend, SendAndWait

LEMMA LidScanAdvanceIn ==
  ASSUME NEW l, LidIn(l), l.on, NEW p \in 0 .. MaxResponsePending, LidScanAdvance(l, p)
  PROVE  LidIn(lid') /\ state' \in States \ {"Idle"} /\ pending' \in 0 .. MaxResponsePending
<1>1. CASE l.id < LidEnd /\ LidScanSend([l EXCEPT !.id = @ + 1])
  <2>1. LidIn([l EXCEPT !.id = @ + 1])
    BY <1>1, BoundAssumption DEF LidIn, Lids
  <2> QED BY <1>1, <2>1, LidScanSendIn, BoundAssumption DEF States
<1>2. CASE l.id >= LidEnd /\ lid' = [l EXCEPT !.on = FALSE] /\ pending' = p /\ Settle
  BY <1>2 DEF LidIn, Lids, Settle, States
<1> QED BY <1>1, <1>2 DEF LidScanAdvance

LEMMA ConnectByIndexIn ==
  ASSUME NEW s, NEW i \in 1 .. Len(EcuTable), s \in Scans, NEW first,
         ConnectByIndex(s, i, first)
  PROVE  /\ ScanIn(scan') /\ Session'
         /\ state' = "WaitingResponse" /\ ecu' # NoEcu
<1>1. ScanIn(scan')
  <2>1. scan' = [s EXCEPT !.index = i] /\ i \in 0 .. Len(EcuTable) + 1
    BY Table DEF ConnectByIndex
  <2> QED BY <2>1 DEF ScanIn, Scans
<1>2. state' = "WaitingResponse" /\ ecu' \in Range(EcuTable)
  BY Table DEF ConnectByIndex, SendAndWait
<1>3. unlocked' = FALSE /\ live' = FALSE /\ pending' = 0
  BY DEF ConnectByIndex
<1>4. 0 \in 0 .. MaxResponsePending
  BY BoundAssumption
<1> QED BY <1>1, <1>2, <1>3, <1>4, Table DEF Session, States

LEMMA AdvanceScanIn ==
  ASSUME Inv, NEW s, ScanIn(s), s.on, NEW first, NEW e \in Range(EcuTable) \cup {NoEcu},
         NEW p \in 0 .. MaxResponsePending, AdvanceScan(s, first, e, p)
  PROVE  ScanIn(scan') /\ Session' /\ (state' # "Idle" => ecu' # NoEcu)
<1>1. CASE s.index < Len(EcuTable) /\ ConnectByIndex(s, s.index + 1, first)
  <2>1. s.index + 1 \in 1 .. Len(EcuTable) /\ s \in Scans
    BY <1>1, Table DEF ScanIn
  <2> QED BY <1>1, <2>1, ConnectByIndexIn
<1>2. CASE /\ s.index >= Len(EcuTable)
           /\ scan' = [s EXCEPT !.index = @ + 1, !.on = FALSE, !.pdi = FALSE]
           /\ ecu' = e /\ state' = "Idle"
           /\ pending' = p
           /\ UNCHANGED <<unlocked, live>>
  <2>1. s \in Scans /\ s.index + 1 \in 0 .. Len(EcuTable) + 1
    BY Table DEF ScanIn
  <2>2. ScanIn(scan')
    BY <1>2, <2>1 DEF ScanIn, Scans
  <2> QED BY <1>2, <2>2 DEF Inv, Session, States
<1> QED BY <1>1, <1>2 DEF AdvanceScan

LEMMA AdvanceProcedureIn ==
  ASSUME NEW p \in [name : DOMAIN Procedures, step : Nat], AdvanceProcedure(p)
  PROVE  ProcIn(proc') /\ state' \in States \ {"Idle"}
BY DEF AdvanceProcedure, ProcIn, SendAndWait, Settle, States

(* A result takes its place, and the next zone is in the table. *)
LEMMA ResultIn ==
  ASSUME ScanIn(scan), scan.on, NEW res \in {"no comm", "ok"}
  PROVE  ScanIn(Result(res)) /\ Result(res).on
BY DEF ScanIn, Scans, Result

LEMMA NextZoneIn ==
  ASSUME CfgIn(cfg), cfg.on
  PROVE  CfgIn(NextZone)
<1>1. cfg.index \in 1 .. Zones /\ cfg.index + 1 \in 0 .. Zones + 1
  BY BoundAssumption DEF CfgIn
<1>2. CASE cfg.index < Zones
  <2>1. NextZone = [cfg EXCEPT !.index = cfg.index + 1, !.on = TRUE]
    BY <1>2 DEF NextZone
  <2>2. NextZone \in Cfgs /\ NextZone.index = cfg.index + 1
    BY <1>1, <2>1 DEF CfgIn, Cfgs
  <2>3. cfg.index + 1 \in 1 .. Zones
    BY <1>1, <1>2, BoundAssumption
  <2> QED BY <2>2, <2>3 DEF CfgIn
<1>3. CASE ~(cfg.index < Zones)
  <2>1. NextZone = [cfg EXCEPT !.index = cfg.index + 1, !.on = FALSE]
    BY <1>3 DEF NextZone
  <2> QED BY <1>1, <2>1 DEF CfgIn, Cfgs
<1> QED BY <1>2, <1>3

(* The engine's step stays one. *)
LEMMA StepIn ==
  ASSUME NEW s \in Steps
  PROVE  AfterRequest(s) \in Steps /\ FinishTransfer(s) \in Steps
         /\ \A service : AfterPositive(s, service) \in Steps
BY DEF Steps, AfterRequest, FinishTransfer, AfterPositive

----------------------------------------------------------------------------
(* The handlers: each keeps the ranges, and leaves the shell connected only  *)
(* with an ECU.                                                              *)
Kept == Inv' /\ (ecu # NoEcu => ConnectedHasEcu')

(* What a handler that has nothing to do with the session leaves. *)
LEMMA SessionKept ==
  ASSUME Inv, state' \in States, pending' \in 0 .. MaxResponsePending,
         UNCHANGED <<ecu, unlocked, live>>
  PROVE  Session' /\ (ecu # NoEcu => ConnectedHasEcu')
BY DEF Inv, Session, ConnectedHasEcu

(* What almost every handler sets the 0x78 streak to. *)
LEMMA PendingRange == 0 \in 0 .. MaxResponsePending
BY BoundAssumption

(* One lemma for each place a reply can be taken (handleResponse). *)
LEMMA FlashSessionKept ==
  ASSUME Inv, NEW r, OnFlashSession(r), UNCHANGED rw
  PROVE  Kept
<1>1. FlashIn(flash')
  <2>1. CASE flash' = [flash EXCEPT !.opening = FALSE, !.active = FALSE]
    BY <2>1 DEF Inv, FlashIn, Flashes
  <2>2. CASE flash' = [flash EXCEPT !.opening = FALSE, !.step = AfterRequest(flash.step)]
    <3>1. flash.step \in Steps
      BY DEF Inv, FlashIn, Flashes
    <3> QED BY <2>2, <3>1, StepIn DEF Inv, FlashIn, Flashes
  <2> QED BY <2>1, <2>2 DEF OnFlashSession
<1>2. state' \in States /\ pending' = 0 /\ UNCHANGED <<ecu, unlocked, scan, lid, cfg, live, proc>>
  BY DEF OnFlashSession, Settle, SendAndWait, States
<1> QED BY <1>1, <1>2, SessionKept, PendingRange DEF Kept, Inv

LEMMA PendingKept ==
  ASSUME Inv, NEW r, OnPending(r), UNCHANGED rw
  PROVE  Kept
<1>1. /\ state' \in States /\ pending' \in 0 .. MaxResponsePending
      /\ UNCHANGED <<ecu, unlocked, scan, lid, cfg, live, flash>>
      /\ proc' \in {NoProc, proc}
  BY BoundAssumption DEF OnPending, States, Inv, Session
<1> QED BY <1>1, SessionKept DEF Kept, Inv, ProcIn

LEMMA NegativeKept ==
  ASSUME Inv, NEW r, OnNegative(r), UNCHANGED rw
  PROVE  Kept
<1>1. CASE /\ lid.on
           /\ LidScanAdvance([lid EXCEPT !.hits = IF r.kind = "refused" THEN @ + 1 ELSE @], 0)
           /\ UNCHANGED <<ecu, unlocked, scan, cfg, live, proc, flash>>
  <2> DEFINE l == [lid EXCEPT !.hits = IF r.kind = "refused" THEN @ + 1 ELSE @]
  <2>1. LidIn(l) /\ l.on
    BY <1>1 DEF Inv, LidIn, Lids
  <2>2. LidScanAdvance(l, 0)
    BY <1>1
  <2> HIDE DEF l
  <2>3. LidIn(lid') /\ state' \in States /\ pending' \in 0 .. MaxResponsePending
    BY <2>1, <2>2, LidScanAdvanceIn, PendingRange
  <2> QED BY <1>1, <2>3, SessionKept DEF Kept, Inv
<1>2. CASE /\ proc' = NoProc /\ pending' = 0 /\ Settle
           /\ UNCHANGED <<ecu, unlocked, scan, lid, cfg, live, flash>>
  BY <1>2, SessionKept, PendingRange DEF Kept, Inv, ProcIn, Settle, States
<1>3. ASSUME cfg' = IF cfg.on THEN NextZone ELSE cfg
      PROVE  CfgIn(cfg')
  BY <1>3, NextZoneIn DEF Inv
<1>4. CASE /\ scan.on
           /\ cfg' = IF cfg.on THEN NextZone ELSE cfg
           /\ AdvanceScan(Result("no comm"), IF cfg'.on THEN ZoneRead ELSE <<>>, NoEcu, 0)
           /\ UNCHANGED <<lid, proc, flash>>
  <2>1. ScanIn(Result("no comm")) /\ Result("no comm").on
    BY <1>4, ResultIn DEF Inv
  <2>2. ScanIn(scan') /\ Session' /\ (state' # "Idle" => ecu' # NoEcu)
    BY <1>4, <2>1, AdvanceScanIn, PendingRange
  <2> QED BY <1>3, <1>4, <2>2 DEF Kept, Inv, ConnectedHasEcu, IsConnected
<1>5. CASE /\ cfg' = IF cfg.on THEN NextZone ELSE cfg
           /\ \/ cfg'.on /\ SendAndWait(ZoneRead)
              \/ ~cfg'.on /\ UNCHANGED out
                 /\ state' = IF RefusesSession(r) THEN "Idle" ELSE "Connected"
           /\ pending' = 0
           /\ UNCHANGED <<ecu, unlocked, scan, lid, live, proc, flash>>
  <2>1. state' \in States
    BY <1>5 DEF SendAndWait, States
  <2> QED BY <1>3, <1>5, <2>1, SessionKept, PendingRange DEF Kept, Inv
<1> QED BY <1>1, <1>2, <1>4, <1>5 DEF OnNegative

LEMMA SessionReplyKept ==
  ASSUME Inv, OnSession \/ OnCleared, UNCHANGED rw
  PROVE  Kept
<1>1. state' \in States /\ pending' = 0 /\ UNCHANGED <<ecu, unlocked, jobs>>
  BY DEF OnSession, OnCleared, SendAndWait, Settle, States
<1> QED BY <1>1, SessionKept, PendingRange DEF Kept, Inv, jobs

LEMMA ScanReplyKept ==
  ASSUME Inv, OnClosed \/ OnDtc, UNCHANGED rw
  PROVE  Kept
<1>1. UNCHANGED <<lid, cfg, proc, flash>>
  BY DEF OnClosed, OnDtc
<1>2. CASE scan.on /\ AdvanceScan(scan, <<>>, ecu, 0)
  <2>1. ScanIn(scan') /\ Session' /\ (state' # "Idle" => ecu' # NoEcu)
    BY <1>2, AdvanceScanIn, PendingRange DEF Inv, Session
  <2> QED BY <1>1, <2>1 DEF Kept, Inv, ConnectedHasEcu, IsConnected
<1>3. CASE scan.on /\ AdvanceScan(Result("ok"), <<Ask("Close")>>, NoEcu, 0)
  <2>1. ScanIn(Result("ok")) /\ Result("ok").on
    BY <1>3, ResultIn DEF Inv
  <2>2. ScanIn(scan') /\ Session' /\ (state' # "Idle" => ecu' # NoEcu)
    BY <1>3, <2>1, AdvanceScanIn, PendingRange
  <2> QED BY <1>1, <2>2 DEF Kept, Inv, ConnectedHasEcu, IsConnected
<1>4. CASE state' \in States /\ pending' = 0 /\ UNCHANGED <<ecu, unlocked, scan, live>>
  BY <1>1, <1>4, SessionKept, PendingRange DEF Kept, Inv
<1> QED BY <1>2, <1>3, <1>4 DEF OnClosed, OnDtc, Settle, States

LEMMA FlashKept ==
  ASSUME Inv, NEW service, OnFlash(service), UNCHANGED rw
  PROVE  Kept
<1> DEFINE step == AfterPositive(flash.step, service)
           moved == [flash EXCEPT !.step = step]
<1>1. step \in Steps /\ AfterRequest(step) \in Steps
  BY StepIn DEF Inv, FlashIn, Flashes
<1>2. flash \in Flashes /\ flash.index <= flash.staged
  BY DEF Inv, FlashIn
<1>3. pending' = 0 /\ UNCHANGED <<ecu, unlocked, scan, lid, cfg, live, proc>> /\ state' \in States
  BY DEF OnFlash, Settle, SendAndWait, States
<1>4. \/ flash' = [moved EXCEPT !.active = FALSE]
      \/ flash' = [moved EXCEPT !.step = AfterRequest(step)]
      \/ flash.index < flash.staged /\ flash' = [moved EXCEPT !.index = @ + 1]
      \/ flash' = moved
  BY DEF OnFlash
<1> HIDE DEF step
<1>5. FlashIn(flash')
  <2>1. moved \in Flashes /\ moved.index = flash.index /\ moved.staged = flash.staged
    BY <1>1, <1>2 DEF Flashes
  <2> HIDE DEF moved
  <2>2. CASE flash.index < flash.staged /\ flash' = [moved EXCEPT !.index = @ + 1]
    <3>1. flash.index + 1 \in 0 .. MaxStaged /\ flash.index + 1 <= flash.staged
      BY <1>2, <2>2, BoundAssumption DEF Flashes
    <3> QED BY <2>1, <2>2, <3>1 DEF FlashIn, Flashes
  <2>3. CASE \/ flash' = [moved EXCEPT !.active = FALSE]
             \/ flash' = [moved EXCEPT !.step = AfterRequest(step)]
             \/ flash' = moved
    BY <1>1, <1>2, <2>1, <2>3 DEF FlashIn, Flashes
  <2> QED BY <1>4, <2>2, <2>3 DEF moved
<1> QED BY <1>3, <1>5, SessionKept, PendingRange DEF Kept, Inv

LEMMA ProcedureKept ==
  ASSUME Inv, OnProcedure, UNCHANGED rw
  PROVE  Kept
<1>1. ProcIn(proc') /\ state' \in States
  BY AdvanceProcedureIn DEF OnProcedure, Inv, ProcIn
<1>2. pending' = 0 /\ UNCHANGED <<ecu, unlocked, scan, lid, cfg, live, flash>>
  BY DEF OnProcedure
<1> QED BY <1>1, <1>2, SessionKept, PendingRange DEF Kept, Inv

LEMMA ZoneKept ==
  ASSUME Inv, OnZone, UNCHANGED rw
  PROVE  Kept
<1>1. UNCHANGED <<ecu, unlocked, scan, live, proc, flash>>
  BY DEF OnZone
<1>2. CASE lid.on /\ LidScanAdvance([lid EXCEPT !.hits = @ + 1], 0) /\ UNCHANGED cfg
  <2>1. LidIn([lid EXCEPT !.hits = @ + 1]) /\ [lid EXCEPT !.hits = @ + 1].on
    BY <1>2 DEF Inv, LidIn, Lids
  <2>2. LidIn(lid') /\ state' \in States /\ pending' \in 0 .. MaxResponsePending
    BY <1>2, <2>1, LidScanAdvanceIn, PendingRange
  <2> QED BY <1>1, <1>2, <2>2, SessionKept DEF Kept, Inv
<1>3. CASE cfg.on /\ cfg' = NextZone /\ state' \in States /\ pending' = 0 /\ UNCHANGED lid
  BY <1>1, <1>3, NextZoneIn, SessionKept, PendingRange DEF Kept, Inv
<1>4. CASE state' \in States /\ pending' = 0 /\ UNCHANGED <<lid, cfg>>
  BY <1>1, <1>4, SessionKept, PendingRange DEF Kept, Inv
<1> QED BY <1>2, <1>3, <1>4 DEF OnZone, SendAndWait, Settle, States

LEMMA SecurityKept ==
  ASSUME Inv, OnSeed \/ OnKey, UNCHANGED rw
  PROVE  Kept
<1>1. state' \in States /\ pending' = 0 /\ UNCHANGED <<ecu, jobs>>
  BY DEF OnSeed, OnKey, SendAndWait, Settle, States
<1>2. unlocked' \in BOOLEAN
  BY Zenon DEF OnSeed, OnKey, Inv, Session
<1> QED BY <1>1, <1>2, PendingRange DEF Kept, Inv, Session, jobs, ConnectedHasEcu

LEMMA ReplyKept ==
  ASSUME Inv, NEW r, HandleResponse(r), UNCHANGED rw
  PROVE  Kept
<1>1. CASE OnPositive(r)
  BY <1>1, SessionReplyKept, ScanReplyKept, FlashKept, ProcedureKept, ZoneKept, SecurityKept
     DEF OnPositive
<1> QED BY <1>1, FlashSessionKept, PendingKept, NegativeKept DEF HandleResponse

LEMMA ReceiveKept ==
  ASSUME Inv, Receive
  PROVE  Inv' /\ (ConnectedHasEcu => ConnectedHasEcu')
<1>1. UNCHANGED rw
  BY DEF Receive
<1>2. CASE Ours(Head(toShell)) /\ HandleResponse(Head(toShell))
  <2>1. ConnectedHasEcu => ecu # NoEcu
    BY <1>2 DEF Ours, ConnectedHasEcu
  <2> QED BY <1>1, <1>2, <2>1, ReplyKept DEF Kept
<1>3. CASE UNCHANGED <<state, ecu, unlocked, pending, jobs, out>>
  BY <1>1, <1>3 DEF Inv, Session, jobs, ConnectedHasEcu, IsConnected
<1> QED BY <1>2, <1>3 DEF Receive

----------------------------------------------------------------------------
(* The timers. *)

LEMMA LidScanTimeoutKept ==
  ASSUME Inv, LidScanTimeout
  PROVE  Inv' /\ (ConnectedHasEcu => ConnectedHasEcu')
<1>1. LidIn(lid') /\ state' \in States /\ pending' \in 0 .. MaxResponsePending
  BY LidScanAdvanceIn DEF LidScanTimeout, Inv, Session
<1>2. UNCHANGED <<ecu, access, scan, cfg, live, proc, flash>> /\ state = "WaitingResponse"
  BY DEF LidScanTimeout
<1>3. Session' /\ (ecu # NoEcu => ConnectedHasEcu')
  BY <1>1, <1>2, SessionKept DEF access
<1> QED BY <1>1, <1>2, <1>3 DEF Inv, access, ConnectedHasEcu, IsConnected

LEMMA ResponseTimeoutKept ==
  ASSUME Inv, ResponseTimeout
  PROVE  Inv' /\ ConnectedHasEcu'
<1>1. LidIn(lid') /\ CfgIn(cfg') /\ FlashIn(flash') /\ ProcIn(proc') /\ rw' \in BOOLEAN
  <2>1. /\ lid' = [lid EXCEPT !.on = FALSE] /\ cfg' = [cfg EXCEPT !.on = FALSE]
        /\ flash' = [flash EXCEPT !.active = FALSE] /\ proc' = NoProc /\ UNCHANGED rw
    BY DEF ResponseTimeout
  <2>2. LidIn(lid') /\ CfgIn(cfg')
    BY <2>1 DEF Inv, LidIn, Lids, CfgIn, Cfgs
  <2>3. FlashIn(flash')
    BY <2>1 DEF Inv, FlashIn, Flashes
  <2> QED BY <2>1, <2>2, <2>3 DEF Inv, ProcIn
<1>2. CASE scan.on
  <2> DEFINE s == Result("no comm")
  <2>1. ScanIn(s) /\ s.on
    BY <1>2, ResultIn DEF Inv
  <2>2. \/ s.index < Len(EcuTable) /\ ConnectByIndex(s, s.index + 1, <<>>)
        \/ /\ s.index >= Len(EcuTable)
           /\ scan' = [s EXCEPT !.index = @ + 1, !.on = FALSE, !.pdi = FALSE]
           /\ ecu' = NoEcu /\ state' = "Idle" /\ live' = FALSE
           /\ UNCHANGED <<unlocked, pending>>
    BY <1>2 DEF ResponseTimeout
  <2> HIDE DEF s
  <2>3. CASE s.index < Len(EcuTable) /\ ConnectByIndex(s, s.index + 1, <<>>)
    <3>1. s.index + 1 \in 1 .. Len(EcuTable) /\ s \in Scans
      BY <2>1, <2>3, Table DEF ScanIn
    <3> QED BY <1>1, <2>3, <3>1, ConnectByIndexIn DEF Inv, ConnectedHasEcu
  <2>4. CASE /\ s.index >= Len(EcuTable)
             /\ scan' = [s EXCEPT !.index = @ + 1, !.on = FALSE, !.pdi = FALSE]
             /\ ecu' = NoEcu /\ state' = "Idle" /\ live' = FALSE
             /\ UNCHANGED <<unlocked, pending>>
    <3>1. s \in Scans /\ s.index + 1 \in 0 .. Len(EcuTable) + 1
      BY <2>1, Table DEF ScanIn
    <3>2. ScanIn(scan')
      BY <2>4, <3>1 DEF ScanIn, Scans
    <3> QED BY <1>1, <2>4, <3>2 DEF Inv, Session, States, ConnectedHasEcu, IsConnected
  <2> QED BY <2>2, <2>3, <2>4
<1>3. CASE ~scan.on
  <2>1. /\ scan' = [scan EXCEPT !.pdi = FALSE]
        /\ state' = "Idle" /\ live' = FALSE
        /\ UNCHANGED <<ecu, unlocked, pending>>
    BY <1>3 DEF ResponseTimeout
  <2>2. ScanIn(scan')
    BY <2>1 DEF Inv, ScanIn, Scans
  <2> QED BY <1>1, <2>1, <2>2 DEF Inv, Session, States, ConnectedHasEcu, IsConnected
<1> QED BY <1>2, <1>3

(* What leaves the jobs and the session's data as they are. *)
LEMMA StateOnly ==
  ASSUME Inv, UNCHANGED <<ecu, access, pending, jobs>>,
         state' \in {state, "Connected", "WaitingResponse"},
         state = "Idle" => state' = "Idle" \/ ecu # NoEcu
  PROVE  Inv' /\ (ConnectedHasEcu => ConnectedHasEcu')
BY DEF Inv, Session, States, access, jobs, ConnectedHasEcu, IsConnected

LEMMA FrameKept ==
  ASSUME Inv, Frames
  PROVE  Inv' /\ (ConnectedHasEcu => ConnectedHasEcu')
<1>1. CASE ReassemblyError
  BY <1>1, StateOnly DEF ReassemblyError, Settle, Ours, IsConnected
<1>2. CASE TransferThrough \/ TransferFails
  BY <1>2, StateOnly DEF TransferThrough, TransferFails
<1>3. CASE TransferAborted
  BY <1>3, StateOnly DEF TransferAborted
<1> QED BY <1>1, <1>2, <1>3, ReceiveKept DEF Frames

LEMMA TimerKept ==
  ASSUME Inv, Timers
  PROVE  Inv' /\ (ConnectedHasEcu => ConnectedHasEcu')
<1>1. CASE KeepAlive
  BY <1>1, StateOnly DEF KeepAlive
<1>2. CASE LivePoll
  BY <1>2, StateOnly DEF LivePoll, Ready, SendAndWait
<1> QED BY <1>1, <1>2, LidScanTimeoutKept, ResponseTimeoutKept DEF Timers

----------------------------------------------------------------------------
(* The user and the world. Only 'lidscan stop' looks neither at state_ nor   *)
(* at ecu_ before it says Connected.                                         *)
Stops == "lidscan stop" \in Commands

(* A command that is refused without a session, and sends a request. *)
LEMMA Asks ==
  ASSUME Inv, Ready, state' = "WaitingResponse",
         UNCHANGED <<ecu, access, pending, live>>
  PROVE  Session' /\ rw' \in BOOLEAN /\ ConnectedHasEcu'
BY DEF Inv, Session, States, access, ConnectedHasEcu, Ready

(* One lemma for each kind of command. *)
LEMMA SessionCommandKept ==
  ASSUME Inv, (\E e \in Range(EcuTable) : Connect(e)) \/ Disconnect
  PROVE  Inv' /\ ConnectedHasEcu'
<1>1. ASSUME NEW e \in Range(EcuTable), Connect(e) PROVE Inv' /\ ConnectedHasEcu'
  <2>1. /\ ecu' = e /\ unlocked' = FALSE /\ pending' = 0 /\ live' = FALSE
        /\ state' = "WaitingResponse"
        /\ UNCHANGED <<rw, scan, lid, cfg, proc, flash>>
    BY <1>1 DEF Connect, SendAndWait
  <2> QED BY <2>1, Table, PendingRange DEF Inv, Session, States, ConnectedHasEcu
<1>2. CASE Disconnect
  <2>1. /\ scan' = [scan EXCEPT !.on = FALSE] /\ proc' = NoProc
        /\ state' = "Idle" /\ ecu' = NoEcu
        /\ unlocked' = FALSE /\ pending' = 0 /\ live' = FALSE
        /\ cfg' = [cfg EXCEPT !.on = FALSE] /\ lid' = [lid EXCEPT !.on = FALSE]
        /\ UNCHANGED <<rw, flash>>
    BY <1>2 DEF Disconnect
  <2>2. ScanIn(scan') /\ CfgIn(cfg') /\ LidIn(lid') /\ ProcIn(proc')
    BY <2>1 DEF Inv, ScanIn, Scans, CfgIn, Cfgs, LidIn, Lids, ProcIn
  <2> QED BY <2>1, <2>2, PendingRange DEF Inv, Session, States, ConnectedHasEcu, IsConnected
<1> QED BY <1>1, <1>2

LEMMA PlainCommandKept ==
  ASSUME Inv, ReadCommand \/ WriteCommand
  PROVE  Inv' /\ (ConnectedHasEcu => ConnectedHasEcu')
<1>1. ASSUME NEW c, NEW kind, PlainAsk(c, kind)
      PROVE  Inv' /\ (ConnectedHasEcu => ConnectedHasEcu')
  BY <1>1, StateOnly DEF PlainAsk, Ready, SendAndWait
<1> QED BY <1>1 DEF ReadCommand, WriteCommand

LEMMA JobCommandKept ==
  ASSUME Inv, ConfigRead \/ ConfigReadAll \/ LidScan
  PROVE  Inv' /\ ConnectedHasEcu'
<1>1. CASE ConfigRead \/ ConfigReadAll
  <2>1. CfgIn(cfg')
    <3>1. cfg' = [cfg EXCEPT !.on = FALSE] \/ cfg' = [on |-> TRUE, index |-> 1]
      BY <1>1 DEF ConfigRead, ConfigReadAll
    <3>2. 1 \in 1 .. Zones /\ 1 \in 0 .. Zones + 1
      BY BoundAssumption
    <3>3. CASE cfg' = [cfg EXCEPT !.on = FALSE]
      BY <3>3 DEF Inv, CfgIn, Cfgs
    <3>4. CASE cfg' = [on |-> TRUE, index |-> 1]
      BY <3>2, <3>4 DEF CfgIn, Cfgs
    <3> QED BY <3>1, <3>3, <3>4
  <2>2. /\ Ready /\ state' = "WaitingResponse"
        /\ UNCHANGED <<ecu, access, pending, scan, lid, live, proc, flash>>
    BY <1>1 DEF ConfigRead, ConfigReadAll, SendAndWait
  <2> QED BY <2>1, <2>2, Asks DEF Inv
<1>2. CASE LidScan
  <2> DEFINE l == [on |-> TRUE, id |-> 1, hits |-> 0]
  <2>1. LidIn(l)
    BY BoundAssumption DEF LidIn, Lids
  <2>2. LidScanSend(l) /\ Ready /\ UNCHANGED <<ecu, access, scan, cfg, live, proc, flash>>
    BY <1>2 DEF LidScan
  <2> HIDE DEF l
  <2>3. LidIn(lid') /\ state' = "WaitingResponse" /\ pending' = 0
    BY <2>1, <2>2, LidScanSendIn
  <2> QED BY <2>2, <2>3, PendingRange
          DEF Inv, Session, States, access, ConnectedHasEcu, Ready
<1> QED BY <1>1, <1>2

LEMMA LidScanStopKept ==
  ASSUME Inv, LidScanStop
  PROVE  Inv' /\ Stops
<1>1. lid' = [lid EXCEPT !.on = FALSE] /\ state' = "Connected"
      /\ UNCHANGED <<ecu, access, pending, scan, cfg, live, proc, flash>>
  BY DEF LidScanStop
<1>2. LidIn(lid')
  BY <1>1 DEF Inv, LidIn, Lids
<1>3. Stops
  BY DEF LidScanStop, Typed, Stops
<1> QED BY <1>1, <1>2, <1>3 DEF Inv, Session, States, access

LEMMA SwitchKept ==
  ASSUME Inv, NEW on \in BOOLEAN, Rw(on) \/ Live(on)
  PROVE  Inv' /\ (ConnectedHasEcu => ConnectedHasEcu')
<1>1. /\ rw' \in BOOLEAN /\ live' \in BOOLEAN
      /\ UNCHANGED <<state, ecu, unlocked, pending, scan, lid, cfg, proc, flash>>
  BY Zenon DEF Rw, Live, Inv, Session, jobs, access
<1> QED BY <1>1 DEF Inv, Session, ConnectedHasEcu, IsConnected

LEMMA ScanCommandKept ==
  ASSUME Inv, NEW pdi \in BOOLEAN, Scan(pdi)
  PROVE  Inv' /\ ConnectedHasEcu'
<1> DEFINE none == [i \in 1 .. Len(EcuTable) |-> "not scanned"]
           s == [on |-> TRUE, pdi |-> pdi \/ scan.pdi, index |-> 1, results |-> none]
<1>1. ConnectByIndex(s, 1, <<>>) /\ UNCHANGED <<rw, lid, cfg, proc, flash>>
  BY DEF Scan
<1>2. none \in [1 .. Len(EcuTable) -> {"not scanned", "no comm", "ok"}]
  OBVIOUS
<1>3. 1 \in 1 .. Len(EcuTable) /\ 1 \in 0 .. Len(EcuTable) + 1
  BY Table
<1>4. (pdi \/ scan.pdi) \in BOOLEAN
  BY Zenon
<1> HIDE DEF none
<1>5. s \in Scans
  BY <1>2, <1>3, <1>4 DEF Scans
<1> HIDE DEF s
<1> QED BY <1>1, <1>3, <1>5, ConnectByIndexIn DEF Inv, ConnectedHasEcu

LEMMA ProcedureCommandKept ==
  ASSUME Inv, NEW name \in DOMAIN Procedures, StartProcedure(name)
  PROVE  Inv' /\ ConnectedHasEcu'
<1> DEFINE p == [name |-> name, step |-> 0]
<1>1. p \in [name : DOMAIN Procedures, step : Nat]
  OBVIOUS
<1>2. AdvanceProcedure(p) /\ Ready /\ UNCHANGED <<ecu, access, pending, scan, lid, cfg, live, flash>>
  BY DEF StartProcedure
<1> HIDE DEF p
<1>3. ProcIn(proc') /\ state' \in States
  BY <1>1, <1>2, AdvanceProcedureIn
<1> QED BY <1>2, <1>3 DEF Inv, Session, access, Ready, ConnectedHasEcu

LEMMA FlashCommandKept ==
  ASSUME Inv, FlashStage \/ FlashBegin \/ FlashEnd \/ FlashCancel
  PROVE  Inv' /\ ConnectedHasEcu'
<1>1. /\ state' \in {state, "WaitingResponse"} /\ ecu # NoEcu
      /\ UNCHANGED <<ecu, access, pending, scan, lid, cfg, live, proc>>
  BY DEF FlashStage, FlashBegin, FlashEnd, FlashCancel, MayFlash, SendAndWait
<1>2. flash \in Flashes /\ flash.index <= flash.staged
  BY DEF Inv, FlashIn
<1>3. CASE FlashStage
  <2>1. flash.staged + 1 \in 0 .. MaxStaged /\ flash.index <= flash.staged + 1
    <3>1. flash.staged < MaxStaged
      BY <1>3 DEF FlashStage
    <3>2. flash.staged \in 0 .. MaxStaged /\ flash.index \in 0 .. MaxStaged
      BY <1>2 DEF Flashes
    <3> QED BY <1>2, <3>1, <3>2, BoundAssumption
  <2>2. flash' = [flash EXCEPT !.staged = @ + 1]
    BY <1>3 DEF FlashStage
  <2> QED BY <1>1, <1>2, <2>1, <2>2
          DEF FlashIn, Flashes, Inv, Session, States, access, ConnectedHasEcu
<1>4. CASE FlashBegin
  <2>1. flash' = [active |-> TRUE, opening |-> TRUE, step |-> "Idle",
                  staged |-> flash.staged, index |-> 0]
    BY <1>4 DEF FlashBegin
  <2>2. FlashIn(flash')
    BY <1>2, <2>1, BoundAssumption DEF FlashIn, Flashes, Steps
  <2> QED BY <1>1, <2>2 DEF Inv, Session, States, access, ConnectedHasEcu
<1>5. CASE FlashEnd
  <2>1. flash' = [flash EXCEPT !.step = AfterRequest(FinishTransfer(flash.step))]
    BY <1>5 DEF FlashEnd
  <2>2. AfterRequest(FinishTransfer(flash.step)) \in Steps
    BY <1>2, StepIn DEF Flashes
  <2>3. FlashIn(flash')
    BY <1>2, <2>1, <2>2 DEF FlashIn, Flashes
  <2> QED BY <1>1, <2>3 DEF Inv, Session, States, access, ConnectedHasEcu
<1>6. CASE FlashCancel
  <2>1. flash' = [flash EXCEPT !.active = FALSE, !.staged = 0, !.index = 0]
    BY <1>6 DEF FlashCancel
  <2>2. FlashIn(flash')
    <3>1. 0 \in 0 .. MaxStaged
      BY BoundAssumption
    <3>2. flash' \in Flashes
      BY <1>2, <2>1, <3>1 DEF Flashes
    <3>3. flash'.index = 0 /\ flash'.staged = 0
      BY <1>2, <2>1 DEF Flashes
    <3> QED BY <3>2, <3>3 DEF FlashIn
  <2> QED BY <1>1, <2>2 DEF Inv, Session, States, access, ConnectedHasEcu
<1> QED BY <1>3, <1>4, <1>5, <1>6

(* Every step, and every behaviour. *)
LEMMA NextInv ==
  ASSUME Inv, [Next]_vars
  PROVE  Inv' /\ (~Stops /\ ConnectedHasEcu => ConnectedHasEcu')
<1>1. CASE User
  BY <1>1, SessionCommandKept, PlainCommandKept, JobCommandKept, LidScanStopKept, SwitchKept,
     ScanCommandKept, ProcedureCommandKept, FlashCommandKept DEF User
<1>2. CASE World
  BY <1>2, StateOnly DEF World, EcuDoes, Lose
<1>3. CASE UNCHANGED vars
  BY <1>3, StateOnly DEF vars
<1> QED BY <1>1, <1>2, <1>3, FrameKept, TimerKept DEF Next

LEMMA Invariance == Spec => []Inv
BY InitInv, NextInv, PTL DEF Spec

----------------------------------------------------------------------------
(* The shell's state keeps its ranges, whatever is typed, answered, lost,    *)
(* late or garbled.                                                          *)
THEOREM TypeCorrect == Spec => []TypeOK
<1>1. ASSUME Inv PROVE TypeOK
  <2>1. scan.on \in BOOLEAN /\ scan.index \in 0 .. Len(EcuTable) + 1
    BY <1>1 DEF Inv, ScanIn, Scans
  <2>2. /\ lid.on \in BOOLEAN /\ lid.id \in 0 .. LidEnd
        /\ cfg.on \in BOOLEAN /\ cfg.index \in 0 .. Zones + 1
    BY <1>1 DEF Inv, LidIn, Lids, CfgIn, Cfgs
  <2>3. proc.name \in DOMAIN Procedures \cup {"None"}
    BY <1>1 DEF Inv, ProcIn, NoProc
  <2>4. flash.step \in Steps /\ flash.staged \in 0 .. MaxStaged /\ flash.index \in 0 .. MaxStaged
    BY <1>1 DEF Inv, FlashIn, Flashes
  <2> HIDE DEF Procedures, Steps
  <2> QED BY <1>1, <2>1, <2>2, <2>3, <2>4 DEF Inv, Session, States, TypeOK
<1> QED BY <1>1, Invariance, PTL

(* No cursor leaves its table, for every table of ECUs, range of identifiers *)
(* and zones, set of commands and faults (diag_shell.cpp:616).               *)
THEOREM CursorsStayIn == Spec => []CursorsInTables
<1>1. Inv => CursorsInTables
  BY DEF Inv, ScanIn, LidIn, CfgIn, CursorsInTables
<1> QED BY <1>1, Invariance, PTL

(* Every command that uses ecu_ finds one (include/psa/diag_shell.hpp:23),   *)
(* under every fault, as long as nobody types 'lidscan stop'.                *)
THEOREM SessionHasEcu ==
  ASSUME "lidscan stop" \notin Commands
  PROVE  Spec => []ConnectedHasEcu
<1>1. Init => ConnectedHasEcu
  BY Zenon DEF Init, ConnectedHasEcu, IsConnected
<1>2. Inv /\ ConnectedHasEcu /\ [Next]_vars => ConnectedHasEcu'
  BY NextInv DEF Stops
<1> QED BY <1>1, <1>2, Invariance, PTL DEF Spec

----------------------------------------------------------------------------
(* What a step sends: no write, whatever else it sends. *)
Reads == asked' = asked \/ asked'.kind \notin Writes

(* Requests that change nothing in an ECU. *)
Harmless == {"Open", "Program", "Close", "Alive", "Dtc", "Read", "Seed", "Key"}

(* A step that sends one harmless request sends no write. *)
LEMMA SendsIt ==
  ASSUME NEW e, NEW kind, NEW n, Send(<<Req(e, kind, n)>>)
  PROVE  asked'.kind = kind
BY DEF Send, Last, Req

LEMMA HarmlessSent ==
  ASSUME NEW e, NEW kind \in Harmless, NEW n, Send(<<Req(e, kind, n)>>)
  PROVE  Reads
BY SendsIt DEF Reads, Harmless, Writes

(* Neither does the sweep, nor the scan, whatever they go on with. *)
LEMMA LidScanReads ==
  ASSUME NEW l, NEW p, LidScanAdvance(l, p)
  PROVE  Reads
<1>1. ASSUME NEW k, LidScanSend(k) PROVE Reads
  BY <1>1, HarmlessSent DEF LidScanSend, SendAndWait, Harmless
<1>2. CASE Settle
  BY <1>2 DEF Settle, out, Reads
<1> QED BY <1>1, <1>2 DEF LidScanAdvance

(* What a scan is asked to send first: nothing, or a harmless request. *)
Before(first) == first = <<>> \/ \E kind \in Harmless, n \in Nat : first = <<Req(ecu, kind, n)>>

LEMMA ConnectReads ==
  ASSUME NEW s, NEW i, NEW first, Before(first), ConnectByIndex(s, i, first)
  PROVE  Reads
<1> DEFINE last == Req(EcuTable[i], "Open", 0)
<1>1. asked' = Last(first \o <<last>>)
  BY DEF ConnectByIndex, SendAndWait, Send
<1>2. last.kind = "Open"
  BY DEF Req
<1> HIDE DEF last
<1>3. CASE first = <<>>
  <2>1. first \o <<last>> = <<last>>
    BY <1>3
  <2> QED BY <1>1, <1>2, <2>1 DEF Last, Reads, Writes
<1>4. ASSUME NEW r, first = <<r>> PROVE Reads
  <2> DEFINE both == {r, last}
  <2>1. first \in Seq(both) /\ <<last>> \in Seq(both) /\ Len(first) = 1 /\ Len(<<last>>) = 1
    BY <1>4
  <2>2. Len(first \o <<last>>) = 2 /\ (first \o <<last>>)[2] = last
    BY <2>1, ConcatProperties
  <2> QED BY <1>1, <1>2, <2>2 DEF Last, Reads, Writes
<1> QED BY <1>3, <1>4 DEF Before

LEMMA AdvanceScanReads ==
  ASSUME NEW s, NEW first, NEW e, NEW p, Before(first), AdvanceScan(s, first, e, p)
  PROVE  Reads
<1>1. CASE ConnectByIndex(s, s.index + 1, first)
  BY <1>1, ConnectReads
<1>2. CASE first = <<>> /\ UNCHANGED out
  BY <1>2 DEF Reads, out
<1>3. ASSUME NEW kind \in Harmless, NEW n, first = <<Req(ecu, kind, n)>>, Send(first) PROVE Reads
  BY <1>3, HarmlessSent
<1>4. CASE IF first = <<>> THEN UNCHANGED out ELSE Send(first)
  BY <1>2, <1>3, <1>4 DEF Before
<1> QED BY <1>1, <1>4 DEF AdvanceScan

(* The three beginnings the code gives it. *)
LEMMA ZoneReadBefore == ASSUME Inv PROVE Before(ZoneRead) /\ Before(<<>>) /\ Before(<<Ask("Close")>>)
<1>1. cfg.index + 1 \in Nat
  BY BoundAssumption DEF Inv, CfgIn, Cfgs
<1>2. Before(ZoneRead)
  BY <1>1 DEF Before, Harmless, ZoneRead
<1>3. Before(<<Ask("Close")>>)
  BY DEF Before, Harmless, Ask
<1> QED BY <1>2, <1>3 DEF Before

----------------------------------------------------------------------------
(* Most steps leave the flash alone, start no procedure and only read; the   *)
(* others are those of a procedure or a flash, and the commands that write.  *)
Idly == Reads /\ UNCHANGED flash /\ proc' \in {proc, NoProc}

Busily ==
  \/ \E r : OnFlashSession(r)
  \/ \E service : OnFlash(service) /\ ~flash.opening
  \/ OnProcedure \/ WriteCommand \/ \E name \in DOMAIN Procedures : StartProcedure(name)
  \/ ResponseTimeout
  \/ FlashStage \/ FlashBegin \/ FlashEnd \/ FlashCancel

LEMMA UnsentIdle ==
  ASSUME UNCHANGED <<asked, flash>>, proc' \in {proc, NoProc}
  PROVE  Idly
BY DEF Idly, Reads

LEMMA NegativeIdle == ASSUME Inv, NEW r, OnNegative(r) PROVE Idly
<1>1. UNCHANGED flash /\ proc' \in {proc, NoProc}
  BY DEF OnNegative
<1>2. ASSUME NEW l, LidScanAdvance(l, 0) PROVE Reads
  BY <1>2, LidScanReads
<1>3. ASSUME UNCHANGED out PROVE Reads
  BY <1>3 DEF Reads, out
<1>4. ASSUME SendAndWait(ZoneRead) PROVE Reads
  BY <1>4, HarmlessSent DEF ZoneRead, SendAndWait, Harmless
<1>5. ASSUME AdvanceScan(Result("no comm"), IF cfg'.on THEN ZoneRead ELSE <<>>, NoEcu, 0)
      PROVE  Reads
  <2>1. Before(IF cfg'.on THEN ZoneRead ELSE <<>>)
    BY ZoneReadBefore
  <2> QED BY <1>5, <2>1, AdvanceScanReads
<1>6. Reads
  BY <1>2, <1>3, <1>4, <1>5 DEF OnNegative, Settle
<1> QED BY <1>1, <1>6 DEF Idly

LEMMA PositiveIdle ==
  ASSUME Inv, NEW r, OnPositive(r)
  PROVE  Idly \/ OnProcedure \/ \E service : OnFlash(service) /\ ~flash.opening
<1>0. ASSUME UNCHANGED out PROVE Reads
  BY <1>0 DEF Reads, out
<1>1. CASE OnSession
  <2>1. ASSUME SendAndWait(<<Ask("Dtc")>>) PROVE Reads
    BY <2>1, HarmlessSent DEF SendAndWait, Ask, Harmless
  <2>2. UNCHANGED <<proc, flash>>
    BY <1>1 DEF OnSession, jobs
  <2> QED BY <1>0, <1>1, <2>1, <2>2 DEF OnSession, Settle, Idly
<1>2. CASE OnClosed \/ OnDtc
  <2>1. UNCHANGED <<proc, flash>>
    BY <1>2 DEF OnClosed, OnDtc
  <2>2. Reads
    BY <1>0, <1>2, ZoneReadBefore, AdvanceScanReads DEF OnClosed, OnDtc, Settle
  <2> QED BY <2>1, <2>2 DEF Idly
<1>3. CASE OnCleared \/ OnKey
  <2>1. UNCHANGED out /\ UNCHANGED <<proc, flash>>
    BY <1>3 DEF OnCleared, OnKey, Settle, jobs
  <2> QED BY <1>0, <2>1 DEF Idly
<1>4. ASSUME NEW service, OnFlash(service) PROVE OnFlash(service) /\ ~flash.opening
  BY <1>4 DEF OnPositive, Claimed
<1>5. CASE OnZone
  <2>1. UNCHANGED <<proc, flash>>
    BY <1>5 DEF OnZone
  <2>2. ASSUME SendAndWait(ZoneRead) PROVE Reads
    BY <2>2, HarmlessSent DEF ZoneRead, SendAndWait, Harmless
  <2>3. Reads
    BY <1>0, <1>5, <2>2, LidScanReads DEF OnZone, Settle
  <2> QED BY <2>1, <2>3 DEF Idly
<1>6. CASE OnSeed
  <2>1. UNCHANGED <<proc, flash>>
    BY <1>6 DEF OnSeed, jobs
  <2>2. ASSUME SendAndWait(<<Ask("Key")>>) PROVE Reads
    BY <2>2, HarmlessSent DEF SendAndWait, Ask, Harmless
  <2> QED BY <1>0, <1>6, <2>1, <2>2 DEF OnSeed, Settle, Idly
<1> QED BY <1>1, <1>2, <1>3, <1>4, <1>5, <1>6 DEF OnPositive

LEMMA FrameIdle == ASSUME Inv, Frames PROVE Idly \/ Busily
<1>1. ASSUME NEW r, HandleResponse(r) PROVE Idly \/ Busily
  <2>1. CASE OnPending(r)
    BY <2>1, UnsentIdle DEF OnPending, out
  <2> QED BY <1>1, <2>1, NegativeIdle, PositiveIdle DEF HandleResponse, Busily
<1>2. CASE Receive
  BY <1>1, <1>2, UnsentIdle DEF Receive, jobs, out
<1>3. CASE ReassemblyError
  BY <1>3, UnsentIdle DEF ReassemblyError, Settle, jobs, out
<1>4. CASE TransferThrough \/ TransferAborted \/ TransferFails
  BY <1>4, UnsentIdle DEF TransferThrough, TransferAborted, TransferFails, jobs
<1> QED BY <1>2, <1>3, <1>4 DEF Frames

LEMMA TimerIdle == ASSUME Timers PROVE Idly \/ ResponseTimeout
<1>1. CASE LidScanTimeout
  BY <1>1, LidScanReads DEF LidScanTimeout, Idly
<1>2. CASE KeepAlive
  BY <1>2, UnsentIdle DEF KeepAlive, jobs
<1>3. CASE LivePoll
  <2>1. Reads
    BY <1>3, HarmlessSent DEF LivePoll, Ask, SendAndWait, Harmless
  <2> QED BY <1>3, <2>1 DEF LivePoll, jobs, Idly
<1> QED BY <1>1, <1>2, <1>3 DEF Timers

LEMMA UserIdle == ASSUME User PROVE Idly \/ Busily
<1>1. ASSUME NEW on \in BOOLEAN, Rw(on) \/ Live(on) PROVE Idly
  BY <1>1, UnsentIdle DEF Rw, Live, jobs, out
<1>2. ASSUME NEW pdi \in BOOLEAN, Scan(pdi) PROVE Idly
  <2>1. ASSUME NEW s, ConnectByIndex(s, 1, <<>>) PROVE Reads
    BY <2>1, ConnectReads DEF Before
  <2> QED BY <1>2, <2>1 DEF Scan, Idly
<1>3. ASSUME NEW e \in Range(EcuTable), Connect(e) PROVE Idly
  <2>1. Reads
    BY <1>3, HarmlessSent DEF Connect, SendAndWait, Harmless
  <2> QED BY <1>3, <2>1 DEF Connect, Idly
<1>4. CASE Disconnect
  <2>1. Reads
    BY <1>4, HarmlessSent DEF Disconnect, Ask, Harmless
  <2> QED BY <1>4, <2>1 DEF Disconnect, Idly
<1>5. CASE ReadCommand
  <2>1. PICK c \in DOMAIN ReadAsks : PlainAsk(c, ReadAsks[c])
    BY <1>5 DEF ReadCommand
  <2>2. ReadAsks[c] \in Harmless
    BY DEF ReadAsks, Harmless
  <2>3. Reads
    BY <2>1, <2>2, HarmlessSent DEF PlainAsk, Ask, SendAndWait
  <2> QED BY <2>1, <2>3 DEF PlainAsk, jobs, Idly
<1>6. CASE ConfigRead \/ ConfigReadAll
  <2>1. Reads
    BY <1>6, HarmlessSent DEF ConfigRead, ConfigReadAll, Ask, SendAndWait, Harmless
  <2> QED BY <1>6, <2>1 DEF ConfigRead, ConfigReadAll, Idly
<1>7. CASE LidScan
  <2>1. ASSUME NEW l, LidScanSend(l) PROVE Reads
    BY <2>1, HarmlessSent DEF LidScanSend, SendAndWait, Harmless
  <2> QED BY <1>7, <2>1 DEF LidScan, Idly
<1>8. CASE LidScanStop
  BY <1>8, UnsentIdle DEF LidScanStop, out
<1> QED BY <1>1, <1>2, <1>3, <1>4, <1>5, <1>6, <1>7, <1>8 DEF User, Busily

LEMMA StepIdle == ASSUME Inv, [Next]_vars PROVE Idly \/ Busily
<1>1. CASE World
  BY <1>1, UnsentIdle DEF World, EcuDoes, Lose, jobs
<1>2. CASE UNCHANGED vars
  BY <1>2, UnsentIdle DEF vars, jobs, out
<1> QED BY <1>1, <1>2, FrameIdle, TimerIdle, UserIdle DEF Next, Busily

----------------------------------------------------------------------------
(* A step in read-only mode starts no procedure and no flash, and writes     *)
(* only on behalf of one.                                                    *)
Guarded ==
  /\ proc = NoProc => proc' = NoProc
  /\ ~flash.active => ~flash'.active
  /\ asked' # asked /\ asked'.kind \in Writes => proc # NoProc \/ flash.active \/ flash.opening

LEMMA TimeoutReads == ASSUME ResponseTimeout PROVE Reads
<1>1. ASSUME NEW s, NEW i, ConnectByIndex(s, i, <<>>) PROVE Reads
  BY <1>1, ConnectReads DEF Before
<1> QED BY <1>1 DEF ResponseTimeout, Reads

LEMMA StepGuarded == ASSUME Inv, ~rw, [Next]_vars PROVE Guarded
<1>1. CASE Idly
  BY <1>1 DEF Idly, Reads, Guarded
<1>2. ASSUME NEW r, OnFlashSession(r) PROVE Guarded
  <2>1. flash.opening /\ UNCHANGED proc
    BY <1>2 DEF OnFlashSession, Claimed
  <2>2. flash'.active \in {FALSE, flash.active}
    BY <1>2 DEF OnFlashSession, Inv, FlashIn, Flashes
  <2> QED BY <2>1, <2>2 DEF Guarded
<1>3. ASSUME NEW service, OnFlash(service) PROVE Guarded
  BY <1>3 DEF OnFlash, Guarded
<1>4. CASE OnProcedure
  BY <1>4 DEF OnProcedure, Guarded
<1>5. CASE ResponseTimeout
  <2>1. flash' = [flash EXCEPT !.active = FALSE] /\ proc' = NoProc
    BY <1>5 DEF ResponseTimeout
  <2>2. ~flash'.active
    BY <2>1 DEF Inv, FlashIn, Flashes
  <2> QED BY <1>5, <2>1, <2>2, TimeoutReads DEF Guarded, Reads
<1> QED BY <1>1, <1>2, <1>3, <1>4, <1>5, StepIdle
        DEF Busily, WriteCommand, StartProcedure, FlashStage, FlashBegin, FlashEnd, FlashCancel,
            MayFlash

(* No command starts a write in read-only mode, and no job but a procedure   *)
(* or a flash that has begun writes (diag_shell.cpp:316-331).                *)
THEOREM WritesBegun == Spec => WritesBegunReadWrite
<1>1. Inv /\ [Next]_vars => [~rw => Guarded]_vars
  BY StepGuarded
<1>2. Spec => [][~rw => Guarded]_vars
  BY <1>1, Invariance, PTL DEF Spec
<1> QED BY <1>2 DEF WritesBegunReadWrite, Guarded

----------------------------------------------------------------------------
(* ECUs that answer in time or not at all, a user who waits for the wire,    *)
(* and none of what section 4 of the README shows to disturb a job: live     *)
(* polling, a flash, procedures that clear trouble codes, transfers that     *)
(* break off, replies that are garbled, an ECU that outlasts the cap.        *)
Undisturbed ==
  /\ PromptEcu /\ UnhurriedUser
  /\ Faults \subseteq {"loss"}
  /\ Commands \cap {"live", "flash begin", "EspCalib", "BsiInit"} = {}
  /\ EcuPatience <= MaxResponsePending

Requests == [ecu : Range(EcuTable), kind : Kinds, n : Nat]
Replies == [req : Requests, kind : EcuAnswers]

(* What is on the wire, and the one request a reply is awaited to: it is in  *)
(* tx, or it is the last of toEcu, or its replies are the last of toShell.   *)
Carried == tx \in Requests \cup {NoReq} /\ toEcu \in Seq(Requests) /\ toShell \in Seq(Replies)

AskedIn(q, a, x) ==
  \A i \in 1 .. Len(q) : q[i].ecu = a.ecu => q[i] = a /\ i = Len(q) /\ x = NoReq
AnswersIn(q, a, x, requests, p) ==
  \A i \in 1 .. Len(q) :
    q[i].req.ecu = a.ecu =>
      /\ q[i].req = a /\ x = NoReq
      /\ \/ q[i].kind = "pending" /\ i = 1 /\ p < EcuPatience
         \/ q[i].kind # "pending" /\ i = Len(q) /\ requests = <<>>

Awaited ==
  /\ ecu \in Range(EcuTable) /\ asked.ecu = ecu /\ asked.kind # "Alive" /\ tx \in {NoReq, asked}
  /\ AskedIn(toEcu, asked, tx)
  /\ AnswersIn(toShell, asked, tx, toEcu, pending)

(* With no reply awaited, only keep-alives are under way to this ECU.        *)
AliveIn(q, e) == \A i \in 1 .. Len(q) : q[i].ecu = e => q[i].kind = "Alive"
AliveAnswersIn(q, e) ==
  \A i \in 1 .. Len(q) : q[i].req.ecu = e => q[i].req.kind = "Alive" /\ q[i].kind # "pending"

Alone ==
  /\ ecu \in Range(EcuTable) /\ tx = NoReq
  /\ AliveIn(toEcu, ecu) /\ AliveAnswersIn(toShell, ecu)

Wires ==
  /\ Carried
  /\ state = "WaitingResponse" => Awaited
  /\ state = "Connected" => Alone

(* Each job has asked for what it is waiting for, and is the only one.       *)
Reported(s, n) == \A i \in 1 .. n : s.results[i] # "not scanned"

Scanning ==
  scan.on =>
    /\ state = "WaitingResponse" /\ ~lid.on /\ ~cfg.on /\ proc = NoProc
    /\ ecu = EcuTable[scan.index] /\ Reported(scan, scan.index - 1)
    /\ asked \in {Req(ecu, "Open", 0), Req(ecu, "Dtc", 0)}
Sweeping ==
  lid.on => /\ state = "WaitingResponse" /\ ~cfg.on /\ proc = NoProc
            /\ asked = Req(ecu, "Read", lid.id)
Zoning ==
  cfg.on => state = "WaitingResponse" /\ proc = NoProc /\ asked = Req(ecu, "Read", cfg.index)

Plain == DOMAIN Procedures \ {"EspCalib", "BsiInit"}
Proceeding ==
  proc # NoProc =>
    /\ state = "WaitingResponse" /\ proc.name \in Plain
    /\ proc.step \in 1 .. Len(Procedures[proc.name])
    /\ asked = Req(ecu, Procedures[proc.name][proc.step], proc.step)
Without == ~live /\ ~flash.active /\ ~flash.opening

Jobs == Scanning /\ Sweeping /\ Zoning /\ Proceeding /\ Without
JobsInv == Inv /\ Wires /\ Jobs

(* What a step counts and reports. *)
Counted ==
  /\ HitsAttributed
  /\ scan.on /\ scan'.index > Len(EcuTable) => Reported(scan', Len(EcuTable))

Goes == Wires' /\ Jobs' /\ Counted

Jobless == ~scan.on /\ ~lid.on /\ ~cfg.on /\ proc = NoProc

LEMMA Idleness == ASSUME Jobs, state # "WaitingResponse" PROVE Jobless
BY DEF Jobs, Scanning, Sweeping, Zoning, Proceeding, Jobless

(* The procedures that are left write or run a routine.                      *)
LEMMA PlainSteps ==
  ASSUME NEW name \in Plain
  PROVE  /\ Len(Procedures[name]) \in Nat \ {0}
         /\ \A i \in 1 .. Len(Procedures[name]) : Procedures[name][i] \in {"Write", "Routine"}
<1>1. name \in {"ServiceReset", "ServiceSchedule", "KeyLearn", "EspBleed"}
  BY DEF Plain, Procedures
<1>2. CASE name = "EspBleed"
  <2>1. Procedures[name] = [i \in 1 .. 7 |-> "Routine"]
    BY <1>2 DEF Procedures
  <2>2. Len([i \in 1 .. 7 |-> "Routine"]) = 7
    OBVIOUS
  <2> QED BY <2>1, <2>2
<1>3. CASE name \in {"ServiceReset", "ServiceSchedule"}
  BY <1>3 DEF Procedures
<1>4. CASE name = "KeyLearn"
  BY <1>4 DEF Procedures
<1> QED BY <1>1, <1>2, <1>3, <1>4

----------------------------------------------------------------------------
(* Nothing is under way any more once this step has taken what it took.      *)
Over == toEcu = <<>> /\ tx = NoReq /\ toShell' = <<>>

LEMMA Settled ==
  ASSUME Over, Settle, UNCHANGED ecu, ecu \in Range(EcuTable)
  PROVE  Wires' /\ state' = "Connected"
<1>1. tx' = NoReq /\ toEcu' = <<>> /\ toShell' = <<>> /\ state' = "Connected" /\ ecu' = ecu
  BY DEF Over, Settle, out
<1> QED BY <1>1 DEF Wires, Carried, Alone, AliveIn, AliveAnswersIn

LEMMA Unsent ==
  ASSUME Over, UNCHANGED out, state' = "Idle"
  PROVE  Wires'
<1>1. tx' = NoReq /\ toEcu' = <<>> /\ toShell' = <<>>
  BY DEF Over, out
<1> QED BY <1>1 DEF Wires, Carried

LEMMA OneSent ==
  ASSUME Over, NEW r \in Requests, Send(<<r>>), ecu' = r.ecu, r.kind # "Alive",
         state' \in {"Idle", "WaitingResponse"}
  PROVE  Wires' /\ asked' = r
<1>1. Last(<<r>>) = r /\ Front(<<r>>) = <<>> /\ <<>> \o <<r>> = <<r>>
  BY DEF Last, Front
<1>2. asked' = r /\ ((tx' = NoReq /\ toEcu' = <<r>>) \/ (tx' = r /\ toEcu' = <<>>))
  BY <1>1 DEF Send, Over
<1>3. toShell' = <<>> /\ r.ecu \in Range(EcuTable)
  BY DEF Over, Requests
<1> DEFINE q == <<r>>
<1>4. q \in Seq(Requests) /\ Len(q) = 1 /\ q[1] = r /\ <<>> \in Seq(Requests) /\ <<>> \in Seq(Replies)
      /\ Len(<<>>) = 0
  OBVIOUS
<1> HIDE DEF q
<1>5. Carried'
  <2>1. toEcu' \in {q, <<>>} /\ tx' \in {r, NoReq}
    BY <1>2 DEF q
  <2>2. toEcu' \in Seq(Requests)
    BY <1>4, <2>1
  <2> QED BY <1>3, <1>4, <2>1, <2>2 DEF Carried
<1>6. AskedIn(toEcu, asked, tx)'
  <2> SUFFICES ASSUME NEW i \in 1 .. Len(toEcu'), toEcu'[i].ecu = asked'.ecu
               PROVE  toEcu'[i] = asked' /\ i = Len(toEcu') /\ tx' = NoReq
    BY DEF AskedIn
  <2>1. CASE tx' = NoReq /\ toEcu' = q
    <3>0. Len(toEcu') = 1
      BY <1>4, <2>1
    <3>1. i \in {1}
      BY <3>0
    <3> QED BY <1>4, <1>2, <2>1, <3>1
  <2>2. CASE tx' = r /\ toEcu' = <<>>
    <3>1. i \in {}
      BY <1>1, <1>4, <2>2
    <3> QED BY <1>1, <1>2, <2>2, <3>1
  <2> QED BY <1>2, <2>1, <2>2 DEF q
<1>7. AnswersIn(toShell, asked, tx, toEcu, pending)'
  <2>1. Len(toShell') = 0
    BY <1>3, <1>4
  <2> QED BY <2>1 DEF AnswersIn
<1>8. Awaited'
  BY <1>2, <1>3, <1>6, <1>7 DEF Awaited
<1> QED BY <1>2, <1>5, <1>8 DEF Wires, q

(* A close that nothing is waited for.                                       *)
LEMMA ClosedSent ==
  ASSUME Over, NEW r \in Requests, Send(<<r>>), state' = "Idle"
  PROVE  Wires'
<1>1. Last(<<r>>) = r /\ Front(<<r>>) = <<>> /\ <<>> \o <<r>> = <<r>>
  BY DEF Last, Front
<1>2. (tx' = NoReq /\ toEcu' = <<r>>) \/ (tx' = r /\ toEcu' = <<>>)
  BY <1>1 DEF Send, Over
<1>3. <<r>> \in Seq(Requests) /\ <<>> \in Seq(Requests) /\ <<>> \in Seq(Replies)
  OBVIOUS
<1> QED BY <1>2, <1>3 DEF Wires, Carried, Over

LEMMA TwoSent ==
  ASSUME Over, NEW f \in Requests, NEW r \in Requests, f.ecu # r.ecu, Send(<<f>> \o <<r>>),
         ecu' = r.ecu, r.kind # "Alive", state' \in {"Idle", "WaitingResponse"}
  PROVE  Wires' /\ asked' = r
<1> DEFINE both == <<f>> \o <<r>>
<1>0. /\ both \in Seq(Requests) /\ Len(both) = 2 /\ both[1] = f /\ both[2] = r
      /\ <<>> \o both = both
  <2>1. <<f>> \in Seq(Requests) /\ <<r>> \in Seq(Requests) /\ Len(<<f>>) = 1 /\ Len(<<r>>) = 1
    OBVIOUS
  <2>2. both \in Seq(Requests) /\ Len(both) = 2 /\ both[1] = f /\ both[2] = r
    BY <2>1, ConcatProperties
  <2> HIDE DEF both
  <2> QED BY <2>1, <2>2
<1> HIDE DEF both
<1> DEFINE q == Front(both)
<1>1. Last(both) = r /\ q \in Seq(Requests) /\ Len(q) = 1 /\ q[1] = f /\ <<>> \o q = q
  <2>1. Last(both) = r
    BY <1>0 DEF Last
  <2>2. q = SubSeq(both, 1, 1)
    BY <1>0 DEF Front
  <2>3. q \in Seq(Requests) /\ Len(q) = 1 /\ q[1] = f
    BY <1>0, <2>2
  <2> HIDE DEF q
  <2> QED BY <2>1, <2>3
<1>2. asked' = r /\ ((tx' = NoReq /\ toEcu' = both) \/ (tx' = r /\ toEcu' = q))
  <2>1. Send(both)
    BY DEF both
  <2> QED BY <1>0, <1>1, <2>1 DEF Send, Over
<1> HIDE DEF q
<1>3. toShell' = <<>> /\ r.ecu \in Range(EcuTable)
  BY DEF Over, Requests
<1>4. <<>> \in Seq(Replies) /\ Len(<<>>) = 0
  OBVIOUS
<1>5. Carried'
  <2>1. toEcu' \in {q, both} /\ tx' \in {r, NoReq}
    BY <1>2
  <2>2. toEcu' \in Seq(Requests)
    BY <1>0, <1>1, <2>1
  <2> QED BY <1>3, <1>4, <2>1, <2>2 DEF Carried
<1>6. AskedIn(toEcu, asked, tx)'
  <2> SUFFICES ASSUME NEW i \in 1 .. Len(toEcu'), toEcu'[i].ecu = asked'.ecu
               PROVE  toEcu'[i] = asked' /\ i = Len(toEcu') /\ tx' = NoReq
    BY DEF AskedIn
  <2>1. CASE tx' = NoReq /\ toEcu' = both
    <3>0. Len(toEcu') = 2
      BY <1>0, <2>1
    <3>1. i \in {1, 2}
      BY <3>0
    <3> QED BY <1>0, <1>2, <2>1, <3>1
  <2>2. CASE tx' = r /\ toEcu' = q
    <3>0. Len(toEcu') = 1
      BY <1>1, <1>4, <2>2
    <3>1. i \in {1}
      BY <3>0
    <3> QED BY <1>1, <1>2, <2>2, <3>1
  <2> QED BY <1>2, <2>1, <2>2
<1>7. AnswersIn(toShell, asked, tx, toEcu, pending)'
  <2>1. Len(toShell') = 0
    BY <1>3, <1>4
  <2> QED BY <2>1 DEF AnswersIn
<1>8. Awaited'
  BY <1>2, <1>3, <1>6, <1>7 DEF Awaited
<1> QED BY <1>2, <1>5, <1>8 DEF Wires

----------------------------------------------------------------------------
(* The wire: what goes on to the other end, is lost, or is answered.         *)
LEMMA Shorter ==
  ASSUME NEW S, NEW q \in Seq(S), q # <<>>
  PROVE  /\ Len(q) \in Nat \ {0} /\ Head(q) = q[1] /\ q[1] \in S
         /\ Tail(q) \in Seq(S) /\ Len(Tail(q)) = Len(q) - 1
         /\ \A i \in 1 .. Len(Tail(q)) : i + 1 \in 1 .. Len(q) /\ Tail(q)[i] = q[i + 1]
OBVIOUS

LEMMA Longer ==
  ASSUME NEW S, NEW q \in Seq(S), NEW e \in S
  PROVE  /\ Len(q) \in Nat /\ Append(q, e) \in Seq(S) /\ Len(Append(q, e)) = Len(q) + 1
         /\ Append(q, e)[Len(q) + 1] = e /\ \A i \in 1 .. Len(q) : Append(q, e)[i] = q[i]
OBVIOUS

LEMMA NoneLeft ==
  ASSUME NEW S, NEW q \in Seq(S), q # <<>>, Len(q) = 1
  PROVE  Tail(q) = <<>>
<1> DEFINE t == Tail(q)
<1>1. t \in Seq(S) /\ Len(t) = Len(q) - 1
  BY Shorter
<1> HIDE DEF t
<1>2. t = <<>>
  BY <1>1
<1> QED BY <1>2 DEF t

LEMMA AskedTail ==
  ASSUME NEW q \in Seq(Requests), q # <<>>, NEW a, NEW x, AskedIn(q, a, x)
  PROVE  AskedIn(Tail(q), a, x) /\ (q[1].ecu = a.ecu => q[1] = a /\ x = NoReq /\ Tail(q) = <<>>)
<1>1. AskedIn(Tail(q), a, x)
  BY Shorter DEF AskedIn
<1>2. 1 \in 1 .. Len(q) /\ Len(Tail(q)) = Len(q) - 1 /\ Tail(q) \in Seq(Requests)
  BY Shorter
<1>3. ASSUME q[1].ecu = a.ecu PROVE q[1] = a /\ x = NoReq /\ Tail(q) = <<>>
  <2>1. q[1] = a /\ 1 = Len(q) /\ x = NoReq
    BY <1>2, <1>3 DEF AskedIn
  <2>2. Tail(q) = <<>>
    BY <2>1, NoneLeft
  <2> QED BY <2>1, <2>2
<1> QED BY <1>1, <1>3

LEMMA AnswersTail ==
  ASSUME NEW q \in Seq(Replies), q # <<>>, NEW a, NEW x, NEW requests, NEW p, NEW p2,
         AnswersIn(q, a, x, requests, p)
  PROVE  /\ AnswersIn(Tail(q), a, x, requests, p2)
         /\ q[1].req.ecu = a.ecu =>
              /\ q[1].req = a /\ x = NoReq
              /\ q[1].kind = "pending" => p < EcuPatience
              /\ q[1].kind # "pending" => Tail(q) = <<>> /\ requests = <<>>
<1>1. 1 \in 1 .. Len(q) /\ Len(q) \in Nat \ {0} /\ Len(Tail(q)) = Len(q) - 1 /\ Tail(q) \in Seq(Replies)
  BY Shorter
<1>2. AnswersIn(Tail(q), a, x, requests, p2)
  <2> SUFFICES ASSUME NEW i \in 1 .. Len(Tail(q)), Tail(q)[i].req.ecu = a.ecu
               PROVE  /\ Tail(q)[i].req = a /\ x = NoReq
                      /\ Tail(q)[i].kind # "pending" /\ i = Len(Tail(q)) /\ requests = <<>>
    BY DEF AnswersIn
  <2>1. i + 1 \in 1 .. Len(q) /\ Tail(q)[i] = q[i + 1] /\ i + 1 # 1
    BY Shorter
  <2>2. q[i + 1].req = a /\ x = NoReq /\ q[i + 1].kind # "pending" /\ i + 1 = Len(q) /\ requests = <<>>
    BY <2>1 DEF AnswersIn
  <2>3. i = Len(Tail(q))
    <3> DEFINE n == Len(Tail(q))
    <3>1. n = Len(q) - 1 /\ Len(q) \in Nat /\ i \in Nat
      BY <1>1
    <3> HIDE DEF n
    <3>2. i = n
      BY <2>2, <3>1
    <3> QED BY <3>2 DEF n
  <2> QED BY <2>1, <2>2, <2>3
<1>3. ASSUME q[1].req.ecu = a.ecu
      PROVE  /\ q[1].req = a /\ x = NoReq
             /\ q[1].kind = "pending" => p < EcuPatience
             /\ q[1].kind # "pending" => 1 = Len(q) /\ requests = <<>>
  BY <1>1, <1>3 DEF AnswersIn
<1>4. ASSUME 1 = Len(q) PROVE Tail(q) = <<>>
  BY <1>4, NoneLeft
<1> QED BY <1>2, <1>3, <1>4

LEMMA AliveTail ==
  /\ \A q \in Seq(Requests) : \A e : q # <<>> /\ AliveIn(q, e) =>
       AliveIn(Tail(q), e) /\ (q[1].ecu = e => q[1].kind = "Alive")
  /\ \A q \in Seq(Replies) : \A e : q # <<>> /\ AliveAnswersIn(q, e) =>
       /\ AliveAnswersIn(Tail(q), e)
       /\ q[1].req.ecu = e => q[1].req.kind = "Alive" /\ q[1].kind # "pending"
<1>1. ASSUME NEW q \in Seq(Requests), NEW e, q # <<>>, AliveIn(q, e)
      PROVE  AliveIn(Tail(q), e) /\ (q[1].ecu = e => q[1].kind = "Alive")
  <2>1. 1 \in 1 .. Len(q)
    BY <1>1, Shorter
  <2> QED BY <1>1, <2>1, Shorter DEF AliveIn
<1>2. ASSUME NEW q \in Seq(Replies), NEW e, q # <<>>, AliveAnswersIn(q, e)
      PROVE  /\ AliveAnswersIn(Tail(q), e)
             /\ q[1].req.ecu = e => q[1].req.kind = "Alive" /\ q[1].kind # "pending"
  <2>1. 1 \in 1 .. Len(q)
    BY <1>2, Shorter
  <2> QED BY <1>2, <2>1, Shorter DEF AliveAnswersIn
<1> QED BY <1>1, <1>2

(* The ECU answers the oldest request for good.                              *)
LEMMA AnswersMore ==
  ASSUME NEW q \in Seq(Replies), NEW t \in Seq(Requests), t # <<>>, NEW a, NEW x, NEW p,
         AskedIn(t, a, x), AnswersIn(q, a, x, t, p),
         NEW r \in Replies, r.req = t[1], r.kind # "pending"
  PROVE  AnswersIn(Append(q, r), a, x, Tail(t), p)
<1> DEFINE u == Append(q, r)
<1>1. u \in Seq(Replies) /\ Len(u) = Len(q) + 1 /\ Len(q) \in Nat /\ u[Len(q) + 1] = r
      /\ \A i \in 1 .. Len(q) : u[i] = q[i]
  BY Longer
<1> HIDE DEF u
<1>2. ASSUME NEW i \in 1 .. Len(u), u[i].req.ecu = a.ecu
      PROVE  /\ u[i].req = a /\ x = NoReq
             /\ \/ u[i].kind = "pending" /\ i = 1 /\ p < EcuPatience
                \/ u[i].kind # "pending" /\ i = Len(u) /\ Tail(t) = <<>>
  <2>1. CASE i = Len(q) + 1
    <3>1. t[1] = a /\ x = NoReq /\ Tail(t) = <<>>
      BY <1>1, <1>2, <2>1, AskedTail
    <3> QED BY <1>1, <2>1, <3>1
  <2>2. CASE i # Len(q) + 1
    <3>1. i \in 1 .. Len(q) /\ u[i] = q[i]
      BY <1>1, <1>2, <2>2
    <3> QED BY <1>2, <3>1 DEF AnswersIn
  <2> QED BY <2>1, <2>2
<1> QED BY <1>2 DEF AnswersIn, u

LEMMA AliveMore ==
  ASSUME NEW q \in Seq(Replies), NEW e, AliveAnswersIn(q, e), NEW r \in Replies,
         r.req.ecu = e => r.req.kind = "Alive" /\ r.kind # "pending"
  PROVE  AliveAnswersIn(Append(q, r), e)
<1> DEFINE u == Append(q, r)
<1>1. u \in Seq(Replies) /\ Len(u) = Len(q) + 1 /\ Len(q) \in Nat /\ u[Len(q) + 1] = r
      /\ \A i \in 1 .. Len(q) : u[i] = q[i]
  BY Longer
<1> HIDE DEF u
<1>2. ASSUME NEW i \in 1 .. Len(u), u[i].req.ecu = e
      PROVE  u[i].req.kind = "Alive" /\ u[i].kind # "pending"
  <2>1. CASE i = Len(q) + 1
    BY <1>1, <1>2, <2>1
  <2>2. CASE i # Len(q) + 1
    <3>1. i \in 1 .. Len(q) /\ u[i] = q[i]
      BY <1>1, <1>2, <2>2
    <3> QED BY <1>2, <3>1 DEF AliveAnswersIn
  <2> QED BY <2>1, <2>2
<1> QED BY <1>2 DEF AliveAnswersIn, u

(* None of this is seen by the shell before it takes a reply.                *)
Unseen == UNCHANGED <<state, ecu, asked, pending>>

LEMMA RequestTaken ==
  ASSUME Wires, Unseen, UNCHANGED <<tx, toShell>>, toEcu # <<>>, toEcu' = Tail(toEcu)
  PROVE  Wires'
<1>1. Carried'
  BY Shorter DEF Wires, Carried
<1>2. ASSUME Awaited PROVE Awaited'
  <2>1. AskedIn(Tail(toEcu), asked, tx)
    BY <1>2, AskedTail DEF Wires, Carried, Awaited
  <2>2. AnswersIn(toShell, asked, tx, Tail(toEcu), pending)
    BY <1>2 DEF Awaited, AnswersIn
  <2>3. AskedIn(toEcu, asked, tx)' /\ AnswersIn(toShell, asked, tx, toEcu, pending)'
    BY <2>1, <2>2 DEF AskedIn, AnswersIn, Unseen
  <2> QED BY <1>2, <2>3 DEF Awaited, Unseen
<1>3. ASSUME Alone PROVE Alone'
  <2>1. AliveIn(Tail(toEcu), ecu)
    BY <1>3, AliveTail DEF Wires, Carried, Alone
  <2>2. AliveIn(toEcu, ecu)' /\ AliveAnswersIn(toShell, ecu)'
    BY <1>3, <2>1 DEF Alone, AliveIn, AliveAnswersIn, Unseen
  <2> QED BY <1>3, <2>2 DEF Alone, Unseen
<1> QED BY <1>1, <1>2, <1>3 DEF Wires, Unseen

LEMMA ReplyTaken ==
  ASSUME Wires, UNCHANGED <<state, ecu, asked, tx, toEcu>>, toShell # <<>>, toShell' = Tail(toShell)
  PROVE  Wires'
<1>1. Carried'
  BY Shorter DEF Wires, Carried
<1>2. ASSUME Awaited PROVE Awaited'
  <2>1. AnswersIn(Tail(toShell), asked, tx, toEcu, pending')
    BY <1>2, AnswersTail DEF Wires, Carried, Awaited
  <2>2. AskedIn(toEcu, asked, tx)' /\ AnswersIn(toShell, asked, tx, toEcu, pending)'
    BY <1>2, <2>1 DEF Awaited, AskedIn, AnswersIn
  <2> QED BY <1>2, <2>2 DEF Awaited
<1>3. ASSUME Alone PROVE Alone'
  <2>1. AliveAnswersIn(Tail(toShell), ecu)
    BY <1>3, AliveTail DEF Wires, Carried, Alone
  <2>2. AliveIn(toEcu, ecu)' /\ AliveAnswersIn(toShell, ecu)'
    BY <1>3, <2>1 DEF Alone, AliveIn, AliveAnswersIn
  <2> QED BY <1>3, <2>2 DEF Alone
<1> QED BY <1>1, <1>2, <1>3 DEF Wires

LEMMA RequestAnswered ==
  ASSUME Wires, Unseen, UNCHANGED tx, toEcu # <<>>, toEcu' = Tail(toEcu),
         NEW a \in EcuAnswers, a # "pending", toShell' = Append(toShell, Reply(Head(toEcu), a))
  PROVE  Wires'
<1> DEFINE r == Reply(Head(toEcu), a)
<1>1. toEcu \in Seq(Requests) /\ toShell \in Seq(Replies)
  BY DEF Wires, Carried
<1>2. r \in Replies /\ r.req = toEcu[1] /\ r.kind = a
  BY <1>1, Shorter DEF Reply, Replies
<1> HIDE DEF r
<1>3. toShell' = Append(toShell, r)
  BY DEF r
<1>4. Carried'
  BY <1>1, <1>2, <1>3, Shorter, Longer DEF Wires, Carried
<1>5. ASSUME Awaited PROVE Awaited'
  <2>1. AskedIn(Tail(toEcu), asked, tx)
    BY <1>1, <1>5, AskedTail DEF Awaited
  <2>2. AnswersIn(Append(toShell, r), asked, tx, Tail(toEcu), pending)
    BY <1>1, <1>2, <1>5, AnswersMore DEF Awaited
  <2>3. AskedIn(toEcu, asked, tx)' /\ AnswersIn(toShell, asked, tx, toEcu, pending)'
    BY <1>3, <2>1, <2>2 DEF AskedIn, AnswersIn, Unseen
  <2> QED BY <1>5, <2>3 DEF Awaited, Unseen
<1>6. ASSUME Alone PROVE Alone'
  <2>1. AliveIn(Tail(toEcu), ecu) /\ (toEcu[1].ecu = ecu => toEcu[1].kind = "Alive")
    BY <1>1, <1>6, AliveTail DEF Alone
  <2>2. AliveAnswersIn(Append(toShell, r), ecu)
    BY <1>1, <1>2, <1>6, <2>1, AliveMore DEF Alone
  <2>3. AliveIn(toEcu, ecu)' /\ AliveAnswersIn(toShell, ecu)'
    BY <1>3, <2>1, <2>2 DEF AliveIn, AliveAnswersIn, Unseen
  <2> QED BY <1>6, <2>3 DEF Alone, Unseen
<1> QED BY <1>4, <1>5, <1>6 DEF Wires, Unseen

LEMMA PatienceAsked ==
  ASSUME Wires, Unseen, UNCHANGED <<tx, toEcu>>, toEcu # <<>>, toShell = <<>>, pending < EcuPatience,
         Head(toEcu).ecu = ecu, Head(toEcu).kind # "Alive",
         "pending" \in EcuAnswers, toShell' = Append(toShell, Reply(Head(toEcu), "pending"))
  PROVE  Wires'
<1> DEFINE r == Reply(Head(toEcu), "pending")
<1>1. toEcu \in Seq(Requests) /\ toShell \in Seq(Replies)
  BY DEF Wires, Carried
<1>2. r \in Replies /\ r.req = toEcu[1] /\ r.kind = "pending"
  BY <1>1, Shorter DEF Reply, Replies
<1> HIDE DEF r
<1>3. /\ toShell' \in Seq(Replies) /\ Len(toShell') = 1 /\ toShell'[1] = r
  <2>1. Len(toShell) = 0 /\ toShell' = Append(toShell, r)
    BY DEF r
  <2> QED BY <1>1, <1>2, <2>1, Longer
<1>4. Carried'
  BY <1>1, <1>3 DEF Wires, Carried
<1>5. ASSUME Awaited PROVE Awaited'
  <2>1. AskedIn(toEcu, asked, tx)'
    BY <1>5 DEF Awaited, AskedIn, Unseen
  <2>2. r.req = asked /\ tx = NoReq
    BY <1>1, <1>2, <1>5, Shorter, AskedTail DEF Awaited
  <2>3. AnswersIn(toShell, asked, tx, toEcu, pending)'
    <3>1. \A i \in 1 .. Len(toShell') : i = 1
      BY <1>3
    <3> QED BY <1>2, <1>3, <2>2, <3>1 DEF AnswersIn, Unseen
  <2> QED BY <1>5, <2>1, <2>3 DEF Awaited, Unseen
<1>6. ~Alone
  BY <1>1, <1>2, Shorter, AliveTail DEF Alone
<1> QED BY <1>4, <1>5, <1>6 DEF Wires, Unseen

LEMMA ThroughWires == ASSUME Wires, TransferThrough PROVE Wires'
<1>1. /\ tx # NoReq /\ tx' = NoReq /\ toEcu' = Append(toEcu, tx)
      /\ UNCHANGED <<state, ecu, asked, pending, toShell>>
  BY DEF TransferThrough
<1>2. toEcu \in Seq(Requests) /\ toShell \in Seq(Replies) /\ tx \in Requests
  BY <1>1 DEF Wires, Carried
<1>3. /\ toEcu' \in Seq(Requests) /\ Len(toEcu') = Len(toEcu) + 1 /\ Len(toEcu) \in Nat
      /\ toEcu'[Len(toEcu) + 1] = tx /\ \A i \in 1 .. Len(toEcu) : toEcu'[i] = toEcu[i]
  BY <1>1, <1>2, Longer
<1>4. Carried'
  BY <1>1, <1>2, <1>3 DEF Carried
<1>5. ASSUME Awaited PROVE Awaited'
  <2>1. tx = asked
    BY <1>1, <1>5 DEF Awaited
  <2>2. AskedIn(toEcu, asked, tx)'
    <3> SUFFICES ASSUME NEW i \in 1 .. Len(toEcu'), toEcu'[i].ecu = asked'.ecu
                 PROVE  toEcu'[i] = asked' /\ i = Len(toEcu') /\ tx' = NoReq
      BY DEF AskedIn
    <3>1. i \notin 1 .. Len(toEcu)
      BY <1>1, <1>3, <1>5 DEF Awaited, AskedIn
    <3>2. i = Len(toEcu) + 1
      BY <1>3, <3>1
    <3> QED BY <1>1, <1>3, <2>1, <3>2
  <2>3. AnswersIn(toShell, asked, tx, toEcu, pending)'
    BY <1>1, <1>5 DEF Awaited, AnswersIn
  <2> QED BY <1>1, <1>5, <2>2, <2>3 DEF Awaited
<1>6. ~Alone
  BY <1>1 DEF Alone
<1> QED BY <1>1, <1>4, <1>5, <1>6 DEF Wires

----------------------------------------------------------------------------
(* The jobs' own steps, with nothing else under way.                         *)
LEMMA ReqIn ==
  ASSUME NEW e \in Range(EcuTable), NEW kind \in Kinds, NEW n \in Nat
  PROVE  Req(e, kind, n) \in Requests /\ Req(e, kind, n).ecu = e /\ Req(e, kind, n).kind = kind
BY DEF Req, Requests

LEMMA AsksNow ==
  ASSUME Over, NEW kind \in Kinds, kind # "Alive", NEW n \in Nat, ecu \in Range(EcuTable),
         UNCHANGED ecu, SendAndWait(<<Req(ecu, kind, n)>>)
  PROVE  Wires' /\ state' = "WaitingResponse" /\ asked' = Req(ecu, kind, n)
<1> DEFINE r == Req(ecu, kind, n)
<1>1. r \in Requests /\ r.ecu = ecu /\ r.kind = kind
  BY ReqIn
<1>2. Send(<<r>>) /\ state' = "WaitingResponse"
  BY DEF SendAndWait
<1> HIDE DEF r
<1>3. Wires' /\ asked' = r
  BY <1>1, <1>2, OneSent
<1> QED BY <1>2, <1>3 DEF r

LEMMA SweepGoesOn ==
  ASSUME Over, UNCHANGED ecu, ecu \in Range(EcuTable), NEW l, LidIn(l), l.on, NEW p, LidScanAdvance(l, p)
  PROVE  /\ Wires' /\ lid'.hits = l.hits
         /\ lid'.on => state' = "WaitingResponse" /\ asked' = Req(ecu, "Read", lid'.id)
<1>1. CASE l.id < LidEnd /\ LidScanSend([l EXCEPT !.id = @ + 1])
  <2>1. lid' = [l EXCEPT !.id = @ + 1] /\ SendAndWait(<<Req(ecu, "Read", lid'.id)>>)
    BY <1>1 DEF LidScanSend
  <2>2. lid'.hits = l.hits /\ lid'.id \in Nat
    BY <2>1, BoundAssumption DEF LidIn, Lids
  <2> QED BY <2>1, <2>2, AsksNow DEF Kinds
<1>2. CASE l.id >= LidEnd /\ lid' = [l EXCEPT !.on = FALSE] /\ Settle
  <2>1. lid'.hits = l.hits /\ ~lid'.on
    BY <1>2 DEF LidIn, Lids
  <2> QED BY <1>2, <2>1, Settled
<1> QED BY <1>1, <1>2 DEF LidScanAdvance

(* The scan closes the session it leaves, if there was one, and opens the    *)
(* next; the close is answered by another ECU than the one it awaits.        *)
LEMMA ScanGoesOn ==
  ASSUME Over, NEW s, ScanIn(s), s.on, ecu = EcuTable[s.index], Reported(s, s.index),
         NEW first, first \in {<<>>, <<Ask("Close")>>}, NEW e, NEW p, AdvanceScan(s, first, e, p),
         e \in {ecu, NoEcu}
  PROVE  /\ Wires'
         /\ \/ /\ scan'.on /\ state' = "WaitingResponse" /\ ecu' = EcuTable[scan'.index]
               /\ Reported(scan', scan'.index - 1) /\ asked' = Req(ecu', "Open", 0)
               /\ ~live' /\ scan'.index \in 1 .. Len(EcuTable)
            \/ /\ ~scan'.on /\ state' = "Idle" /\ UNCHANGED live
               /\ Reported(scan', Len(EcuTable))
<1>0. /\ s \in Scans /\ s.index \in 1 .. Len(EcuTable) /\ Len(EcuTable) \in Nat /\ ecu \in Range(EcuTable)
  BY Table DEF ScanIn
<1>c. Ask("Close") \in Requests /\ Ask("Close").ecu = ecu /\ Ask("Close").kind = "Close"
  BY <1>0, ReqIn DEF Ask, Kinds
<1>1. CASE s.index < Len(EcuTable) /\ ConnectByIndex(s, s.index + 1, first)
  <2> DEFINE i == s.index + 1
             r == Req(EcuTable[i], "Open", 0)
  <2>1. i \in 1 .. Len(EcuTable) /\ i # s.index /\ i - 1 = s.index
    BY <1>0, <1>1
  <2>2. /\ scan' = [s EXCEPT !.index = i] /\ ecu' = EcuTable[i] /\ live' = FALSE
        /\ Send(first \o <<r>>) /\ state' = "WaitingResponse"
    BY <1>1 DEF ConnectByIndex, SendAndWait
  <2>3. EcuTable[i] \in Range(EcuTable) /\ EcuTable[i] # ecu
    BY <1>0, <2>1, Table, AddressAssumption
  <2>4. r \in Requests /\ r.ecu = EcuTable[i] /\ r.kind = "Open"
    BY <2>3, ReqIn DEF Kinds
  <2>5. scan'.on /\ scan'.index = i /\ scan'.results = s.results
    BY <1>0, <2>2 DEF Scans
  <2> HIDE DEF i
  <2>6. Reported(scan', scan'.index - 1)
    BY <2>1, <2>5 DEF Reported
  <2> HIDE DEF r
  <2>7. CASE first = <<>>
    <3>1. first \o <<r>> = <<r>>
      BY <2>7
    <3>2. Send(<<r>>)
      BY <2>2, <3>1
    <3>3. Wires' /\ asked' = r
      BY <2>2, <2>4, <3>2, OneSent
    <3> QED BY <2>1, <2>2, <2>5, <2>6, <3>3 DEF r
  <2>8. CASE first = <<Ask("Close")>>
    <3> DEFINE f == Ask("Close")
    <3>1. f \in Requests /\ f.ecu # r.ecu
      BY <1>c, <2>3, <2>4
    <3>2. Send(<<f>> \o <<r>>)
      BY <2>2, <2>8
    <3> HIDE DEF f
    <3>3. Wires' /\ asked' = r
      BY <2>2, <2>4, <3>1, <3>2, TwoSent
    <3> QED BY <2>1, <2>2, <2>5, <2>6, <3>3 DEF r
  <2> QED BY <2>7, <2>8
<1>2. CASE /\ s.index >= Len(EcuTable)
           /\ scan' = [s EXCEPT !.index = @ + 1, !.on = FALSE, !.pdi = FALSE]
           /\ ecu' = e /\ state' = "Idle"
           /\ IF first = <<>> THEN UNCHANGED out ELSE Send(first)
           /\ UNCHANGED live
  <2>0. s.index = Len(EcuTable)
    BY <1>0, <1>2
  <2>1. ~scan'.on /\ scan'.results = s.results
    <3>1. scan' = [s EXCEPT !.index = @ + 1, !.on = FALSE, !.pdi = FALSE] /\ s \in Scans
      BY <1>0, <1>2
    <3> QED BY <3>1, Zenon DEF Scans
  <2>2. Reported(scan', Len(EcuTable))
    BY <2>0, <2>1 DEF Reported
  <2>3. CASE first = <<>>
    BY <1>2, <2>1, <2>2, <2>3, Unsent
  <2>4. CASE first = <<Ask("Close")>>
    <3>1. Send(<<Ask("Close")>>)
      BY <1>2, <2>4
    <3>2. Wires'
      BY <1>2, <1>c, <3>1, ClosedSent
    <3> QED BY <1>2, <2>1, <2>2, <3>2
  <2> QED BY <2>3, <2>4
<1> QED BY <1>1, <1>2 DEF AdvanceScan

LEMMA ProcedureGoesOn ==
  ASSUME Over, UNCHANGED ecu, ecu \in Range(EcuTable), NEW p, p.name \in Plain, p.step \in Nat,
         p = [name |-> p.name, step |-> p.step], AdvanceProcedure(p)
  PROVE  Wires' /\ Proceeding' /\ state' # "Idle"
<1> DEFINE n == p.step + 1
<1>1. /\ Len(Procedures[p.name]) \in Nat \ {0}
      /\ \A i \in 1 .. Len(Procedures[p.name]) : Procedures[p.name][i] \in {"Write", "Routine"}
  BY PlainSteps
<1>2. n \in Nat \ {0}
  OBVIOUS
<1>3. CASE n <= Len(Procedures[p.name]) /\ proc' = [p EXCEPT !.step = n]
           /\ SendAndWait(<<Req(ecu, Procedures[p.name][n], n)>>)
  <2>1. n \in 1 .. Len(Procedures[p.name])
    BY <1>1, <1>2, <1>3
  <2>2. Procedures[p.name][n] \in Kinds /\ Procedures[p.name][n] # "Alive"
    BY <1>1, <2>1 DEF Kinds
  <2>3. proc'.name = p.name /\ proc'.step = n
    BY <1>3
  <2> HIDE DEF n
  <2>4. Wires' /\ state' = "WaitingResponse" /\ asked' = Req(ecu, Procedures[p.name][n], n)
    BY <1>2, <1>3, <2>2, AsksNow
  <2> QED BY <2>1, <2>3, <2>4 DEF Proceeding
<1>4. CASE proc' = NoProc /\ Settle
  BY <1>4, Settled DEF Proceeding
<1> QED BY <1>3, <1>4 DEF AdvanceProcedure
----------------------------------------------------------------------------
(* Replies.                                                                  *)
LEMMA Uncounted ==
  ASSUME Inv, ~scan.on \/ scan'.index = scan.index, lid'.hits = lid.hits
  PROVE  Counted
<1>1. ~(lid'.hits > lid.hits)
  BY DEF Inv, LidIn, Lids
<1>2. ~(scan.on /\ scan'.index > Len(EcuTable))
  BY Table DEF Inv, ScanIn
<1> QED BY <1>1, <1>2 DEF Counted, HitsAttributed

LEMMA JoblessGoes ==
  ASSUME JobsInv, Jobless, UNCHANGED <<scan, lid, cfg, live, proc, flash>>, Wires'
  PROVE  Goes
<1>1. Jobs'
  BY DEF JobsInv, Jobless, Jobs, Scanning, Sweeping, Zoning, Proceeding, Without
<1> QED BY <1>1, Uncounted DEF JobsInv, Goes

LEMMA Answered ==
  ASSUME JobsInv, state = "WaitingResponse", toShell # <<>>, toShell' = Tail(toShell),
         Ours(Head(toShell))
  PROVE  /\ Head(toShell).req = asked /\ ecu \in Range(EcuTable)
         /\ Head(toShell).kind = "pending" => pending < EcuPatience
         /\ Head(toShell).kind # "pending" => Over
<1>1. Awaited /\ toShell \in Seq(Replies)
  BY DEF JobsInv, Wires, Carried
<1>2. Head(toShell) = toShell[1] /\ toShell[1].req.ecu = asked.ecu
  BY <1>1, Shorter DEF Awaited, Ours
<1>3. /\ toShell[1].req = asked /\ tx = NoReq
      /\ toShell[1].kind = "pending" => pending < EcuPatience
      /\ toShell[1].kind # "pending" => Tail(toShell) = <<>> /\ toEcu = <<>>
  BY <1>1, <1>2, AnswersTail DEF Awaited
<1> QED BY <1>1, <1>2, <1>3 DEF Awaited, Over

(* What answers a keep-alive, or comes from another ECU, changes nothing.    *)
LEMMA Greeted ==
  ASSUME JobsInv, state = "Connected", Receive, Ours(Head(toShell))
  PROVE  Goes
<1> DEFINE r == Head(toShell)
<1>1. toShell \in Seq(Replies) /\ toShell # <<>> /\ toShell' = Tail(toShell) /\ HandleResponse(r)
  BY DEF JobsInv, Wires, Carried, Receive
<1>2. r.req.kind = "Alive" /\ r.kind # "pending"
  BY <1>1, Shorter, AliveTail DEF JobsInv, Wires, Alone, Ours
<1>3. Jobless /\ ~flash.active /\ ~flash.opening
  BY Idleness DEF JobsInv, Jobs, Without
<1> HIDE DEF r
<1>4. Service(r.req) = "Alive" /\ ~RefusesSession(r)
  BY <1>2 DEF Service, RefusesSession
<1>5. /\ UNCHANGED <<scan, lid, cfg, live, proc, flash>>
      /\ UNCHANGED <<ecu, asked, tx, toEcu>> /\ state' = "Connected"
  <2>1. CASE OnNegative(r)
    <3>1. /\ cfg' = cfg /\ UNCHANGED out /\ state' = "Connected"
          /\ UNCHANGED <<ecu, scan, lid, live, proc, flash>>
      BY <1>3, <1>4, <2>1 DEF OnNegative, Jobless
    <3> QED BY <3>1 DEF out
  <2>2. CASE OnPositive(r)
    <3>1. OnCleared
      BY <1>3, <1>4, <2>2 DEF OnPositive, OnFlash, OnProcedure, Jobless
    <3> QED BY <3>1 DEF OnCleared, Settle, out, jobs
  <2> QED BY <1>1, <1>2, <1>3, <2>1, <2>2 DEF HandleResponse, OnFlashSession, OnPending, Claimed
<1>6. Wires'
  BY <1>1, <1>5, ReplyTaken DEF JobsInv
<1> QED BY <1>3, <1>5, <1>6, JoblessGoes

(* A reply in Idle or to another ECU than this one's is dropped, and an ECU  *)
(* that asks for patience is given it: no more often than the cap allows.    *)
LEMMA NotOurs ==
  ASSUME JobsInv, Receive, ~Ours(Head(toShell))
  PROVE  Goes
<1>1. /\ UNCHANGED <<state, ecu, pending>> /\ UNCHANGED jobs /\ UNCHANGED out
      /\ toShell # <<>> /\ toShell' = Tail(toShell)
  BY DEF Receive
<1>2. UNCHANGED <<scan, lid, cfg, live, proc, flash>> /\ UNCHANGED <<tx, toEcu, asked>>
  BY <1>1 DEF jobs, out
<1>3. Wires'
  BY <1>1, <1>2, ReplyTaken DEF JobsInv
<1>4. Jobs'
  BY <1>1, <1>2 DEF JobsInv, Jobs, Scanning, Sweeping, Zoning, Proceeding, Without, Reported
<1> QED BY <1>2, <1>3, <1>4, Uncounted DEF JobsInv, Goes

LEMMA PatienceGiven ==
  ASSUME Undisturbed, JobsInv, state = "WaitingResponse", Receive, Ours(Head(toShell)),
         OnPending(Head(toShell))
  PROVE  Goes
<1>1. toShell # <<>> /\ toShell' = Tail(toShell) /\ Head(toShell).kind = "pending"
  BY DEF Receive, OnPending
<1>2. ~(pending >= MaxResponsePending)
  <2>1. pending < EcuPatience
    BY <1>1, Answered
  <2>2. pending \in 0 .. MaxResponsePending
    BY DEF JobsInv, Inv, Session
  <2>3. EcuPatience <= MaxResponsePending
    BY DEF Undisturbed
  <2> QED BY <2>1, <2>2, <2>3, BoundAssumption
<1>3. /\ state' = "WaitingResponse"
      /\ UNCHANGED <<ecu, scan, lid, cfg, live, proc, flash>> /\ UNCHANGED <<tx, toEcu, asked>>
  BY <1>2 DEF OnPending, out
<1>4. Wires'
  BY <1>1, <1>3, ReplyTaken DEF JobsInv
<1>5. Jobs'
  BY <1>3 DEF JobsInv, Jobs, Scanning, Sweeping, Zoning, Proceeding, Without, Reported
<1> QED BY <1>3, <1>4, <1>5, Uncounted DEF JobsInv, Goes

(* The last reply on the wire, taken by each job in turn.                    *)
Taking(r) ==
  /\ JobsInv /\ state = "WaitingResponse" /\ Over
  /\ r = Head(toShell) /\ r.req = asked /\ ecu \in Range(EcuTable)

LEMMA JoblessReply ==
  ASSUME NEW r, Taking(r), Jobless, OnNegative(r) \/ OnPositive(r)
  PROVE  Goes
<1>1. ~flash.active /\ ~live /\ ecu \in Range(EcuTable) /\ JobsInv /\ Over
  BY DEF Taking, JobsInv, Jobs, Without
<1>2. CASE OnNegative(r)
  <2>1. /\ cfg' = cfg /\ UNCHANGED out /\ state' \in {"Idle", "Connected"}
        /\ UNCHANGED <<ecu, scan, lid, live, proc, flash>>
    BY <1>2 DEF OnNegative, Jobless
  <2>2. Wires'
    BY <1>1, <2>1, Unsent, Settled DEF Settle
  <2> QED BY <1>1, <2>1, <2>2, JoblessGoes
<1>3. CASE OnPositive(r)
  <2>1. CASE OnSession \/ OnCleared \/ OnKey
    <3>1. Settle /\ UNCHANGED ecu /\ UNCHANGED <<scan, lid, cfg, live, proc, flash>>
      BY <2>1 DEF OnSession, OnCleared, OnKey, Jobless, jobs
    <3> QED BY <1>1, <3>1, Settled, JoblessGoes
  <2>2. CASE OnDtc \/ OnZone
    <3>1. Settle /\ UNCHANGED ecu /\ UNCHANGED <<scan, lid, cfg, live, proc, flash>>
      BY <2>2 DEF OnDtc, OnZone, Jobless
    <3> QED BY <1>1, <3>1, Settled, JoblessGoes
  <2>3. CASE OnClosed
    <3>1. state' = "Idle" /\ UNCHANGED out /\ UNCHANGED <<scan, lid, cfg, live, proc, flash>>
      BY <2>3 DEF OnClosed, Jobless
    <3> QED BY <1>1, <3>1, Unsent, JoblessGoes
  <2>4. CASE OnSeed
    <3>1. UNCHANGED ecu /\ UNCHANGED <<scan, lid, cfg, live, proc, flash>>
      BY <2>4 DEF OnSeed, jobs
    <3>2. CASE Settle
      BY <1>1, <3>1, <3>2, Settled, JoblessGoes
    <3>3. CASE SendAndWait(<<Ask("Key")>>)
      <4>1. SendAndWait(<<Req(ecu, "Key", 0)>>) /\ "Key" \in Kinds
        BY <3>3 DEF Ask, Kinds
      <4> QED BY <1>1, <3>1, <4>1, AsksNow, JoblessGoes
    <3> QED BY <2>4, <3>2, <3>3 DEF OnSeed
  <2> QED BY <1>1, <1>3, <2>1, <2>2, <2>3, <2>4 DEF OnPositive, OnFlash, OnProcedure, Jobless
<1> QED BY <1>2, <1>3

(* The scan has asked for a session or for the trouble codes, and goes on to *)
(* the codes, or with a result to the next ECU.                              *)
ScanMoved ==
  /\ Wires'
  /\ \/ /\ scan'.on /\ state' = "WaitingResponse" /\ ecu' = EcuTable[scan'.index]
        /\ Reported(scan', scan'.index - 1) /\ asked' = Req(ecu', "Open", 0)
        /\ ~live' /\ scan'.index \in 1 .. Len(EcuTable)
     \/ /\ ~scan'.on /\ state' = "Idle" /\ UNCHANGED live
        /\ Reported(scan', Len(EcuTable))

LEMMA ScanMovedGoes ==
  ASSUME JobsInv, scan.on, ScanMoved,
         ~lid'.on, ~cfg'.on, proc' = NoProc, ~flash'.active, ~flash'.opening, lid'.hits = lid.hits
  PROVE  Goes
<1>1. ~live'
  BY DEF ScanMoved, JobsInv, Jobs, Without
<1>2. Jobs'
  <2>1. Scanning'
    BY DEF ScanMoved, Scanning
  <2> QED BY <1>1, <2>1 DEF Jobs, Sweeping, Zoning, Proceeding, Without
<1>3. scan'.index > Len(EcuTable) => Reported(scan', Len(EcuTable))
  BY Table DEF ScanMoved
<1>4. HitsAttributed
  BY DEF HitsAttributed, JobsInv, Inv, LidIn, Lids
<1> QED BY <1>2, <1>3, <1>4 DEF Goes, Counted, ScanMoved

LEMMA UpTo ==
  ASSUME NEW n \in Nat, NEW k \in 1 .. n, NEW i \in 1 .. k
  PROVE  i \in 1 .. n /\ (i # k => i \in 1 .. k - 1)
OBVIOUS

LEMMA ResultReported ==
  ASSUME JobsInv, scan.on, NEW res \in {"no comm", "ok"}
  PROVE  /\ ScanIn(Result(res)) /\ Result(res).on /\ ecu = EcuTable[Result(res).index]
         /\ Reported(Result(res), Result(res).index)
<1>1. scan \in Scans /\ scan.index \in 1 .. Len(EcuTable) /\ ecu = EcuTable[scan.index]
      /\ Reported(scan, scan.index - 1)
  BY DEF JobsInv, Inv, ScanIn, Jobs, Scanning
<1>2. ScanIn(Result(res)) /\ Result(res).on
  BY ResultIn DEF JobsInv, Inv
<1>3. Result(res) = [scan EXCEPT !.results[scan.index] = res]
  BY DEF Result
<1>4. Result(res).index = scan.index
  BY <1>1, <1>3 DEF Scans
<1>5. \A i \in 1 .. Len(EcuTable) :
        Result(res).results[i] = IF i = scan.index THEN res ELSE scan.results[i]
  <2>1. Result(res).results = [scan.results EXCEPT ![scan.index] = res]
    BY <1>1, <1>3 DEF Scans
  <2>2. scan.results \in [1 .. Len(EcuTable) -> {"not scanned", "no comm", "ok"}]
    BY <1>1 DEF Scans
  <2> QED BY <2>1, <2>2
<1>6. Reported(Result(res), scan.index)
  <2> SUFFICES ASSUME NEW i \in 1 .. scan.index PROVE Result(res).results[i] # "not scanned"
    BY DEF Reported
  <2>1. i \in 1 .. Len(EcuTable) /\ (i # scan.index => i \in 1 .. scan.index - 1)
    BY <1>1, Table, UpTo
  <2>2. CASE i = scan.index
    BY <1>5, <2>1, <2>2
  <2>3. CASE i # scan.index
    BY <1>1, <1>5, <2>1, <2>3 DEF Reported
  <2> QED BY <2>2, <2>3
<1> QED BY <1>1, <1>2, <1>4, <1>6

LEMMA ScanReply ==
  ASSUME NEW r, Taking(r), scan.on, OnNegative(r) \/ OnPositive(r)
  PROVE  Goes
<1>1. /\ ~lid.on /\ ~cfg.on /\ proc = NoProc /\ ~flash.active /\ ~flash.opening
      /\ asked \in {Req(ecu, "Open", 0), Req(ecu, "Dtc", 0)}
      /\ ecu \in Range(EcuTable) /\ JobsInv /\ Over /\ r.req = asked
  BY DEF Taking, JobsInv, Jobs, Scanning, Without
<1>2. CASE OnNegative(r)
  <2>1. /\ cfg' = cfg /\ UNCHANGED <<lid, proc, flash>>
        /\ AdvanceScan(Result("no comm"), IF cfg'.on THEN ZoneRead ELSE <<>>, NoEcu, 0)
    BY <1>1, <1>2 DEF OnNegative
  <2>2. (IF cfg'.on THEN ZoneRead ELSE <<>>) = <<>>
    BY <1>1, <2>1
  <2>3. AdvanceScan(Result("no comm"), <<>>, NoEcu, 0)
    BY <2>1, <2>2
  <2>4. ScanMoved
    BY <1>1, <2>3, ResultReported, ScanGoesOn DEF ScanMoved
  <2> QED BY <1>1, <2>1, <2>4, ScanMovedGoes
<1>3. CASE OnPositive(r)
  <2>1. CASE OnSession
    <3>1. SendAndWait(<<Req(ecu, "Dtc", 0)>>) /\ UNCHANGED ecu
          /\ UNCHANGED <<scan, lid, cfg, live, proc, flash>>
      BY <2>1 DEF OnSession, Ask, jobs
    <3>2. Wires' /\ state' = "WaitingResponse" /\ asked' = Req(ecu, "Dtc", 0)
      BY <1>1, <3>1, AsksNow DEF Kinds
    <3>3. Jobs'
      BY <3>1, <3>2
         DEF JobsInv, Taking, Jobs, Scanning, Sweeping, Zoning, Proceeding, Without, Reported
    <3> QED BY <1>1, <3>1, <3>2, <3>3, Uncounted DEF JobsInv, Goes
  <2>2. CASE OnDtc
    <3>1. AdvanceScan(Result("ok"), <<Ask("Close")>>, NoEcu, 0) /\ UNCHANGED <<lid, cfg, proc, flash>>
      BY <2>2 DEF OnDtc
    <3>2. ScanMoved
      BY <1>1, <3>1, ResultReported, ScanGoesOn DEF ScanMoved
    <3> QED BY <1>1, <3>1, <3>2, ScanMovedGoes
  <2>3. Service(r.req) \in {"Session", "Dtc"}
    BY <1>1 DEF Service, Req
  <2> QED BY <1>3, <2>1, <2>2, <2>3 DEF OnPositive
<1> QED BY <1>2, <1>3

(* The sweep is alone in waiting, and counts what answers its own question.  *)
LEMMA SweepMovedGoes ==
  ASSUME JobsInv, lid.on, Wires',
         lid'.on => state' = "WaitingResponse" /\ asked' = Req(ecu, "Read", lid'.id),
         UNCHANGED <<ecu, scan, cfg, live, proc, flash>>,
         lid'.hits = lid.hits \/ Head(toShell).req = asked
  PROVE  Goes
<1>1. ~scan.on /\ ~cfg.on /\ proc = NoProc /\ asked = Req(ecu, "Read", lid.id)
  BY DEF JobsInv, Jobs, Scanning, Sweeping
<1>2. Jobs'
  BY <1>1 DEF JobsInv, Jobs, Scanning, Sweeping, Zoning, Proceeding, Without
<1>3. HitsAttributed
  BY <1>1 DEF HitsAttributed, JobsInv, Inv, LidIn, Lids
<1> QED BY <1>1, <1>2, <1>3 DEF Goes, Counted

LEMMA SweepReply ==
  ASSUME NEW r, Taking(r), lid.on, OnNegative(r) \/ OnPositive(r)
  PROVE  Goes
<1>1. /\ ~flash.active /\ ~live /\ proc = NoProc /\ asked = Req(ecu, "Read", lid.id)
      /\ ecu \in Range(EcuTable) /\ JobsInv /\ Over /\ r.req = asked /\ r = Head(toShell)
      /\ LidIn(lid)
  BY DEF Taking, JobsInv, Inv, Jobs, Sweeping, Without
<1>2. ASSUME NEW l, LidIn(l), l.on, LidScanAdvance(l, 0), UNCHANGED <<ecu, scan, cfg, live, proc, flash>>
      PROVE  Goes
  <2>1. /\ Wires'
        /\ lid'.on => state' = "WaitingResponse" /\ asked' = Req(ecu, "Read", lid'.id)
    BY <1>1, <1>2, SweepGoesOn
  <2> QED BY <1>1, <1>2, <2>1, SweepMovedGoes
<1>3. CASE OnNegative(r)
  <2> DEFINE l == [lid EXCEPT !.hits = IF r.kind = "refused" THEN @ + 1 ELSE @]
  <2>1. LidIn(l) /\ l.on
    BY <1>1 DEF LidIn, Lids
  <2>2. LidScanAdvance(l, 0) /\ UNCHANGED <<ecu, scan, cfg, live, proc, flash>>
    BY <1>3 DEF OnNegative
  <2> HIDE DEF l
  <2> QED BY <1>2, <2>1, <2>2
<1>4. CASE OnPositive(r)
  <2> DEFINE l == [lid EXCEPT !.hits = @ + 1]
  <2>1. LidIn(l) /\ l.on
    BY <1>1 DEF LidIn, Lids
  <2>2. Service(r.req) = "Read"
    BY <1>1 DEF Service, Req
  <2>3. OnZone
    BY <1>1, <1>4, <2>2 DEF OnPositive, OnFlash, OnProcedure
  <2>4. LidScanAdvance(l, 0) /\ UNCHANGED <<ecu, scan, cfg, live, proc, flash>>
    BY <1>1, <2>3 DEF OnZone
  <2> HIDE DEF l
  <2> QED BY <1>2, <2>1, <2>4
<1> QED BY <1>3, <1>4

(* Reading all zones goes on to the next, whether or not this one was read.  *)
LEMMA ZoneAsked ==
  ASSUME JobsInv, Over, ecu \in Range(EcuTable), cfg.on, cfg' = NextZone, cfg'.on,
         SendAndWait(ZoneRead), UNCHANGED <<ecu, proc>>, proc = NoProc
  PROVE  Wires' /\ Zoning'
<1>1. cfg'.index = cfg.index + 1 /\ cfg.index + 1 \in Nat
  BY BoundAssumption DEF NextZone, JobsInv, Inv, CfgIn, Cfgs
<1>2. SendAndWait(<<Req(ecu, "Read", cfg.index + 1)>>) /\ "Read" \in Kinds
  BY DEF ZoneRead, Kinds
<1>3. Wires' /\ state' = "WaitingResponse" /\ asked' = Req(ecu, "Read", cfg.index + 1)
  BY <1>1, <1>2, AsksNow
<1> QED BY <1>1, <1>3 DEF Zoning

LEMMA ZoneReply ==
  ASSUME NEW r, Taking(r), cfg.on, OnNegative(r) \/ OnPositive(r)
  PROVE  Goes
<1>1. /\ ~flash.active /\ ~live /\ proc = NoProc /\ ~scan.on /\ ~lid.on
      /\ asked = Req(ecu, "Read", cfg.index)
      /\ ecu \in Range(EcuTable) /\ JobsInv /\ Over /\ r.req = asked
  BY DEF Taking, JobsInv, Jobs, Scanning, Sweeping, Zoning, Without
<1>2. ASSUME Wires', Zoning', UNCHANGED <<ecu, scan, lid, live, proc, flash>>
      PROVE  Goes
  <2>1. Jobs'
    BY <1>1, <1>2 DEF JobsInv, Jobs, Scanning, Sweeping, Proceeding, Without
  <2> QED BY <1>1, <1>2, <2>1, Uncounted DEF JobsInv, Goes
<1>3. CASE OnNegative(r)
  <2>1. /\ cfg' = NextZone /\ UNCHANGED <<ecu, scan, lid, live, proc, flash>>
        /\ \/ cfg'.on /\ SendAndWait(ZoneRead)
           \/ ~cfg'.on /\ UNCHANGED out /\ state' \in {"Idle", "Connected"}
    BY <1>1, <1>3 DEF OnNegative
  <2>2. CASE cfg'.on /\ SendAndWait(ZoneRead)
    BY <1>1, <1>2, <2>1, <2>2, ZoneAsked
  <2>3. CASE ~cfg'.on /\ UNCHANGED out /\ state' \in {"Idle", "Connected"}
    <3>1. Wires'
      BY <1>1, <2>1, <2>3, Unsent, Settled DEF Settle
    <3>2. Zoning'
      BY <2>3 DEF Zoning
    <3> QED BY <1>2, <2>1, <3>1, <3>2
  <2> QED BY <2>1, <2>2, <2>3
<1>4. CASE OnPositive(r)
  <2>1. Service(r.req) = "Read"
    BY <1>1 DEF Service, Req
  <2>2. OnZone
    BY <1>1, <1>4, <2>1 DEF OnPositive, OnFlash, OnProcedure
  <2>3. /\ cfg' = NextZone /\ UNCHANGED <<ecu, scan, lid, live, proc, flash>>
        /\ (cfg'.on /\ SendAndWait(ZoneRead)) \/ (~cfg'.on /\ Settle)
    BY <1>1, <2>2 DEF OnZone
  <2>4. CASE cfg'.on /\ SendAndWait(ZoneRead)
    BY <1>1, <1>2, <2>3, <2>4, ZoneAsked
  <2>5. CASE ~cfg'.on /\ Settle
    <3>1. Wires'
      BY <1>1, <2>3, <2>5, Settled
    <3>2. Zoning'
      BY <2>5 DEF Zoning
    <3> QED BY <1>2, <2>3, <3>1, <3>2
  <2> QED BY <2>3, <2>4, <2>5
<1> QED BY <1>3, <1>4

(* A procedure takes its next step, or ends.                                 *)
LEMMA ProcedureReply ==
  ASSUME NEW r, Taking(r), proc # NoProc, OnNegative(r) \/ OnPositive(r)
  PROVE  Goes
<1>1. /\ ~flash.active /\ ~scan.on /\ ~lid.on /\ ~cfg.on
      /\ proc.name \in Plain /\ proc.step \in 1 .. Len(Procedures[proc.name])
      /\ asked = Req(ecu, Procedures[proc.name][proc.step], proc.step)
      /\ ecu \in Range(EcuTable) /\ JobsInv /\ Over /\ r.req = asked
  BY DEF Taking, JobsInv, Jobs, Scanning, Sweeping, Zoning, Proceeding, Without
<1>2. ASSUME Wires', Proceeding', UNCHANGED <<ecu, scan, lid, cfg, live, flash>>
      PROVE  Goes
  <2>1. Jobs'
    BY <1>1, <1>2 DEF JobsInv, Jobs, Scanning, Sweeping, Zoning, Without
  <2> QED BY <1>1, <1>2, <2>1, Uncounted DEF JobsInv, Goes
<1>3. CASE OnNegative(r)
  <2>1. proc' = NoProc /\ Settle /\ UNCHANGED <<ecu, scan, lid, cfg, live, flash>>
    BY <1>1, <1>3 DEF OnNegative
  <2>2. Wires' /\ Proceeding'
    BY <1>1, <2>1, Settled DEF Proceeding
  <2> QED BY <1>2, <2>1, <2>2
<1>4. CASE OnPositive(r)
  <2>1. asked.kind \in {"Write", "Routine"}
    <3>1. Procedures[proc.name][proc.step] \in {"Write", "Routine"}
      BY <1>1, PlainSteps
    <3> QED BY <1>1, <3>1 DEF Req
  <2>2. Service(r.req) \in {"Write", "Routine"}
    BY <1>1, <2>1 DEF Service
  <2>3. AdvanceProcedure(proc) /\ UNCHANGED <<ecu, scan, lid, cfg, live, flash>>
    BY <1>1, <1>4, <2>2 DEF OnPositive, OnFlash, OnProcedure
  <2>4. proc = [name |-> proc.name, step |-> proc.step] /\ proc.step \in Nat
    BY <1>1 DEF JobsInv, Inv, ProcIn
  <2>5. Wires' /\ Proceeding'
    BY <1>1, <2>3, <2>4, ProcedureGoesOn
  <2> QED BY <1>2, <2>3, <2>5
<1> QED BY <1>3, <1>4

LEMMA ReceiveGoes ==
  ASSUME Undisturbed, JobsInv, Receive
  PROVE  Goes
<1> DEFINE r == Head(toShell)
<1>1. CASE ~Ours(r)
  BY <1>1, NotOurs
<1>2. CASE Ours(r) /\ state = "Connected"
  BY <1>2, Greeted
<1>3. CASE Ours(r) /\ state = "WaitingResponse"
  <2>1. HandleResponse(r) /\ toShell # <<>> /\ toShell' = Tail(toShell)
    BY <1>3 DEF Receive
  <2>2. CASE OnPending(r)
    BY <1>3, <2>2, PatienceGiven
  <2>3. CASE OnNegative(r) \/ OnPositive(r)
    <3>1. r.kind # "pending"
      BY <2>3 DEF OnNegative, OnPositive, Negative
    <3>2. Taking(r)
      BY <1>3, <2>1, <3>1, Answered DEF Taking
    <3> HIDE DEF r
    <3> QED BY <2>3, <3>2, JoblessReply, ScanReply, SweepReply, ZoneReply, ProcedureReply DEF Jobless
  <2>4. ~OnFlashSession(r)
    BY DEF OnFlashSession, Claimed, JobsInv, Jobs, Without
  <2> QED BY <2>1, <2>2, <2>3, <2>4 DEF HandleResponse
<1>4. state \in States
  BY DEF JobsInv, Inv, Session
<1> QED BY <1>1, <1>2, <1>3, <1>4 DEF States, Ours, IsConnected

----------------------------------------------------------------------------
(* The other frames, the world and the timers.                               *)
LEMMA JobsStay ==
  ASSUME JobsInv, Wires', UNCHANGED <<state, ecu, asked, scan, lid, cfg, live, proc, flash>>
  PROVE  Goes
<1>1. Jobs'
  BY DEF JobsInv, Jobs, Scanning, Sweeping, Zoning, Proceeding, Without, Reported
<1> QED BY <1>1, Uncounted DEF JobsInv, Goes

LEMMA FrameGoes == ASSUME Undisturbed, JobsInv, Frames PROVE Goes
<1>1. CASE TransferThrough
  <2>1. Wires'
    BY <1>1, ThroughWires DEF JobsInv
  <2>2. UNCHANGED <<state, ecu, asked, scan, lid, cfg, live, proc, flash>>
    BY <1>1 DEF TransferThrough, jobs
  <2> QED BY <2>1, <2>2, JobsStay
<1>2. ~ReassemblyError /\ ~TransferAborted /\ ~TransferFails
  BY DEF Undisturbed, ReassemblyError, TransferAborted, TransferFails
<1> QED BY <1>1, <1>2, ReceiveGoes DEF Frames

LEMMA WorldGoes == ASSUME JobsInv, World PROVE Goes
<1>1. UNCHANGED <<state, ecu, asked, pending, tx>> /\ UNCHANGED <<scan, lid, cfg, live, proc, flash>>
  BY DEF World, EcuDoes, Lose, jobs
<1>2. CASE Lose
  <2>1. CASE toEcu # <<>> /\ toEcu' = Tail(toEcu) /\ UNCHANGED toShell
    BY <1>1, <2>1, RequestTaken, JobsStay DEF JobsInv, Unseen
  <2>2. CASE toShell # <<>> /\ toShell' = Tail(toShell) /\ UNCHANGED toEcu
    BY <1>1, <2>2, ReplyTaken, JobsStay DEF JobsInv
  <2> QED BY <1>2, <2>1, <2>2 DEF Lose
<1>3. ASSUME NEW a \in EcuAnswers, EcuDoes(a) PROVE Goes
  <2>1. CASE a = "silent"
    <3>1. toEcu # <<>> /\ toEcu' = Tail(toEcu) /\ UNCHANGED toShell
      BY <1>3, <2>1 DEF EcuDoes
    <3> QED BY <1>1, <3>1, RequestTaken, JobsStay DEF JobsInv, Unseen
  <2>2. CASE a = "pending"
    <3>1. /\ toEcu # <<>> /\ UNCHANGED toEcu /\ toShell = <<>> /\ pending < EcuPatience
          /\ Head(toEcu).ecu = ecu /\ Head(toEcu).kind # "Alive"
          /\ toShell' = Append(toShell, Reply(Head(toEcu), "pending"))
      BY <1>3, <2>2 DEF EcuDoes
    <3> QED BY <1>1, <1>3, <2>2, <3>1, PatienceAsked, JobsStay DEF JobsInv, Unseen
  <2>3. CASE a # "silent" /\ a # "pending"
    <3>1. toEcu # <<>> /\ toEcu' = Tail(toEcu) /\ toShell' = Append(toShell, Reply(Head(toEcu), a))
      BY <1>3, <2>3 DEF EcuDoes
    <3> QED BY <1>1, <1>3, <2>3, <3>1, RequestAnswered, JobsStay DEF JobsInv, Unseen
  <2> QED BY <2>1, <2>2, <2>3
<1> QED BY <1>2, <1>3 DEF World

LEMMA ResponseTimeoutGoes == ASSUME Undisturbed, JobsInv, ResponseTimeout PROVE Goes
<1>1. Quiet /\ UNCHANGED toShell /\ Over /\ ~lid.on
  BY DEF Undisturbed, ResponseTimeout, MayBeLate, Quiet, Over
<1>2. /\ lid' = [lid EXCEPT !.on = FALSE] /\ cfg' = [cfg EXCEPT !.on = FALSE]
      /\ flash' = [flash EXCEPT !.active = FALSE] /\ proc' = NoProc
  BY DEF ResponseTimeout
<1>3. /\ ~lid'.on /\ ~cfg'.on /\ ~flash'.active /\ flash'.opening = flash.opening
      /\ lid'.hits = lid.hits
  BY <1>2 DEF JobsInv, Inv, LidIn, Lids, CfgIn, Cfgs, FlashIn, Flashes
<1>4. ~live /\ ~flash.opening /\ live \in BOOLEAN
  BY DEF JobsInv, Inv, Session, Jobs, Without
<1>5. CASE scan.on
  <2> DEFINE s == Result("no comm")
  <2>1. \/ s.index < Len(EcuTable) /\ ConnectByIndex(s, s.index + 1, <<>>)
        \/ /\ s.index >= Len(EcuTable)
           /\ scan' = [s EXCEPT !.index = @ + 1, !.on = FALSE, !.pdi = FALSE]
           /\ ecu' = NoEcu /\ state' = "Idle" /\ live' = FALSE
           /\ tx' = NoReq
           /\ UNCHANGED <<unlocked, pending, toEcu, asked>>
    BY <1>5 DEF ResponseTimeout
  <2>2. ScanIn(s) /\ s.on /\ ecu = EcuTable[s.index] /\ Reported(s, s.index)
    BY <1>5, ResultReported
  <2> HIDE DEF s
  <2>3. AdvanceScan(s, <<>>, NoEcu, pending)
    <3>1. CASE s.index < Len(EcuTable) /\ ConnectByIndex(s, s.index + 1, <<>>)
      BY <3>1 DEF AdvanceScan
    <3>2. CASE /\ s.index >= Len(EcuTable)
               /\ scan' = [s EXCEPT !.index = @ + 1, !.on = FALSE, !.pdi = FALSE]
               /\ ecu' = NoEcu /\ state' = "Idle" /\ live' = FALSE
               /\ tx' = NoReq
               /\ UNCHANGED <<unlocked, pending, toEcu, asked>>
      <4>1. UNCHANGED out /\ UNCHANGED <<unlocked, live>>
        BY <1>1, <1>4, <3>2 DEF Quiet, out
      <4> QED BY <3>2, <4>1 DEF AdvanceScan
    <3> QED BY <2>1, <3>1, <3>2
  <2>4. ScanMoved
    BY <1>1, <2>2, <2>3, ScanGoesOn DEF ScanMoved
  <2> QED BY <1>2, <1>3, <1>4, <1>5, <2>4, ScanMovedGoes
<1>6. CASE ~scan.on
  <2>1. /\ scan' = [scan EXCEPT !.pdi = FALSE] /\ state' = "Idle" /\ live' = FALSE
        /\ tx' = NoReq /\ UNCHANGED <<toEcu, asked>>
    BY <1>6 DEF ResponseTimeout
  <2>2. UNCHANGED out
    BY <1>1, <2>1 DEF Quiet, out
  <2>3. Wires'
    BY <1>1, <2>1, <2>2, Unsent
  <2>4. ~scan'.on
    BY <1>6, <2>1 DEF JobsInv, Inv, ScanIn, Scans
  <2>5. Jobs'
    BY <1>2, <1>3, <1>4, <2>1, <2>4 DEF Jobs, Scanning, Sweeping, Zoning, Proceeding, Without
  <2> QED BY <1>3, <1>6, <2>3, <2>5, Uncounted DEF JobsInv, Goes
<1> QED BY <1>5, <1>6

LEMMA TimerGoes == ASSUME Undisturbed, JobsInv, Timers PROVE Goes
<1>1. CASE LidScanTimeout
  <2>1. /\ Over /\ lid.on /\ state = "WaitingResponse" /\ LidScanAdvance(lid, pending)
        /\ UNCHANGED <<ecu, scan, cfg, live, proc, flash>>
    BY <1>1 DEF Undisturbed, LidScanTimeout, MayBeLate, Quiet, Over
  <2>2. ecu \in Range(EcuTable) /\ LidIn(lid)
    BY <2>1 DEF JobsInv, Inv, Wires, Awaited
  <2>3. /\ Wires' /\ lid'.hits = lid.hits
        /\ lid'.on => state' = "WaitingResponse" /\ asked' = Req(ecu, "Read", lid'.id)
    BY <2>1, <2>2, SweepGoesOn
  <2> QED BY <2>1, <2>3, SweepMovedGoes
<1>2. CASE KeepAlive
  <2>1. /\ Quiet /\ Ready /\ toEcu' = Append(toEcu, Ask("Alive"))
        /\ UNCHANGED <<state, ecu, asked, tx, toShell, scan, lid, cfg, live, proc, flash>>
    BY <1>2 DEF Undisturbed, KeepAlive, jobs
  <2>2. ecu \in Range(EcuTable)
    BY <2>1 DEF JobsInv, Inv, Session, Ready
  <2>3. Ask("Alive") \in Requests /\ Ask("Alive").ecu = ecu /\ Ask("Alive").kind = "Alive"
    BY <2>2, ReqIn DEF Ask, Kinds
  <2> DEFINE r == Ask("Alive")
  <2>4. toEcu \in Seq(Requests) /\ Len(toEcu) = 0
    BY <2>1 DEF JobsInv, Wires, Carried, Quiet
  <2> HIDE DEF r
  <2>5. toEcu' \in Seq(Requests) /\ Len(toEcu') = 1 /\ toEcu'[1] = r
    BY <2>1, <2>3, <2>4, Longer DEF r
  <2>6. \A i \in 1 .. Len(toEcu') : i = 1
    BY <2>5
  <2>7. Alone'
    BY <2>1, <2>2, <2>3, <2>5, <2>6 DEF Alone, AliveIn, AliveAnswersIn, Quiet, r
  <2>8. Wires'
    BY <2>1, <2>5, <2>7 DEF JobsInv, Wires, Carried, Ready
  <2> QED BY <2>1, <2>8, JobsStay
<1>3. ~LivePoll
  BY DEF LivePoll, JobsInv, Jobs, Without
<1> QED BY <1>1, <1>2, <1>3, ResponseTimeoutGoes DEF Timers

----------------------------------------------------------------------------
(* The user, who waits for the wire.                                         *)
LEMMA TypedOver ==
  ASSUME Undisturbed, JobsInv, NEW c, Typed(c), ByUser
  PROVE  Quiet /\ Over
BY DEF Undisturbed, Typed, ByUser, Quiet, Over

LEMMA ReadyJobless ==
  ASSUME JobsInv, Ready
  PROVE  Jobless /\ ecu \in Range(EcuTable)
BY Idleness DEF JobsInv, Inv, Session, Ready

(* Commands that leave the session as it is.                                 *)
LEMMA SwitchGoes ==
  ASSUME Undisturbed, JobsInv,
         \/ \E on \in BOOLEAN : Rw(on) \/ Live(on)
         \/ FlashStage \/ FlashBegin \/ FlashEnd \/ FlashCancel
  PROVE  Goes
<1>1. ~Live(TRUE) /\ ~FlashBegin /\ ~FlashEnd
  BY DEF Undisturbed, JobsInv, Jobs, Without, Live, FlashBegin, FlashEnd, MayFlash, Typed
<1>2. /\ UNCHANGED <<state, ecu, asked, pending, tx, toEcu, toShell, scan, lid, cfg, proc>>
      /\ live' \in {live, FALSE}
  BY <1>1 DEF Rw, Live, FlashStage, FlashCancel, jobs, out, ByUser
<1>3. ~flash'.active /\ ~flash'.opening
  <2>1. \/ UNCHANGED flash
        \/ flash' = [flash EXCEPT !.staged = @ + 1]
        \/ flash' = [flash EXCEPT !.active = FALSE, !.staged = 0, !.index = 0]
    BY <1>1 DEF Rw, Live, FlashStage, FlashCancel, jobs
  <2>2. flash \in Flashes /\ ~flash.active /\ ~flash.opening
    BY DEF JobsInv, Inv, FlashIn, Jobs, Without
  <2> QED BY <2>1, <2>2 DEF Flashes
<1>4. Wires'
  BY <1>2 DEF JobsInv, Wires, Carried, Awaited, AskedIn, AnswersIn, Alone, AliveIn, AliveAnswersIn
<1>5. Without'
  <2>1. ~live'
    BY <1>2, Zenon DEF JobsInv, Jobs, Without
  <2> QED BY <1>3, <2>1 DEF Without
<1>6. Jobs'
  BY <1>2, <1>5 DEF JobsInv, Jobs, Scanning, Sweeping, Zoning, Proceeding, Reported
<1> QED BY <1>2, <1>4, <1>6, Uncounted DEF JobsInv, Goes

LEMMA ConnectGoes ==
  ASSUME Undisturbed, JobsInv, NEW e \in Range(EcuTable), Connect(e)
  PROVE  Goes
<1>1. /\ Over /\ ~IsConnected /\ ecu' = e /\ live' = FALSE /\ Send(<<Req(e, "Open", 0)>>)
      /\ state' = "WaitingResponse" /\ UNCHANGED <<scan, lid, cfg, proc, flash>>
  BY TypedOver DEF Connect, SendAndWait
<1>2. Jobless
  BY <1>1, Idleness DEF JobsInv, IsConnected
<1> DEFINE r == Req(e, "Open", 0)
<1>3. r \in Requests /\ r.ecu = e /\ r.kind = "Open"
  BY ReqIn DEF Kinds
<1>4. Send(<<r>>)
  BY <1>1
<1> HIDE DEF r
<1>5. Wires'
  BY <1>1, <1>3, <1>4, OneSent
<1>6. live' = live
  BY <1>1 DEF JobsInv, Inv, Session, Jobs, Without
<1> QED BY <1>1, <1>2, <1>5, <1>6, JoblessGoes

LEMMA DisconnectGoes == ASSUME Undisturbed, JobsInv, Disconnect PROVE Goes
<1>1. /\ Over /\ ecu # NoEcu /\ Send(<<Ask("Close")>>) /\ state' = "Idle"
      /\ scan' = [scan EXCEPT !.on = FALSE] /\ proc' = NoProc /\ live' = FALSE
      /\ cfg' = [cfg EXCEPT !.on = FALSE] /\ lid' = [lid EXCEPT !.on = FALSE] /\ UNCHANGED flash
  BY TypedOver DEF Disconnect
<1>2. Ask("Close") \in Requests
  BY <1>1, ReqIn DEF JobsInv, Inv, Session, Ask, Kinds
<1>3. Wires'
  BY <1>1, <1>2, ClosedSent
<1>4. ~scan'.on /\ scan'.index = scan.index
  BY <1>1 DEF JobsInv, Inv, ScanIn, Scans
<1>5. ~cfg'.on /\ ~lid'.on /\ lid'.hits = lid.hits
  BY <1>1 DEF JobsInv, Inv, CfgIn, Cfgs, LidIn, Lids
<1>6. Jobs'
  BY <1>1, <1>4, <1>5 DEF JobsInv, Jobs, Scanning, Sweeping, Zoning, Proceeding, Without
<1> QED BY <1>3, <1>4, <1>5, <1>6, Uncounted DEF JobsInv, Goes

(* One request from a session at rest, with or without a job it begins.      *)
LEMMA AskGoes ==
  ASSUME Undisturbed, JobsInv, ReadCommand \/ WriteCommand \/ ConfigRead
  PROVE  Goes
<1>1. ASSUME NEW c, Typed(c), ByUser, Ready, NEW kind \in Kinds, kind # "Alive",
             SendAndWait(<<Ask(kind)>>), UNCHANGED <<ecu, scan, lid, live, proc, flash>>,
             cfg' \in {cfg, [cfg EXCEPT !.on = FALSE]}
      PROVE  Goes
  <2>1. Over /\ Jobless /\ ecu \in Range(EcuTable)
    BY <1>1, TypedOver, ReadyJobless
  <2>2. SendAndWait(<<Req(ecu, kind, 0)>>)
    BY <1>1 DEF Ask
  <2>3. Wires'
    BY <1>1, <2>1, <2>2, AsksNow
  <2>4. ~cfg'.on
    BY <1>1, <2>1 DEF JobsInv, Inv, CfgIn, Cfgs, Jobless
  <2>5. Jobs'
    BY <1>1, <2>1, <2>4
       DEF JobsInv, Jobless, Jobs, Scanning, Sweeping, Zoning, Proceeding, Without
  <2> QED BY <1>1, <2>3, <2>5, Uncounted DEF JobsInv, Goes
<1>2. ASSUME NEW c, NEW kind \in Kinds, kind # "Alive", PlainAsk(c, kind) PROVE Goes
  BY <1>1, <1>2 DEF PlainAsk, jobs
<1>3. CASE ReadCommand
  <2>1. PICK c \in DOMAIN ReadAsks : PlainAsk(c, ReadAsks[c])
    BY <1>3 DEF ReadCommand
  <2>2. ReadAsks[c] \in Kinds /\ ReadAsks[c] # "Alive"
    BY DEF ReadAsks, Kinds
  <2> QED BY <1>2, <2>1, <2>2
<1>4. CASE WriteCommand
  <2>1. PICK c \in DOMAIN WriteAsks : PlainAsk(c, WriteAsks[c])
    BY <1>4 DEF WriteCommand
  <2>2. WriteAsks[c] \in Kinds /\ WriteAsks[c] # "Alive"
    BY DEF WriteAsks, Kinds
  <2> QED BY <1>2, <2>1, <2>2
<1>5. CASE ConfigRead
  <2>1. "Read" \in Kinds
    BY DEF Kinds
  <2> QED BY <1>1, <1>5, <2>1 DEF ConfigRead
<1> QED BY <1>3, <1>4, <1>5

LEMMA ConfigReadAllGoes == ASSUME Undisturbed, JobsInv, ConfigReadAll PROVE Goes
<1>1. /\ Over /\ Jobless /\ ecu \in Range(EcuTable) /\ cfg' = [on |-> TRUE, index |-> 1]
      /\ SendAndWait(<<Req(ecu, "Read", 1)>>) /\ UNCHANGED <<ecu, scan, lid, live, proc, flash>>
  BY TypedOver, ReadyJobless DEF ConfigReadAll
<1>2. Wires' /\ state' = "WaitingResponse" /\ asked' = Req(ecu, "Read", 1)
  BY <1>1, AsksNow DEF Kinds
<1>3. Jobs'
  BY <1>1, <1>2 DEF JobsInv, Jobless, Jobs, Scanning, Sweeping, Zoning, Proceeding, Without
<1> QED BY <1>1, <1>2, <1>3, Uncounted DEF JobsInv, Goes

LEMMA LidScanGoes == ASSUME Undisturbed, JobsInv, LidScan PROVE Goes
<1> DEFINE l == [on |-> TRUE, id |-> 1, hits |-> 0]
<1>1. /\ Over /\ Jobless /\ ecu \in Range(EcuTable) /\ LidScanSend(l)
      /\ UNCHANGED <<ecu, scan, cfg, live, proc, flash>>
  BY TypedOver, ReadyJobless DEF LidScan
<1>2. lid' = l /\ SendAndWait(<<Req(ecu, "Read", 1)>>)
  BY <1>1 DEF LidScanSend
<1>3. Wires' /\ state' = "WaitingResponse" /\ asked' = Req(ecu, "Read", 1)
  BY <1>1, <1>2, AsksNow DEF Kinds
<1>4. Jobs'
  BY <1>1, <1>2, <1>3 DEF JobsInv, Jobless, Jobs, Scanning, Sweeping, Zoning, Proceeding, Without
<1>5. ~(lid'.hits > lid.hits)
  BY <1>2 DEF JobsInv, Inv, LidIn, Lids
<1> QED BY <1>1, <1>3, <1>4, <1>5 DEF Goes, Counted, HitsAttributed, Jobless

LEMMA LidScanStopGoes == ASSUME Undisturbed, JobsInv, LidScanStop PROVE Goes
<1>1. /\ Over /\ lid.on /\ lid' = [lid EXCEPT !.on = FALSE] /\ Settle
      /\ UNCHANGED <<ecu, scan, cfg, live, proc, flash>>
  BY TypedOver DEF LidScanStop, Settle
<1>2. ecu \in Range(EcuTable) /\ ~scan.on /\ ~cfg.on /\ proc = NoProc
  BY <1>1 DEF JobsInv, Wires, Awaited, Jobs, Scanning, Sweeping
<1>3. Wires'
  BY <1>1, <1>2, Settled
<1>4. ~lid'.on /\ lid'.hits = lid.hits
  BY <1>1 DEF JobsInv, Inv, LidIn, Lids
<1>5. Jobs'
  BY <1>1, <1>2, <1>4 DEF JobsInv, Jobs, Scanning, Sweeping, Zoning, Proceeding, Without
<1> QED BY <1>2, <1>3, <1>4, <1>5, Uncounted DEF JobsInv, Goes

LEMMA ScanStarts == ASSUME Undisturbed, JobsInv, NEW pdi, Scan(pdi) PROVE Goes
<1> DEFINE none == [i \in 1 .. Len(EcuTable) |-> "not scanned"]
           s == [on |-> TRUE, pdi |-> pdi \/ scan.pdi, index |-> 1, results |-> none]
           r == Req(EcuTable[1], "Open", 0)
<1>1. /\ Over /\ ~IsConnected /\ ~scan.on /\ ConnectByIndex(s, 1, <<>>)
      /\ UNCHANGED <<lid, cfg, proc, flash>>
  BY TypedOver DEF Scan
<1>2. Jobless
  BY <1>1, Idleness DEF JobsInv, IsConnected
<1>3. /\ scan' = [s EXCEPT !.index = 1] /\ ecu' = EcuTable[1] /\ live' = FALSE
      /\ Send(<<>> \o <<r>>) /\ state' = "WaitingResponse"
  BY <1>1 DEF ConnectByIndex, SendAndWait
<1>4. 1 \in 1 .. Len(EcuTable) /\ EcuTable[1] \in Range(EcuTable)
  BY Table
<1>5. r \in Requests /\ r.ecu = EcuTable[1] /\ r.kind = "Open"
  BY <1>4, ReqIn DEF Kinds
<1> HIDE DEF none
<1>6. scan'.on /\ scan'.index = 1
  BY <1>3
<1> HIDE DEF s
<1>7. Send(<<r>>)
  <2> HIDE DEF r
  <2>1. <<>> \o <<r>> = <<r>>
    OBVIOUS
  <2> QED BY <1>3, <2>1
<1>8. Wires' /\ asked' = r
  <2> HIDE DEF r
  <2> QED BY <1>1, <1>3, <1>5, <1>7, OneSent
<1>9. Jobs'
  <2>1. Reported(scan', 0)
    <3>1. 1 .. 0 = {}
      OBVIOUS
    <3> QED BY <3>1, Zenon DEF Reported
  <2>2. scan'.index - 1 = 0
    BY <1>6
  <2>3. Scanning'
    BY <1>1, <1>2, <1>3, <1>6, <1>8, <2>1, <2>2 DEF Scanning, Jobless
  <2> QED BY <1>1, <1>2, <1>3, <2>3
          DEF JobsInv, Jobless, Jobs, Sweeping, Zoning, Proceeding, Without
<1> QED BY <1>1, <1>8, <1>9, Uncounted DEF JobsInv, Goes

LEMMA ProcedureStarts ==
  ASSUME Undisturbed, JobsInv, NEW name \in DOMAIN Procedures, StartProcedure(name)
  PROVE  Goes
<1> DEFINE p == [name |-> name, step |-> 0]
<1>1. /\ Over /\ Jobless /\ ecu \in Range(EcuTable) /\ AdvanceProcedure(p) /\ name \in Commands
      /\ UNCHANGED <<ecu, scan, lid, cfg, live, flash>>
  BY TypedOver, ReadyJobless DEF StartProcedure, Typed
<1>2. name \in Plain
  BY <1>1 DEF Undisturbed, Plain
<1>3. p.name \in Plain /\ p.step \in Nat /\ p = [name |-> p.name, step |-> p.step]
  BY <1>2
<1> HIDE DEF p
<1>4. Wires' /\ Proceeding'
  BY <1>1, <1>3, ProcedureGoesOn
<1>5. Jobs'
  BY <1>1, <1>4 DEF JobsInv, Jobless, Jobs, Scanning, Sweeping, Zoning, Without
<1> QED BY <1>1, <1>4, <1>5, Uncounted DEF JobsInv, Goes

LEMMA UserGoes == ASSUME Undisturbed, JobsInv, User PROVE Goes
BY SwitchGoes, ConnectGoes, DisconnectGoes, AskGoes, ConfigReadAllGoes, LidScanGoes,
   LidScanStopGoes, ScanStarts, ProcedureStarts DEF User

----------------------------------------------------------------------------
(* Every step, and every behaviour. *)
LEMMA InitJobs == ASSUME Undisturbed PROVE Init => JobsInv
<1> SUFFICES ASSUME Init PROVE JobsInv
  OBVIOUS
<1>1. state = "Idle" /\ tx = NoReq /\ toEcu = <<>> /\ toShell = <<>>
  BY Zenon DEF Init
<1>2. <<>> \in Seq(Requests) /\ <<>> \in Seq(Replies)
  OBVIOUS
<1>3. Wires
  BY <1>1, <1>2 DEF Wires, Carried
<1>4. ~scan.on /\ ~lid.on /\ ~cfg.on /\ proc = NoProc /\ ~live /\ ~flash.active /\ ~flash.opening
  BY DEF Init
<1>5. Jobs
  BY <1>4 DEF Jobs, Scanning, Sweeping, Zoning, Proceeding, Without
<1> QED BY <1>3, <1>5, InitInv DEF JobsInv

LEMMA NextGoes == ASSUME Undisturbed, JobsInv, Next PROVE Goes
BY FrameGoes, TimerGoes, UserGoes, WorldGoes DEF Next

LEMMA JobsInvariance == ASSUME Undisturbed PROVE Spec => []JobsInv
<1>1. Init => JobsInv
  BY InitJobs
<1>2. JobsInv /\ [Next]_vars => JobsInv'
  <2> SUFFICES ASSUME JobsInv, [Next]_vars PROVE JobsInv'
    OBVIOUS
  <2>1. Inv'
    BY NextInv DEF JobsInv
  <2>2. CASE Next
    BY <2>1, <2>2, NextGoes DEF Goes, JobsInv
  <2>3. CASE UNCHANGED vars
    <3>1. UNCHANGED <<state, ecu, asked, pending, tx, toEcu, toShell>>
          /\ UNCHANGED <<scan, lid, cfg, live, proc, flash>>
      BY <2>3 DEF vars, jobs, out
    <3>2. Wires'
      BY <3>1
         DEF JobsInv, Wires, Carried, Awaited, AskedIn, AnswersIn, Alone, AliveIn, AliveAnswersIn
    <3> QED BY <2>1, <3>1, <3>2, JobsStay DEF Goes, JobsInv
  <2> QED BY <2>2, <2>3
<1> QED BY <1>1, <1>2, PTL DEF Spec

(* No handler, timer or command leaves a job behind with nothing outstanding *)
(* that the response timeout could end (diag_shell.cpp:117, 196).            *)
THEOREM JobsAreAwaited ==
  ASSUME Undisturbed
  PROVE  Spec => []JobsUnderTimeout
<1>1. JobsInv => JobsUnderTimeout
  BY DEF JobsInv, Jobs, Scanning, Sweeping, Zoning, Proceeding, JobsUnderTimeout
<1> QED BY <1>1, JobsInvariance, PTL

(* The reply that is taken while one is awaited is the one to the request    *)
(* that went out last, though nothing in it says so (feedDiagFrame).         *)
THEOREM RepliesMatch ==
  ASSUME Undisturbed
  PROVE  Spec => RepliesAnswer
<1>1. JobsInv => (Taken /\ state = "WaitingResponse" => Head(toShell).req = asked)
  BY Answered DEF Taken
<1>2. Spec => [][Taken /\ state = "WaitingResponse" => Head(toShell).req = asked]_vars
  BY <1>1, JobsInvariance, PTL DEF Spec
<1> QED BY <1>2 DEF RepliesAnswer

(* A procedure goes on only with the reply to its own last step, and a hit   *)
(* is counted for the identifier that answered (diag_shell.cpp:117-120).     *)
THEOREM JobsKeepStep ==
  ASSUME Undisturbed
  PROVE  Spec => JobsInStep
<1>1. JobsInv => ProcedureInStep
  BY Answered DEF ProcedureInStep, Taken, JobsInv, Jobs, Proceeding
<1>2. JobsInv /\ Next => HitsAttributed
  BY NextGoes DEF Goes, Counted
<1>3. JobsInv /\ [Next]_vars => [ProcedureInStep /\ HitsAttributed]_vars
  BY <1>1, <1>2
<1>4. Spec => [][ProcedureInStep /\ HitsAttributed]_vars
  BY <1>3, JobsInvariance, PTL DEF Spec
<1> QED BY <1>4 DEF JobsInStep

(* A scan that runs to its end reports on every ECU, whichever of them       *)
(* answer, refuse, stay silent or have their replies lost (advanceScan).     *)
THEOREM ScansReport ==
  ASSUME Undisturbed
  PROVE  Spec => ScanReportsAll
<1>1. JobsInv /\ [Next]_vars =>
        [scan.on /\ scan'.index > Len(EcuTable)
           => \A i \in 1 .. Len(EcuTable) : scan'.results[i] # "not scanned"]_vars
  BY NextGoes DEF Goes, Counted, Reported
<1>2. Spec => [][scan.on /\ scan'.index > Len(EcuTable)
                   => \A i \in 1 .. Len(EcuTable) : scan'.results[i] # "not scanned"]_vars
  BY <1>1, JobsInvariance, PTL DEF Spec
<1> QED BY <1>2 DEF ScanReportsAll
=============================================================================
