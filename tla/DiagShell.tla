----------------------------- MODULE DiagShell -----------------------------
(***************************************************************************)
(* The diagnostic shell of src/diag_shell.cpp: one session with one ECU at *)
(* a time, and the long-running jobs that live on the replies of that      *)
(* session: the global scan, the identifier sweep, config readall, live    *)
(* polling, the multi-step procedures and the flash sequence.              *)
(*                                                                         *)
(* The shell is modelled above ISO-TP, one request or reply at a time. A   *)
(* reply carries the request it answers, but the shell looks only at what  *)
(* the bytes tell: the sender, positive, negative or pending, and the      *)
(* class of service (Service). A request in Segmented first needs the      *)
(* ECU's flow control; until the transfer is through it is in tx.          *)
(*                                                                         *)
(* There is no clock. A timer may fire whenever its guard holds or, when   *)
(* PromptEcu, only when no request or reply is under way: then ECUs answer *)
(* within every timeout or not at all. UnhurriedUser: the user waits for   *)
(* the wire to fall silent before typing.                                  *)
(***************************************************************************)
EXTENDS Integers, Sequences, SequencesExt, FlashEngine

CONSTANTS
  EcuTable,            (* the sequence of ECUs, kEcuTable                    *)
  Protocol,            (* "UDS", "KWP_HAB" or "KWP_IS" for each of them      *)
  NoEcu, NoReq,
  LidEnd,              (* the sweep reads the identifiers 1 .. LidEnd        *)
  Zones,               (* config readall reads the zones 1 .. Zones          *)
  MaxStaged,           (* bound on staged records (256 in the code)          *)
  MaxResponsePending,  (* kMaxResponsePending                                *)
  EcuPatience,         (* an ECU asks for patience this often in a row       *)
  Segmented,           (* kinds of request longer than one frame             *)
  Commands,            (* what the user may type                             *)
  EcuAnswers,          (* what an ECU may do with a request                  *)
  Faults,              (* what may go wrong below the shell                  *)
  PromptEcu, UnhurriedUser,
  MaxWire              (* bound on what is under way when the shell sends    *)

ASSUME TableAssumption ==
  /\ EcuTable \in Seq(Range(EcuTable)) /\ Len(EcuTable) > 0 /\ NoEcu \notin Range(EcuTable)
  /\ Protocol \in [Range(EcuTable) -> {"UDS", "KWP_HAB", "KWP_IS"}]
(* No two rows share their addresses: one that did was dropped              *)
(* (include/psa/psa_protocol.hpp:54-55).                                     *)
ASSUME AddressAssumption ==
  \A i, j \in 1 .. Len(EcuTable) : EcuTable[i] = EcuTable[j] => i = j
ASSUME BoundAssumption ==
  /\ LidEnd \in Nat \ {0} /\ Zones \in Nat \ {0} /\ MaxStaged \in Nat \ {0}
  /\ MaxResponsePending \in Nat \ {0} /\ EcuPatience \in Nat /\ MaxWire \in Nat

(* An operator defined just before another one with the same parameters,    *)
(* and used nowhere, is that one with a slip a programmer could make: what  *)
(* the properties below must be able to tell apart from the code.           *)

VARIABLES
  state,      (* state_: Idle, WaitingResponse or Connected                  *)
  ecu,        (* ecu_                                                        *)
  unlocked, rw,
  pending,    (* pending_count_                                              *)
  scan,       (* scan_active_, pdi_active_, scan_index_, scan_results_       *)
  lid,        (* lidscan_active_, lidscan_id_, lidscan_hits_                 *)
  cfg,        (* config_readall_active_, config_zone_index_                  *)
  live,       (* live_polling_active_                                        *)
  proc,       (* proc_, proc_step_                                           *)
  flash,      (* flash_active_, flash_session_pending_, the engine's step,   *)
              (* staged_count_, staged_index_                                 *)
  tx,         (* the request whose transfer awaits flow control              *)
  toEcu,      (* requests on the wire, oldest first                          *)
  toShell,    (* replies on the wire, oldest first                           *)
  asked,      (* ghost: the request whose reply is awaited                   *)
  accepted    (* ghost: the blocks the ECU has accepted since its last erase *)

access == <<unlocked, rw>>
jobs   == <<scan, lid, cfg, live, proc, flash>>
out    == <<tx, toEcu, asked>>
vars   == <<state, ecu, access, pending, jobs, out, toShell, accepted>>

----------------------------------------------------------------------------
(* Requests and replies. *)

Kinds == {"Open", "Program", "Close", "Alive", "Dtc", "Clear", "Read", "Write", "Routine",
          "Seed", "Key", "Erase", "Download", "Block", "Exit", "Verify"}
Req(e, kind, n) == [ecu |-> e, kind |-> kind, n |-> n]
Ask(kind) == Req(ecu, kind, 0)

(* The class of the positive reply to a request: its service byte. Ending   *)
(* a session is opening another one, except on a KWP/IS ECU.                *)
Service(r) ==
  CASE r.kind \in {"Open", "Program"}            -> "Session"
    [] r.kind = "Close"                          -> IF Protocol[r.ecu] = "KWP_IS"
                                                    THEN "Closed" ELSE "Session"
    [] r.kind \in {"Routine", "Erase", "Verify"} -> "Routine"
    [] OTHER                                     -> r.kind

(* The commands that kWriteCommands blocks in read-only mode and the kind   *)
(* of request each sends; the other plain commands; what they have in       *)
(* common is one request and the guards of cmdDtc.                          *)
WriteAsks == [write |-> "Write", trace |-> "Write", raw |-> "Write", clear |-> "Clear",
              actuator |-> "Routine", ecodisable |-> "Routine"]
ReadAsks  == [dtc |-> "Dtc", read |-> "Read", ident |-> "Read", unlock |-> "Seed"]

(* The requests of each procedure, in order (advanceProcedure). *)
Procedures ==
  [ServiceReset |-> <<"Write">>, ServiceSchedule |-> <<"Write">>, KeyLearn |-> <<"Routine">>,
   EspCalib |-> <<"Routine", "Clear">>, BsiInit |-> <<"Routine", "Clear">>,
   EspBleed |-> [i \in 1 .. 7 |-> "Routine"]]
NeedsUnlock == {"ServiceReset", "KeyLearn", "BsiInit"}
NoProc == [name |-> "None", step |-> 0]

(* What goes out to an ECU changes what it holds: these are its writes. *)
Writes == {"Write", "Clear", "Routine", "Erase", "Download", "Block", "Exit", "Verify"}

----------------------------------------------------------------------------
(* A command in a session without an ECU reads through a null ecu_: that is *)
(* undefined, and the model goes no further there (see ConnectedHasEcu).    *)
IsConnected == state # "Idle"
ReadyOrWaiting == state # "Idle" /\ ecu # NoEcu
Ready == state = "Connected" /\ ecu # NoEcu

Quiet == toEcu = <<>> /\ toShell = <<>> /\ tx = NoReq
Room  == Len(toEcu) + Len(toShell) < MaxWire

(* sendReq of each of rs in turn; a reply to the last one is awaited.       *)
(* Starting a request drops the transfer of an older one.                   *)
Send(rs) ==
  /\ asked' = Last(rs)
  /\ \/ /\ Last(rs).kind \notin Segmented
        /\ tx' = NoReq
        /\ toEcu' = toEcu \o rs
     \/ /\ Last(rs).kind \in Segmented
        /\ tx' = Last(rs)
        /\ toEcu' = toEcu \o Front(rs)

SendAndWait(rs) == Send(rs) /\ state' = "WaitingResponse"
Settle == state' = "Connected" /\ UNCHANGED out

----------------------------------------------------------------------------
(* The jobs' own steps. Each says what becomes of state, ecu, out and its   *)
(* job; p is pending_count_ if no request goes out.                         *)

LidScanSendBefore(l) ==
  /\ lid' = l
  /\ pending' = 0
  /\ SendAndWait(<<Req(ecu, "Read", l.id - 1)>>)
LidScanSend(l) ==
  /\ lid' = l
  /\ pending' = 0
  /\ SendAndWait(<<Req(ecu, "Read", l.id)>>)

LidScanAdvancePastEnd(l, p) ==
  \/ l.id <= LidEnd /\ LidScanSend([l EXCEPT !.id = @ + 1])
  \/ l.id > LidEnd /\ lid' = [l EXCEPT !.on = FALSE] /\ pending' = p /\ Settle
LidScanAdvanceNoReset(l, p) ==
  \/ l.id < LidEnd /\ LidScanSend([l EXCEPT !.id = @ + 1])
  \/ l.id >= LidEnd /\ lid' = l /\ pending' = p /\ Settle
LidScanAdvance(l, p) ==
  \/ /\ l.id < LidEnd
     /\ LidScanSend([l EXCEPT !.id = @ + 1])
  \/ /\ l.id >= LidEnd
     /\ lid' = [l EXCEPT !.on = FALSE]
     /\ pending' = p
     /\ Settle

ResultIfOk(res) == IF res = "ok" THEN [scan EXCEPT !.results[scan.index] = res] ELSE scan
Result(res) == [scan EXCEPT !.results[scan.index] = res]

(* connectByIndex(i), after the request of "first" if there is one. *)
ConnectByIndex(s, i, first) ==
  /\ scan' = [s EXCEPT !.index = i]
  /\ ecu' = EcuTable[i]
  /\ unlocked' = FALSE /\ live' = FALSE /\ pending' = 0
  /\ SendAndWait(first \o <<Req(EcuTable[i], "Open", 0)>>)

(* advanceScan(); at the end of the table the shell is idle and keeps e. *)
AdvanceScanNotIdle(s, first, e, p) ==
  \/ s.index < Len(EcuTable) /\ ConnectByIndex(s, s.index + 1, first)
  \/ /\ s.index >= Len(EcuTable)
     /\ scan' = [s EXCEPT !.index = @ + 1, !.on = FALSE, !.pdi = FALSE]
     /\ ecu' = e /\ state' = "Connected"
     /\ IF first = <<>> THEN UNCHANGED out ELSE Send(first)
     /\ pending' = p /\ UNCHANGED <<unlocked, live>>
AdvanceScan(s, first, e, p) ==
  \/ /\ s.index < Len(EcuTable)
     /\ ConnectByIndex(s, s.index + 1, first)
  \/ /\ s.index >= Len(EcuTable)
     /\ scan' = [s EXCEPT !.index = @ + 1, !.on = FALSE, !.pdi = FALSE]
     /\ ecu' = e /\ state' = "Idle"
     /\ IF first = <<>> THEN UNCHANGED out ELSE Send(first)
     /\ pending' = p
     /\ UNCHANGED <<unlocked, live>>

(* The zone config readall goes on to, if any. *)
NextZonePast ==
  [cfg EXCEPT !.index = @ + 1, !.on = @ /\ cfg.index <= Zones]
NextZoneAround == [cfg EXCEPT !.index = IF @ < Zones THEN @ + 1 ELSE 1]
NextZone ==
  [cfg EXCEPT !.index = @ + 1, !.on = @ /\ cfg.index < Zones]
ZoneRead == <<Req(ecu, "Read", cfg.index + 1)>>

(* advanceProcedure() on the procedure p *)
AdvanceProcedure(p) ==
  LET n == p.step + 1
  IN  \/ /\ n <= Len(Procedures[p.name])
         /\ proc' = [p EXCEPT !.step = n]
         /\ SendAndWait(<<Req(ecu, Procedures[p.name][n], n)>>)
      \/ /\ n > Len(Procedures[p.name])
         /\ proc' = NoProc
         /\ Settle

----------------------------------------------------------------------------
(* handleResponse(r). feedDiagFrame has already left WaitingResponse for    *)
(* Connected, whatever r is the reply to.                                   *)

Negative(r) == r.kind \in {"negative", "refused"}

(* The programming session a flash waits for claims the next reply. *)
Claimed(r) == flash.opening /\ r.kind # "pending"
OnFlashSession(r) ==
  /\ Claimed(r)
  /\ pending' = 0
  /\ \/ /\ Negative(r)
        /\ flash' = [flash EXCEPT !.opening = FALSE, !.active = FALSE]
        /\ Settle
     \/ /\ ~Negative(r)
        /\ flash' = [flash EXCEPT !.opening = FALSE, !.step = AfterRequest(flash.step)]
        /\ SendAndWait(<<Ask(Emits[flash.step])>>)
  /\ UNCHANGED <<ecu, unlocked, scan, lid, cfg, live, proc>>

OnPending(r) ==
  /\ r.kind = "pending"
  /\ \/ /\ pending >= MaxResponsePending
        /\ pending' = 0 /\ proc' = NoProc
        /\ state' = "Idle"
     \/ /\ pending < MaxResponsePending
        /\ pending' = pending + 1 /\ UNCHANGED proc
        /\ state' = "WaitingResponse"
  /\ UNCHANGED <<ecu, unlocked, scan, lid, cfg, live, flash, out>>

(* A refusal of the session-open service, whoever asked for it. *)
RefusesSession(r) ==
  r.req.kind \in {"Open", "Program"} \cup (IF Protocol[ecu] = "KWP_IS" THEN {} ELSE {"Close"})

OnNegative(r) ==
  /\ Negative(r) /\ ~Claimed(r)
  /\ \/ /\ lid.on
        /\ LidScanAdvance([lid EXCEPT !.hits = IF r.kind = "refused" THEN @ + 1 ELSE @], 0)
        /\ UNCHANGED <<ecu, unlocked, scan, cfg, live, proc>>
     \/ /\ ~lid.on /\ proc # NoProc
        /\ proc' = NoProc
        /\ pending' = 0 /\ Settle
        /\ UNCHANGED <<ecu, unlocked, scan, lid, cfg, live>>
     \/ /\ ~lid.on /\ proc = NoProc /\ scan.on
        /\ cfg' = IF cfg.on THEN NextZone ELSE cfg
        /\ AdvanceScan(Result("no comm"), IF cfg'.on THEN ZoneRead ELSE <<>>, NoEcu, 0)
        /\ UNCHANGED <<lid, proc>>
     \/ /\ ~lid.on /\ proc = NoProc /\ ~scan.on
        /\ cfg' = IF cfg.on THEN NextZone ELSE cfg
        /\ \/ cfg'.on /\ SendAndWait(ZoneRead)
           \/ ~cfg'.on /\ UNCHANGED out
              /\ state' = IF RefusesSession(r) THEN "Idle" ELSE "Connected"
        /\ pending' = 0
        /\ UNCHANGED <<ecu, unlocked, scan, lid, live, proc>>
  /\ UNCHANGED flash

(* A positive reply is shown to these handlers in this order. *)

OnSession ==
  /\ IF scan.on THEN SendAndWait(<<Ask("Dtc")>>) ELSE Settle
  /\ pending' = 0
  /\ UNCHANGED <<ecu, unlocked, jobs>>

OnClosed ==
  /\ \/ scan.on /\ AdvanceScan(scan, <<>>, ecu, 0)
     \/ ~scan.on /\ state' = "Idle" /\ pending' = 0
        /\ UNCHANGED <<ecu, unlocked, scan, live, out>>
  /\ UNCHANGED <<lid, cfg, proc, flash>>

OnDtc ==
  /\ \/ scan.on /\ AdvanceScan(Result("ok"), <<Ask("Close")>>, NoEcu, 0)
     \/ ~scan.on /\ Settle /\ pending' = 0
        /\ UNCHANGED <<ecu, unlocked, scan, live>>
  /\ UNCHANGED <<lid, cfg, proc, flash>>

OnCleared ==
  /\ Settle /\ pending' = 0
  /\ UNCHANGED <<ecu, unlocked, jobs>>

(* The flash sequence sends its next request, or waits for 'flash end'. *)
OnFlash(service) ==
  LET step  == AfterPositive(flash.step, service)
      moved == [flash EXCEPT !.step = step]
  IN  /\ flash.active
      /\ \/ /\ step = "Done" \/ (step = "RequestDownload" /\ flash.staged = 0)
            /\ flash' = [moved EXCEPT !.active = FALSE]
            /\ Settle
         \/ /\ step = "VerifyChecksum" \/ (step = "RequestDownload" /\ flash.staged > 0)
            /\ flash' = [moved EXCEPT !.step = AfterRequest(step)]
            /\ SendAndWait(<<Ask(Emits[step])>>)
         \/ /\ step = "TransferData" /\ flash.index < flash.staged
            /\ flash' = [moved EXCEPT !.index = @ + 1]
            /\ SendAndWait(<<Req(ecu, "Block", flash.index + 1)>>)
         \/ /\ \/ step = "TransferData" /\ flash.index >= flash.staged
               \/ step \in {"Idle", "RequestErase"}
            /\ flash' = moved
            /\ Settle
      /\ pending' = 0
      /\ UNCHANGED <<ecu, unlocked, scan, lid, cfg, live, proc>>

OnProcedure ==
  /\ ~flash.active /\ proc # NoProc
  /\ AdvanceProcedure(proc)
  /\ pending' = 0
  /\ UNCHANGED <<ecu, unlocked, scan, lid, cfg, live, flash>>

OnZone ==
  /\ \/ /\ lid.on /\ ~live
        /\ LidScanAdvance([lid EXCEPT !.hits = @ + 1], 0)
        /\ UNCHANGED cfg
     \/ /\ ~lid.on /\ ~live /\ cfg.on
        /\ cfg' = NextZone
        /\ IF cfg'.on THEN SendAndWait(ZoneRead) ELSE Settle
        /\ pending' = 0 /\ UNCHANGED lid
     \/ /\ live \/ (~lid.on /\ ~cfg.on)
        /\ Settle
        /\ pending' = 0 /\ UNCHANGED <<lid, cfg>>
  /\ UNCHANGED <<ecu, unlocked, scan, live, proc, flash>>

(* A seed is zero (unlocked already), or it is answered with the key; with  *)
(* no PIN, or a malformed seed, nothing follows.                            *)
OnSeed ==
  /\ \/ Settle /\ unlocked' \in {unlocked, TRUE}
     \/ SendAndWait(<<Ask("Key")>>) /\ UNCHANGED unlocked
  /\ pending' = 0
  /\ UNCHANGED <<ecu, jobs>>

OnKey ==
  /\ unlocked' = TRUE
  /\ Settle /\ pending' = 0
  /\ UNCHANGED <<ecu, jobs>>

OnPositive(r) ==
  LET s == Service(r.req)
  IN  /\ r.kind = "positive" /\ ~Claimed(r)
      /\ \/ s = "Session" /\ OnSession
         \/ s = "Closed" /\ OnClosed
         \/ s = "Dtc" /\ OnDtc
         \/ s = "Clear" /\ OnCleared
         \/ s \notin {"Session", "Closed", "Dtc", "Clear"}
            /\ \/ OnFlash(s)
               \/ OnProcedure
               \/ /\ ~flash.active /\ proc = NoProc
                  /\ \/ s = "Read" /\ OnZone
                     \/ s = "Seed" /\ OnSeed
                     \/ s = "Key" /\ OnKey
                     \/ s \notin {"Read", "Seed", "Key"} /\ OnCleared

HandleResponse(r) ==
  OnFlashSession(r) \/ OnPending(r) \/ OnNegative(r) \/ OnPositive(r)

----------------------------------------------------------------------------
(* feedDiagFrame at the end of a reply. *)

Ours(r) == IsConnected /\ r.req.ecu = ecu

Receive ==
  /\ toShell # <<>> /\ toShell' = Tail(toShell)
  /\ \/ Ours(Head(toShell)) /\ HandleResponse(Head(toShell))
     \/ ~Ours(Head(toShell)) /\ UNCHANGED <<state, ecu, unlocked, pending, jobs, out>>
  /\ UNCHANGED <<rw, accepted>>

(* A reply whose frames cannot be put together: IsoTpStatus::Error. *)
ReassemblyError ==
  /\ "garble" \in Faults
  /\ toShell # <<>> /\ Ours(Head(toShell)) /\ toShell' = Tail(toShell)
  /\ Settle
  /\ UNCHANGED <<ecu, access, pending, jobs, accepted>>

(* The transfer of a request ends: it is through; the ECU refuses it or     *)
(* never sends its flow control; the controller takes no more frames.       *)
TransferThrough ==
  /\ tx # NoReq
  /\ toEcu' = Append(toEcu, tx) /\ tx' = NoReq
  /\ UNCHANGED <<state, ecu, access, pending, jobs, asked, toShell, accepted>>

TransferAborted ==
  /\ "abort" \in Faults
  /\ tx # NoReq /\ ecu # NoEcu
  /\ tx' = NoReq
  /\ state' = IF state = "WaitingResponse" THEN "Connected" ELSE state
  /\ UNCHANGED <<ecu, access, pending, jobs, toEcu, asked, toShell, accepted>>

TransferFails ==
  /\ "abort" \in Faults
  /\ tx # NoReq /\ ecu # NoEcu
  /\ tx' = NoReq
  /\ UNCHANGED <<state, ecu, access, pending, jobs, toEcu, asked, toShell, accepted>>

----------------------------------------------------------------------------
(* The timers of poll(). *)

(* Timers that spare an ECU that has asked for patience. *)
MayBeLatePatient == (~PromptEcu \/ Quiet) /\ pending = 0

(* The time since the request was sent, or last put off, has run out. *)
MayBeLate == ~PromptEcu \/ Quiet

LidScanTimeout ==
  /\ lid.on /\ state = "WaitingResponse" /\ MayBeLate
  /\ LidScanAdvance(lid, pending)
  /\ UNCHANGED <<ecu, access, scan, cfg, live, proc, flash, toShell, accepted>>

(* The sweep's deadline is shorter: five seconds pass in a sweep only when  *)
(* a reply has begun to arrive and is never completed.                      *)
ResponseTimeout ==
  /\ state = "WaitingResponse" /\ MayBeLate
  /\ PromptEcu => ~lid.on
  /\ lid' = [lid EXCEPT !.on = FALSE]
  /\ cfg' = [cfg EXCEPT !.on = FALSE]
  /\ flash' = [flash EXCEPT !.active = FALSE]
  /\ proc' = NoProc
  /\ \/ /\ scan.on
        /\ LET s == Result("no comm")
           IN  \/ s.index < Len(EcuTable) /\ ConnectByIndex(s, s.index + 1, <<>>)
               \/ /\ s.index >= Len(EcuTable)
                  /\ scan' = [s EXCEPT !.index = @ + 1, !.on = FALSE, !.pdi = FALSE]
                  /\ ecu' = NoEcu /\ state' = "Idle" /\ live' = FALSE
                  /\ tx' = NoReq
                  /\ UNCHANGED <<unlocked, pending, toEcu, asked>>
     \/ /\ ~scan.on
        /\ scan' = [scan EXCEPT !.pdi = FALSE]
        /\ state' = "Idle" /\ live' = FALSE
        /\ tx' = NoReq
        /\ UNCHANGED <<ecu, unlocked, pending, toEcu, asked>>
  /\ UNCHANGED <<rw, toShell, accepted>>

(* TesterPresent goes out past the state machine and awaits no reply. *)
KeepAlive ==
  /\ "keepalive" \in Commands
  /\ Ready /\ tx = NoReq
  /\ Room /\ (PromptEcu => Quiet)
  /\ toEcu' = Append(toEcu, Ask("Alive"))
  /\ UNCHANGED <<state, ecu, access, pending, jobs, tx, asked, toShell, accepted>>

LivePoll ==
  /\ live /\ Ready /\ Room
  /\ SendAndWait(<<Ask("Read")>>)
  /\ UNCHANGED <<ecu, access, pending, jobs, toShell, accepted>>

----------------------------------------------------------------------------
(* processLine and the commands. *)

Typed(c) == c \in Commands /\ Room /\ (UnhurriedUser => Quiet)
ByUser == UNCHANGED <<toShell, accepted>>

Rw(on) ==
  /\ Typed(IF on THEN "rw on" ELSE "rw off")
  /\ rw' = on
  /\ UNCHANGED <<state, ecu, unlocked, pending, jobs, out>> /\ ByUser

Connect(e) ==
  /\ Typed("connect") /\ ~IsConnected
  /\ ecu' = e
  /\ unlocked' = FALSE /\ pending' = 0 /\ live' = FALSE
  /\ SendAndWait(<<Req(e, "Open", 0)>>)
  /\ UNCHANGED <<rw, scan, lid, cfg, proc, flash>> /\ ByUser

Disconnect ==
  /\ Typed("exit") /\ IsConnected /\ ecu # NoEcu
  /\ scan' = [scan EXCEPT !.on = FALSE]
  /\ proc' = NoProc
  /\ Send(<<Ask("Close")>>)
  /\ state' = "Idle" /\ ecu' = NoEcu
  /\ unlocked' = FALSE /\ pending' = 0 /\ live' = FALSE
  /\ cfg' = [cfg EXCEPT !.on = FALSE] /\ lid' = [lid EXCEPT !.on = FALSE]
  /\ UNCHANGED <<rw, flash>> /\ ByUser

(* dtc, read, ident, unlock; write, trace, raw, clear, actuator, ecodisable *)
PlainAsk(c, kind) ==
  /\ Typed(c) /\ Ready
  /\ SendAndWait(<<Ask(kind)>>)
  /\ UNCHANGED <<ecu, access, pending, jobs>> /\ ByUser

ReadCommand  == \E c \in DOMAIN ReadAsks : PlainAsk(c, ReadAsks[c])
WriteCommand == rw /\ \E c \in DOMAIN WriteAsks : PlainAsk(c, WriteAsks[c])

ConfigRead ==
  /\ Typed("config read") /\ Ready
  /\ cfg' = [cfg EXCEPT !.on = FALSE]
  /\ SendAndWait(<<Ask("Read")>>)
  /\ UNCHANGED <<ecu, access, pending, scan, lid, live, proc, flash>> /\ ByUser

ConfigReadAll ==
  /\ Typed("config readall") /\ Ready
  /\ cfg' = [on |-> TRUE, index |-> 1]
  /\ SendAndWait(<<Req(ecu, "Read", 1)>>)
  /\ UNCHANGED <<ecu, access, pending, scan, lid, live, proc, flash>> /\ ByUser

LidScan ==
  /\ Typed("lidscan") /\ Ready /\ ~lid.on
  /\ LidScanSend([on |-> TRUE, id |-> 1, hits |-> 0])
  /\ UNCHANGED <<ecu, access, scan, cfg, live, proc, flash>> /\ ByUser

LidScanStop ==
  /\ Typed("lidscan stop") /\ lid.on
  /\ lid' = [lid EXCEPT !.on = FALSE]
  /\ state' = "Connected"
  /\ UNCHANGED <<ecu, access, pending, scan, cfg, live, proc, flash, out>> /\ ByUser

Live(on) ==
  /\ Typed(IF on THEN "live" ELSE "live off")
  /\ on => Ready
  /\ live' = on
  /\ UNCHANGED <<state, ecu, access, pending, scan, lid, cfg, proc, flash, out>> /\ ByUser

(* scan, and pdi, which is a scan with another report *)
Scan(pdi) ==
  /\ Typed(IF pdi THEN "pdi" ELSE "scan")
  /\ ~scan.on /\ ~IsConnected
  /\ ConnectByIndex([on |-> TRUE, pdi |-> pdi \/ scan.pdi, index |-> 1,
                     results |-> [i \in 1 .. Len(EcuTable) |-> "not scanned"]], 1, <<>>)
  /\ UNCHANGED <<rw, lid, cfg, proc, flash>> /\ ByUser

StartProcedure(name) ==
  /\ Typed(name) /\ rw /\ Ready
  /\ name \in NeedsUnlock => unlocked
  /\ AdvanceProcedure([name |-> name, step |-> 0])
  /\ UNCHANGED <<ecu, access, pending, scan, lid, cfg, live, flash>> /\ ByUser

(* flash <S-record> | begin | end | cancel *)
MayFlashReadOnly(c) == Typed(c) /\ IsConnected /\ ecu # NoEcu /\ unlocked
MayFlash(c) == Typed(c) /\ rw /\ IsConnected /\ ecu # NoEcu /\ unlocked

FlashStage ==
  /\ MayFlash("flash record") /\ flash.staged < MaxStaged
  /\ flash' = [flash EXCEPT !.staged = @ + 1]
  /\ UNCHANGED <<state, ecu, access, pending, scan, lid, cfg, live, proc, out>> /\ ByUser

FlashBeginKeepsIndex ==
  /\ MayFlash("flash begin") /\ flash.staged > 0
  /\ flash' = [flash EXCEPT !.active = TRUE, !.opening = TRUE, !.step = "Idle"]
  /\ SendAndWait(<<Ask("Program")>>)
  /\ UNCHANGED <<ecu, access, pending, scan, lid, cfg, live, proc>> /\ ByUser
FlashBegin ==
  /\ MayFlash("flash begin") /\ flash.staged > 0
  /\ flash' = [active |-> TRUE, opening |-> TRUE, step |-> "Idle", staged |-> flash.staged, index |-> 0]
  /\ SendAndWait(<<Ask("Program")>>)
  /\ UNCHANGED <<ecu, access, pending, scan, lid, cfg, live, proc>> /\ ByUser

FlashEnd ==
  /\ MayFlash("flash end") /\ flash.active /\ flash.step = "TransferData"
  /\ LET step == FinishTransfer(flash.step)
     IN  /\ flash' = [flash EXCEPT !.step = AfterRequest(step)]
         /\ SendAndWait(<<Ask(Emits[step])>>)
  /\ UNCHANGED <<ecu, access, pending, scan, lid, cfg, live, proc>> /\ ByUser

FlashCancel ==
  /\ MayFlash("flash cancel")
  /\ flash' = [flash EXCEPT !.active = FALSE, !.staged = 0, !.index = 0]
  /\ UNCHANGED <<state, ecu, access, pending, scan, lid, cfg, live, proc, out>> /\ ByUser

----------------------------------------------------------------------------
(* The ECUs and the wire. *)

Reply(r, kind) == [req |-> r, kind |-> kind]

(* The ECU at the other end takes the oldest request: it answers, refuses,  *)
(* stays silent, or asks for patience: if the shell listens, one such reply *)
(* at a time, at most EcuPatience in a row.                                 *)
EcuDoes(a) ==
  /\ toEcu # <<>>
  /\ LET r == Head(toEcu)
     IN  /\ toEcu' = IF a = "pending" THEN toEcu ELSE Tail(toEcu)
         /\ a = "pending" => /\ IsConnected /\ r.ecu = ecu /\ r.kind # "Alive"
                             /\ toShell = <<>> /\ pending < EcuPatience
         /\ toShell' = IF a = "silent" THEN toShell ELSE Append(toShell, Reply(r, a))
         /\ accepted' = CASE a = "positive" /\ r.kind = "Erase" -> {}
                          [] a = "positive" /\ r.kind = "Block" -> accepted \cup {r.n}
                          [] OTHER                              -> accepted
  /\ UNCHANGED <<state, ecu, access, pending, jobs, tx, asked>>

Lose ==
  /\ "loss" \in Faults
  /\ \/ toEcu # <<>> /\ toEcu' = Tail(toEcu) /\ UNCHANGED toShell
     \/ toShell # <<>> /\ toShell' = Tail(toShell) /\ UNCHANGED toEcu
  /\ UNCHANGED <<state, ecu, access, pending, jobs, tx, asked, accepted>>

----------------------------------------------------------------------------
Init ==
  /\ state = "Idle" /\ ecu = NoEcu
  /\ unlocked = FALSE /\ rw = FALSE /\ pending = 0
  /\ scan = [on |-> FALSE, pdi |-> FALSE, index |-> 0,
             results |-> [i \in 1 .. Len(EcuTable) |-> "not scanned"]]
  /\ lid = [on |-> FALSE, id |-> 0, hits |-> 0]
  /\ cfg = [on |-> FALSE, index |-> 0]
  /\ live = FALSE
  /\ proc = NoProc
  /\ flash = [active |-> FALSE, opening |-> FALSE, step |-> "Idle", staged |-> 0, index |-> 0]
  /\ tx = NoReq /\ toEcu = <<>> /\ toShell = <<>> /\ asked = NoReq
  /\ accepted = {}

Frames == Receive \/ ReassemblyError \/ TransferThrough \/ TransferAborted \/ TransferFails
Timers == LidScanTimeout \/ ResponseTimeout \/ KeepAlive \/ LivePoll
User ==
  \/ \E on \in BOOLEAN : Rw(on) \/ Live(on) \/ Scan(on)
  \/ \E e \in Range(EcuTable) : Connect(e)
  \/ Disconnect \/ ReadCommand \/ WriteCommand
  \/ ConfigRead \/ ConfigReadAll \/ LidScan \/ LidScanStop
  \/ \E name \in DOMAIN Procedures : StartProcedure(name)
  \/ FlashStage \/ FlashBegin \/ FlashEnd \/ FlashCancel
World == (\E a \in EcuAnswers : EcuDoes(a)) \/ Lose

Next == Frames \/ Timers \/ User \/ World

Spec == Init /\ [][Next]_vars

(* The main loop never stops polling, and an ECU does something with every  *)
(* request, if only to stay silent. Nothing is assumed of the user.         *)
Fairness ==
  /\ WF_vars(Receive) /\ WF_vars(TransferThrough)
  /\ WF_vars(\E a \in EcuAnswers : EcuDoes(a))
  /\ WF_vars(LidScanTimeout) /\ WF_vars(ResponseTimeout)

FairSpec == Spec /\ Fairness
----------------------------------------------------------------------------
TypeOK ==
  /\ state \in {"Idle", "WaitingResponse", "Connected"}
  /\ ecu \in Range(EcuTable) \cup {NoEcu}
  /\ unlocked \in BOOLEAN /\ rw \in BOOLEAN /\ live \in BOOLEAN
  /\ pending \in 0 .. MaxResponsePending
  /\ scan.on \in BOOLEAN /\ scan.index \in 0 .. Len(EcuTable) + 1
  /\ lid.on \in BOOLEAN /\ lid.id \in 0 .. LidEnd
  /\ cfg.on \in BOOLEAN /\ cfg.index \in 0 .. Zones + 1
  /\ proc.name \in DOMAIN Procedures \cup {"None"}
  /\ flash.step \in Steps /\ flash.staged \in 0 .. MaxStaged /\ flash.index \in 0 .. MaxStaged

(* "Connected, // Session active" (include/psa/diag_shell.hpp:23): every    *)
(* command that is accepted then uses ecu_ without looking.                 *)
ConnectedHasEcu == IsConnected => ecu # NoEcu

(* While a job is under way a reply is awaited, so that the response        *)
(* timeout can end it (src/diag_shell.cpp:117, 196): no reply, in any of    *)
(* the handlers, leaves a job behind with nothing outstanding.              *)
JobsUnderTimeout ==
  scan.on \/ lid.on \/ cfg.on \/ proc # NoProc => state = "WaitingResponse"

(* The shell takes a reply off the wire and hands it to handleResponse. *)
Taken == toShell # <<>> /\ toShell' = Tail(toShell) /\ Ours(Head(toShell))

(* A reply that comes while one is awaited answers that request, and not an *)
(* older one or a keep-alive.                                               *)
RepliesAnswer ==
  [][ Taken /\ state = "WaitingResponse" => Head(toShell).req = asked ]_vars

(* Jobs step on replies to their own requests. A procedure takes its next   *)
(* step only on the positive reply to the step before: "the next unrelated  *)
(* response was fed back into a stale state machine -- for a procedure that *)
(* could resume a write sequence" (src/diag_shell.cpp:117-120). The sweep   *)
(* "reports which ones answer" (include/psa/diag_shell.hpp): a hit is       *)
(* counted for the identifier that answered.                                *)
ProcedureInStep ==
  proc # NoProc /\ proc' # proc /\ Taken /\ Head(toShell).kind = "positive"
    => Head(toShell).req = Req(ecu, Procedures[proc.name][proc.step], proc.step)

HitsAttributed == lid'.hits > lid.hits => Head(toShell).req = Req(ecu, "Read", lid.id)

JobsInStep == [][ ProcedureInStep /\ HitsAttributed ]_vars

(* A scan that runs to its end has a result for every ECU of the table.     *)
ScanReportsAll ==
  [][ scan.on /\ scan'.index > Len(EcuTable)
      => \A i \in 1 .. Len(EcuTable) : scan'.results[i] # "not scanned" ]_vars

(* "The LID sweep has to keep walking the range on every possible ECU       *)
(* reaction" (tests/test_psa.cpp:592), and so have the other jobs.          *)
JobsEnd ==
  /\ scan.on ~> ~scan.on
  /\ lid.on ~> ~lid.on
  /\ cfg.on ~> ~cfg.on
  /\ proc # NoProc ~> proc = NoProc

(* An erase is sent only by the flash that asked for its session.           *)
EraseBelongsToFlash ==
  [][ asked' # asked /\ asked'.kind = "Erase" => flash.active ]_vars

(* A block goes out only when the ECU has accepted every block before it.   *)
NoHole ==
  [][ flash'.index > flash.index => 1 .. flash.index \subseteq accepted ]_vars

(* The step of OnFlash that declares the flash complete. *)
DeclaredComplete == Taken /\ flash.active /\ flash'.step = "Done" /\ ~flash'.active

(* A flash is declared complete only by the ECU confirming the checksum:    *)
(* the reply to "Verifying checksum..." (src/diag_shell.cpp:1491-1499).     *)
CompleteIsVerified ==
  [][ DeclaredComplete => Head(toShell).req.kind = "Verify" ]_vars

(* A flash that has begun sends its whole image, or is ended.               *)
ImageSent ==
  flash.opening ~> (~flash.active \/ flash.index = flash.staged)

(* Whichever of its handlers and timers take a job on, in whichever order,   *)
(* its cursor does not leave the table it indexes: scan_results_, the range  *)
(* of the sweep ("end may be FFFF", src/diag_shell.cpp:616), config_zones_.  *)
CursorsInTables ==
  /\ scan.on => scan.index \in 1 .. Len(EcuTable)
  /\ lid.on => lid.id \in 1 .. LidEnd
  /\ cfg.on => cfg.index \in 1 .. Zones

(* A write that goes out in read-only mode continues a procedure or a flash *)
(* sequence that began in read-write mode: no command starts one, and no    *)
(* other job ever writes (src/diag_shell.cpp:316-331).                      *)
WritesBegunReadWrite ==
  [][ ~rw => /\ proc = NoProc => proc' = NoProc
             /\ ~flash.active => ~flash'.active
             /\ asked' # asked /\ asked'.kind \in Writes
                  => proc # NoProc \/ flash.active \/ flash.opening ]_vars

(* Whatever is lost, late or refused, and however often an ECU asks for     *)
(* patience, the shell does not wait for ever (kResponseTimeoutUs,          *)
(* kMaxResponsePending).                                                    *)
WaitEnds == state = "WaitingResponse" ~> state # "WaitingResponse"
=============================================================================
