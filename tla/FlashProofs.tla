---------------------------- MODULE FlashProofs -----------------------------
(* What is proved of a flash, for every table of ECUs, every image and every *)
(* bound: first of the sequence, as part of the shell, which the session     *)
(* invariant of DiagShellProofs supports; then of the image, which takes     *)
(* arithmetic on bytes, induction over the recursive functions that read     *)
(* them, and an invariant that ties the records to the announcement.         *)
EXTENDS DiagShellProofs, FlashImage, FiniteSetTheorems

----------------------------------------------------------------------------
(* A flash, when nothing disturbs it: no other job runs, nobody leaves the   *)
(* session while it is under way, and no ECU refuses what it is asked. Any   *)
(* other request may be typed between its steps; requests and replies may be *)
(* lost and ECUs stay silent.                                                *)
OtherJobs == {"exit", "live", "lidscan", "config readall", "scan", "pdi",
              "ServiceReset", "ServiceSchedule", "KeyLearn", "EspCalib", "BsiInit", "EspBleed"}
Unrefused ==
  /\ PromptEcu /\ UnhurriedUser
  /\ Faults \subseteq {"loss"} /\ EcuAnswers \subseteq {"positive", "pending", "silent"}
  /\ Commands \cap OtherJobs = {}
  /\ EcuPatience <= MaxResponsePending

(* There is one ECU on the wire, and one exchange.                           *)
Sole ==
  /\ \A i \in 1 .. Len(toEcu) : toEcu[i].ecu = ecu
  /\ \A i \in 1 .. Len(toShell) : toShell[i].req.ecu = ecu
  /\ state = "Idle" => Quiet
  /\ state = "Connected" => Len(toEcu) + Len(toShell) <= 1

(* What the ECU has confirmed it has accepted, and no erase came between.    *)
Confirmed ==
  \A i \in 1 .. Len(toShell) :
    toShell[i].kind = "positive" /\ toShell[i].req.kind = "Block" => toShell[i].req.n \in accepted

(* How far the flash is: each of its steps awaits the reply to its own       *)
(* request, except that a walk that has reached the last record waits for    *)
(* the user, and for what the user asks, with all its blocks accepted.       *)
Awaits(kind) == state = "WaitingResponse" /\ asked.kind = kind

Walking ==
  /\ flash.step = "TransferData"
  /\ \/ Awaits("Block") /\ asked.n = flash.index /\ 1 .. flash.index - 1 \subseteq accepted
     \/ ~Awaits("Erase") /\ 1 .. flash.index \subseteq accepted

Begun == flash.opening => flash.step = "Idle" /\ (flash.active => flash.index = 0)
Under ==
  flash.active /\ ~flash.opening =>
    \/ flash.step = "RequestErase" /\ Awaits("Erase") /\ flash.index = 0
    \/ Walking
    \/ flash.step = "VerifyChecksum" /\ Awaits("Exit")
    \/ flash.step = "Done" /\ Awaits("Verify")

Flashing == Begun /\ Under
Lone == Jobless /\ ~live
FlashInv == Inv /\ Wires /\ Sole /\ Lone /\ Confirmed /\ Flashing

Steady ==
  /\ flash'.index > flash.index => 1 .. flash.index \subseteq accepted
  /\ DeclaredComplete => Head(toShell).req.kind = "Verify"
FlashGoes == Wires' /\ Sole' /\ Lone' /\ Confirmed' /\ Flashing' /\ Steady

(* What a step does to the flash when it neither moves nor asks for it.      *)
LEMMA FlashStays ==
  ASSUME Flashing, flash \in Flashes, UNCHANGED flash, accepted \subseteq accepted', ~Awaits("Erase")',
         flash.active /\ ~flash.opening => Walking /\ 1 .. flash.index \subseteq accepted
  PROVE  Flashing' /\ Steady
<1>1. Begun'
  BY DEF Flashing, Begun
<1>2. Under'
  BY DEF Under, Walking
<1>3. Steady
  <2>1. flash.index \in Nat
    BY DEF Flashes
  <2> QED BY <2>1 DEF DeclaredComplete, Steady
<1> QED BY <1>1, <1>2, <1>3 DEF Flashing

(* With nothing else under way, what is sent is alone on the wire.           *)
LEMMA FlashAsks ==
  ASSUME Over, NEW e \in Range(EcuTable), ecu' = e, NEW kind \in Kinds, kind # "Alive", NEW n \in Nat,
         SendAndWait(<<Req(e, kind, n)>>)
  PROVE  /\ Wires' /\ Sole' /\ Confirmed' /\ state' = "WaitingResponse"
         /\ asked' = Req(e, kind, n) /\ asked'.kind = kind /\ asked'.n = n
<1> DEFINE r == Req(e, kind, n)
           q == <<r>>
<1>1. r \in Requests /\ r.ecu = e /\ r.kind = kind /\ r.n = n
  BY ReqIn DEF Req
<1>2. Send(q) /\ state' = "WaitingResponse"
  BY DEF SendAndWait
<1> HIDE DEF r
<1>3. Wires' /\ asked' = r
  BY <1>1, <1>2, OneSent
<1>4. Len(q) = 1 /\ q[1] = r
  OBVIOUS
<1>f. Front(q) = <<>> /\ <<>> \o q = q /\ Len(<<>>) = 0
  BY DEF Front
<1> HIDE DEF q
<1>5. toEcu' \in {q, <<>>} /\ toShell' = <<>>
  <2>1. toEcu' = <<>> \o q \/ toEcu' = <<>> \o Front(q)
    BY <1>2 DEF Send, Over
  <2>2. <<>> \o Front(q) = <<>>
    BY <1>f
  <2> QED BY <1>f, <2>1, <2>2 DEF Over
<1>6. \A i \in 1 .. Len(toEcu') : toEcu'[i] = r
  <2>1. CASE toEcu' = q
    <3>1. Len(toEcu') = 1
      BY <1>4, <2>1
    <3>2. \A i \in 1 .. Len(toEcu') : i \in {1}
      BY <3>1
    <3> QED BY <1>4, <2>1, <3>2
  <2>2. CASE toEcu' = <<>>
    <3>1. Len(toEcu') = 0
      BY <1>f, <2>2
    <3> QED BY <3>1
  <2> QED BY <1>5, <2>1, <2>2
<1>7. Len(toShell') = 0
  BY <1>f, <1>5
<1>8. Sole' /\ Confirmed'
  BY <1>1, <1>2, <1>6, <1>7 DEF Sole, Confirmed
<1> QED BY <1>1, <1>2, <1>3, <1>8 DEF r

LEMMA FlashRests ==
  ASSUME Over, \/ Settle /\ UNCHANGED ecu /\ ecu \in Range(EcuTable)
               \/ UNCHANGED out /\ state' = "Idle"
  PROVE  Wires' /\ Sole' /\ Confirmed' /\ state' \in {"Connected", "Idle"}
<1>1. Wires' /\ state' \in {"Connected", "Idle"}
  BY Settled, Unsent
<1>2. toEcu' = <<>> /\ tx' = NoReq /\ toShell' = <<>>
  BY DEF Over, Settle, out
<1>3. Len(toEcu') = 0 /\ Len(toShell') = 0
  BY <1>2
<1>4. Sole' /\ Confirmed'
  BY <1>2, <1>3 DEF Sole, Confirmed, Quiet
<1> QED BY <1>1, <1>4

----------------------------------------------------------------------------
(* The last reply on the wire, or the reply to a keep-alive.                 *)
FlashTaking(r) ==
  /\ FlashInv /\ Over /\ ecu \in Range(EcuTable) /\ r = Head(toShell) /\ UNCHANGED accepted
  /\ r.kind # "pending" /\ ~Negative(r)
  /\ \/ state = "WaitingResponse" /\ r.req = asked
     \/ state = "Connected" /\ r.req.kind = "Alive"
  /\ r.kind = "positive" /\ r.req.kind = "Block" => r.req.n \in accepted

(* The session is open: the erase goes out.                                  *)
LEMMA FlashOpens ==
  ASSUME NEW r, FlashTaking(r), OnFlashSession(r)
  PROVE  FlashGoes
<1>1. /\ Over /\ ecu \in Range(EcuTable) /\ flash \in Flashes /\ flash.opening /\ flash.step = "Idle"
      /\ flash.active => flash.index = 0
  BY DEF FlashTaking, FlashInv, Inv, FlashIn, Flashing, Begun, OnFlashSession, Claimed
<1>2. /\ flash' = [flash EXCEPT !.opening = FALSE, !.step = AfterRequest(flash.step)]
      /\ SendAndWait(<<Ask(Emits[flash.step])>>) /\ UNCHANGED <<ecu, scan, lid, cfg, live, proc>>
  BY DEF OnFlashSession, FlashTaking
<1>3. AfterRequest("Idle") = "RequestErase" /\ Emits["Idle"] = "Erase"
  BY DEF AfterRequest, Emits
<1>4. SendAndWait(<<Req(ecu, "Erase", 0)>>)
  BY <1>1, <1>2, <1>3 DEF Ask
<1>5. Wires' /\ Sole' /\ Confirmed' /\ state' = "WaitingResponse" /\ asked'.kind = "Erase"
  BY <1>1, <1>2, <1>4, FlashAsks DEF Kinds
<1>6. /\ ~flash'.opening /\ flash'.step = "RequestErase" /\ flash'.index = flash.index
      /\ flash'.active = flash.active
  BY <1>1, <1>2, <1>3 DEF Flashes
<1>7. Lone'
  BY <1>2 DEF FlashTaking, FlashInv, Lone, Jobless
<1>8. Flashing' /\ Steady
  BY <1>1, <1>5, <1>6 DEF Flashing, Begun, Under, Awaits, Steady, DeclaredComplete, FlashTaking,
     FlashInv, Inv, FlashIn, Flashes
<1> QED BY <1>5, <1>7, <1>8 DEF FlashGoes

(* What the flash is once it has moved on.                                   *)
LEMMA MovedOn ==
  ASSUME NEW f \in Flashes, NEW step
  PROVE  LET moved == [f EXCEPT !.step = step]
         IN  /\ moved.step = step /\ moved.active = f.active /\ moved.opening = f.opening
             /\ moved.index = f.index
             /\ \A x : [moved EXCEPT !.step = x] = [f EXCEPT !.step = x]
             /\ [moved EXCEPT !.active = FALSE] = [f EXCEPT !.step = step, !.active = FALSE]
             /\ [moved EXCEPT !.index = @ + 1] = [f EXCEPT !.step = step, !.index = @ + 1]
BY DEF Flashes

(* A step of the flash has been answered, or something else during its walk. *)
LEMMA FlashSteps ==
  ASSUME NEW r, FlashTaking(r), r.kind = "positive", ~flash.opening, OnFlash(Service(r.req))
  PROVE  FlashGoes
<1> DEFINE s == Service(r.req)
           step == AfterPositive(flash.step, s)
           moved == [flash EXCEPT !.step = step]
<1>1. /\ Over /\ ecu \in Range(EcuTable) /\ flash \in Flashes /\ flash.active /\ Under
      /\ UNCHANGED <<ecu, accepted, scan, lid, cfg, live, proc>>
  BY DEF FlashTaking, FlashInv, Inv, FlashIn, Flashing, OnFlash
<1>2. Lone'
  BY <1>1 DEF FlashTaking, FlashInv, Lone, Jobless
<1>3. state = "WaitingResponse" => r.req = asked
  BY DEF FlashTaking
<1>4. /\ moved.step = step /\ moved.active = flash.active /\ moved.opening = flash.opening
      /\ moved.index = flash.index
      /\ \A x : [moved EXCEPT !.step = x] = [flash EXCEPT !.step = x]
      /\ [moved EXCEPT !.active = FALSE] = [flash EXCEPT !.step = step, !.active = FALSE]
      /\ [moved EXCEPT !.index = @ + 1] = [flash EXCEPT !.step = step, !.index = @ + 1]
  <2> HIDE DEF step
  <2> QED BY <1>1, MovedOn
<1>5. \/ /\ step = "Done" \/ (step = "RequestDownload" /\ flash.staged = 0)
         /\ flash' = [moved EXCEPT !.active = FALSE]
         /\ Settle
      \/ /\ step = "VerifyChecksum" \/ (step = "RequestDownload" /\ flash.staged > 0)
         /\ flash' = [moved EXCEPT !.step = AfterRequest(step)]
         /\ SendAndWait(<<Ask(Emits[step])>>)
      \/ /\ step = "TransferData" /\ flash.index < flash.staged
         /\ flash' = [moved EXCEPT !.index = @ + 1]
         /\ SendAndWait(<<Req(ecu, "Block", flash.index + 1)>>)
      \/ /\ \/ step = "TransferData" /\ flash.index >= flash.staged
            \/ step \in {"Idle", "RequestErase"}
         /\ flash' = moved
         /\ Settle
  BY DEF OnFlash
<1>s. s = Service(r.req)
  OBVIOUS
<1>p. step = AfterPositive(flash.step, s)
  OBVIOUS
<1> HIDE DEF s, step, moved
<1>6. CASE flash.step = "RequestErase" /\ Awaits("Erase") /\ flash.index = 0
  <2>1. step = "RequestDownload"
    <3>1. s = "Routine"
      BY <1>3, <1>6, <1>s DEF Awaits, Service
    <3> QED BY <1>6, <1>p, <3>1 DEF AfterPositive
  <2>2. CASE flash' = [moved EXCEPT !.active = FALSE] /\ Settle
    <3>1. ~flash'.active /\ ~flash'.opening /\ flash'.index = flash.index /\ flash'.step # "Done"
      BY <1>4, <2>1, <2>2
    <3>2. Wires' /\ Sole' /\ Confirmed'
      BY <1>1, <2>2, FlashRests
    <3>3. Flashing' /\ Steady
      BY <1>1, <3>1 DEF Flashing, Begun, Under, Steady, DeclaredComplete, Flashes
    <3> QED BY <1>2, <3>2, <3>3 DEF FlashGoes
  <2>3. CASE flash' = [moved EXCEPT !.step = AfterRequest(step)] /\ SendAndWait(<<Ask(Emits[step])>>)
    <3>1. AfterRequest(step) = "TransferData" /\ Emits[step] = "Download"
      BY <2>1 DEF AfterRequest, Emits
    <3>2. SendAndWait(<<Req(ecu, "Download", 0)>>)
      BY <2>3, <3>1 DEF Ask
    <3>3. Wires' /\ Sole' /\ Confirmed' /\ asked'.kind = "Download"
      BY <1>1, <3>2, FlashAsks DEF Kinds
    <3>4. ~flash'.opening /\ flash'.index = 0 /\ flash'.step = "TransferData"
      BY <1>4, <1>6, <2>3, <3>1
    <3>5. 1 .. 0 \subseteq accepted'
      OBVIOUS
    <3>6. Walking'
      BY <3>3, <3>4, <3>5 DEF Walking, Awaits
    <3>7. Flashing' /\ Steady
      BY <1>6, <3>4, <3>6 DEF Flashing, Begun, Under, Steady, DeclaredComplete
    <3> QED BY <1>2, <3>3, <3>7 DEF FlashGoes
  <2> QED BY <1>5, <2>1, <2>2, <2>3
<1>7. CASE Walking
  <2>1. step = "TransferData"
    BY <1>7, <1>p DEF Walking, AfterPositive
  <2>2. flash.index \in Nat
    BY <1>1 DEF Flashes
  <2>3. 1 .. flash.index \subseteq accepted
    <3>1. CASE Awaits("Block") /\ asked.n = flash.index /\ 1 .. flash.index - 1 \subseteq accepted
      <4>1. flash.index \in accepted
        BY <1>3, <3>1 DEF Awaits, FlashTaking
      <4>2. \A i \in 1 .. flash.index : i = flash.index \/ i \in 1 .. flash.index - 1
        BY <2>2
      <4> QED BY <3>1, <4>1, <4>2
    <3> QED BY <1>7, <3>1 DEF Walking
  <2>4. CASE flash' = [moved EXCEPT !.index = @ + 1] /\ SendAndWait(<<Req(ecu, "Block", flash.index + 1)>>)
    <3>1. /\ ~flash'.opening /\ flash'.index = flash.index + 1 /\ flash'.step = "TransferData"
      BY <1>4, <2>1, <2>4
    <3> DEFINE n == flash.index + 1
    <3>2. n \in Nat /\ n - 1 = flash.index
      BY <2>2
    <3> HIDE DEF n
    <3>3. SendAndWait(<<Req(ecu, "Block", n)>>) /\ flash'.index = n
      BY <2>4, <3>1 DEF n
    <3>4. /\ Wires' /\ Sole' /\ Confirmed' /\ state' = "WaitingResponse"
          /\ asked'.kind = "Block" /\ asked'.n = n
      BY <1>1, <3>2, <3>3, FlashAsks DEF Kinds
    <3>5. Walking'
      BY <1>1, <2>3, <3>1, <3>2, <3>3, <3>4 DEF Walking, Awaits
    <3>6. Flashing' /\ Steady
      BY <2>3, <3>1, <3>5 DEF Flashing, Begun, Under, Steady, DeclaredComplete
    <3> QED BY <1>2, <3>4, <3>6 DEF FlashGoes
  <2>5. CASE flash' = moved /\ Settle
    <3>1. ~flash'.opening /\ flash'.index = flash.index /\ flash'.step = "TransferData"
      BY <1>4, <2>1, <2>5
    <3>2. Wires' /\ Sole' /\ Confirmed' /\ state' = "Connected"
      BY <1>1, <2>5, FlashRests DEF Settle
    <3>3. Walking'
      BY <1>1, <2>3, <3>1, <3>2 DEF Walking, Awaits
    <3>4. Flashing' /\ Steady
      BY <2>2, <3>1, <3>3 DEF Flashing, Begun, Under, Steady, DeclaredComplete
    <3> QED BY <1>2, <3>2, <3>4 DEF FlashGoes
  <2> QED BY <1>5, <2>1, <2>4, <2>5
<1>8. CASE flash.step = "VerifyChecksum" /\ Awaits("Exit")
  <2>1. step = "VerifyChecksum"
    <3>1. s = "Exit"
      BY <1>3, <1>8, <1>s DEF Awaits, Service
    <3> QED BY <1>8, <1>p, <3>1 DEF AfterPositive
  <2>2. flash' = [moved EXCEPT !.step = AfterRequest(step)] /\ SendAndWait(<<Ask(Emits[step])>>)
    BY <1>5, <2>1
  <2>3. AfterRequest(step) = "Done" /\ Emits[step] = "Verify"
    BY <2>1 DEF AfterRequest, Emits
  <2>4. SendAndWait(<<Req(ecu, "Verify", 0)>>)
    BY <2>2, <2>3 DEF Ask
  <2>5. Wires' /\ Sole' /\ Confirmed' /\ state' = "WaitingResponse" /\ asked'.kind = "Verify"
    BY <1>1, <2>4, FlashAsks DEF Kinds
  <2>6. ~flash'.opening /\ flash'.active /\ flash'.index = flash.index /\ flash'.step = "Done"
    <3>1. flash' = [flash EXCEPT !.step = "Done"]
      BY <1>4, <2>2, <2>3
    <3> QED BY <1>1, <3>1 DEF Flashes
  <2>7. Flashing' /\ Steady
    BY <1>1, <2>5, <2>6 DEF Flashing, Begun, Under, Awaits, Steady, DeclaredComplete, Flashes
  <2> QED BY <1>2, <2>5, <2>7 DEF FlashGoes
<1>9. CASE flash.step = "Done" /\ Awaits("Verify")
  <2>1. step = "Done"
    BY <1>9, <1>p DEF AfterPositive
  <2>2. flash' = [moved EXCEPT !.active = FALSE] /\ Settle
    BY <1>5, <2>1
  <2>3. ~flash'.active /\ ~flash'.opening /\ flash'.index = flash.index
    BY <1>4, <2>2
  <2>4. Wires' /\ Sole' /\ Confirmed'
    BY <1>1, <2>2, FlashRests
  <2>5. Head(toShell).req.kind = "Verify"
    BY <1>3, <1>9 DEF Awaits, FlashTaking
  <2>6. Flashing' /\ Steady
    BY <1>1, <2>3, <2>5 DEF Flashing, Begun, Under, Steady, Flashes
  <2> QED BY <1>2, <2>4, <2>6 DEF FlashGoes
<1> QED BY <1>1, <1>6, <1>7, <1>8, <1>9 DEF Under

(* What another handler takes finds the flash at rest, or none under way.    *)
LEMMA FlashRested ==
  ASSUME NEW r, FlashTaking(r), OnPositive(r), ~OnFlash(Service(r.req))
  PROVE  FlashGoes
<1> DEFINE s == Service(r.req)
<1>1. /\ Over /\ ecu \in Range(EcuTable) /\ Under /\ Flashing /\ Jobless /\ ~live /\ ~flash.opening
      /\ UNCHANGED accepted /\ flash \in Flashes
  BY DEF FlashTaking, FlashInv, Lone, Flashing, OnPositive, Claimed, Inv, FlashIn
<1>2. state = "WaitingResponse" => r.req = asked
  BY DEF FlashTaking
<1>3. ASSUME flash.active PROVE s \in {"Session", "Closed", "Dtc", "Clear"}
  BY <1>1, <1>3 DEF OnPositive, OnProcedure, Jobless
<1>4. ASSUME flash.active PROVE Walking /\ 1 .. flash.index \subseteq accepted
  <2>1. \A kind \in {"Erase", "Block", "Exit", "Verify"} : ~Awaits(kind)
    BY <1>2, <1>3, <1>4 DEF Awaits, Service
  <2> QED BY <1>1, <1>4, <2>1 DEF Under, Walking
<1>5. CASE Settle /\ UNCHANGED <<ecu, scan, lid, cfg, live, proc, flash>>
  <2>1. Wires' /\ Sole' /\ Confirmed' /\ state' = "Connected"
    BY <1>1, <1>5, FlashRests DEF Settle
  <2>2. Flashing' /\ Steady
    BY <1>1, <1>4, <1>5, <2>1, FlashStays DEF Awaits
  <2>3. Lone'
    BY <1>1, <1>5 DEF Lone, Jobless
  <2> QED BY <2>1, <2>2, <2>3 DEF FlashGoes
<1>6. CASE state' = "Idle" /\ UNCHANGED out /\ UNCHANGED <<scan, lid, cfg, live, proc, flash>>
  <2>1. Wires' /\ Sole' /\ Confirmed'
    BY <1>1, <1>6, FlashRests
  <2>2. Flashing' /\ Steady
    BY <1>1, <1>4, <1>6, FlashStays DEF Awaits
  <2>3. Lone'
    BY <1>1, <1>6 DEF Lone, Jobless
  <2> QED BY <2>1, <2>2, <2>3 DEF FlashGoes
<1>7. CASE SendAndWait(<<Ask("Key")>>) /\ UNCHANGED <<ecu, scan, lid, cfg, live, proc, flash>>
  <2>1. SendAndWait(<<Req(ecu, "Key", 0)>>)
    BY <1>7 DEF Ask
  <2>2. Wires' /\ Sole' /\ Confirmed' /\ asked'.kind = "Key"
    BY <1>1, <1>7, <2>1, FlashAsks DEF Kinds
  <2>3. Flashing' /\ Steady
    BY <1>1, <1>4, <1>7, <2>2, FlashStays DEF Awaits
  <2>4. Lone'
    BY <1>1, <1>7 DEF Lone, Jobless
  <2> QED BY <2>2, <2>3, <2>4 DEF FlashGoes
<1>8. CASE OnSession \/ OnCleared \/ OnKey
  BY <1>1, <1>5, <1>8 DEF OnSession, OnCleared, OnKey, Jobless, jobs
<1>9. CASE OnDtc \/ OnZone
  BY <1>1, <1>5, <1>9 DEF OnDtc, OnZone, Jobless
<1>10. CASE OnClosed
  BY <1>1, <1>6, <1>10 DEF OnClosed, Jobless
<1>11. CASE OnSeed
  BY <1>5, <1>7, <1>11 DEF OnSeed, jobs
<1> QED BY <1>1, <1>8, <1>9, <1>10, <1>11 DEF OnPositive, OnProcedure, Jobless

(* What goes off the wire leaves the rest as it was.                         *)
LEMMA FewerReplies ==
  ASSUME FlashInv, toShell # <<>>, toShell' = Tail(toShell), UNCHANGED <<state, ecu, tx, toEcu, accepted>>
  PROVE  Sole' /\ Confirmed'
<1>1. toShell \in Seq(Replies) /\ toEcu \in Seq(Requests) /\ toShell' \in Seq(Replies)
  BY Shorter DEF FlashInv, Wires, Carried
<1>2. /\ Len(toShell') = Len(toShell) - 1 /\ Len(toShell) \in Nat \ {0} /\ Len(toEcu') = Len(toEcu)
      /\ Len(toEcu) \in Nat
      /\ \A i \in 1 .. Len(toShell') : i + 1 \in 1 .. Len(toShell) /\ toShell'[i] = toShell[i + 1]
  BY <1>1, Shorter
<1>3. Confirmed'
  BY <1>2 DEF FlashInv, Confirmed
<1>4. state # "Idle"
  BY DEF FlashInv, Sole, Quiet
<1>5. \A i \in 1 .. Len(toShell') : toShell'[i].req.ecu = ecu'
  BY <1>2 DEF FlashInv, Sole
<1>6. state' = "Connected" => Len(toEcu') + Len(toShell') <= 1
  <2> DEFINE m == Len(toShell')
             k == Len(toShell)
             l == Len(toEcu)
  <2>1. m = k - 1 /\ k \in Nat /\ l \in Nat /\ Len(toEcu') = l
    BY <1>2
  <2>2. state = "Connected" => l + k <= 1
    BY DEF FlashInv, Sole
  <2> HIDE DEF m, k, l
  <2>3. state = "Connected" => l + m <= 1
    BY <2>1, <2>2
  <2> QED BY <2>1, <2>3 DEF m
<1> QED BY <1>3, <1>4, <1>5, <1>6 DEF FlashInv, Sole

LEMMA FewerRequests ==
  ASSUME FlashInv, toEcu # <<>>, toEcu' = Tail(toEcu), UNCHANGED <<state, ecu, tx, toShell, accepted>>
  PROVE  Sole' /\ Confirmed'
<1>1. toShell \in Seq(Replies) /\ toEcu \in Seq(Requests) /\ toEcu' \in Seq(Requests)
  BY Shorter DEF FlashInv, Wires, Carried
<1>2. /\ Len(toEcu') = Len(toEcu) - 1 /\ Len(toEcu) \in Nat \ {0} /\ Len(toShell') = Len(toShell)
      /\ Len(toShell) \in Nat
      /\ \A i \in 1 .. Len(toEcu') : i + 1 \in 1 .. Len(toEcu) /\ toEcu'[i] = toEcu[i + 1]
  BY <1>1, Shorter
<1>3. Confirmed'
  BY DEF FlashInv, Confirmed
<1>4. state # "Idle"
  BY DEF FlashInv, Sole, Quiet
<1>5. \A i \in 1 .. Len(toEcu') : toEcu'[i].ecu = ecu'
  BY <1>2 DEF FlashInv, Sole
<1>6. state' = "Connected" => Len(toEcu') + Len(toShell') <= 1
  <2> DEFINE m == Len(toEcu')
             k == Len(toEcu)
             l == Len(toShell)
  <2>1. m = k - 1 /\ k \in Nat /\ l \in Nat /\ Len(toShell') = l
    BY <1>2
  <2>2. state = "Connected" => k + l <= 1
    BY DEF FlashInv, Sole
  <2> HIDE DEF m, k, l
  <2>3. state = "Connected" => m + l <= 1
    BY <2>1, <2>2
  <2> QED BY <2>1, <2>3 DEF m
<1> QED BY <1>3, <1>4, <1>5, <1>6 DEF FlashInv, Sole

(* The shell sees nothing of it.                                             *)
LEMMA FlashUnseen ==
  ASSUME FlashInv, UNCHANGED <<state, ecu, asked, scan, lid, cfg, live, proc, flash>>,
         \/ accepted \subseteq accepted'
         \/ Awaits("Erase")
  PROVE  Lone' /\ Flashing' /\ Steady
<1>1. Lone'
  BY DEF FlashInv, Lone, Jobless
<1>2. Steady
  <2>1. flash.index \in Nat
    BY DEF FlashInv, Inv, FlashIn, Flashes
  <2> QED BY <2>1 DEF Steady, DeclaredComplete
<1>3. Begun'
  BY DEF FlashInv, Flashing, Begun
<1>4. Under'
  BY DEF FlashInv, Flashing, Under, Walking, Awaits
<1> QED BY <1>1, <1>2, <1>3, <1>4 DEF Flashing

LEMMA FlashReceives ==
  ASSUME Unrefused, FlashInv, Receive
  PROVE  FlashGoes
<1> DEFINE r == Head(toShell)
<1>1. /\ toShell \in Seq(Replies) /\ toEcu \in Seq(Requests) /\ toShell # <<>> /\ toShell' = Tail(toShell)
      /\ UNCHANGED accepted
  BY DEF FlashInv, Wires, Carried, Receive
<1>2. /\ r = toShell[1] /\ r \in Replies /\ 1 \in 1 .. Len(toShell) /\ Len(toShell) \in Nat \ {0}
      /\ Len(Tail(toShell)) = Len(toShell) - 1 /\ Tail(toShell) \in Seq(Replies)
  BY <1>1, Shorter
<1>3. r.req.ecu = ecu /\ state \in {"Connected", "WaitingResponse"}
  BY <1>1, <1>2 DEF FlashInv, Sole, Quiet, Inv, Session, States
<1>4. HandleResponse(r)
  BY <1>3 DEF Receive, Ours, IsConnected
<1>n. /\ ~OnNegative(r)
      /\ r.kind # "pending" => ~OnPending(r)
      /\ r.kind = "pending" => ~OnFlashSession(r) /\ ~OnPositive(r)
      /\ OnPositive(r) => r.kind = "positive" /\ ~flash.opening
  <2>1. r.kind \in EcuAnswers
    BY <1>2 DEF Replies
  <2>2. ~Negative(r)
    BY <2>1 DEF Unrefused, Negative
  <2> HIDE DEF r
  <2> QED BY <2>2 DEF OnNegative, OnPending, OnFlashSession, OnPositive, Claimed
<1>5. ~Negative(r) /\ (r.kind = "positive" /\ r.req.kind = "Block" => r.req.n \in accepted)
  <2>1. r.kind \in EcuAnswers
    BY <1>2 DEF Replies
  <2> QED BY <1>2, <2>1 DEF Unrefused, Negative, FlashInv, Confirmed
<1>6. CASE state = "Connected"
  <2>1. r.req.kind = "Alive" /\ r.kind # "pending" /\ tx = NoReq /\ ecu \in Range(EcuTable)
    BY <1>1, <1>2, <1>3, <1>6, AliveTail DEF FlashInv, Wires, Alone
  <2>2. toEcu = <<>> /\ Tail(toShell) = <<>>
    <3> DEFINE k == Len(toShell)
               l == Len(toEcu)
    <3>1. k + l <= 1 /\ k \in Nat \ {0} /\ l \in Nat
      BY <1>1, <1>2, <1>6 DEF FlashInv, Sole
    <3> HIDE DEF k, l
    <3>2. k = 1 /\ l = 0
      BY <3>1
    <3>3. Len(toShell) = 1 /\ Len(toEcu) = 0
      BY <3>2 DEF k, l
    <3> QED BY <1>1, <3>3, NoneLeft
  <2>3. FlashTaking(r)
    BY <1>1, <1>5, <1>6, <2>1, <2>2 DEF FlashTaking, Over
  <2> HIDE DEF r
  <2> QED BY <1>4, <1>n, <2>1, <2>3, FlashOpens, FlashSteps, FlashRested DEF HandleResponse
<1>7. CASE state = "WaitingResponse"
  <2>1. Awaited
    BY <1>7 DEF FlashInv, Wires
  <2>2. /\ r.req = asked /\ ecu \in Range(EcuTable) /\ tx = NoReq
        /\ r.kind = "pending" => pending < EcuPatience
        /\ r.kind # "pending" => Tail(toShell) = <<>> /\ toEcu = <<>>
    <3>1. AnswersIn(toShell, asked, tx, toEcu, pending) /\ asked.ecu = ecu /\ ecu \in Range(EcuTable)
      BY <2>1 DEF Awaited
    <3>2. toShell[1].req.ecu = asked.ecu
      BY <1>2, <1>3, <3>1
    <3>3. /\ toShell[1].req = asked /\ tx = NoReq
          /\ toShell[1].kind = "pending" => pending < EcuPatience
          /\ toShell[1].kind # "pending" => Tail(toShell) = <<>> /\ toEcu = <<>>
      BY <1>1, <3>1, <3>2, AnswersTail
    <3> QED BY <1>2, <3>1, <3>3
  <2>3. CASE r.kind = "pending"
    <3>1. OnPending(r)
      BY <1>4, <1>n, <2>3 DEF HandleResponse
    <3>2. ~(pending >= MaxResponsePending)
      <4>1. pending < EcuPatience /\ pending \in 0 .. MaxResponsePending
        BY <2>2, <2>3 DEF FlashInv, Inv, Session
      <4> QED BY <4>1, BoundAssumption DEF Unrefused
    <3>3. /\ state' = state /\ UNCHANGED <<ecu, asked, tx, toEcu>>
          /\ UNCHANGED <<scan, lid, cfg, live, proc, flash>>
      BY <1>7, <3>1, <3>2 DEF OnPending, out
    <3>4. Wires'
      BY <1>1, <3>3, ReplyTaken DEF FlashInv
    <3>5. Sole' /\ Confirmed'
      BY <1>1, <3>3, FewerReplies
    <3>6. Lone' /\ Flashing' /\ Steady
      BY <1>1, <3>3, FlashUnseen
    <3> QED BY <3>4, <3>5, <3>6 DEF FlashGoes
  <2>4. CASE r.kind # "pending"
    <3>1. FlashTaking(r)
      BY <1>1, <1>5, <1>7, <2>2, <2>4 DEF FlashTaking, Over
    <3> HIDE DEF r
    <3> QED BY <1>4, <1>n, <2>4, <3>1, FlashOpens, FlashSteps, FlashRested DEF HandleResponse
  <2> QED BY <2>3, <2>4
<1> QED BY <1>3, <1>6, <1>7

----------------------------------------------------------------------------
(* The wire and the ECU.                                                     *)
LEMMA FlashThrough == ASSUME FlashInv, TransferThrough PROVE FlashGoes
<1>1. /\ tx # NoReq /\ tx' = NoReq /\ toEcu' = Append(toEcu, tx)
      /\ UNCHANGED <<state, ecu, asked, toShell, accepted>> /\ UNCHANGED <<scan, lid, cfg, live, proc, flash>>
  BY DEF TransferThrough, jobs
<1>2. state = "WaitingResponse"
  BY <1>1 DEF FlashInv, Wires, Sole, Quiet, Alone, Inv, Session, States
<1>3. tx = asked /\ tx.ecu = ecu /\ tx \in Requests /\ toEcu \in Seq(Requests)
  BY <1>1, <1>2 DEF FlashInv, Wires, Awaited, Carried
<1>4. /\ Len(toEcu') = Len(toEcu) + 1 /\ Len(toEcu) \in Nat /\ toEcu'[Len(toEcu) + 1] = tx
      /\ \A i \in 1 .. Len(toEcu) : toEcu'[i] = toEcu[i]
  BY <1>1, <1>3, Longer
<1>5. \A i \in 1 .. Len(toEcu') : toEcu'[i].ecu = ecu
  <2> TAKE i \in 1 .. Len(toEcu')
  <2>1. i \in 1 .. Len(toEcu) \/ i = Len(toEcu) + 1
    BY <1>4
  <2> QED BY <1>3, <1>4, <2>1 DEF FlashInv, Sole
<1>6. Sole' /\ Confirmed'
  BY <1>1, <1>2, <1>5 DEF FlashInv, Sole, Confirmed
<1>7. Wires'
  BY ThroughWires DEF FlashInv
<1> QED BY <1>1, <1>6, <1>7, FlashUnseen DEF FlashGoes

(* An erase is on its way to the ECU only when its reply is awaited.         *)
LEMMA ErasesAwaited ==
  ASSUME FlashInv, toEcu # <<>>, Head(toEcu).kind = "Erase"
  PROVE  Awaits("Erase") /\ (\A i \in 1 .. Len(toShell) : toShell[i].kind = "pending")
<1>1. /\ toEcu \in Seq(Requests) /\ Head(toEcu) = toEcu[1] /\ 1 \in 1 .. Len(toEcu)
      /\ Head(toEcu).ecu = ecu
  BY Shorter DEF FlashInv, Wires, Carried, Sole
<1>2. state # "Idle"
  BY DEF FlashInv, Sole, Quiet
<1>3. state # "Connected"
  BY <1>1, AliveTail DEF FlashInv, Wires, Alone
<1>4. state = "WaitingResponse" /\ Awaited
  BY <1>2, <1>3 DEF FlashInv, Wires, Inv, Session, States
<1>5. asked = Head(toEcu)
  BY <1>1, <1>4, AskedTail DEF Awaited
<1>6. \A i \in 1 .. Len(toShell) : toShell[i].kind = "pending"
  BY <1>4 DEF Awaited, AnswersIn, FlashInv, Sole
<1> QED BY <1>4, <1>5, <1>6 DEF Awaits

LEMMA FlashAnswered ==
  ASSUME FlashInv, NEW a \in EcuAnswers, a # "silent", EcuDoes(a)
  PROVE  FlashGoes
<1> DEFINE r == Reply(Head(toEcu), a)
<1>1. /\ toEcu # <<>> /\ toShell' = Append(toShell, r)
      /\ UNCHANGED <<state, ecu, asked, pending, tx>> /\ UNCHANGED <<scan, lid, cfg, live, proc, flash>>
      /\ toEcu' = IF a = "pending" THEN toEcu ELSE Tail(toEcu)
      /\ a = "pending" => /\ Head(toEcu).ecu = ecu /\ Head(toEcu).kind # "Alive"
                          /\ toShell = <<>> /\ pending < EcuPatience
  BY DEF EcuDoes, jobs
<1>2. /\ toEcu \in Seq(Requests) /\ toShell \in Seq(Replies) /\ Head(toEcu) = toEcu[1]
      /\ toEcu[1] \in Requests /\ 1 \in 1 .. Len(toEcu) /\ Len(toEcu) \in Nat \ {0}
      /\ Tail(toEcu) \in Seq(Requests) /\ Len(Tail(toEcu)) = Len(toEcu) - 1
      /\ \A i \in 1 .. Len(Tail(toEcu)) : i + 1 \in 1 .. Len(toEcu) /\ Tail(toEcu)[i] = toEcu[i + 1]
  BY <1>1, Shorter DEF FlashInv, Wires, Carried
<1>3. r \in Replies /\ r.req = Head(toEcu) /\ r.kind = a /\ Head(toEcu).ecu = ecu
  BY <1>2 DEF Reply, Replies, FlashInv, Sole
<1>4. Wires'
  <2>1. CASE a = "pending"
    BY <1>1, <2>1, PatienceAsked DEF FlashInv, Unseen
  <2>2. CASE a # "pending"
    BY <1>1, <2>2, RequestAnswered DEF FlashInv, Unseen
  <2> QED BY <2>1, <2>2
<1>5. \/ accepted \subseteq accepted'
      \/ Awaits("Erase") /\ (\A i \in 1 .. Len(toShell) : toShell[i].kind = "pending")
  <2>1. Head(toEcu).kind # "Erase" => accepted \subseteq accepted'
    BY DEF EcuDoes
  <2> QED BY <1>1, <2>1, ErasesAwaited
<1>6. a = "positive" /\ Head(toEcu).kind = "Block" => Head(toEcu).n \in accepted'
  BY DEF EcuDoes
<1> HIDE DEF r
<1>7. /\ Len(toShell') = Len(toShell) + 1 /\ Len(toShell) \in Nat /\ toShell'[Len(toShell) + 1] = r
      /\ \A i \in 1 .. Len(toShell) : toShell'[i] = toShell[i]
  BY <1>1, <1>2, <1>3, Longer
<1>8. \A i \in 1 .. Len(toShell') :
        \/ i = Len(toShell) + 1 /\ toShell'[i] = r
        \/ i \in 1 .. Len(toShell) /\ toShell'[i] = toShell[i]
  BY <1>7
<1>9. Confirmed'
  BY <1>3, <1>5, <1>6, <1>8 DEF FlashInv, Confirmed
<1>10. Sole'
  <2>1. \A i \in 1 .. Len(toShell') : toShell'[i].req.ecu = ecu'
    BY <1>1, <1>3, <1>8 DEF FlashInv, Sole
  <2>2. \A i \in 1 .. Len(toEcu') : toEcu'[i].ecu = ecu'
    BY <1>1, <1>2 DEF FlashInv, Sole
  <2>3. state # "Idle"
    BY <1>1 DEF FlashInv, Sole, Quiet
  <2>4. state' = "Connected" => Len(toEcu') + Len(toShell') <= 1
    <3> SUFFICES ASSUME state = "Connected" PROVE Len(toEcu') + Len(toShell') <= 1
      BY <1>1
    <3>1. a # "pending"
      BY <1>1, <1>2, AliveTail DEF FlashInv, Wires, Alone
    <3>2. toEcu' = Tail(toEcu)
      BY <1>1, <3>1
    <3> DEFINE k == Len(toEcu)
               k2 == Len(toEcu')
               l == Len(toShell)
               l2 == Len(toShell')
    <3>3. k2 = k - 1 /\ l2 = l + 1 /\ k \in Nat /\ l \in Nat /\ k + l <= 1
      BY <1>2, <1>7, <3>2 DEF FlashInv, Sole
    <3> HIDE DEF k, k2, l, l2
    <3>4. k2 + l2 <= 1
      BY <3>3
    <3> QED BY <3>4 DEF k2, l2
  <2> QED BY <1>1, <2>1, <2>2, <2>3, <2>4 DEF Sole
<1> QED BY <1>1, <1>4, <1>5, <1>9, <1>10, FlashUnseen DEF FlashGoes

LEMMA FlashWorld == ASSUME FlashInv, World PROVE FlashGoes
<1>1. ASSUME toEcu # <<>>, toEcu' = Tail(toEcu),
             UNCHANGED <<state, ecu, asked, pending, tx, toShell, accepted, scan, lid, cfg, live, proc, flash>>
      PROVE  FlashGoes
  <2>1. Wires'
    BY <1>1, RequestTaken DEF FlashInv, Unseen
  <2> QED BY <1>1, <2>1, FewerRequests, FlashUnseen DEF FlashGoes
<1>2. ASSUME toShell # <<>>, toShell' = Tail(toShell),
             UNCHANGED <<state, ecu, asked, pending, tx, toEcu, accepted, scan, lid, cfg, live, proc, flash>>
      PROVE  FlashGoes
  <2>1. Wires'
    BY <1>2, ReplyTaken DEF FlashInv
  <2> QED BY <1>2, <2>1, FewerReplies, FlashUnseen DEF FlashGoes
<1>3. CASE Lose
  BY <1>1, <1>2, <1>3 DEF Lose, jobs
<1>4. ASSUME NEW a \in EcuAnswers, EcuDoes(a) PROVE FlashGoes
  <2>1. CASE a = "silent"
    <3>1. toEcu # <<>> /\ toEcu' = Tail(toEcu) /\ UNCHANGED <<toShell, accepted>>
          /\ UNCHANGED <<state, ecu, asked, pending, tx, scan, lid, cfg, live, proc, flash>>
      BY <1>4, <2>1 DEF EcuDoes, jobs
    <3> QED BY <1>1, <3>1
  <2> QED BY <1>4, <2>1, FlashAnswered
<1> QED BY <1>3, <1>4 DEF World

----------------------------------------------------------------------------
(* Timers and the user, who find the wire silent.                            *)
LEMMA FlashTimers == ASSUME Unrefused, FlashInv, Timers PROVE FlashGoes
<1>1. CASE ResponseTimeout
  <2>q. PromptEcu /\ ~scan.on
    BY DEF Unrefused, FlashInv, Lone, Jobless
  <2>1. Quiet /\ Over /\ UNCHANGED <<toShell, accepted>>
    <3>1. Quiet /\ UNCHANGED <<toShell, accepted>>
      BY <1>1, <2>q DEF ResponseTimeout, MayBeLate
    <3> QED BY <3>1 DEF Quiet, Over
  <2>2. /\ lid' = [lid EXCEPT !.on = FALSE] /\ cfg' = [cfg EXCEPT !.on = FALSE]
        /\ flash' = [flash EXCEPT !.active = FALSE] /\ proc' = NoProc
    BY <1>1 DEF ResponseTimeout
  <2>s. /\ scan' = [scan EXCEPT !.pdi = FALSE] /\ state' = "Idle" /\ live' = FALSE
        /\ tx' = NoReq /\ UNCHANGED <<ecu, toEcu, asked>>
    BY <1>1, <2>q DEF ResponseTimeout
  <2>l. ~lid'.on /\ ~cfg'.on
    BY <2>2 DEF FlashInv, Inv, LidIn, Lids, CfgIn, Cfgs
  <2>o. ~scan'.on
    BY <2>q, <2>s DEF FlashInv, Inv, ScanIn, Scans
  <2>3. /\ ~flash'.active /\ flash'.opening = flash.opening /\ flash'.step = flash.step
        /\ flash'.index = flash.index /\ flash.index \in Nat
    BY <2>2 DEF FlashInv, Inv, FlashIn, Flashes
  <2>4. Wires' /\ Sole' /\ Confirmed'
    <3>1. UNCHANGED out
      BY <2>1, <2>s DEF Quiet, out
    <3> QED BY <2>1, <2>s, <3>1, FlashRests
  <2>5. Lone'
    BY <2>2, <2>s, <2>l, <2>o DEF Lone, Jobless
  <2>6. Flashing'
    BY <2>3 DEF FlashInv, Flashing, Begun, Under
  <2>7. Steady
    <3>1. ~Taken
      BY <2>1 DEF Quiet, Taken
    <3> QED BY <2>3, <3>1 DEF Steady, DeclaredComplete
  <2> QED BY <2>4, <2>5, <2>6, <2>7 DEF FlashGoes
<1>2. CASE KeepAlive
  <2>1. /\ Quiet /\ Ready /\ toEcu' = Append(toEcu, Ask("Alive"))
        /\ UNCHANGED <<state, ecu, asked, tx, toShell, accepted, scan, lid, cfg, live, proc, flash>>
    BY <1>2 DEF Unrefused, KeepAlive, jobs
  <2>2. ecu \in Range(EcuTable)
    BY <2>1 DEF FlashInv, Inv, Session, Ready
  <2> DEFINE r == Ask("Alive")
  <2>3. r \in Requests /\ r.ecu = ecu /\ r.kind = "Alive"
    BY <2>2, ReqIn DEF Ask, Kinds
  <2>4. toEcu \in Seq(Requests) /\ Len(toEcu) = 0 /\ Len(toShell) = 0 /\ toShell \in Seq(Replies)
    BY <2>1 DEF FlashInv, Wires, Carried, Quiet
  <2> HIDE DEF r
  <2>5. toEcu' \in Seq(Requests) /\ Len(toEcu') = 1 /\ toEcu'[1] = r /\ Len(toShell') = 0
    BY <2>1, <2>3, <2>4, Longer DEF r
  <2>6. \A i \in 1 .. Len(toEcu') : i = 1
    BY <2>5
  <2>7. Alone'
    BY <2>1, <2>2, <2>3, <2>5, <2>6 DEF Alone, AliveIn, AliveAnswersIn, Quiet
  <2>8. Wires'
    BY <2>1, <2>5, <2>7 DEF FlashInv, Wires, Carried, Ready
  <2>9. Sole' /\ Confirmed'
    BY <2>1, <2>3, <2>5, <2>6 DEF Sole, Confirmed, Ready
  <2> QED BY <2>1, <2>8, <2>9, FlashUnseen DEF FlashGoes
<1>3. ~LidScanTimeout /\ ~LivePoll
  BY DEF LidScanTimeout, LivePoll, FlashInv, Lone, Jobless
<1> QED BY <1>1, <1>2, <1>3 DEF Timers

LEMMA FlashTyped ==
  ASSUME Unrefused, NEW c, Typed(c), ByUser
  PROVE  Quiet /\ Over /\ UNCHANGED accepted
BY DEF Unrefused, Typed, ByUser, Quiet, Over

(* What a session at rest is asked for.                                      *)
LEMMA FlashPlainAsk ==
  ASSUME Unrefused, FlashInv, ReadCommand \/ WriteCommand \/ ConfigRead
  PROVE  FlashGoes
<1>1. ASSUME NEW c, Typed(c), ByUser, Ready,
             NEW kind \in {"Read", "Dtc", "Seed", "Write", "Clear", "Routine"},
             SendAndWait(<<Ask(kind)>>), UNCHANGED <<ecu, scan, lid, live, proc, flash>>,
             cfg' \in {cfg, [cfg EXCEPT !.on = FALSE]}
      PROVE  FlashGoes
  <2>1. Over /\ UNCHANGED accepted /\ ecu \in Range(EcuTable) /\ state = "Connected"
    BY <1>1, FlashTyped DEF FlashInv, Inv, Session, Ready
  <2>2. SendAndWait(<<Req(ecu, kind, 0)>>) /\ kind \in Kinds /\ kind # "Alive"
    BY <1>1 DEF Ask, Kinds
  <2>3. Wires' /\ Sole' /\ Confirmed' /\ asked'.kind = kind
    BY <1>1, <2>1, <2>2, FlashAsks
  <2>4. ~cfg'.on
    BY <1>1 DEF FlashInv, Lone, Jobless, Inv, CfgIn, Cfgs
  <2>5. Lone'
    BY <1>1, <2>4 DEF FlashInv, Lone, Jobless
  <2>6. flash.active /\ ~flash.opening => Walking /\ 1 .. flash.index \subseteq accepted
    BY <2>1 DEF FlashInv, Flashing, Under, Walking, Awaits
  <2>7. Flashing' /\ Steady
    BY <1>1, <2>1, <2>3, <2>6, FlashStays DEF FlashInv, Awaits, Inv, FlashIn
  <2> QED BY <2>3, <2>5, <2>7 DEF FlashGoes
<1>2. ASSUME NEW c, NEW kind \in {"Read", "Dtc", "Seed", "Write", "Clear", "Routine"}, PlainAsk(c, kind)
      PROVE  FlashGoes
  BY <1>1, <1>2 DEF PlainAsk, jobs
<1>3. CASE ReadCommand
  <2>1. PICK c \in DOMAIN ReadAsks : PlainAsk(c, ReadAsks[c])
    BY <1>3 DEF ReadCommand
  <2>2. ReadAsks[c] \in {"Read", "Dtc", "Seed"}
    BY DEF ReadAsks
  <2> QED BY <1>2, <2>1, <2>2
<1>4. CASE WriteCommand
  <2>1. PICK c \in DOMAIN WriteAsks : PlainAsk(c, WriteAsks[c])
    BY <1>4 DEF WriteCommand
  <2>2. WriteAsks[c] \in {"Write", "Clear", "Routine"}
    BY DEF WriteAsks
  <2> QED BY <1>2, <2>1, <2>2
<1>5. CASE ConfigRead
  <2>1. "Read" \in {"Read", "Dtc", "Seed", "Write", "Clear", "Routine"}
    OBVIOUS
  <2> QED BY <1>1, <1>5, <2>1 DEF ConfigRead
<1> QED BY <1>3, <1>4, <1>5

(* The flash's own commands.                                                 *)
LEMMA FlashBegins == ASSUME Unrefused, FlashInv, FlashBegin PROVE FlashGoes
<1>1. /\ Over /\ ecu # NoEcu /\ UNCHANGED <<ecu, accepted, scan, lid, cfg, live, proc>>
      /\ flash' = [active |-> TRUE, opening |-> TRUE, step |-> "Idle", staged |-> flash.staged, index |-> 0]
      /\ SendAndWait(<<Ask("Program")>>)
  <2>1. Typed("flash begin") /\ ByUser
    BY DEF FlashBegin, MayFlash
  <2>2. Over /\ UNCHANGED accepted
    BY <2>1, FlashTyped
  <2> QED BY <2>2 DEF FlashBegin, MayFlash
<1>2. ecu \in Range(EcuTable) /\ flash.index \in Nat
  BY <1>1 DEF FlashInv, Inv, Session, FlashIn, Flashes
<1>3. Wires' /\ Sole' /\ Confirmed'
  <2>1. SendAndWait(<<Req(ecu, "Program", 0)>>)
    BY <1>1 DEF Ask
  <2> QED BY <1>1, <1>2, <2>1, FlashAsks DEF Kinds
<1>4. flash'.opening /\ flash'.active /\ flash'.step = "Idle" /\ flash'.index = 0
  BY <1>1
<1>5. Flashing' /\ Steady
  BY <1>2, <1>4 DEF Flashing, Begun, Under, Steady, DeclaredComplete
<1>6. Lone'
  BY <1>1 DEF FlashInv, Lone, Jobless
<1> QED BY <1>3, <1>5, <1>6 DEF FlashGoes

LEMMA FlashEnds == ASSUME Unrefused, FlashInv, FlashEnd PROVE FlashGoes
<1>1. /\ Over /\ ecu # NoEcu /\ UNCHANGED <<ecu, accepted, scan, lid, cfg, live, proc>>
      /\ flash.active /\ flash.step = "TransferData"
      /\ flash' = [flash EXCEPT !.step = AfterRequest(FinishTransfer(flash.step))]
      /\ SendAndWait(<<Ask(Emits[FinishTransfer(flash.step)])>>)
  <2>1. Typed("flash end") /\ ByUser
    BY DEF FlashEnd, MayFlash
  <2>2. Over /\ UNCHANGED accepted
    BY <2>1, FlashTyped
  <2> QED BY <2>2 DEF FlashEnd, MayFlash
<1>2. FinishTransfer(flash.step) = "RequestTransferExit"
  BY <1>1 DEF FinishTransfer
<1>3. AfterRequest("RequestTransferExit") = "VerifyChecksum" /\ Emits["RequestTransferExit"] = "Exit"
  BY DEF AfterRequest, Emits
<1>4. ecu \in Range(EcuTable) /\ flash \in Flashes /\ ~flash.opening
  BY <1>1 DEF FlashInv, Inv, Session, FlashIn, Flashing, Begun
<1>5. Wires' /\ Sole' /\ Confirmed' /\ state' = "WaitingResponse" /\ asked'.kind = "Exit"
  <2>1. SendAndWait(<<Req(ecu, "Exit", 0)>>)
    BY <1>1, <1>2, <1>3 DEF Ask
  <2> QED BY <1>1, <1>4, <2>1, FlashAsks DEF Kinds
<1>6. ~flash'.opening /\ flash'.active /\ flash'.step = "VerifyChecksum" /\ flash'.index = flash.index
  BY <1>1, <1>2, <1>3, <1>4 DEF Flashes
<1>7. Flashing' /\ Steady
  BY <1>4, <1>5, <1>6 DEF Flashing, Begun, Under, Awaits, Steady, DeclaredComplete, Flashes
<1>8. Lone'
  BY <1>1 DEF FlashInv, Lone, Jobless
<1> QED BY <1>5, <1>7, <1>8 DEF FlashGoes

(* Commands that leave the session as it is.                                 *)
LEMMA FlashSwitches ==
  ASSUME Unrefused, FlashInv, (\E on \in BOOLEAN : Rw(on) \/ Live(on)) \/ FlashStage \/ FlashCancel
  PROVE  FlashGoes
<1>1. ~Live(TRUE)
  <2>1. "live" \notin Commands
    BY DEF Unrefused, OtherJobs
  <2> QED BY <2>1 DEF Live, Typed
<1>2. /\ UNCHANGED <<state, ecu, asked, pending, tx, toEcu, toShell, accepted, scan, lid, cfg, proc>>
      /\ live' \in {live, FALSE} /\ Quiet
      /\ \/ UNCHANGED flash
         \/ flash' = [flash EXCEPT !.staged = @ + 1]
         \/ flash' = [flash EXCEPT !.active = FALSE, !.staged = 0, !.index = 0]
  <2>1. CASE \E on \in BOOLEAN : Rw(on)
    <3>1. PICK on \in BOOLEAN : Rw(on)
      BY <2>1
    <3>2. \E c : Typed(c) /\ ByUser
      BY <3>1 DEF Rw
    <3> QED BY <3>1, <3>2, FlashTyped DEF Rw, jobs, out, ByUser
  <2>2. CASE \E on \in BOOLEAN : Live(on)
    <3>1. Live(FALSE)
      BY <1>1, <2>2
    <3>2. \E c : Typed(c) /\ ByUser
      BY <3>1 DEF Live
    <3> QED BY <3>1, <3>2, FlashTyped DEF Live, out, ByUser
  <2>3. CASE FlashStage
    <3>1. Typed("flash record") /\ ByUser
      BY <2>3 DEF FlashStage, MayFlash
    <3> QED BY <2>3, <3>1, FlashTyped DEF FlashStage, out, ByUser
  <2>4. CASE FlashCancel
    <3>1. Typed("flash cancel") /\ ByUser
      BY <2>4 DEF FlashCancel, MayFlash
    <3> QED BY <2>4, <3>1, FlashTyped DEF FlashCancel, out, ByUser
  <2> QED BY <2>1, <2>2, <2>3, <2>4
<1>3. flash \in Flashes
  BY DEF FlashInv, Inv, FlashIn
<1>4. Wires'
  BY <1>2 DEF FlashInv, Wires, Carried, Awaited, AskedIn, AnswersIn, Alone, AliveIn, AliveAnswersIn
<1>5. Sole' /\ Confirmed'
  BY <1>2 DEF FlashInv, Sole, Confirmed, Quiet
<1>6. Lone'
  <2>1. ~live'
    BY <1>2, Zenon DEF FlashInv, Lone
  <2> QED BY <1>2, <2>1 DEF FlashInv, Lone, Jobless
<1>7. \/ /\ flash'.active = flash.active /\ flash'.opening = flash.opening /\ flash'.step = flash.step
         /\ flash'.index = flash.index
      \/ /\ ~flash'.active /\ flash'.opening = flash.opening /\ flash'.step = flash.step
         /\ flash'.index = 0
  BY <1>2, <1>3 DEF Flashes
<1>8. Begun'
  BY <1>7 DEF FlashInv, Flashing, Begun
<1>9. Under'
  BY <1>2, <1>7 DEF FlashInv, Flashing, Under, Walking, Awaits
<1>10. Steady
  <2>1. ~Taken
    BY <1>2 DEF Quiet, Taken
  <2>2. flash.index \in Nat
    BY <1>3 DEF Flashes
  <2>3. ~(flash'.index > flash.index)
    BY <1>7, <2>2
  <2> QED BY <2>1, <2>3 DEF Steady, DeclaredComplete
<1> QED BY <1>4, <1>5, <1>6, <1>8, <1>9, <1>10 DEF FlashGoes, Flashing

LEMMA FlashConnects ==
  ASSUME Unrefused, FlashInv, NEW e \in Range(EcuTable), Connect(e)
  PROVE  FlashGoes
<1>1. /\ Over /\ UNCHANGED accepted /\ ~IsConnected /\ ecu' = e /\ live' = FALSE
      /\ SendAndWait(<<Req(e, "Open", 0)>>) /\ UNCHANGED <<scan, lid, cfg, proc, flash>>
  BY FlashTyped DEF Connect
<1>2. Wires' /\ Sole' /\ Confirmed' /\ asked'.kind = "Open"
  BY <1>1, FlashAsks DEF Kinds
<1>3. flash.active /\ ~flash.opening => Walking /\ 1 .. flash.index \subseteq accepted
  BY <1>1 DEF FlashInv, Flashing, Under, Walking, Awaits, IsConnected
<1>4. Flashing' /\ Steady
  BY <1>1, <1>2, <1>3, FlashStays DEF FlashInv, Awaits, Inv, FlashIn
<1>5. Lone'
  BY <1>1 DEF FlashInv, Lone, Jobless
<1> QED BY <1>2, <1>4, <1>5 DEF FlashGoes

LEMMA FlashUser == ASSUME Unrefused, FlashInv, User PROVE FlashGoes
<1>1. \A c \in OtherJobs : ~Typed(c)
  BY DEF Unrefused, Typed
<1>2. ~Disconnect /\ ~ConfigReadAll /\ ~LidScan /\ \A on \in BOOLEAN : ~Scan(on)
  BY <1>1 DEF OtherJobs, Disconnect, ConfigReadAll, LidScan, Scan
<1>3. ~LidScanStop
  BY DEF LidScanStop, FlashInv, Lone, Jobless
<1>4. \A name \in DOMAIN Procedures : ~StartProcedure(name)
  <2>1. \A name \in DOMAIN Procedures : name \in OtherJobs
    BY DEF Procedures, OtherJobs
  <2> QED BY <1>1, <2>1 DEF StartProcedure
<1> QED BY <1>2, <1>3, <1>4, FlashSwitches, FlashConnects, FlashPlainAsk, FlashBegins, FlashEnds DEF User

LEMMA FlashNextGoes == ASSUME Unrefused, FlashInv, Next PROVE FlashGoes
<1>1. ~ReassemblyError /\ ~TransferAborted /\ ~TransferFails
  BY DEF Unrefused, ReassemblyError, TransferAborted, TransferFails
<1> QED BY <1>1, FlashReceives, FlashThrough, FlashTimers, FlashUser, FlashWorld DEF Next, Frames

LEMMA FlashInvInit == ASSUME Unrefused PROVE Init => FlashInv
<1> SUFFICES ASSUME Init PROVE FlashInv
  OBVIOUS
<1>1. state = "Idle" /\ tx = NoReq /\ toEcu = <<>> /\ toShell = <<>>
  BY Zenon DEF Init
<1>2. <<>> \in Seq(Requests) /\ <<>> \in Seq(Replies) /\ Len(<<>>) = 0
  OBVIOUS
<1>3. Wires /\ Sole /\ Confirmed
  BY <1>1, <1>2 DEF Wires, Carried, Sole, Confirmed, Quiet
<1>4. ~scan.on /\ ~lid.on /\ ~cfg.on /\ proc = NoProc /\ ~live /\ ~flash.active /\ ~flash.opening
  BY DEF Init
<1>5. Lone
  BY <1>4, Zenon DEF Lone, Jobless
<1>6. Flashing
  BY <1>4, Zenon DEF Flashing, Begun, Under
<1> QED BY <1>3, <1>5, <1>6, InitInv DEF FlashInv

LEMMA FlashInvariance ==
  ASSUME Unrefused
  PROVE  (Init => FlashInv) /\ (FlashInv /\ [Next]_vars => FlashInv' /\ [Steady]_vars)
<1>1. ASSUME FlashInv, Next PROVE FlashInv' /\ Steady
  BY <1>1, FlashNextGoes, NextInv DEF FlashGoes, FlashInv
<1>2. ASSUME FlashInv, UNCHANGED vars PROVE FlashInv'
  <2>1. UNCHANGED <<state, ecu, asked, pending, tx, toEcu, toShell, accepted>>
        /\ UNCHANGED <<scan, lid, cfg, live, proc, flash>>
    BY <1>2 DEF vars, jobs, out
  <2>2. Wires'
    BY <1>2, <2>1
       DEF FlashInv, Wires, Carried, Awaited, AskedIn, AnswersIn, Alone, AliveIn, AliveAnswersIn
  <2>3. Sole' /\ Confirmed'
    BY <1>2, <2>1 DEF FlashInv, Sole, Confirmed, Quiet
  <2>4. Lone' /\ Flashing'
    BY <1>2, <2>1, FlashUnseen
  <2> QED BY <1>2, <2>2, <2>3, <2>4, NextInv DEF FlashInv
<1> QED BY <1>1, <1>2, FlashInvInit

(* A block goes out only when the ECU has accepted every block before it,    *)
(* whatever is lost and whatever else is typed meanwhile (flashOnResponse,   *)
(* diag_shell.cpp:1470-1489).                                                *)
THEOREM BlocksFollow ==
  ASSUME Unrefused
  PROVE  Spec => NoHole
<1>1. FlashInv /\ [Next]_vars =>
        FlashInv' /\ [flash'.index > flash.index => 1 .. flash.index \subseteq accepted]_vars
  BY FlashInvariance DEF Steady
<1>2. Spec => [][flash'.index > flash.index => 1 .. flash.index \subseteq accepted]_vars
  BY <1>1, FlashInvariance, PTL DEF Spec
<1> QED BY <1>2 DEF NoHole

(* A flash is declared complete only on the ECU's reply to the checksum that *)
(* was asked for, and not on that to some other routine or keep-alive        *)
(* (flashOnResponse, diag_shell.cpp:1491-1499).                              *)
THEOREM FlashVerified ==
  ASSUME Unrefused
  PROVE  Spec => CompleteIsVerified
<1>1. FlashInv /\ [Next]_vars =>
        FlashInv' /\ [DeclaredComplete => Head(toShell).req.kind = "Verify"]_vars
  BY FlashInvariance DEF Steady
<1>2. Spec => [][DeclaredComplete => Head(toShell).req.kind = "Verify"]_vars
  BY <1>1, FlashInvariance, PTL DEF Spec
<1> QED BY <1>2 DEF CompleteIsVerified

----------------------------------------------------------------------------
(* Induction, and what the recursive functions compute.                      *)

(* Induction on the natural numbers, of a set: were a number missing, its    *)
(* predecessors that are there would map one to one into themselves without  *)
(* zero.                                                                     *)
LEMMA Induction ==
  ASSUME NEW S \in SUBSET Nat, 0 \in S, \A n \in S : n + 1 \in S
  PROVE  S = Nat
<1> SUFFICES ASSUME NEW n \in Nat, n \notin S PROVE FALSE
  OBVIOUS
<1> DEFINE A == S \cap (0 .. n)
           next == [k \in A |-> k + 1]
<1>1. IsFiniteSet(A)
  <2>1. IsFiniteSet(0 .. n)
    BY FS_Interval
  <2>2. A \in SUBSET (0 .. n)
    OBVIOUS
  <2> QED BY <2>1, <2>2, FS_Subset
<1>2. 0 \in A
  OBVIOUS
<1>3. next \in [A -> A \ {0}] /\ \A i, j \in A : next[i] = next[j] => i = j
  OBVIOUS
<1> HIDE DEF next, A
<1>4. IsFiniteSet(A \ {0}) /\ Cardinality(A \ {0}) = Cardinality(A) - 1 /\ Cardinality(A) \in Nat
  BY <1>1, <1>2, FS_RemoveElement, FS_CardinalityType
<1>5. \E i, j \in A : i # j /\ next[i] = next[j]
  BY <1>1, <1>3, <1>4, FS_PigeonHole
<1> QED BY <1>3, <1>5

(* A loop of N turns over a state in S, as a function t of the turns done.   *)
RunsLoop(t, S, first, N, turn) ==
  /\ t \in [0 .. N -> S]
  /\ \A i \in 0 .. N : t[i] = IF i = 0 THEN first ELSE turn[<<t[i - 1], i>>]

LEMMA Loop ==
  ASSUME NEW S, NEW first \in S, NEW N \in Nat, NEW turn \in [S \X (1 .. N) -> S]
  PROVE  \E t : RunsLoop(t, S, first, N, turn)
<1> DEFINE Is(t, n) == t \in [0 .. n -> S]
                      /\ \A i \in 0 .. n : t[i] = IF i = 0 THEN first ELSE turn[<<t[i - 1], i>>]
           M == {n \in Nat : n <= N => \E t : Is(t, n)}
<1>1. 0 \in M
  <2>1. Is([i \in 0 .. 0 |-> first], 0)
    OBVIOUS
  <2> QED BY <2>1
<1>2. ASSUME NEW n \in M PROVE n + 1 \in M
  <2>1. SUFFICES ASSUME n + 1 <= N PROVE \E t : Is(t, n + 1)
    OBVIOUS
  <2>2. PICK t : Is(t, n)
    BY <2>1
  <2> DEFINE u == [i \in 0 .. n + 1 |-> IF i = n + 1 THEN turn[<<t[n], n + 1>>] ELSE t[i]]
  <2>3. t[n] \in S /\ n + 1 \in 1 .. N
    BY <2>1, <2>2
  <2>4. <<t[n], n + 1>> \in S \X (1 .. N)
    BY <2>3
  <2>5. turn[<<t[n], n + 1>>] \in S
    BY <2>4
  <2>6. \A i \in 0 .. n : t[i] \in S
    BY <2>2
  <2>7. \A i \in 0 .. n + 1 : i = n + 1 \/ i \in 0 .. n
    OBVIOUS
  <2>8. u \in [0 .. n + 1 -> S]
    BY <2>5, <2>6, <2>7
  <2>9. ASSUME NEW i \in 0 .. n + 1
        PROVE  u[i] = IF i = 0 THEN first ELSE turn[<<u[i - 1], i>>]
    <3>1. CASE i = n + 1
      BY <3>1
    <3>2. CASE i \in 0 .. n
      <4>1. u[i] = t[i] /\ i # n + 1
        BY <3>2
      <4>2. i = 0 \/ u[i - 1] = t[i - 1]
        BY <3>2
      <4> QED BY <2>2, <3>2, <4>1, <4>2
    <3> QED BY <2>7, <3>1, <3>2
  <2>10. Is(u, n + 1)
    BY <2>8, <2>9
  <2> QED BY <2>10
<1>3. M = Nat
  <2> HIDE DEF M
  <2>1. M \in SUBSET Nat
    BY DEF M
  <2> QED BY <1>1, <1>2, <2>1, Induction
<1>4. PICK t : Is(t, N)
  <2>1. N \in M
    <3> HIDE DEF M
    <3> QED BY <1>3
  <2> QED BY <2>1
<1> QED BY <1>4 DEF RunsLoop

LEMMA Upward ==
  ASSUME NEW N \in Nat, NEW S \in SUBSET (0 .. N), 0 \in S, \A n \in S : n < N => n + 1 \in S
  PROVE  S = 0 .. N
<1> DEFINE M == {n \in Nat : n <= N => n \in S}
<1>1. 0 \in M /\ \A n \in M : n + 1 \in M
  OBVIOUS
<1>2. M = Nat
  <2> HIDE DEF M
  <2>1. M \in SUBSET Nat
    BY DEF M
  <2> QED BY <1>1, <2>1, Induction
<1>3. ASSUME NEW n \in 0 .. N PROVE n \in S
  <2>1. n \in M
    <3> HIDE DEF M
    <3> QED BY <1>2
  <2> QED BY <2>1
<1> QED BY <1>3

(* What Total, BigEndian and FlattenSeq compute, as far as each item. *)
LEMMA TotalIs ==
  ASSUME NEW s \in Seq(Nat)
  PROVE  \E t \in [0 .. Len(s) -> Nat] :
           t[0] = 0 /\ (\A i \in 1 .. Len(s) : t[i] = t[i - 1] + s[i]) /\ Total(s) = t[Len(s)]
<1> DEFINE N == Len(s)
           turn == [x \in Nat \X (1 .. N) |-> x[1] + s[x[2]]]
           Is(f) == f = [i \in 0 .. N |-> IF i = 0 THEN 0 ELSE f[i - 1] + s[i]]
           sum == CHOOSE f : Is(f)
<1>1. N \in Nat /\ \A i \in 1 .. N : s[i] \in Nat
  OBVIOUS
<1>2. turn \in [Nat \X (1 .. N) -> Nat] /\ \A x \in Nat, i \in 1 .. N : turn[<<x, i>>] = x + s[i]
  BY <1>1
<1>3. PICK t : RunsLoop(t, Nat, 0, N, turn)
  <2> HIDE DEF turn
  <2> QED BY <1>1, <1>2, Loop
<1> HIDE DEF turn, N
<1>4. Is(t)
  <2>1. ASSUME NEW i \in 0 .. N PROVE t[i] = IF i = 0 THEN 0 ELSE t[i - 1] + s[i]
    <3>1. CASE i = 0
      BY <1>3, <3>1 DEF RunsLoop
    <3>2. CASE i # 0
      <4>1. t[i] = turn[<<t[i - 1], i>>] /\ t[i - 1] \in Nat /\ i \in 1 .. N
        BY <1>1, <1>3, <3>2 DEF RunsLoop
      <4> QED BY <1>2, <3>2, <4>1
    <3> QED BY <3>1, <3>2
  <2> QED BY <1>3, <2>1 DEF RunsLoop
<1>5. Is(sum)
  <2> HIDE DEF Is
  <2> QED BY <1>4
<1>6. sum[0] = 0 /\ \A i \in 1 .. N : sum[i] = sum[i - 1] + s[i]
  <2> HIDE DEF sum
  <2> QED BY <1>1, <1>5
<1>7. Total(s) = sum[N]
  BY DEF Total, N
<1> HIDE DEF sum
<1>8. {n \in 0 .. N : sum[n] \in Nat} = 0 .. N
  <2> DEFINE M == {n \in 0 .. N : sum[n] \in Nat}
  <2>1. 0 \in M
    BY <1>1, <1>6
  <2>2. ASSUME NEW n \in M, n < N PROVE n + 1 \in M
    <3>1. sum[n + 1] = sum[n] + s[n + 1]
      BY <1>1, <1>6, <2>2
    <3> QED BY <1>1, <2>2, <3>1
  <2>3. M \in SUBSET (0 .. N)
    OBVIOUS
  <2> HIDE DEF M
  <2>4. M = 0 .. N
    BY <1>1, <2>1, <2>2, <2>3, Upward
  <2> QED BY <2>4 DEF M
<1>9. sum \in [0 .. N -> Nat]
  BY <1>5, <1>8
<1> QED BY <1>6, <1>7, <1>9 DEF N

LEMMA BigEndianIs ==
  ASSUME NEW s \in Seq(Nat)
  PROVE  \E t \in [0 .. Len(s) -> Nat] :
           t[0] = 0 /\ (\A i \in 1 .. Len(s) : t[i] = t[i - 1] * ByteMod + s[i]) /\ BigEndian(s) = t[Len(s)]
<1> DEFINE N == Len(s)
           turn == [x \in Nat \X (1 .. N) |-> x[1] * ByteMod + s[x[2]]]
           Is(f) == f = [i \in 0 .. N |-> IF i = 0 THEN 0 ELSE f[i - 1] * ByteMod + s[i]]
           read == CHOOSE f : Is(f)
<1>1. N \in Nat /\ \A i \in 1 .. N : s[i] \in Nat
  OBVIOUS
<1>2. turn \in [Nat \X (1 .. N) -> Nat] /\ \A x \in Nat, i \in 1 .. N : turn[<<x, i>>] = x * ByteMod + s[i]
  BY <1>1, ByteAssumption
<1>3. PICK t : RunsLoop(t, Nat, 0, N, turn)
  <2> HIDE DEF turn
  <2> QED BY <1>1, <1>2, Loop
<1> HIDE DEF turn, N
<1>4. Is(t)
  <2>1. ASSUME NEW i \in 0 .. N PROVE t[i] = IF i = 0 THEN 0 ELSE t[i - 1] * ByteMod + s[i]
    <3>1. CASE i = 0
      BY <1>3, <3>1 DEF RunsLoop
    <3>2. CASE i # 0
      <4>1. t[i] = turn[<<t[i - 1], i>>] /\ t[i - 1] \in Nat /\ i \in 1 .. N
        BY <1>1, <1>3, <3>2 DEF RunsLoop
      <4> QED BY <1>2, <3>2, <4>1
    <3> QED BY <3>1, <3>2
  <2> QED BY <1>3, <2>1 DEF RunsLoop
<1>5. Is(read)
  <2> HIDE DEF Is
  <2> QED BY <1>4
<1>6. read[0] = 0 /\ \A i \in 1 .. N : read[i] = read[i - 1] * ByteMod + s[i]
  <2> HIDE DEF read
  <2> QED BY <1>1, <1>5
<1>7. BigEndian(s) = read[N]
  BY DEF BigEndian, N
<1> HIDE DEF read
<1>8. {n \in 0 .. N : read[n] \in Nat} = 0 .. N
  <2> DEFINE M == {n \in 0 .. N : read[n] \in Nat}
  <2>1. 0 \in M
    BY <1>1, <1>6
  <2>2. ASSUME NEW n \in M, n < N PROVE n + 1 \in M
    <3>1. read[n + 1] = read[n] * ByteMod + s[n + 1]
      BY <1>1, <1>6, <2>2
    <3>2. s[n + 1] \in Nat /\ read[n] \in Nat /\ n + 1 \in 0 .. N
      BY <1>1, <2>2
    <3>3. read[n] * ByteMod \in Nat
      BY <3>2, ByteAssumption
    <3> QED BY <3>1, <3>2, <3>3
  <2>3. M \in SUBSET (0 .. N)
    OBVIOUS
  <2> HIDE DEF M
  <2>4. M = 0 .. N
    BY <1>1, <2>1, <2>2, <2>3, Upward
  <2> QED BY <2>4 DEF M
<1>9. read \in [0 .. N -> Nat]
  BY <1>5, <1>8
<1> QED BY <1>6, <1>7, <1>9 DEF N

LEMMA FlattenIs ==
  ASSUME NEW D, NEW s \in Seq(Seq(D)), s # <<>>
  PROVE  \E t \in [1 .. Len(s) -> Seq(D)] :
           /\ t[1] = s[1] /\ FlattenSeq(s) = t[Len(s)]
           /\ \A i \in 2 .. Len(s) : t[i] = t[i - 1] \o s[i]
<1> DEFINE N == Len(s)
           turn == [x \in Seq(D) \X (1 .. N) |-> x[1] \o s[x[2]]]
           Is(f) == f = [i \in 1 .. N |-> IF i = 1 THEN s[i] ELSE f[i - 1] \o s[i]]
           flat == CHOOSE f : Is(f)
<1>1. N \in Nat \ {0} /\ \A i \in 1 .. N : s[i] \in Seq(D)
  OBVIOUS
<1>2. turn \in [Seq(D) \X (1 .. N) -> Seq(D)]
      /\ \A x \in Seq(D), i \in 1 .. N : turn[<<x, i>>] = x \o s[i]
  BY <1>1, ConcatProperties
<1>3. PICK t : RunsLoop(t, Seq(D), <<>>, N, turn)
  <2>1. <<>> \in Seq(D)
    OBVIOUS
  <2> HIDE DEF turn
  <2> QED BY <1>1, <1>2, <2>1, Loop
<1> DEFINE u == [i \in 1 .. N |-> t[i]]
<1> HIDE DEF turn, N
<1>4. Is(u)
  <2>1. ASSUME NEW i \in 1 .. N PROVE u[i] = IF i = 1 THEN s[i] ELSE u[i - 1] \o s[i]
    <3>1. t[i] = t[i - 1] \o s[i] /\ t[0] = <<>>
      <4>1. i \in 0 .. N /\ i # 0 /\ i - 1 \in 0 .. N /\ 0 \in 0 .. N
        BY <1>1
      <4>2. t[i] = turn[<<t[i - 1], i>>] /\ t[i - 1] \in Seq(D) /\ t[0] = <<>>
        BY <1>3, <4>1 DEF RunsLoop
      <4> QED BY <1>2, <4>2
    <3>2. <<>> \o s[i] = s[i]
      BY <1>1, ConcatEmptySeq
    <3>3. i = 1 \/ (i # 1 /\ i - 1 \in 1 .. N)
      BY <1>1
    <3>4. CASE i = 1
      <4>1. i - 1 = 0
        BY <3>4
      <4>2. t[i] = s[i]
        BY Zenon, <3>1, <3>2, <4>1
      <4> QED BY <3>4, <4>2
    <3>5. CASE i # 1
      <4>1. u[i] = t[i] /\ u[i - 1] = t[i - 1]
        BY <3>3, <3>5
      <4> QED BY <3>1, <3>5, <4>1
    <3> QED BY <3>4, <3>5
  <2> QED BY <2>1
<1>5. Is(flat)
  <2> HIDE DEF Is, u
  <2> QED BY <1>4
<1>6. flat[1] = s[1] /\ \A i \in 2 .. N : flat[i] = flat[i - 1] \o s[i]
  <2> HIDE DEF flat
  <2>1. \A i \in 1 .. N : flat[i] = IF i = 1 THEN s[i] ELSE flat[i - 1] \o s[i]
    BY Zenon, <1>5
  <2>2. 1 \in 1 .. N /\ \A i \in 2 .. N : i \in 1 .. N /\ i # 1
    BY <1>1
  <2> QED BY Zenon, <2>1, <2>2
<1>7. FlattenSeq(s) = flat[N]
  BY <1>1 DEF FlattenSeq, N
<1> HIDE DEF flat
<1>8. {n \in 0 .. N : n = 0 \/ flat[n] \in Seq(D)} = 0 .. N
  <2> DEFINE M == {n \in 0 .. N : n = 0 \/ flat[n] \in Seq(D)}
  <2>1. 0 \in M
    BY <1>1
  <2>2. ASSUME NEW n \in M, n < N PROVE n + 1 \in M
    <3>1. s[n + 1] \in Seq(D) /\ n + 1 \in 1 .. N
      BY <1>1, <2>2
    <3>2. CASE n = 0
      BY <1>6, <3>1, <3>2
    <3>3. CASE n # 0
      <4>1. flat[n + 1] = flat[n] \o s[n + 1]
        <5>1. n + 1 \in 2 .. N /\ (n + 1) - 1 = n
          BY <1>1, <2>2, <3>3
        <5> QED BY <1>6, <5>1
      <4>2. flat[n] \in Seq(D)
        BY <2>2, <3>3
      <4>3. flat[n + 1] \in Seq(D)
        BY <3>1, <4>1, <4>2, ConcatProperties
      <4> QED BY <3>1, <4>3
    <3> QED BY <3>2, <3>3
  <2>3. M \in SUBSET (0 .. N)
    OBVIOUS
  <2> HIDE DEF M
  <2>4. M = 0 .. N
    BY <1>1, <2>1, <2>2, <2>3, Upward
  <2> QED BY <2>4 DEF M
<1>9. flat \in [1 .. N -> Seq(D)]
  <2>1. \A i \in 1 .. N : flat[i] \in Seq(D)
    BY <1>1, <1>8
  <2>2. flat = [i \in 1 .. N |-> flat[i]]
    BY <1>5
  <2> QED BY <2>1, <2>2
<1> QED BY <1>6, <1>7, <1>9 DEF N

----------------------------------------------------------------------------
(* Where the ECU puts the records, when they follow one another.             *)

Bytes == 0 .. ByteMod - 1
Records == [type : 0 .. 9, address : Nat, data : Seq(Bytes)]

LEMMA RecordIs ==
  ASSUME NEW r \in Records
  PROVE  /\ r.address \in Nat /\ r.data \in Seq(Bytes) /\ Len(r.data) \in Nat
         /\ End(r) \in Nat /\ End(r) = r.address + Len(r.data)
<1>1. r.address \in Nat /\ r.data \in Seq(Bytes)
  BY DEF Records
<1>2. Len(r.data) \in Nat
  BY <1>1
<1> QED BY <1>1, <1>2 DEF End

LEMMA RecordsAre ==
  ASSUME NEW s \in Seq(Records)
  PROVE  /\ \A i \in 1 .. Len(s) : s[i] \in Records /\ s[i] \in ToSet(s)
         /\ \A r \in ToSet(s) : \E i \in 1 .. Len(s) : r = s[i]
         /\ s # <<>> => Len(s) \in 1 .. Len(s) /\ 1 \in 1 .. Len(s)
         /\ Len(s) \in Nat
BY DEF ToSet

(* Where the first of the records lies, and how far they reach. *)
LEMMA LowestIs ==
  ASSUME NEW s \in Seq(Records), s # <<>>, \A i \in 1 .. Len(s) : s[1].address <= s[i].address
  PROVE  Lowest(s) = s[1].address
<1> DEFINE A == {r.address : r \in ToSet(s)}
           low == CHOOSE a \in A : \A r \in ToSet(s) : a <= r.address
<1>1. \A r \in ToSet(s) : r.address \in Nat /\ s[1].address <= r.address
  BY RecordsAre, RecordIs
<1>2. s[1] \in ToSet(s) /\ s[1].address \in Nat
  BY RecordsAre, RecordIs
<1>3. s[1].address \in A /\ \A r \in ToSet(s) : s[1].address <= r.address
  BY <1>1, <1>2
<1>4. low \in A /\ \A r \in ToSet(s) : low <= r.address
  BY <1>3
<1>5. PICK r \in ToSet(s) : low = r.address
  BY <1>4
<1>6. low = s[1].address
  <2> HIDE DEF low, A
  <2> QED BY <1>1, <1>2, <1>4, <1>5
<1> QED BY <1>6 DEF Lowest

LEMMA HighestIs ==
  ASSUME NEW s \in Seq(Records), s # <<>>, \A i \in 1 .. Len(s) : End(s[i]) <= End(s[Len(s)])
  PROVE  Highest(s) = End(s[Len(s)])
<1> DEFINE n == Len(s)
           A == {End(r) : r \in ToSet(s)}
           high == CHOOSE a \in A : \A r \in ToSet(s) : a >= End(r)
<1>1. n \in 1 .. Len(s)
  OBVIOUS
<1>2. \A r \in ToSet(s) : End(r) \in Nat /\ End(r) <= End(s[n])
  BY RecordsAre, RecordIs
<1>3. s[n] \in ToSet(s) /\ End(s[n]) \in Nat
  BY <1>1, <1>2, RecordsAre
<1>4. End(s[n]) \in A /\ \A r \in ToSet(s) : End(s[n]) >= End(r)
  BY <1>2, <1>3
<1>5. high \in A /\ \A r \in ToSet(s) : high >= End(r)
  BY <1>4
<1>6. PICK r \in ToSet(s) : high = End(r)
  BY <1>5
<1>7. high = End(s[n])
  <2> HIDE DEF high, A, n
  <2> QED BY <1>2, <1>3, <1>5, <1>6
<1> QED BY <1>7 DEF Highest

(* The k first records, one behind the other, make up t, each where its      *)
(* address says.                                                             *)
Laid(s, k, t) ==
  /\ s[k].address + Len(s[k].data) = s[1].address + Len(t)
  /\ \A i \in 1 .. k :
       /\ s[1].address <= s[i].address /\ End(s[i]) <= s[1].address + Len(t)
       /\ \A j \in 1 .. Len(s[i].data) : t[(s[i].address - s[1].address) + j] = s[i].data[j]

LEMMA LaidFirst ==
  ASSUME NEW s \in Seq(Records), s # <<>>
  PROVE  Laid(s, 1, s[1].data)
<1>1. s[1].address \in Nat /\ s[1].data \in Seq(Bytes)
  BY RecordsAre, RecordIs
<1>2. (s[1].address - s[1].address) = 0
  BY <1>1
<1>3. ASSUME NEW i \in 1 .. 1 PROVE i = 1
  OBVIOUS
<1>4. ASSUME NEW j \in 1 .. Len(s[1].data) PROVE 0 + j = j
  OBVIOUS
<1>5. End(s[1]) <= s[1].address + Len(s[1].data) /\ s[1].address <= s[1].address
  BY <1>1 DEF End
<1> QED BY <1>2, <1>3, <1>4, <1>5 DEF Laid

LEMMA LaidNext ==
  ASSUME NEW s \in Seq(Records), NEW k \in 1 .. Len(s) - 1, NEW t \in Seq(Bytes), Laid(s, k, t),
         s[k + 1].address = End(s[k])
  PROVE  Laid(s, k + 1, t \o s[k + 1].data)
<1> DEFINE d == s[k + 1].data
           u == t \o d
<1>1. k + 1 \in 1 .. Len(s) /\ k \in 1 .. Len(s) /\ 1 \in 1 .. Len(s) /\ k \in Nat
  OBVIOUS
<1>2. \A i \in 1 .. Len(s) : s[i].address \in Nat /\ s[i].data \in Seq(Bytes) /\ Len(s[i].data) \in Nat
  BY RecordsAre, RecordIs
<1>3. s[k + 1].address = s[1].address + Len(t) /\ Len(t) \in Nat
  BY DEF Laid, End
<1>4. u \in Seq(Bytes) /\ Len(u) = Len(t) + Len(d)
      /\ \A i \in 1 .. Len(t) + Len(d) : u[i] = IF i <= Len(t) THEN t[i] ELSE d[i - Len(t)]
  BY <1>1, <1>2, ConcatProperties
<1> HIDE DEF u
<1>5. s[k + 1].address + Len(s[k + 1].data) = s[1].address + Len(u)
  BY <1>1, <1>2, <1>3, <1>4
<1>6. ASSUME NEW i \in 1 .. k
      PROVE  /\ s[1].address <= s[i].address /\ End(s[i]) <= s[1].address + Len(u)
             /\ \A j \in 1 .. Len(s[i].data) : u[(s[i].address - s[1].address) + j] = s[i].data[j]
  <2>1. /\ s[1].address <= s[i].address /\ s[i].address + Len(s[i].data) <= s[1].address + Len(t)
        /\ \A j \in 1 .. Len(s[i].data) : t[(s[i].address - s[1].address) + j] = s[i].data[j]
    BY DEF Laid, End
  <2>2. /\ s[1].address \in Nat /\ s[i].address \in Nat /\ Len(s[i].data) \in Nat
        /\ Len(d) \in Nat /\ i \in 1 .. Len(s)
    BY <1>1, <1>2
  <2>3. End(s[i]) <= s[1].address + Len(u)
    <3>1. End(s[i]) = s[i].address + Len(s[i].data)
      BY DEF End
    <3>2. Len(u) >= Len(t)
      <4> HIDE DEF d
      <4> QED BY <1>3, <1>4, <2>2
    <3>3. Len(u) \in Nat
      BY <1>4
    <3> QED BY <1>3, <2>1, <2>2, <3>1, <3>2, <3>3
  <2>4. ASSUME NEW j \in 1 .. Len(s[i].data)
        PROVE  u[(s[i].address - s[1].address) + j] = s[i].data[j]
    <3>1. /\ (s[i].address - s[1].address) + j \in 1 .. Len(t) + Len(d)
          /\ (s[i].address - s[1].address) + j <= Len(t)
      <4> DEFINE a == s[i].address
                 b == s[1].address
                 l == Len(s[i].data)
      <4>1. a \in Nat /\ b \in Nat /\ l \in Nat /\ Len(d) \in Nat /\ Len(t) \in Nat
            /\ b <= a /\ a + l <= b + Len(t) /\ j \in 1 .. l
        BY <1>3, <2>1, <2>2
      <4> HIDE DEF a, b, l, d
      <4>2. (a - b) + j \in 1 .. Len(t) + Len(d) /\ (a - b) + j <= Len(t)
        BY <4>1
      <4> QED BY <4>2 DEF a, b
    <3> HIDE DEF d
    <3> QED BY <1>4, <2>1, <3>1
  <2> QED BY <2>1, <2>3, <2>4
<1>7. /\ s[1].address <= s[k + 1].address /\ End(s[k + 1]) <= s[1].address + Len(u)
      /\ \A j \in 1 .. Len(d) : u[(s[k + 1].address - s[1].address) + j] = d[j]
  <2>1. s[1].address \in Nat /\ s[k + 1].address \in Nat /\ Len(d) \in Nat
    BY <1>1, <1>2
  <2>2. s[1].address <= s[k + 1].address /\ s[k + 1].address - s[1].address = Len(t)
    BY <1>3, <2>1
  <2>3. End(s[k + 1]) <= s[1].address + Len(u)
    BY <1>5, <2>1 DEF End
  <2>4. ASSUME NEW j \in 1 .. Len(d) PROVE u[Len(t) + j] = d[j]
    <3>1. /\ Len(t) + j \in 1 .. Len(t) + Len(d) /\ ~(Len(t) + j <= Len(t))
          /\ (Len(t) + j) - Len(t) = j
      <4> HIDE DEF d
      <4> QED BY <1>3, <2>1
    <3> HIDE DEF d
    <3> QED BY <1>4, <3>1
  <2> QED BY <2>2, <2>3, <2>4
<1>8. \A i \in 1 .. k + 1 : i \in 1 .. k \/ i = k + 1
  BY <1>1
<1> QED BY <1>5, <1>6, <1>7, <1>8 DEF Laid, u

LEMMA LaidAll ==
  ASSUME NEW s \in Seq(Records), s # <<>>, Consecutive(s)
  PROVE  Received(s) \in Seq(Bytes) /\ Laid(s, Len(s), Received(s))
<1> DEFINE N == Len(s)
           seqs == [i \in 1 .. Len(s) |-> s[i].data]
<1>1. N \in Nat \ {0} /\ \A i \in 1 .. N : s[i] \in Records /\ s[i].data \in Seq(Bytes)
  BY RecordsAre, RecordIs
<1>2. seqs \in Seq(Seq(Bytes)) /\ seqs # <<>> /\ Len(seqs) = N /\ \A i \in 1 .. N : seqs[i] = s[i].data
  BY <1>1
<1>3. PICK t \in [1 .. N -> Seq(Bytes)] :
           /\ t[1] = seqs[1] /\ FlattenSeq(seqs) = t[N]
           /\ \A i \in 2 .. N : t[i] = t[i - 1] \o seqs[i]
  <2> HIDE DEF seqs, N
  <2> QED BY <1>2, FlattenIs
<1>4. Received(s) = t[N]
  BY <1>3 DEF Received
<1> HIDE DEF seqs
<1>5. \A i \in 1 .. N - 1 : s[i + 1].address = End(s[i])
  BY DEF Consecutive
<1> DEFINE M == {n \in 0 .. N : n = 0 \/ Laid(s, n, t[n])}
<1>6. 0 \in M /\ M \in SUBSET (0 .. N)
  BY <1>1
<1>7. ASSUME NEW n \in M, n < N PROVE n + 1 \in M
  <2>1. n + 1 \in 0 .. N /\ n \in 0 .. N
    BY <1>1, <1>7
  <2>2. CASE n = 0
    <3>1. t[n + 1] = s[1].data /\ n + 1 = 1
      BY <1>1, <1>2, <1>3, <2>2
    <3>2. Laid(s, n + 1, t[n + 1])
      BY <3>1, LaidFirst
    <3> QED BY <2>1, <3>2
  <2>3. CASE n # 0
    <3>1. /\ n \in 1 .. Len(s) - 1 /\ n \in 1 .. N /\ n + 1 \in 2 .. N /\ n + 1 \in 1 .. N
          /\ (n + 1) - 1 = n
      BY <1>1, <1>7, <2>1, <2>3
    <3>2. t[n] \in Seq(Bytes)
      BY <1>3, <3>1
    <3>3. Laid(s, n, t[n])
      BY <2>3
    <3>4. s[n + 1].address = End(s[n])
      BY <1>5, <3>1
    <3>5. t[n + 1] = t[n] \o s[n + 1].data
      BY <1>2, <1>3, <3>1
    <3>6. Laid(s, n + 1, t[n + 1])
      <4> HIDE DEF M, N
      <4> QED BY <3>1, <3>2, <3>3, <3>4, <3>5, LaidNext
    <3> QED BY <2>1, <3>6
  <2> QED BY <2>2, <2>3
<1>8. Laid(s, N, t[N]) /\ t[N] \in Seq(Bytes)
  <2>1. M = 0 .. N
    <3> HIDE DEF M
    <3> QED BY <1>1, <1>6, <1>7, Upward
  <2>2. N \in M
    <3> HIDE DEF M
    <3> QED BY <1>1, <2>1
  <2>3. Laid(s, N, t[N])
    BY <1>1, <2>2
  <2> QED BY <1>1, <1>3, <2>3
<1> QED BY <1>4, <1>8

(* InPlace of the records s, with the extent they were announced with. *)
LEMMA LaidInPlace ==
  ASSUME NEW s \in Seq(Records), s # <<>>, Consecutive(s), NEW e, e = Extent(s)
  PROVE  /\ e.size = Len(Received(s))
         /\ \A i \in 1 .. Len(s) :
              LET first == s[i].address - e.address
              IN  SubSeq(Received(s), first + 1, first + Len(s[i].data)) = s[i].data
<1> DEFINE t == Received(s)
<1>1. t \in Seq(Bytes) /\ Laid(s, Len(s), t)
  BY LaidAll
<1> HIDE DEF t
<1>2. Len(t) \in Nat /\ Len(s) \in 1 .. Len(s) /\ 1 \in 1 .. Len(s)
  BY <1>1, RecordsAre
<1>3. \A i \in 1 .. Len(s) : /\ s[i].address \in Nat /\ s[i].data \in Seq(Bytes) /\ Len(s[i].data) \in Nat
                             /\ End(s[i]) \in Nat /\ End(s[i]) = s[i].address + Len(s[i].data)
  BY RecordsAre, RecordIs
<1>4. End(s[Len(s)]) = s[1].address + Len(t)
  BY <1>1, <1>2, <1>3 DEF Laid
<1>5. Lowest(s) = s[1].address /\ Highest(s) = s[1].address + Len(t)
  BY <1>1, <1>4, LowestIs, HighestIs DEF Laid
<1>6. e.address = s[1].address /\ e.size = Len(t)
  <2>1. e.address = Lowest(s) /\ e.size = Highest(s) - Lowest(s)
    BY DEF Extent
  <2> QED BY <1>2, <1>3, <1>5, <2>1
<1>7. ASSUME NEW i \in 1 .. Len(s), NEW first, first = s[i].address - s[1].address
      PROVE  SubSeq(t, first + 1, first + Len(s[i].data)) = s[i].data
  <2> DEFINE d == s[i].data
             l == Len(d)
             u == SubSeq(t, first + 1, first + l)
  <2>1. d \in Seq(Bytes) /\ l \in Nat
    BY <1>3
  <2>2. /\ s[1].address \in Nat /\ s[i].address \in Nat /\ s[1].address <= s[i].address
        /\ s[i].address + l <= s[1].address + Len(t)
    BY <1>1, <1>2, <1>3 DEF Laid
  <2>3. \A j \in 1 .. l : t[first + j] = d[j]
    BY <1>1, <1>7 DEF Laid
  <2> HIDE DEF d, l
  <2>4. first \in Nat /\ first + l <= Len(t)
    BY <1>2, <1>7, <2>1, <2>2
  <2>5. \A j \in first + 1 .. first + l : t[j] \in Bytes
    <3>1. \A j \in first + 1 .. first + l : j \in 1 .. Len(t)
      BY <1>2, <2>1, <2>4
    <3> QED BY <1>1, <3>1
  <2>6. /\ u \in Seq(Bytes) /\ Len(u) = IF first + 1 <= first + l THEN (first + l) - (first + 1) + 1 ELSE 0
        /\ \A j \in 1 .. (first + l) - (first + 1) + 1 : u[j] = t[(first + 1) + j - 1]
    <3>1. first + 1 \in Int /\ first + l \in Int
      BY <2>1, <2>4
    <3> QED BY <2>5, <3>1, SubSeqProperties
  <2> HIDE DEF u
  <2>7. Len(u) = l /\ \A j \in 1 .. l : u[j] = t[first + j]
    <3>1. Len(u) = l /\ (first + l) - (first + 1) + 1 = l
      BY <2>1, <2>4, <2>6
    <3>2. \A j \in 1 .. l : (first + 1) + j - 1 = first + j
      BY <2>4
    <3> QED BY <2>6, <3>1, <3>2
  <2>8. u = d
    <3>1. Len(d) = Len(u) /\ \A j \in 1 .. Len(u) : u[j] = d[j]
      BY <2>3, <2>7 DEF l
    <3> QED BY <2>1, <2>6, <3>1, SeqEqual
  <2> QED BY <2>8 DEF u, d, l
<1> QED BY <1>6, <1>7 DEF t

----------------------------------------------------------------------------
(* Numbers and their bytes.                                                  *)

(* Division by ByteMod. *)
LEMMA DivMod ==
  ASSUME NEW a \in Nat
  PROVE  /\ a % ByteMod \in Bytes /\ a \div ByteMod \in Nat
         /\ a = (a \div ByteMod) * ByteMod + (a % ByteMod)
BY ByteAssumption DEF Bytes

LEMMA DivBelow ==
  ASSUME NEW a \in Nat, NEW b \in Nat, a < b * ByteMod
  PROVE  a \div ByteMod < b
<1> DEFINE q == a \div ByteMod
<1>1. q \in Nat /\ q * ByteMod <= a
  BY DivMod, ByteAssumption DEF Bytes
<1> HIDE DEF q
<1>2. ASSUME q >= b PROVE FALSE
  <2>1. ByteMod \in Nat /\ q * ByteMod >= b * ByteMod
    BY <1>1, <1>2, ByteAssumption
  <2>2. q * ByteMod \in Int /\ b * ByteMod \in Int
    BY <1>1, <2>1
  <2> QED BY <1>1, <2>1, <2>2
<1>3. q < b
  BY <1>1, <1>2
<1> QED BY <1>3 DEF q

LEMMA SameMod ==
  ASSUME NEW x \in Nat, NEW y \in Nat, x % ByteMod = y % ByteMod, x - y < ByteMod, y - x < ByteMod
  PROVE  x = y
<1> DEFINE p == x \div ByteMod
           q == y \div ByteMod
           r == x % ByteMod
<1>1. /\ p \in Nat /\ q \in Nat /\ r \in Nat
      /\ x = p * ByteMod + r /\ y = q * ByteMod + r
  BY DivMod DEF Bytes
<1> HIDE DEF p, q, r
<1>2. ByteMod \in Nat \ {0}
  BY ByteAssumption
<1>3. p * ByteMod - q * ByteMod < ByteMod /\ q * ByteMod - p * ByteMod < ByteMod
  BY <1>1, <1>2
<1>4. ASSUME p > q PROVE FALSE
  <2>1. p * ByteMod >= (q + 1) * ByteMod /\ (q + 1) * ByteMod = q * ByteMod + ByteMod
    BY <1>1, <1>2, <1>4
  <2> QED BY <1>1, <1>2, <1>3, <2>1
<1>5. ASSUME p < q PROVE FALSE
  <2>1. q * ByteMod >= (p + 1) * ByteMod /\ (p + 1) * ByteMod = p * ByteMod + ByteMod
    BY <1>1, <1>2, <1>5
  <2> QED BY <1>1, <1>2, <1>3, <2>1
<1>6. p = q
  BY <1>1, <1>4, <1>5
<1> QED BY <1>1, <1>6

(* The number that bytes write, byte by byte. *)
LEMMA BigEndianOf ==
  ASSUME NEW s \in Seq(Nat)
  PROVE  /\ BigEndian(s) \in Nat
         /\ Len(s) = 1 => BigEndian(s) = s[1]
         /\ Len(s) = 2 => BigEndian(s) = s[1] * ByteMod + s[2]
         /\ Len(s) = 3 => BigEndian(s) = (s[1] * ByteMod + s[2]) * ByteMod + s[3]
         /\ Len(s) = 4 => BigEndian(s) = ((s[1] * ByteMod + s[2]) * ByteMod + s[3]) * ByteMod + s[4]
         /\ Len(s) = 5 =>
              BigEndian(s) = (((s[1] * ByteMod + s[2]) * ByteMod + s[3]) * ByteMod + s[4]) * ByteMod + s[5]
<1>1. PICK t \in [0 .. Len(s) -> Nat] :
        t[0] = 0 /\ (\A i \in 1 .. Len(s) : t[i] = t[i - 1] * ByteMod + s[i]) /\ BigEndian(s) = t[Len(s)]
  BY BigEndianIs
<1>2. Len(s) \in Nat /\ ByteMod \in Nat /\ \A i \in 1 .. Len(s) : s[i] \in Nat
  BY ByteAssumption
<1>3. BigEndian(s) \in Nat
  BY <1>1, <1>2
<1>4. Len(s) >= 1 => t[1] = s[1]
  <2>1. SUFFICES ASSUME Len(s) >= 1 PROVE t[1] = s[1]
    OBVIOUS
  <2>2. 1 \in 1 .. Len(s) /\ 1 - 1 = 0 /\ 0 * ByteMod = 0
    BY <1>2, <2>1
  <2>3. t[1] = 0 + s[1]
    BY <1>1, <2>2
  <2> QED BY <1>2, <2>2, <2>3
<1>5. Len(s) >= 2 => t[2] = s[1] * ByteMod + s[2]
  <2>1. 2 - 1 = 1 /\ (Len(s) >= 2 => 2 \in 1 .. Len(s) /\ Len(s) >= 1)
    BY <1>2
  <2>2. Len(s) >= 2 => t[2] = t[1] * ByteMod + s[2]
    BY <1>1, <2>1
  <2> QED BY Zenon, <1>4, <2>1, <2>2
<1>6. Len(s) >= 3 => t[3] = (s[1] * ByteMod + s[2]) * ByteMod + s[3]
  <2>1. 3 - 1 = 2 /\ (Len(s) >= 3 => 3 \in 1 .. Len(s) /\ Len(s) >= 2)
    BY <1>2
  <2>2. Len(s) >= 3 => t[3] = t[2] * ByteMod + s[3]
    BY <1>1, <2>1
  <2> QED BY Zenon, <1>5, <2>1, <2>2
<1>7. Len(s) >= 4 => t[4] = ((s[1] * ByteMod + s[2]) * ByteMod + s[3]) * ByteMod + s[4]
  <2>1. 4 - 1 = 3 /\ (Len(s) >= 4 => 4 \in 1 .. Len(s) /\ Len(s) >= 3)
    BY <1>2
  <2>2. Len(s) >= 4 => t[4] = t[3] * ByteMod + s[4]
    BY <1>1, <2>1
  <2> QED BY Zenon, <1>6, <2>1, <2>2
<1>8. Len(s) >= 5 => t[5] = (((s[1] * ByteMod + s[2]) * ByteMod + s[3]) * ByteMod + s[4]) * ByteMod + s[5]
  <2>1. 5 - 1 = 4 /\ (Len(s) >= 5 => 5 \in 1 .. Len(s) /\ Len(s) >= 4)
    BY <1>2
  <2>2. Len(s) >= 5 => t[5] = t[4] * ByteMod + s[5]
    BY <1>1, <2>1
  <2> QED BY Zenon, <1>7, <2>1, <2>2
<1>9. \A k \in 1 .. 5 : Len(s) = k => Len(s) >= k /\ BigEndian(s) = t[k]
  BY <1>1, <1>2
<1>10. 1 \in 1 .. 5 /\ 2 \in 1 .. 5 /\ 3 \in 1 .. 5 /\ 4 \in 1 .. 5 /\ 5 \in 1 .. 5
  OBVIOUS
<1> QED BY Zenon, <1>3, <1>4, <1>5, <1>6, <1>7, <1>8, <1>9, <1>10

LEMMA AddressLengthIs ==
  ASSUME NEW type \in 0 .. 9
  PROVE  AddressLength(type) \in {0, 2, 3, 4} /\ (isDataRecord(type) => AddressLength(type) # 0)
<1>1. CASE type \in {0, 1, 5, 9}
  BY <1>1 DEF AddressLength
<1>2. CASE type \in {2, 8}
  BY <1>2 DEF AddressLength
<1>3. CASE type \in {3, 7}
  BY <1>3 DEF AddressLength
<1>4. CASE type \in {4, 6}
  BY <1>4 DEF AddressLength, isDataRecord
<1> QED BY <1>1, <1>2, <1>3, <1>4

LEMMA BytesAreNumbers ==
  ASSUME NEW s \in Seq(Bytes)
  PROVE  s \in Seq(Nat)
<1>1. Bytes \subseteq Nat
  BY ByteAssumption DEF Bytes
<1>2. \A i \in 1 .. Len(s) : s[i] \in Nat
  BY <1>1, ElementOfSeq
<1> HIDE DEF Bytes
<1> QED BY <1>2

(* An address is read back as it was written. *)
LEMMA AddressBytesAre ==
  ASSUME NEW w \in Written
  PROVE  LET n == AddressLength(w.type)
         IN  /\ AddressBytes(w) \in Seq(Bytes) /\ Len(AddressBytes(w)) = n
             /\ n # 0 => BigEndian(AddressBytes(w)) = w.address
<1> DEFINE n == AddressLength(w.type)
           a0 == w.address
           a1 == a0 \div ByteMod
           a2 == a1 \div ByteMod
           a3 == a2 \div ByteMod
           b0 == a0 % ByteMod
           b1 == a1 % ByteMod
           b2 == a2 % ByteMod
           b3 == a3 % ByteMod
           all == <<b3, b2, b1, b0>>
           first == <<1>> \o [i \in 1 .. n |-> 0]
<1>1. n \in {0, 2, 3, 4} /\ a0 \in Nat /\ a0 < BigEndian(first)
  BY WrittenAssumption, AddressLengthIs
<1>2. ByteMod \in Nat \ {0}
  BY ByteAssumption
<1>3. /\ a1 \in Nat /\ b0 \in Bytes /\ a0 = a1 * ByteMod + b0
      /\ a2 \in Nat /\ b1 \in Bytes /\ a1 = a2 * ByteMod + b1
      /\ a3 \in Nat /\ b2 \in Bytes /\ a2 = a3 * ByteMod + b2
      /\ b3 \in Bytes
  <2>1. a1 \in Nat /\ b0 \in Bytes /\ a0 = a1 * ByteMod + b0
    BY <1>1, DivMod
  <2> HIDE DEF a1
  <2>2. a2 \in Nat /\ b1 \in Bytes /\ a1 = a2 * ByteMod + b1
    BY <2>1, DivMod
  <2> HIDE DEF a2
  <2>3. a3 \in Nat /\ b2 \in Bytes /\ a2 = a3 * ByteMod + b2
    BY <2>2, DivMod
  <2> HIDE DEF a3
  <2>4. b3 \in Bytes
    BY <2>3, DivMod
  <2> QED BY <2>1, <2>2, <2>3, <2>4
<1>4. first \in Seq(Nat) /\ Len(first) = n + 1 /\ first[1] = 1
      /\ \A i \in 2 .. n + 1 : first[i] = 0
  <2> HIDE DEF n
  <2>1. n \in Nat
    BY <1>1
  <2>2. <<1>> \in Seq(Nat) /\ Len(<<1>>) = 1 /\ <<1>>[1] = 1
    OBVIOUS
  <2>3. [i \in 1 .. n |-> 0] \in Seq(Nat) /\ Len([i \in 1 .. n |-> 0]) = n
        /\ \A i \in 1 .. n : [j \in 1 .. n |-> 0][i] = 0
    BY <2>1
  <2> DEFINE zeros == [i \in 1 .. n |-> 0]
             one == <<1>>
  <2>5. zeros \in Seq(Nat) /\ Len(zeros) = n /\ \A i \in 1 .. n : zeros[i] = 0
    BY <2>3
  <2>6. one \in Seq(Nat) /\ Len(one) = 1 /\ one[1] = 1 /\ first = one \o zeros
    BY <2>2
  <2> HIDE DEF zeros, one, first
  <2>4. /\ first \in Seq(Nat) /\ Len(first) = 1 + n
        /\ \A i \in 1 .. 1 + n : first[i] = IF i <= 1 THEN one[i] ELSE zeros[i - 1]
    <3>1. /\ one \o zeros \in Seq(Nat) /\ Len(one \o zeros) = Len(one) + Len(zeros)
          /\ \A i \in 1 .. Len(one) + Len(zeros) :
               (one \o zeros)[i] = IF i <= Len(one) THEN one[i] ELSE zeros[i - Len(one)]
      BY <2>5, <2>6, ConcatProperties
    <3>2. Len(one) = 1 /\ Len(zeros) = n /\ one \o zeros = first
      BY <2>5, <2>6
    <3> QED BY Zenon, <3>1, <3>2
  <2>9. first[1] = 1
    <3>1. 1 \in 1 .. 1 + n /\ 1 <= 1
      BY <2>1
    <3> QED BY <2>4, <2>6, <3>1
  <2>7. ASSUME NEW i \in 2 .. n + 1 PROVE first[i] = 0
    <3>1. i \in 1 .. 1 + n /\ ~(i <= 1) /\ i - 1 \in 1 .. n
      BY <2>1
    <3> QED BY <2>4, <2>5, <3>1
  <2>8. 1 + n = n + 1
    BY <2>1
  <2> QED BY <2>4, <2>7, <2>8, <2>9
<1>5. AddressBytes(w) = SubSeq(all, 5 - n, 4)
  BY DEF AddressBytes
<1>6. all \in Seq(Bytes) /\ Len(all) = 4 /\ all[1] = b3 /\ all[2] = b2 /\ all[3] = b1 /\ all[4] = b0
  <2> HIDE DEF b0, b1, b2, b3
  <2> QED BY <1>3
<1> HIDE DEF n, a0, a1, a2, a3, b0, b1, b2, b3, all, first
<1>7. \A i \in 5 - n .. 4 : all[i] \in Bytes
  <2>1. \A i \in 5 - n .. 4 : i \in 1 .. Len(all)
    BY <1>1, <1>6
  <2>2. \A i \in 1 .. Len(all) : all[i] \in Bytes
    BY <1>6, ElementOfSeq
  <2> QED BY Zenon, <2>1, <2>2
<1>8. /\ AddressBytes(w) \in Seq(Bytes) /\ Len(AddressBytes(w)) = n
      /\ \A i \in 1 .. n : AddressBytes(w)[i] = all[(5 - n) + i - 1]
  <2>1. 5 - n \in Int /\ 4 \in Int
    BY <1>1
  <2>2. /\ AddressBytes(w) \in Seq(Bytes) /\ Len(AddressBytes(w)) = IF 5 - n <= 4 THEN 4 - (5 - n) + 1 ELSE 0
        /\ \A i \in 1 .. 4 - (5 - n) + 1 : AddressBytes(w)[i] = all[(5 - n) + i - 1]
    BY <1>5, <1>7, <2>1, SubSeqProperties
  <2>3. 4 - (5 - n) + 1 = n /\ (IF 5 - n <= 4 THEN 4 - (5 - n) + 1 ELSE 0) = n
    BY <1>1
  <2> QED BY <2>2, <2>3
<1>9. AddressBytes(w) \in Seq(Nat)
  BY <1>8, BytesAreNumbers
<1>10. b0 \in Nat /\ b1 \in Nat /\ b2 \in Nat /\ b3 \in Nat
  BY <1>3, ByteAssumption DEF Bytes
<1>11. CASE n = 2
  <2>1. BigEndian(AddressBytes(w)) = AddressBytes(w)[1] * ByteMod + AddressBytes(w)[2]
    BY <1>8, <1>9, <1>11, BigEndianOf
  <2>2. AddressBytes(w)[1] = b1 /\ AddressBytes(w)[2] = b0
    <3>1. (5 - n) + 1 - 1 = 3 /\ (5 - n) + 2 - 1 = 4 /\ 1 \in 1 .. n /\ 2 \in 1 .. n
      BY <1>11
    <3> QED BY <1>6, <1>8, <3>1
  <2>3. a0 < (1 * ByteMod + 0) * ByteMod + 0
    <3>1. Len(first) = 3 /\ first[1] = 1 /\ first[2] = 0 /\ first[3] = 0
      BY <1>4, <1>11
    <3> QED BY <1>1, <1>4, <3>1, BigEndianOf
  <2>4. a1 < 1 * ByteMod
    <3>1. 1 * ByteMod \in Nat /\ (1 * ByteMod + 0) * ByteMod + 0 = (1 * ByteMod) * ByteMod
      BY <1>2
    <3> QED BY <1>1, <2>3, <3>1, DivBelow DEF a1
  <2>5. a2 < 1
    BY <1>3, <2>4, DivBelow DEF a2
  <2>6. a1 = b1
    BY <1>2, <1>3, <1>10, <2>5
  <2> QED BY <1>3, <1>8, <2>1, <2>2, <2>6 DEF n, a0
<1>12. CASE n = 3
  <2>1. BigEndian(AddressBytes(w)) =
          (AddressBytes(w)[1] * ByteMod + AddressBytes(w)[2]) * ByteMod + AddressBytes(w)[3]
    BY <1>8, <1>9, <1>12, BigEndianOf
  <2>2. AddressBytes(w)[1] = b2 /\ AddressBytes(w)[2] = b1 /\ AddressBytes(w)[3] = b0
    <3>1. /\ (5 - n) + 1 - 1 = 2 /\ (5 - n) + 2 - 1 = 3 /\ (5 - n) + 3 - 1 = 4
          /\ 1 \in 1 .. n /\ 2 \in 1 .. n /\ 3 \in 1 .. n
      BY <1>12
    <3> QED BY <1>6, <1>8, <3>1
  <2>3. a0 < ((1 * ByteMod + 0) * ByteMod + 0) * ByteMod + 0
    <3>1. Len(first) = 4 /\ first[1] = 1 /\ first[2] = 0 /\ first[3] = 0 /\ first[4] = 0
      BY <1>4, <1>12
    <3> QED BY <1>1, <1>4, <3>1, BigEndianOf
  <2>4. a1 < (1 * ByteMod) * ByteMod
    <3>1. (1 * ByteMod) * ByteMod \in Nat
          /\ ((1 * ByteMod + 0) * ByteMod + 0) * ByteMod + 0 = ((1 * ByteMod) * ByteMod) * ByteMod
      BY <1>2
    <3> QED BY <1>1, <2>3, <3>1, DivBelow DEF a1
  <2>5. a2 < 1 * ByteMod
    <3>1. 1 * ByteMod \in Nat
      BY <1>2
    <3> QED BY <1>3, <2>4, <3>1, DivBelow DEF a2
  <2>6. a3 < 1
    BY <1>3, <2>5, DivBelow DEF a3
  <2>7. a2 = b2
    BY <1>2, <1>3, <1>10, <2>6
  <2> QED BY <1>3, <1>8, <2>1, <2>2, <2>7 DEF n, a0
<1>13. CASE n = 4
  <2>1. BigEndian(AddressBytes(w)) =
          ((AddressBytes(w)[1] * ByteMod + AddressBytes(w)[2]) * ByteMod + AddressBytes(w)[3]) * ByteMod
            + AddressBytes(w)[4]
    BY <1>8, <1>9, <1>13, BigEndianOf
  <2>2. /\ AddressBytes(w)[1] = b3 /\ AddressBytes(w)[2] = b2 /\ AddressBytes(w)[3] = b1
        /\ AddressBytes(w)[4] = b0
    <3>1. /\ (5 - n) + 1 - 1 = 1 /\ (5 - n) + 2 - 1 = 2 /\ (5 - n) + 3 - 1 = 3 /\ (5 - n) + 4 - 1 = 4
          /\ 1 \in 1 .. n /\ 2 \in 1 .. n /\ 3 \in 1 .. n /\ 4 \in 1 .. n
      BY <1>13
    <3> QED BY <1>6, <1>8, <3>1
  <2>3. a0 < (((1 * ByteMod + 0) * ByteMod + 0) * ByteMod + 0) * ByteMod + 0
    <3>1. Len(first) = 5 /\ first[1] = 1 /\ first[2] = 0 /\ first[3] = 0 /\ first[4] = 0 /\ first[5] = 0
      BY <1>4, <1>13
    <3> QED BY <1>1, <1>4, <3>1, BigEndianOf
  <2>4. a1 < ((1 * ByteMod) * ByteMod) * ByteMod
    <3>1. ((1 * ByteMod) * ByteMod) * ByteMod \in Nat
          /\ (((1 * ByteMod + 0) * ByteMod + 0) * ByteMod + 0) * ByteMod + 0
               = (((1 * ByteMod) * ByteMod) * ByteMod) * ByteMod
      BY <1>2
    <3> QED BY <1>1, <2>3, <3>1, DivBelow DEF a1
  <2>5. a2 < (1 * ByteMod) * ByteMod
    <3>1. (1 * ByteMod) * ByteMod \in Nat
      BY <1>2
    <3> QED BY <1>3, <2>4, <3>1, DivBelow DEF a2
  <2>6. a3 < 1 * ByteMod
    <3>1. 1 * ByteMod \in Nat
      BY <1>2
    <3> QED BY <1>3, <2>5, <3>1, DivBelow DEF a3
  <2>7. a3 = b3
    <3>1. a3 \div ByteMod < 1 /\ a3 \div ByteMod \in Nat /\ a3 = (a3 \div ByteMod) * ByteMod + b3
      BY <1>3, <2>6, DivBelow, DivMod DEF b3
    <3> QED BY <1>2, <1>3, <1>10, <3>1
  <2> QED BY <1>3, <1>8, <2>1, <2>2, <2>7 DEF n, a0
<1>14. n # 0 => BigEndian(AddressBytes(w)) = a0
  BY <1>1, <1>11, <1>12, <1>13 DEF n, a0
<1> QED BY <1>8, <1>14 DEF n, a0

----------------------------------------------------------------------------
(* The checksum.                                                             *)

LEMMA ReplaceByte ==
  ASSUME NEW s \in Seq(Bytes), NEW i \in 1 .. Len(s), NEW b \in Bytes
  PROVE  /\ [s EXCEPT ![i] = b] \in Seq(Bytes) /\ Len([s EXCEPT ![i] = b]) = Len(s)
         /\ \A j \in 1 .. Len(s) : [s EXCEPT ![i] = b][j] = IF j = i THEN b ELSE s[j]
<1> DEFINE u == [s EXCEPT ![i] = b]
<1>1. u = [j \in 1 .. Len(s) |-> IF j = i THEN b ELSE s[j]]
  OBVIOUS
<1>2. \A j \in 1 .. Len(s) : s[j] \in Bytes
  BY ElementOfSeq
<1>3. Len(s) \in Nat
  OBVIOUS
<1> HIDE DEF u
<1>4. u \in [1 .. Len(s) -> Bytes]
  BY <1>1, <1>2
<1>5. u \in Seq(Bytes) /\ Len(u) = Len(s)
  BY <1>3, <1>4
<1> QED BY <1>1, <1>5 DEF u

(* One byte that is replaced changes the sum by what it changes itself.      *)
LEMMA TotalDiffers ==
  ASSUME NEW s \in Seq(Bytes), NEW i \in 1 .. Len(s), NEW b \in Bytes
  PROVE  Total(s) \in Nat /\ Total([s EXCEPT ![i] = b]) + s[i] = Total(s) + b
<1> DEFINE u == [s EXCEPT ![i] = b]
           N == Len(s)
<1>1. u \in Seq(Bytes) /\ Len(u) = N /\ \A j \in 1 .. N : u[j] = IF j = i THEN b ELSE s[j]
  BY ReplaceByte
<1> HIDE DEF u
<1>2. s \in Seq(Nat) /\ u \in Seq(Nat) /\ N \in Nat
  BY <1>1, BytesAreNumbers
<1>3. PICK t \in [0 .. N -> Nat] :
        t[0] = 0 /\ (\A j \in 1 .. N : t[j] = t[j - 1] + s[j]) /\ Total(s) = t[N]
  BY <1>2, TotalIs
<1>4. PICK v \in [0 .. N -> Nat] :
        v[0] = 0 /\ (\A j \in 1 .. N : v[j] = v[j - 1] + u[j]) /\ Total(u) = v[N]
  BY <1>1, <1>2, TotalIs
<1>5. b \in Nat /\ \A j \in 1 .. N : s[j] \in Nat
  <2>1. Bytes \subseteq Nat
    BY ByteAssumption DEF Bytes
  <2> QED BY <1>2, <2>1, ElementOfSeq
<1>6. i \in 1 .. N
  OBVIOUS
<1> DEFINE M == {k \in 0 .. N : IF k < i THEN v[k] = t[k] ELSE v[k] + s[i] = t[k] + b}
<1> HIDE DEF N
<1>7. 0 \in M /\ M \in SUBSET (0 .. N)
  <2>1. 0 \in 0 .. N /\ 0 < i
    BY <1>2, <1>6
  <2> QED BY <1>3, <1>4, <2>1
<1>8. ASSUME NEW k \in M, k < N PROVE k + 1 \in M
  <2>1. k + 1 \in 1 .. N /\ k + 1 \in 0 .. N /\ k \in 0 .. N /\ (k + 1) - 1 = k
    BY <1>2, <1>8
  <2>2. t[k + 1] = t[k] + s[k + 1] /\ v[k + 1] = v[k] + u[k + 1]
    BY <1>3, <1>4, <2>1
  <2>3. t[k] \in Nat /\ v[k] \in Nat /\ s[k + 1] \in Nat /\ s[i] \in Nat
    BY <1>3, <1>4, <1>5, <1>6, <2>1
  <2>4. CASE k + 1 < i
    <3>1. u[k + 1] = s[k + 1] /\ k < i
      BY <1>1, <1>6, <2>1, <2>4
    <3> QED BY <2>1, <2>2, <2>4, <3>1
  <2>5. CASE k + 1 = i
    <3>1. u[k + 1] = b /\ k < i /\ ~(k + 1 < i) /\ s[k + 1] = s[i]
      BY <1>1, <1>6, <2>1, <2>5
    <3>2. v[k] = t[k]
      BY <3>1
    <3>3. v[k + 1] = t[k] + b /\ t[k + 1] = t[k] + s[i]
      BY Zenon, <2>2, <3>1, <3>2
    <3>4. v[k + 1] + s[i] = t[k + 1] + b
      BY <1>5, <2>3, <3>3
    <3> QED BY <2>1, <3>1, <3>4
  <2>6. CASE k + 1 > i
    <3>1. u[k + 1] = s[k + 1] /\ ~(k < i) /\ ~(k + 1 < i)
      BY <1>1, <1>6, <2>1, <2>6
    <3>2. v[k] + s[i] = t[k] + b
      BY <3>1
    <3>3. v[k + 1] = v[k] + s[k + 1] /\ t[k + 1] = t[k] + s[k + 1]
      BY Zenon, <2>2, <3>1
    <3> HIDE DEF M
    <3>4. (v[k] + s[k + 1]) + s[i] = (t[k] + s[k + 1]) + b
      BY <1>5, <2>3, <3>2
    <3>5. v[k + 1] + s[i] = t[k + 1] + b
      BY Zenon, <3>3, <3>4
    <3> QED BY <2>1, <3>1, <3>5 DEF M
  <2> QED BY <1>6, <2>1, <2>4, <2>5, <2>6
<1>9. N \in M /\ ~(N < i) /\ N \in 0 .. N
  <2>1. M = 0 .. N
    <3> HIDE DEF M
    <3> QED BY <1>2, <1>7, <1>8, Upward
  <2> HIDE DEF M
  <2> QED BY <1>2, <1>6, <2>1
<1>10. v[N] + s[i] = t[N] + b /\ t[N] \in Nat
  BY <1>3, <1>9
<1> QED BY <1>3, <1>4, <1>10 DEF u

----------------------------------------------------------------------------
(* A line as it was written: its body, and the checksum behind it.           *)
Body(w) == AddressBytes(w) \o w.data
Check(size, body) == ByteMod - 1 - ((size + Total(body)) % ByteMod)

LEMMA BodyIs ==
  ASSUME NEW w \in Written
  PROVE  /\ Body(w) \in Seq(Bytes) /\ Len(Body(w)) = AddressLength(w.type) + Len(w.data)
         /\ w.data \in Seq(Bytes) /\ AddressLength(w.type) \in {0, 2, 3, 4}
         /\ SubSeq(Body(w), 1, AddressLength(w.type)) = AddressBytes(w)
         /\ SubSeq(Body(w), AddressLength(w.type) + 1, Len(Body(w))) = w.data
<1> DEFINE n == AddressLength(w.type)
           a == AddressBytes(w)
           d == w.data
           s == Body(w)
<1>1. a \in Seq(Bytes) /\ Len(a) = n /\ d \in Seq(Bytes) /\ n \in {0, 2, 3, 4}
  BY AddressBytesAre, AddressLengthIs, WrittenAssumption DEF Bytes
<1>2. s = a \o d
  BY DEF Body
<1> HIDE DEF n, a, d, s
<1>3. Len(d) \in Nat /\ n \in Nat
  BY <1>1
<1>4. /\ s \in Seq(Bytes) /\ Len(s) = n + Len(d)
      /\ \A i \in 1 .. n + Len(d) : s[i] = IF i <= n THEN a[i] ELSE d[i - n]
  <2>1. /\ s \in Seq(Bytes) /\ Len(s) = Len(a) + Len(d)
        /\ \A i \in 1 .. Len(a) + Len(d) : s[i] = IF i <= Len(a) THEN a[i] ELSE d[i - Len(a)]
    BY <1>1, <1>2, ConcatProperties
  <2> QED BY Zenon, <1>1, <2>1
<1>5. \A i \in 1 .. n + Len(d) : s[i] \in Bytes
  BY <1>4, ElementOfSeq
<1>6. SubSeq(s, 1, n) = a
  <2> DEFINE u == SubSeq(s, 1, n)
  <2>1. /\ u \in Seq(Bytes) /\ Len(u) = IF 1 <= n THEN n - 1 + 1 ELSE 0
        /\ \A i \in 1 .. n - 1 + 1 : u[i] = s[1 + i - 1]
    <3>1. \A i \in 1 .. n : s[i] \in Bytes
      BY <1>3, <1>5
    <3>2. 1 \in Int /\ n \in Int
      BY <1>3
    <3> QED BY <3>1, <3>2, SubSeqProperties
  <2> HIDE DEF u
  <2>2. Len(u) = n
    BY <1>3, <2>1
  <2>3. ASSUME NEW i \in 1 .. n PROVE u[i] = a[i]
    <3>1. i \in 1 .. n - 1 + 1 /\ 1 + i - 1 = i /\ i \in 1 .. n + Len(d) /\ i <= n
      BY <1>3
    <3> QED BY <1>4, <2>1, <3>1
  <2>4. u = a
    <3>1. Len(u) = Len(a) /\ \A i \in 1 .. Len(u) : u[i] = a[i]
      BY <1>1, <2>2, <2>3
    <3> QED BY <1>1, <2>1, <3>1, SeqEqual
  <2> QED BY <2>4 DEF u
<1>7. SubSeq(s, n + 1, Len(s)) = d
  <2> DEFINE u == SubSeq(s, n + 1, Len(s))
             m == Len(s)
  <2>0. m = n + Len(d)
    BY <1>4
  <2>1. /\ u \in Seq(Bytes) /\ Len(u) = IF n + 1 <= m THEN m - (n + 1) + 1 ELSE 0
        /\ \A i \in 1 .. m - (n + 1) + 1 : u[i] = s[(n + 1) + i - 1]
    <3> HIDE DEF m
    <3>1. \A i \in n + 1 .. m : s[i] \in Bytes
      BY <1>3, <1>5, <2>0
    <3>2. n + 1 \in Int /\ m \in Int
      BY <1>3, <2>0
    <3> QED BY <3>1, <3>2, SubSeqProperties DEF m
  <2> HIDE DEF u, m
  <2>2. Len(u) = Len(d)
    BY <1>3, <2>0, <2>1
  <2>3. ASSUME NEW i \in 1 .. Len(d) PROVE u[i] = d[i]
    <3>1. /\ i \in 1 .. m - (n + 1) + 1 /\ (n + 1) + i - 1 = n + i /\ n + i \in 1 .. n + Len(d)
          /\ ~(n + i <= n) /\ (n + i) - n = i
      BY <1>3, <2>0
    <3>2. u[i] = s[n + i]
      BY <2>1, <3>1
    <3>3. s[n + i] = d[(n + i) - n]
      BY <1>4, <3>1
    <3> QED BY <3>1, <3>2, <3>3
  <2>4. u = d
    <3>1. Len(u) = Len(d) /\ \A i \in 1 .. Len(u) : u[i] = d[i]
      BY <2>2, <2>3
    <3> QED BY <1>1, <2>1, <3>1, SeqEqual
  <2> QED BY <2>4 DEF u, m
<1> QED BY <1>1, <1>4, <1>6, <1>7 DEF n, a, d, s

LEMMA InnerBytes ==
  ASSUME NEW s \in Seq(Bytes), NEW m \in Nat \ {0}, NEW n \in Nat, n <= Len(s), m <= n + 1
  PROVE  /\ SubSeq(s, m, n) \in Seq(Bytes) /\ Len(SubSeq(s, m, n)) = (n + 1) - m
         /\ \A i \in 1 .. (n + 1) - m : SubSeq(s, m, n)[i] = s[(m - 1) + i]
<1> DEFINE u == SubSeq(s, m, n)
<1>1. \A i \in m .. n : s[i] \in Bytes
  <2>1. Len(s) \in Nat
    OBVIOUS
  <2>2. \A i \in m .. n : i \in 1 .. Len(s)
    BY <2>1
  <2> QED BY <2>2, ElementOfSeq
<1>2. /\ u \in Seq(Bytes) /\ Len(u) = IF m <= n THEN n - m + 1 ELSE 0
      /\ \A i \in 1 .. n - m + 1 : u[i] = s[m + i - 1]
  <2>1. m \in Int /\ n \in Int
    OBVIOUS
  <2> QED BY <1>1, <2>1, SubSeqProperties
<1> HIDE DEF u
<1>3. Len(u) = (n + 1) - m
  BY <1>2
<1>4. ASSUME NEW i \in 1 .. (n + 1) - m PROVE u[i] = s[(m - 1) + i]
  <2>1. i \in 1 .. n - m + 1 /\ m + i - 1 = (m - 1) + i
    OBVIOUS
  <2> QED BY <1>2, <2>1
<1> QED BY <1>2, <1>3, <1>4 DEF u

LEMMA CheckIs ==
  ASSUME NEW size \in Nat, NEW body \in Seq(Bytes)
  PROVE  Check(size, body) \in Bytes /\ Total(body) \in Nat
<1>1. Total(body) \in Nat
  <2>1. body \in Seq(Nat) /\ Len(body) \in Nat
    BY BytesAreNumbers
  <2>2. PICK t \in [0 .. Len(body) -> Nat] : Total(body) = t[Len(body)]
    BY <2>1, TotalIs
  <2> QED BY <2>1, <2>2
<1> DEFINE x == (size + Total(body)) % ByteMod
<1>2. x \in Bytes
  BY <1>1, DivMod
<1> HIDE DEF x
<1>3. ByteMod - 1 - x \in Bytes
  BY <1>2, ByteAssumption DEF Bytes
<1> QED BY <1>1, <1>3 DEF Check, x

(* With a byte behind it, what precedes that byte is the body.               *)
LEMMA BehindBody ==
  ASSUME NEW body \in Seq(Bytes), NEW x \in Bytes
  PROVE  /\ Append(body, x) \in Seq(Bytes) /\ Len(Append(body, x)) = Len(body) + 1
         /\ \A i \in 1 .. Len(body) : Append(body, x)[i] = body[i]
         /\ Append(body, x)[Len(body) + 1] = x
         /\ Complement(Len(body) + 1, Append(body, x)) = Check(Len(body) + 1, body)
<1> DEFINE s == Append(body, x)
           n == Len(body)
           u == SubSeq(s, 1, n)
<1>1. /\ s \in Seq(Bytes) /\ Len(s) = n + 1 /\ n \in Nat
      /\ \A i \in 1 .. n : s[i] = body[i]
      /\ s[n + 1] = x
  BY AppendProperties
<1> HIDE DEF s, n
<1>2. /\ u \in Seq(Bytes) /\ Len(u) = (n + 1) - 1 /\ \A i \in 1 .. (n + 1) - 1 : u[i] = s[(1 - 1) + i]
  <2>1. n <= Len(s) /\ 1 <= n + 1 /\ 1 \in Nat \ {0}
    BY <1>1
  <2> QED BY <1>1, <2>1, InnerBytes
<1> HIDE DEF u
<1>3. Len(u) = n /\ \A i \in 1 .. n : u[i] = body[i]
  <2>1. (n + 1) - 1 = n /\ \A i \in 1 .. n : (1 - 1) + i = i
    BY <1>1
  <2> QED BY <1>1, <1>2, <2>1
<1>4. u = body
  <2>1. Len(u) = Len(body) /\ \A i \in 1 .. Len(u) : u[i] = body[i]
    BY <1>3 DEF n
  <2> QED BY <1>2, <2>1, SeqEqual
<1>5. Complement(n + 1, s) = Check(n + 1, body)
  <2>1. (n + 1) - 1 = n
    BY <1>1
  <2> QED BY <1>4, <2>1 DEF Complement, Check, u
<1> QED BY <1>1, <1>5 DEF s, n

LEMMA SoundIs ==
  ASSUME NEW w \in Written
  PROVE  LET n == Len(Body(w)) + 1
             c == Check(n, Body(w))
         IN  /\ c \in Bytes /\ n \in Nat \ {0}
             /\ Sound(w) = [type |-> w.type, count |-> n, bytes |-> Append(Body(w), c)]
<1> DEFINE n == Len(Body(w)) + 1
<1>1. Body(w) \in Seq(Bytes) /\ n \in Nat \ {0}
  BY BodyIs
<1>2. 0 \in Bytes
  BY ByteAssumption DEF Bytes
<1>3. Complement(n, Append(Body(w), 0)) = Check(n, Body(w))
  BY <1>1, <1>2, BehindBody
<1>4. Check(n, Body(w)) \in Bytes
  BY <1>1, CheckIs
<1>5. Sound(w) = [type |-> w.type, count |-> n, bytes |-> Append(Body(w), Complement(n, Append(Body(w), 0)))]
  BY DEF Sound, Body
<1> QED BY <1>1, <1>3, <1>4, <1>5

(* Where one byte is not as it was written, the checksum tells.              *)
LEMMA OneByteTells ==
  ASSUME NEW body \in Seq(Bytes), NEW c \in Bytes, c = Check(Len(body) + 1, body),
         NEW i \in 1 .. Len(body) + 1, NEW b \in Bytes,
         NEW u, u = [Append(body, c) EXCEPT ![i] = b],
         u[Len(body) + 1] = Complement(Len(body) + 1, u)
  PROVE  u = Append(body, c)
<1> DEFINE s == Append(body, c)
           n == Len(body)
<1>1. /\ s \in Seq(Bytes) /\ Len(s) = n + 1 /\ n \in Nat
      /\ \A j \in 1 .. n : s[j] = body[j]
      /\ s[n + 1] = c
  BY BehindBody
<1> HIDE DEF s, n
<1>2. /\ u \in Seq(Bytes) /\ Len(u) = n + 1
      /\ \A j \in 1 .. n + 1 : u[j] = IF j = i THEN b ELSE s[j]
  <2>1. i \in 1 .. Len(s) /\ u = [s EXCEPT ![i] = b]
    BY <1>1 DEF s, n
  <2> QED BY <1>1, <2>1, ReplaceByte
<1>3. SUFFICES s[i] = b
  <2>1. \A j \in 1 .. Len(u) : u[j] = s[j]
    BY <1>2, <1>3
  <2>2. u = s
    BY <1>1, <1>2, <2>1, SeqEqual
  <2> QED BY <2>2 DEF s
<1> DEFINE v == SubSeq(u, 1, n)
<1>4. u[n + 1] = ByteMod - 1 - (((n + 1) + Total(v)) % ByteMod)
  <2>1. (n + 1) - 1 = n
    BY <1>1
  <2> QED BY <2>1 DEF Complement, n
<1>5. v \in Seq(Bytes) /\ Len(v) = n /\ \A j \in 1 .. n : v[j] = u[j]
  <2>1. n <= Len(u) /\ 1 <= n + 1 /\ 1 \in Nat \ {0}
    BY <1>1, <1>2
  <2>2. v \in Seq(Bytes) /\ Len(v) = (n + 1) - 1 /\ \A j \in 1 .. (n + 1) - 1 : v[j] = u[(1 - 1) + j]
    BY <1>1, <1>2, <2>1, InnerBytes
  <2> HIDE DEF v
  <2>3. (n + 1) - 1 = n /\ \A j \in 1 .. n : (1 - 1) + j = j
    BY <1>1
  <2> QED BY <2>2, <2>3
<1> HIDE DEF v
<1>6. c = ByteMod - 1 - (((n + 1) + Total(body)) % ByteMod)
  BY DEF Check, n
<1>7. Total(v) \in Nat /\ Total(body) \in Nat
  BY <1>1, <1>5, CheckIs
<1>8. i \in 1 .. n + 1
  BY DEF n
<1>9. CASE i = n + 1
  <2>1. \A j \in 1 .. Len(v) : v[j] = body[j]
    <3>1. \A j \in 1 .. n : j \in 1 .. n + 1 /\ j # i
      BY <1>1, <1>9
    <3> QED BY <1>1, <1>2, <1>5, <3>1
  <2>2. v = body
    BY <1>5, <2>1, SeqEqual DEF n
  <2>3. u[n + 1] = b
    BY <1>2, <1>8, <1>9
  <2> QED BY <1>1, <1>4, <1>6, <1>9, <2>2, <2>3
<1>10. CASE i # n + 1
  <2>1. i \in 1 .. n
    BY <1>1, <1>8, <1>10
  <2>2. v = [body EXCEPT ![i] = b]
    <3>1. /\ [body EXCEPT ![i] = b] \in Seq(Bytes) /\ Len([body EXCEPT ![i] = b]) = n
          /\ \A j \in 1 .. n : [body EXCEPT ![i] = b][j] = IF j = i THEN b ELSE body[j]
      BY <2>1, ReplaceByte DEF n
    <3>2. \A j \in 1 .. n : v[j] = IF j = i THEN b ELSE body[j]
      <4>1. \A j \in 1 .. n : j \in 1 .. n + 1
        BY <1>1
      <4> QED BY <1>1, <1>2, <1>5, <4>1
    <3>3. \A j \in 1 .. Len(v) : v[j] = [body EXCEPT ![i] = b][j]
      BY <1>5, <3>1, <3>2
    <3> QED BY <1>5, <3>1, <3>3, SeqEqual
  <2>3. Total(v) + body[i] = Total(body) + b
    BY <2>1, <2>2, TotalDiffers DEF n
  <2>4. u[n + 1] = c
    <3>1. n + 1 \in 1 .. n + 1
      BY <1>1
    <3> QED BY <1>1, <1>2, <1>10, <3>1
  <2> DEFINE x == (n + 1) + Total(v)
             y == (n + 1) + Total(body)
  <2>5. x \in Nat /\ y \in Nat
    BY <1>1, <1>7
  <2>6. x % ByteMod = y % ByteMod
    <3>1. x % ByteMod \in Bytes /\ y % ByteMod \in Bytes
      BY <2>5, DivMod
    <3>2. ByteMod - 1 - (x % ByteMod) = ByteMod - 1 - (y % ByteMod)
      BY <1>4, <1>6, <2>4
    <3> HIDE DEF x, y
    <3> DEFINE p == x % ByteMod
               q == y % ByteMod
    <3> HIDE DEF p, q
    <3>3. p \in Bytes /\ q \in Bytes /\ ByteMod - 1 - p = ByteMod - 1 - q
      BY <3>1, <3>2 DEF p, q
    <3>4. p = q
      BY <3>3, ByteAssumption DEF Bytes
    <3> QED BY <3>4 DEF p, q
  <2>7. body[i] \in Bytes /\ b \in Bytes
    BY <2>1, ElementOfSeq DEF n
  <2>8. x + body[i] = y + b
    <3> DEFINE tv == Total(v)
               tb == Total(body)
               a == body[i]
    <3>1. tv \in Nat /\ tb \in Nat /\ a \in Nat /\ b \in Nat /\ n \in Nat /\ tv + a = tb + b
      BY <1>1, <1>7, <2>3, <2>7, ByteAssumption DEF Bytes
    <3> HIDE DEF tv, tb, a
    <3>2. ((n + 1) + tv) + a = ((n + 1) + tb) + b
      BY <3>1
    <3> QED BY <3>2 DEF tv, tb, a
  <2> HIDE DEF x, y
  <2>9. x - y < ByteMod /\ y - x < ByteMod
    BY <2>5, <2>7, <2>8, ByteAssumption DEF Bytes
  <2>10. x = y
    BY <2>5, <2>6, <2>9, SameMod
  <2>11. body[i] = b
    BY <2>5, <2>7, <2>8, <2>10, ByteAssumption DEF Bytes
  <2> QED BY <1>1, <2>1, <2>11
<1> QED BY <1>9, <1>10

(* The record of a line as it was written is the one that was written.       *)
LEMMA RecordOfSound ==
  ASSUME NEW w \in Written, isDataRecord(w.type)
  PROVE  Record(Sound(w)) = [type |-> w.type, address |-> w.address, data |-> w.data]
<1> DEFINE n == AddressLength(w.type)
           m == Len(Body(w))
           s == Append(Body(w), Check(m + 1, Body(w)))
<1>1. /\ Body(w) \in Seq(Bytes) /\ m = n + Len(w.data) /\ Len(w.data) \in Nat
      /\ SubSeq(Body(w), 1, n) = AddressBytes(w) /\ SubSeq(Body(w), n + 1, m) = w.data
  BY BodyIs
<1>2. n \in {2, 3, 4}
  BY AddressLengthIs, WrittenAssumption
<1>3. BigEndian(AddressBytes(w)) = w.address
  BY <1>2, AddressBytesAre
<1>4. Sound(w) = [type |-> w.type, count |-> m + 1, bytes |-> s] /\ Check(m + 1, Body(w)) \in Bytes
  BY SoundIs
<1>5. s \in Seq(Bytes) /\ Len(s) = m + 1 /\ \A i \in 1 .. m : s[i] = Body(w)[i]
  BY <1>1, <1>4, BehindBody
<1> HIDE DEF s
<1>6. m \in Nat /\ n \in Nat /\ n <= m
  <2> HIDE DEF n, m
  <2> QED BY <1>1, <1>2
<1>7. ASSUME NEW a \in Nat \ {0}, NEW e \in Nat, e <= m, a <= e + 1
      PROVE  SubSeq(s, a, e) = SubSeq(Body(w), a, e)
  <2> DEFINE u == SubSeq(s, a, e)
             v == SubSeq(Body(w), a, e)
  <2>1. u \in Seq(Bytes) /\ Len(u) = (e + 1) - a /\ \A i \in 1 .. (e + 1) - a : u[i] = s[(a - 1) + i]
    <3>1. e <= Len(s)
      BY <1>5, <1>6, <1>7
    <3> QED BY <1>5, <1>7, <3>1, InnerBytes
  <2>2. v \in Seq(Bytes) /\ Len(v) = (e + 1) - a
        /\ \A i \in 1 .. (e + 1) - a : v[i] = Body(w)[(a - 1) + i]
    BY <1>1, <1>7, InnerBytes
  <2> HIDE DEF u, v, m
  <2>3. \A i \in 1 .. (e + 1) - a : (a - 1) + i \in 1 .. m
    BY <1>6, <1>7
  <2>4. \A i \in 1 .. Len(u) : u[i] = v[i]
    BY <1>5, <2>1, <2>2, <2>3
  <2>5. u = v
    BY <2>1, <2>2, <2>4, SeqEqual
  <2> QED BY <2>5 DEF u, v
<1>8. SubSeq(s, 1, n) = AddressBytes(w)
  <2>1. 1 \in Nat \ {0} /\ 1 <= n + 1
    BY <1>6
  <2> HIDE DEF n, m
  <2> QED BY <1>1, <1>6, <1>7, <2>1
<1>9. SubSeq(s, n + 1, m) = w.data
  <2>1. n + 1 \in Nat \ {0} /\ n + 1 <= m + 1 /\ m <= m
    BY <1>6
  <2> HIDE DEF n, m
  <2> QED BY <1>1, <1>6, <1>7, <2>1
<1>10. (m + 1) - 1 = m
  BY <1>6
<1>11. /\ Sound(w).type = w.type /\ Sound(w).count = m + 1 /\ Sound(w).bytes = s
  BY <1>4
<1>12. Record(Sound(w)) =
         [type |-> w.type, address |-> BigEndian(SubSeq(s, 1, n)), data |-> SubSeq(s, n + 1, (m + 1) - 1)]
  BY <1>11 DEF Record
<1> QED BY Zenon, <1>3, <1>8, <1>9, <1>10, <1>12

----------------------------------------------------------------------------
(* Lines as they were written and as they are typed.                         *)

(* A line of which one byte is another.                                      *)
WithByte(line, i, b) == [line EXCEPT !.bytes[i] = b]

LEMMA Patched ==
  ASSUME NEW l, NEW t, NEW m, NEW s, NEW i, NEW b, l = [type |-> t, count |-> m, bytes |-> s]
  PROVE  WithByte(l, i, b) = [type |-> t, count |-> m, bytes |-> [s EXCEPT ![i] = b]]
<1>1. l.bytes = s
  OBVIOUS
<1> DEFINE u == [s EXCEPT ![i] = b]
<1>2. [l EXCEPT !.bytes[i] = b] = [l EXCEPT !.bytes = u]
  BY <1>1
<1> HIDE DEF u
<1>3. [l EXCEPT !.bytes = u] = [type |-> t, count |-> m, bytes |-> u]
  OBVIOUS
<1> QED BY <1>2, <1>3 DEF u, WithByte

(* What can be typed for a line of the file.                                 *)
LEMMA LineIs ==
  ASSUME NEW line \in TypedLines
  PROVE  \E w \in Written :
           \/ line = Sound(w)
           \/ \E i \in 1 .. Len(Sound(w).bytes), b \in Bytes : line = WithByte(Sound(w), i, b)
           \/ \E n \in 0 .. ByteMod - 1 : line = [Sound(w) EXCEPT !.count = n]
           \/ \E t \in 0 .. 9 : ~isDataRecord(t) /\ line = [Sound(w) EXCEPT !.type = t]
<1>1. PICK w \in Written : line \in {Sound(w)} \cup Damaged(Sound(w))
  BY DEF TypedLines
<1> DEFINE s == Sound(w)
<1> HIDE DEF s
<1>2. line = s \/ line \in Damaged(s)
  BY <1>1 DEF s
<1>3. ASSUME line \in Damaged(s)
      PROVE  \/ \E i \in 1 .. Len(s.bytes), b \in Bytes : line = WithByte(s, i, b)
             \/ \E n \in 0 .. ByteMod - 1 : line = [s EXCEPT !.count = n]
             \/ \E t \in 0 .. 9 : ~isDataRecord(t) /\ line = [s EXCEPT !.type = t]
  BY <1>3 DEF Damaged, Bytes, WithByte
<1> QED BY <1>2, <1>3 DEF s

(* A line that can be read is as it was written, unless a count that is too  *)
(* small finds a byte of the data to be its checksum.                        *)
LEMMA ReadableIsSound ==
  ASSUME CountsTell, NEW line \in Readable
  PROVE  \E w \in Written : isDataRecord(w.type) /\ line = Sound(w)
<1>1. line \in TypedLines /\ Accepted(line) /\ isDataRecord(line.type)
  BY DEF Readable
<1>2. PICK w \in Written :
        \/ line = Sound(w)
        \/ \E i \in 1 .. Len(Sound(w).bytes), b \in Bytes : line = WithByte(Sound(w), i, b)
        \/ \E n \in 0 .. ByteMod - 1 : line = [Sound(w) EXCEPT !.count = n]
        \/ \E t \in 0 .. 9 : ~isDataRecord(t) /\ line = [Sound(w) EXCEPT !.type = t]
  BY <1>1, LineIs
<1> DEFINE m == Len(Body(w)) + 1
           c == Check(m, Body(w))
           s == Append(Body(w), c)
<1>3. /\ Sound(w) = [type |-> w.type, count |-> m, bytes |-> s] /\ c \in Bytes /\ m \in Nat \ {0}
      /\ Body(w) \in Seq(Bytes)
  BY SoundIs, BodyIs
<1>4. Len(s) = m
  BY <1>3, BehindBody
<1>5. /\ line.count >= 3 /\ line.count <= Len(line.bytes)
      /\ line.bytes[line.count] = Complement(line.count, line.bytes)
  BY <1>1 DEF Accepted
<1> HIDE DEF c, s, m
<1>6. Sound(w).type = w.type /\ Sound(w).count = m /\ Sound(w).bytes = s
  BY <1>3
<1>7. ASSUME NEW i \in 1 .. Len(Sound(w).bytes), NEW b \in Bytes, line = WithByte(Sound(w), i, b)
      PROVE  line = Sound(w)
  <2> DEFINE u == [s EXCEPT ![i] = b]
  <2>1. line = [type |-> w.type, count |-> m, bytes |-> u]
    BY <1>3, <1>7, Patched
  <2> HIDE DEF u
  <2>2. line.count = m /\ line.bytes = u
    BY <2>1
  <2>3. u[m] = Complement(m, u)
    BY <1>5, <2>2
  <2>4. i \in 1 .. m
    BY <1>4, <1>6
  <2>5. u = s
    BY <1>3, <2>3, <2>4, OneByteTells DEF u, s, c, m
  <2> QED BY <1>3, <2>1, <2>5
<1>8. ASSUME NEW n \in 0 .. ByteMod - 1, line = [Sound(w) EXCEPT !.count = n]
      PROVE  line = Sound(w)
  <2>1. line = [type |-> w.type, count |-> n, bytes |-> s]
    BY <1>3, <1>8
  <2>2. n >= 3 /\ n <= m /\ s[n] = Complement(n, s) /\ n \in Nat
    BY <1>4, <1>5, <2>1, ByteAssumption
  <2>3. n \notin 3 .. m - 1
    BY <1>6, <2>2 DEF CountsTell
  <2>4. n = m
    BY <1>3, <2>2, <2>3
  <2> QED BY <1>3, <2>1, <2>4
<1>9. ASSUME NEW t \in 0 .. 9, ~isDataRecord(t), line = [Sound(w) EXCEPT !.type = t]
      PROVE  FALSE
  <2>1. line.type = t
    BY <1>3, <1>9
  <2> QED BY <1>1, <1>9, <2>1
<1>10. line = Sound(w)
  BY <1>2, <1>7, <1>8, <1>9
<1> QED BY <1>1, <1>6, <1>10

LEMMA ReadableWritten ==
  ASSUME CountsTell, NEW line \in Readable
  PROVE  \E w \in Written :
           isDataRecord(w.type) /\ Record(line) = [type |-> w.type, address |-> w.address, data |-> w.data]
BY ReadableIsSound, RecordOfSound

(* Whatever was damaged, what is staged is a record.                         *)
LEMMA ReadableIsRecord ==
  ASSUME NEW line \in Readable
  PROVE  Record(line) \in Records
<1>1. line \in TypedLines /\ Accepted(line) /\ isDataRecord(line.type)
  BY DEF Readable
<1>2. line.bytes \in Seq(Bytes) /\ line.count \in Int /\ line.type \in 0 .. 9
  <2>1. PICK w \in Written :
          \/ line = Sound(w)
          \/ \E i \in 1 .. Len(Sound(w).bytes), b \in Bytes : line = WithByte(Sound(w), i, b)
          \/ \E n \in 0 .. ByteMod - 1 : line = [Sound(w) EXCEPT !.count = n]
          \/ \E t \in 0 .. 9 : ~isDataRecord(t) /\ line = [Sound(w) EXCEPT !.type = t]
    BY <1>1, LineIs
  <2> DEFINE m == Len(Body(w)) + 1
             s == Append(Body(w), Check(m, Body(w)))
  <2>2. /\ Sound(w) = [type |-> w.type, count |-> m, bytes |-> s] /\ Check(m, Body(w)) \in Bytes
        /\ m \in Nat /\ Body(w) \in Seq(Bytes) /\ w.type \in 0 .. 9
    BY SoundIs, BodyIs, WrittenAssumption
  <2>3. s \in Seq(Bytes)
    BY <2>2, BehindBody
  <2> HIDE DEF m, s
  <2>4. Sound(w).bytes = s
    BY <2>2
  <2>5. ASSUME NEW i \in 1 .. Len(s), NEW b \in Bytes, line = WithByte(Sound(w), i, b)
        PROVE  line.bytes \in Seq(Bytes) /\ line.count = m /\ line.type = w.type
    <3>1. [s EXCEPT ![i] = b] \in Seq(Bytes)
      BY <2>3, ReplaceByte
    <3>2. line = [type |-> w.type, count |-> m, bytes |-> [s EXCEPT ![i] = b]]
      BY <2>2, <2>5, Patched
    <3> QED BY <3>1, <3>2
  <2>6. CASE line = Sound(w)
    BY <2>2, <2>3, <2>6
  <2>7. CASE \E n \in 0 .. ByteMod - 1 : line = [Sound(w) EXCEPT !.count = n]
    BY <2>2, <2>3, <2>7
  <2>8. CASE \E t \in 0 .. 9 : ~isDataRecord(t) /\ line = [Sound(w) EXCEPT !.type = t]
    BY <2>2, <2>3, <2>8
  <2> QED BY <2>1, <2>2, <2>4, <2>5, <2>6, <2>7, <2>8
<1> DEFINE n == AddressLength(line.type)
           e == line.count - 1
<1>3. n \in {2, 3, 4} /\ line.count >= n + 1 /\ line.count <= Len(line.bytes)
  BY <1>1, <1>2, AddressLengthIs DEF Accepted
<1>4. n \in Nat /\ e \in Nat /\ n <= e /\ e <= Len(line.bytes) /\ Len(line.bytes) \in Nat
  <2>1. Len(line.bytes) \in Nat
    BY <1>2
  <2> HIDE DEF n
  <2> QED BY <1>2, <1>3, <2>1
<1> HIDE DEF n, e
<1>5. SubSeq(line.bytes, 1, n) \in Seq(Bytes)
  <2>1. n <= Len(line.bytes) /\ 1 <= n + 1 /\ 1 \in Nat \ {0}
    BY <1>4
  <2> QED BY <1>2, <1>4, <2>1, InnerBytes
<1>6. SubSeq(line.bytes, n + 1, e) \in Seq(Bytes)
  <2>1. n + 1 \in Nat \ {0} /\ n + 1 <= e + 1
    BY <1>4
  <2> QED BY <1>2, <1>4, <2>1, InnerBytes
<1>7. BigEndian(SubSeq(line.bytes, 1, n)) \in Nat
  BY <1>5, BytesAreNumbers, BigEndianOf
<1>8. Record(line) = [type |-> line.type, address |-> BigEndian(SubSeq(line.bytes, 1, n)),
                      data |-> SubSeq(line.bytes, n + 1, e)]
  BY DEF Record, n, e
<1> QED BY <1>2, <1>6, <1>7, <1>8 DEF Records

----------------------------------------------------------------------------
(* How the sequence moves, and what it asks for meanwhile.                   *)

(* The steps before the download is asked for, and those after it.           *)
Starting == {"Idle", "RequestErase"}
Sending == {"TransferData", "VerifyChecksum", "Done"}

Phase ==
  /\ flash.opening => flash.step = "Idle"
  /\ flash.active => flash.step \in Starting \cup Sending
  /\ flash.active /\ flash.step \in Starting => asked.kind # "Download"

Same == asked' = asked \/ asked'.kind # "Download"
Moves ==
  /\ Phase'
  /\ flash'.staged = flash.staged \/ (flash'.staged = 0 /\ ~flash'.active)
  /\ \/ Same /\ (flash'.active /\ flash'.step \in Sending => flash.active /\ flash.step \in Sending)
     \/ /\ asked' # asked /\ asked'.kind = "Download"
        /\ flash.staged > 0 /\ flash'.staged = flash.staged
  /\ flash.active /\ flash'.step = "Done" => flash.step \in Sending

(* A step that leaves the flash alone, or ends it, and asks for no download. *)
LEMMA MovesNot ==
  ASSUME Phase, asked' = asked \/ asked'.kind # "Download",
         flash' = flash \/ flash' = [flash EXCEPT !.active = FALSE],
         flash \in Flashes
  PROVE  Moves
<1>1. /\ flash'.step = flash.step /\ flash'.staged = flash.staged /\ flash'.opening = flash.opening
      /\ flash'.active => flash.active
  BY DEF Flashes
<1>2. Phase'
  BY <1>1 DEF Phase
<1>3. flash'.active /\ flash'.step \in Sending => flash.active /\ flash.step \in Sending
  BY <1>1
<1>4. flash.active /\ flash'.step = "Done" => flash.step \in Sending
  BY <1>1 DEF Sending
<1> QED BY <1>1, <1>2, <1>3, <1>4 DEF Moves, Same

LEMMA SessionMoves == ASSUME Phase, flash \in Flashes, NEW r, OnFlashSession(r) PROVE Moves
<1>1. flash.opening /\ flash.step = "Idle"
  BY DEF OnFlashSession, Claimed, Phase
<1>2. CASE flash' = [flash EXCEPT !.opening = FALSE, !.active = FALSE] /\ Settle
  <2>1. /\ flash'.step = flash.step /\ flash'.staged = flash.staged /\ ~flash'.opening
        /\ ~flash'.active /\ asked' = asked
    BY <1>2 DEF Flashes, Settle, out
  <2> QED BY <1>1, <2>1 DEF Moves, Same, Phase, Sending
<1>3. CASE /\ flash' = [flash EXCEPT !.opening = FALSE, !.step = AfterRequest(flash.step)]
           /\ SendAndWait(<<Ask(Emits[flash.step])>>)
  <2>1. AfterRequest("Idle") = "RequestErase" /\ Emits["Idle"] = "Erase"
    BY DEF AfterRequest, Emits
  <2>2. /\ flash'.step = "RequestErase" /\ flash'.staged = flash.staged /\ ~flash'.opening
    BY <1>1, <1>3, <2>1 DEF Flashes
  <2>3. asked'.kind = "Erase"
    BY <1>1, <1>3, <2>1, SendsIt DEF SendAndWait, Ask
  <2> QED BY <2>2, <2>3 DEF Moves, Same, Phase, Sending, Starting
<1> QED BY <1>2, <1>3 DEF OnFlashSession

LEMMA ReplyMoves ==
  ASSUME Phase, flash \in Flashes, NEW service, OnFlash(service), ~flash.opening
  PROVE  Moves
<1> DEFINE step == AfterPositive(flash.step, service)
           moved == [flash EXCEPT !.step = step]
<1>1. flash.active /\ flash.step \in Starting \cup Sending
  BY DEF OnFlash, Phase
<1>2. /\ flash.step = "Idle" => step = "Idle"
      /\ flash.step = "RequestErase" => step \in {"RequestErase", "RequestDownload"}
      /\ flash.step = "TransferData" => step = "TransferData"
      /\ flash.step = "VerifyChecksum" => step \in {"VerifyChecksum", "Done"}
      /\ flash.step = "Done" => step = "Done"
  BY DEF AfterPositive
<1>3. \/ step = flash.step
      \/ flash.step = "RequestErase" /\ step = "RequestDownload"
      \/ flash.step = "VerifyChecksum" /\ step = "Done"
  BY <1>1, <1>2 DEF Starting, Sending
<1>4. AfterRequest("VerifyChecksum") = "Done" /\ AfterRequest("RequestDownload") = "TransferData"
      /\ Emits["VerifyChecksum"] = "Verify" /\ Emits["RequestDownload"] = "Download"
  BY DEF AfterRequest, Emits
<1> HIDE DEF step
<1>5. /\ moved.step = step /\ moved.staged = flash.staged /\ ~moved.opening
      /\ moved.active = flash.active /\ moved.index = flash.index
  BY DEF Flashes
<1>6. /\ [moved EXCEPT !.active = FALSE].step = step /\ ~[moved EXCEPT !.active = FALSE].opening
      /\ [moved EXCEPT !.active = FALSE].staged = flash.staged /\ ~[moved EXCEPT !.active = FALSE].active
  BY DEF Flashes
<1>7. CASE flash' = [moved EXCEPT !.active = FALSE] /\ Settle /\ (step = "Done" \/ step = "RequestDownload")
  <2>1. asked' = asked
    BY <1>7 DEF Settle, out
  <2> HIDE DEF moved
  <2>2. /\ flash'.step = step /\ ~flash'.opening /\ flash'.staged = flash.staged /\ ~flash'.active
    BY <1>6, <1>7
  <2> QED BY <1>3, <1>7, <2>1, <2>2 DEF Moves, Same, Phase, Sending, Starting
<1>8. CASE /\ step = "VerifyChecksum" \/ (step = "RequestDownload" /\ flash.staged > 0)
           /\ flash' = [moved EXCEPT !.step = AfterRequest(step)]
           /\ SendAndWait(<<Ask(Emits[step])>>)
  <2>1. /\ flash'.step = AfterRequest(step) /\ ~flash'.opening /\ flash'.staged = flash.staged
        /\ flash'.active = flash.active
    BY <1>8 DEF Flashes
  <2>2. asked'.kind = Emits[step]
    BY <1>8, SendsIt DEF SendAndWait, Ask
  <2>3. CASE step = "VerifyChecksum"
    BY <1>3, <1>4, <2>1, <2>2, <2>3, <1>1 DEF Moves, Same, Phase, Sending, Starting
  <2>4. CASE step = "RequestDownload" /\ flash.staged > 0
    <3>1. flash.step = "RequestErase"
      BY <1>1, <1>3, <2>4 DEF Starting, Sending
    <3>2. asked.kind # "Download" /\ asked'.kind = "Download" /\ flash'.step = "TransferData"
      BY <1>1, <1>4, <2>1, <2>2, <2>4, <3>1 DEF Phase, Starting
    <3> QED BY <1>1, <2>1, <2>4, <3>1, <3>2 DEF Moves, Phase, Starting, Sending
  <2> QED BY <1>8, <2>3, <2>4
<1>9. CASE /\ step = "TransferData" /\ flash.index < flash.staged
           /\ flash' = [moved EXCEPT !.index = @ + 1]
           /\ SendAndWait(<<Req(ecu, "Block", flash.index + 1)>>)
  <2>1. /\ flash'.step = step /\ ~flash'.opening /\ flash'.staged = flash.staged
        /\ flash'.active = flash.active
    BY <1>9 DEF Flashes
  <2>2. asked'.kind = "Block"
    BY <1>9, SendsIt DEF SendAndWait
  <2> QED BY <1>1, <1>3, <1>9, <2>1, <2>2 DEF Moves, Same, Phase, Sending, Starting
<1>10. CASE flash' = moved /\ Settle /\ (step = "TransferData" \/ step \in {"Idle", "RequestErase"})
  <2>1. asked' = asked
    BY <1>10 DEF Settle, out
  <2>2. step = flash.step
    BY <1>3, <1>10
  <2> HIDE DEF moved
  <2>3. /\ flash'.step = flash.step /\ flash'.active = flash.active /\ ~flash'.opening
        /\ flash'.staged = flash.staged
    BY <1>5, <1>10, <2>2
  <2> QED BY <1>1, <1>10, <2>1, <2>3 DEF Moves, Same, Phase, Sending, Starting
<1> QED
  BY <1>7, <1>8, <1>9, <1>10 DEF OnFlash, step

LEMMA CommandMoves ==
  ASSUME Phase, flash \in Flashes, FlashBegin \/ FlashEnd \/ FlashCancel
  PROVE  Moves
<1>1. CASE FlashBegin
  <2>1. flash' = [active |-> TRUE, opening |-> TRUE, step |-> "Idle", staged |-> flash.staged, index |-> 0]
        /\ SendAndWait(<<Ask("Program")>>)
    BY <1>1 DEF FlashBegin
  <2>2. asked'.kind = "Program"
    BY <2>1, SendsIt DEF SendAndWait, Ask
  <2>3. flash'.step = "Idle" /\ flash'.staged = flash.staged
    BY <2>1
  <2> QED BY <2>2, <2>3 DEF Moves, Same, Phase, Sending, Starting
<1>2. CASE FlashEnd
  <2>1. /\ flash.active /\ flash.step = "TransferData"
        /\ flash' = [flash EXCEPT !.step = AfterRequest(FinishTransfer(flash.step))]
        /\ SendAndWait(<<Ask(Emits[FinishTransfer(flash.step)])>>)
    BY <1>2 DEF FlashEnd
  <2>2. FinishTransfer("TransferData") = "RequestTransferExit"
    BY DEF FinishTransfer
  <2>3. AfterRequest("RequestTransferExit") = "VerifyChecksum" /\ Emits["RequestTransferExit"] = "Exit"
    BY DEF AfterRequest, Emits
  <2>4. flash'.step = "VerifyChecksum" /\ flash'.staged = flash.staged /\ flash'.opening = flash.opening
    BY <2>1, <2>2, <2>3 DEF Flashes
  <2>5. asked'.kind = "Exit" /\ ~flash.opening
    BY <2>1, <2>2, <2>3, SendsIt DEF SendAndWait, Ask, Phase
  <2> QED BY <2>1, <2>4, <2>5 DEF Moves, Same, Phase, Sending, Starting
<1>3. CASE FlashCancel
  <2>1. flash' = [flash EXCEPT !.active = FALSE, !.staged = 0, !.index = 0] /\ UNCHANGED out
    BY <1>3 DEF FlashCancel
  <2>2. /\ ~flash'.active /\ flash'.staged = 0 /\ asked' = asked /\ flash'.step = flash.step
        /\ flash'.opening = flash.opening
    BY <2>1 DEF Flashes, out
  <2> QED BY <2>2 DEF Moves, Same, Phase, Sending
<1> QED BY <1>1, <1>2, <1>3

(* No procedure asks for a download. *)
LEMMA ProcedureSteps ==
  ASSUME NEW name \in DOMAIN Procedures
  PROVE  /\ Len(Procedures[name]) \in Nat
         /\ \A i \in 1 .. Len(Procedures[name]) : Procedures[name][i] # "Download"
<1>1. CASE name \in {"EspCalib", "BsiInit"}
  <2>1. Procedures[name] = <<"Routine", "Clear">>
    BY <1>1 DEF Procedures
  <2> QED BY <2>1
<1>2. CASE name \in Plain
  BY <1>2, PlainSteps
<1> QED BY <1>1, <1>2 DEF Plain

LEMMA ProcedureAsks ==
  ASSUME NEW p, p.name \in DOMAIN Procedures, p.step \in Nat, AdvanceProcedure(p)
  PROVE  asked' = asked \/ asked'.kind # "Download"
<1> DEFINE n == p.step + 1
           kinds == Procedures[p.name]
<1>1. CASE n <= Len(kinds) /\ SendAndWait(<<Req(ecu, kinds[n], n)>>)
  <2>1. asked'.kind = kinds[n]
    BY <1>1, SendsIt DEF SendAndWait
  <2>2. n \in Nat \ {0}
    OBVIOUS
  <2>3. Len(kinds) \in Nat /\ \A i \in 1 .. Len(kinds) : kinds[i] # "Download"
    BY ProcedureSteps
  <2> HIDE DEF kinds, n
  <2>4. n \in 1 .. Len(kinds)
    BY <1>1, <2>2, <2>3
  <2> QED BY <2>1, <2>3, <2>4
<1>2. CASE Settle
  BY <1>2 DEF Settle, out
<1> QED BY <1>1, <1>2 DEF AdvanceProcedure

LEMMA StepMoves == ASSUME Inv, Phase, [Next]_vars, ~FlashStage PROVE Moves
<1>0. flash \in Flashes
  BY DEF Inv, FlashIn
<1>1. CASE Idly
  <2>1. asked' = asked \/ asked'.kind # "Download"
    BY <1>1 DEF Idly, Reads, Writes
  <2> QED BY <1>0, <1>1, <2>1, MovesNot DEF Idly
<1>2. CASE OnProcedure \/ WriteCommand \/ \E name \in DOMAIN Procedures : StartProcedure(name)
  <2>1. UNCHANGED flash
    BY <1>2 DEF OnProcedure, WriteCommand, PlainAsk, jobs, StartProcedure
  <2>2. asked' = asked \/ asked'.kind # "Download"
    <3>1. CASE WriteCommand
      <4>1. PICK c \in DOMAIN WriteAsks : PlainAsk(c, WriteAsks[c])
        BY <3>1 DEF WriteCommand
      <4>2. WriteAsks[c] # "Download"
        BY DEF WriteAsks
      <4> QED BY <4>1, <4>2, SendsIt DEF PlainAsk, Ask, SendAndWait
    <3>2. CASE OnProcedure
      <4>1. AdvanceProcedure(proc) /\ proc # NoProc
        BY <3>2 DEF OnProcedure
      <4>2. proc.name \in DOMAIN Procedures /\ proc.step \in Nat
        BY <4>1 DEF Inv, ProcIn
      <4> QED BY <4>1, <4>2, ProcedureAsks
    <3>3. ASSUME NEW name \in DOMAIN Procedures, StartProcedure(name)
          PROVE  asked' = asked \/ asked'.kind # "Download"
      <4> DEFINE p == [name |-> name, step |-> 0]
      <4>1. AdvanceProcedure(p)
        BY <3>3 DEF StartProcedure
      <4>2. p.name \in DOMAIN Procedures /\ p.step \in Nat
        OBVIOUS
      <4> HIDE DEF p
      <4> QED BY <4>1, <4>2, ProcedureAsks
    <3> QED BY <1>2, <3>1, <3>2, <3>3
  <2> QED BY <1>0, <2>1, <2>2, MovesNot
<1>3. CASE ResponseTimeout
  <2>1. asked' = asked \/ asked'.kind # "Download"
    BY <1>3, TimeoutReads DEF Reads, Writes
  <2> QED BY <1>0, <1>3, <2>1, MovesNot DEF ResponseTimeout
<1> QED BY <1>0, <1>1, <1>2, <1>3, SessionMoves, ReplyMoves, CommandMoves, StepIdle DEF Busily

----------------------------------------------------------------------------
(* The records and their announcement.                                       *)

(* The first elements of a sequence.                                         *)
LEMMA HeadOf ==
  ASSUME NEW S, NEW s \in Seq(S), NEW n \in 0 .. Len(s)
  PROVE  /\ SubSeq(s, 1, n) \in Seq(S) /\ Len(SubSeq(s, 1, n)) = n
         /\ \A i \in 1 .. n : SubSeq(s, 1, n)[i] = s[i]
<1> DEFINE u == SubSeq(s, 1, n)
<1>1. \A i \in 1 .. n : s[i] \in S
  <2>1. Len(s) \in Nat
    OBVIOUS
  <2>2. \A i \in 1 .. n : i \in 1 .. Len(s)
    BY <2>1
  <2> QED BY <2>2, ElementOfSeq
<1>2. /\ u \in Seq(S) /\ Len(u) = IF 1 <= n THEN n - 1 + 1 ELSE 0
      /\ \A i \in 1 .. n - 1 + 1 : u[i] = s[1 + i - 1]
  <2>1. 1 \in Int /\ n \in Int
    OBVIOUS
  <2> QED BY <1>1, <2>1, SubSeqProperties
<1> HIDE DEF u
<1>3. Len(u) = n
  <2>1. Len(s) \in Nat
    OBVIOUS
  <2> QED BY <1>2, <2>1
<1>4. ASSUME NEW i \in 1 .. n PROVE u[i] = s[i]
  <2>1. i \in 1 .. n - 1 + 1 /\ 1 + i - 1 = i
    OBVIOUS
  <2> QED BY <1>2, <2>1
<1> QED BY <1>2, <1>3, <1>4 DEF u

LEMMA SameHead ==
  ASSUME NEW S, NEW s \in Seq(S), NEW t \in Seq(S), NEW n \in 0 .. Len(s), n <= Len(t),
         \A i \in 1 .. Len(s) : t[i] = s[i]
  PROVE  SubSeq(t, 1, n) = SubSeq(s, 1, n)
<1> DEFINE u == SubSeq(s, 1, n)
           v == SubSeq(t, 1, n)
<1>1. Len(s) \in Nat /\ Len(t) \in Nat
  OBVIOUS
<1>2. n \in 0 .. Len(t) /\ \A i \in 1 .. n : i \in 1 .. Len(s)
  BY <1>1
<1>3. /\ u \in Seq(S) /\ Len(u) = n /\ \A i \in 1 .. n : u[i] = s[i]
      /\ v \in Seq(S) /\ Len(v) = n /\ \A i \in 1 .. n : v[i] = t[i]
  BY <1>2, HeadOf
<1> HIDE DEF u, v
<1>4. Len(u) = Len(v) /\ \A i \in 1 .. Len(v) : v[i] = u[i]
  BY <1>2, <1>3
<1>5. v = u
  BY <1>3, <1>4, SeqEqual
<1> QED BY <1>5 DEF u, v

LEMMA WholeSeq ==
  ASSUME NEW S, NEW s \in Seq(S)
  PROVE  SubSeq(s, 1, Len(s)) = s
<1> DEFINE u == SubSeq(s, 1, Len(s))
<1>1. Len(s) \in 0 .. Len(s)
  OBVIOUS
<1>2. u \in Seq(S) /\ Len(u) = Len(s) /\ \A i \in 1 .. Len(s) : u[i] = s[i]
  BY <1>1, HeadOf
<1> HIDE DEF u
<1>3. u = s
  BY <1>2, SeqEqual
<1> QED BY <1>3 DEF u

(* What is staged is what the shell counts, and once the download has been   *)
(* asked for, it was announced for the records that were there then.         *)
Tallied == image \in Seq(Records) /\ Len(image) = flash.staged
Announced ==
  flash.active /\ flash.step \in Sending =>
    announced \in 1 .. Len(image) /\ extent = Extent(SubSeq(image, 1, announced))
ImageInv == Inv /\ Phase /\ Tallied /\ Announced

(* Each record comes from a line of the file.                                *)
AsWritten(r) ==
  \E w \in Written :
    isDataRecord(w.type) /\ r = [type |-> w.type, address |-> w.address, data |-> w.data]
FromFile == \A i \in 1 .. Len(image) : AsWritten(image[i])

(* The flash sequence is one of the shell, whatever is typed for a record.   *)
LEMMA ShellSteps ==
  /\ FlashInit => Init
  /\ [FlashNext]_flashVars => [Next]_vars
<1>1. FlashInit => Init
  BY DEF FlashInit
<1>2. ASSUME NEW line \in Readable, StageLine(line) PROVE Next
  BY <1>2 DEF StageLine, Next, User
<1>3. Rest => Next
  BY DEF Rest
<1>4. UNCHANGED flashVars => UNCHANGED vars
  BY DEF flashVars
<1> QED BY <1>1, <1>2, <1>3, <1>4 DEF FlashNext

(* The sequence with its image does nothing the shell does not: what is      *)
(* proved of Spec, BlocksFollow and FlashVerified among it, holds of it.     *)
THEOREM FlashIsShell == FlashSpec => Spec
BY ShellSteps, PTL DEF FlashSpec, Spec

(* A record is put behind those that are there.                              *)
LEMMA RecordStaged ==
  ASSUME ImageInv, NEW line \in Readable, StageLine(line)
  PROVE  /\ Phase' /\ Tallied' /\ Announced'
         /\ Len(image') = Len(image) + 1 /\ image'[Len(image) + 1] = Record(line)
         /\ \A i \in 1 .. Len(image) : image'[i] = image[i]
<1>1. /\ flash \in Flashes /\ flash' = [flash EXCEPT !.staged = @ + 1] /\ asked' = asked
      /\ image' = Append(image, Record(line)) /\ extent' = extent /\ announced' = announced
  BY DEF ImageInv, Inv, FlashIn, StageLine, FlashStage, out
<1>2. /\ flash'.staged = flash.staged + 1 /\ flash'.active = flash.active
      /\ flash'.step = flash.step /\ flash'.opening = flash.opening
  BY <1>1 DEF Flashes
<1>3. image \in Seq(Records) /\ Len(image) = flash.staged /\ Record(line) \in Records
  BY ReadableIsRecord DEF ImageInv, Tallied
<1>4. /\ image' \in Seq(Records) /\ Len(image') = Len(image) + 1
      /\ image'[Len(image) + 1] = Record(line) /\ \A i \in 1 .. Len(image) : image'[i] = image[i]
  <2> DEFINE r == Record(line)
  <2> HIDE DEF r
  <2>1. image' = Append(image, r) /\ r \in Records /\ image \in Seq(Records)
    BY <1>1, <1>3 DEF r
  <2> QED BY <2>1, AppendProperties DEF r
<1>5. Phase' /\ Tallied'
  BY <1>1, <1>2, <1>3, <1>4 DEF ImageInv, Phase, Tallied
<1>6. ASSUME flash'.active, flash'.step \in Sending
      PROVE  announced' \in 1 .. Len(image') /\ extent' = Extent(SubSeq(image', 1, announced'))
  <2>1. announced \in 1 .. Len(image) /\ extent = Extent(SubSeq(image, 1, announced))
    BY <1>2, <1>6 DEF ImageInv, Announced
  <2>2. Len(image) \in Nat
    BY <1>3
  <2>4. announced \in 0 .. Len(image) /\ announced <= Len(image')
    BY <1>4, <2>1, <2>2
  <2>3. SubSeq(image', 1, announced) = SubSeq(image, 1, announced)
    BY <1>3, <1>4, <2>1, <2>2, <2>4, SameHead
  <2>5. announced \in 1 .. Len(image')
    BY <1>4, <2>1, <2>2
  <2>6. announced' = announced /\ extent' = extent
    BY <1>1
  <2>7. announced' \in 1 .. Len(image')
    BY <2>5, <2>6
  <2>8. extent' = Extent(SubSeq(image', 1, announced'))
    BY <2>1, <2>3, <2>6, Zenon
  <2> QED BY <2>7, <2>8
<1> QED BY <1>4, <1>5, <1>6 DEF Announced

(* Nothing else adds one, and the announcement is of all that are there.     *)
LEMMA RecordsRest ==
  ASSUME ImageInv, Rest
  PROVE  Moves /\ Phase' /\ Tallied' /\ Announced' /\ image' \in {image, <<>>}
<1>1. flash.staged \in Nat
  BY DEF ImageInv, Inv, FlashIn, Flashes
<1>2. ~FlashStage
  <2>1. ASSUME FlashStage PROVE FALSE
    <3>1. flash'.staged = flash.staged + 1
      BY <2>1 DEF ImageInv, Inv, FlashIn, Flashes, FlashStage
    <3> QED BY <1>1, <3>1 DEF Rest
  <2> QED BY <2>1
<1>3. Moves
  BY <1>2, StepMoves DEF ImageInv, Rest
<1>4. Phase' /\ (flash'.staged = flash.staged \/ (flash'.staged = 0 /\ ~flash'.active))
  BY <1>3 DEF Moves
<1>5. image \in Seq(Records) /\ Len(image) = flash.staged /\ <<>> \in Seq(Records) /\ Len(<<>>) = 0
  BY DEF ImageInv, Tallied
<1>6. image' = IF flash'.staged = 0 THEN <<>> ELSE image
  BY DEF Rest
<1>7. Tallied' /\ image' \in {image, <<>>}
  BY <1>4, <1>5, <1>6 DEF Tallied
<1>8. ASSUME flash'.active, flash'.step \in Sending
      PROVE  announced' \in 1 .. Len(image') /\ extent' = Extent(SubSeq(image', 1, announced'))
  <2>1. flash'.staged = flash.staged
    BY <1>4, <1>8
  <2>2. CASE Same /\ flash.active /\ flash.step \in Sending
    <3>1. announced \in 1 .. Len(image) /\ extent = Extent(SubSeq(image, 1, announced))
      BY <2>2 DEF ImageInv, Announced
    <3>2. extent' = extent /\ announced' = announced
      BY <2>2 DEF Same, Rest
    <3>3. image' = image
      BY <1>1, <1>5, <1>6, <2>1, <3>1
    <3> QED BY <3>1, <3>2, <3>3
  <2>3. CASE asked' # asked /\ asked'.kind = "Download" /\ flash.staged > 0
    <3>1. extent' = Extent(image) /\ announced' = Len(image)
      BY <2>3 DEF Rest
    <3>2. image' = image
      BY <1>1, <1>6, <2>1, <2>3
    <3>3. SubSeq(image, 1, Len(image)) = image
      BY <1>5, WholeSeq
    <3>4. Len(image) \in 1 .. Len(image)
      BY <1>1, <1>5, <2>3
    <3> QED BY <3>1, <3>2, <3>3, <3>4
  <2> QED BY <1>3, <1>8, <2>2, <2>3 DEF Moves
<1> QED BY <1>3, <1>4, <1>7, <1>8 DEF Announced

LEMMA ImageInvInit == FlashInit => ImageInv /\ FromFile
<1> SUFFICES ASSUME FlashInit PROVE ImageInv /\ FromFile
  OBVIOUS
<1>1. Init /\ image = <<>>
  BY DEF FlashInit
<1>2. Inv
  BY <1>1, InitInv
<1>3. ~flash.active /\ ~flash.opening /\ flash.staged = 0
  BY <1>1, Zenon DEF Init
<1>4. <<>> \in Seq(Records) /\ Len(<<>>) = 0
  OBVIOUS
<1>5. Tallied
  BY <1>1, <1>3, <1>4 DEF Tallied
<1>6. Phase /\ Announced
  BY <1>3 DEF Phase, Announced
<1>7. FromFile
  BY <1>1, <1>4 DEF FromFile
<1> QED BY <1>2, <1>5, <1>6, <1>7 DEF ImageInv

LEMMA ImageInvNext == ASSUME ImageInv, [FlashNext]_flashVars PROVE ImageInv'
<1>1. Inv'
  BY ShellSteps, NextInv DEF ImageInv
<1>2. CASE UNCHANGED flashVars
  <2>1. UNCHANGED <<flash, asked, image, extent, announced>>
    BY <1>2 DEF flashVars, vars, jobs, out
  <2>2. Phase' /\ Tallied' /\ Announced'
    BY <2>1 DEF ImageInv, Phase, Tallied, Announced
  <2> QED BY <1>1, <2>2 DEF ImageInv
<1>3. CASE Rest
  BY <1>1, <1>3, RecordsRest DEF ImageInv
<1>4. ASSUME NEW line \in Readable, StageLine(line) PROVE ImageInv'
  BY <1>1, <1>4, RecordStaged DEF ImageInv
<1> QED BY <1>2, <1>3, <1>4 DEF FlashNext

(* The records come from the file as long as the counts tell.                *)
LEMMA FromFileNext ==
  ASSUME CountsTell, ImageInv, FromFile, [FlashNext]_flashVars
  PROVE  FromFile'
<1>0. <<>> \in Seq(Records) /\ Len(<<>>) = 0 /\ Len(image) \in Nat
  BY DEF ImageInv, Tallied
<1>1. CASE image' = image \/ image' = <<>>
  BY <1>0, <1>1 DEF FromFile
<1>2. ASSUME NEW line \in Readable, StageLine(line) PROVE FromFile'
  <2>1. /\ Len(image') = Len(image) + 1 /\ image'[Len(image) + 1] = Record(line)
        /\ \A i \in 1 .. Len(image) : image'[i] = image[i]
    BY <1>2, RecordStaged
  <2>2. AsWritten(Record(line))
    BY ReadableWritten DEF AsWritten
  <2>3. ASSUME NEW i \in 1 .. Len(image) + 1 PROVE AsWritten(image'[i])
    <3>1. i \in 1 .. Len(image) \/ i = Len(image) + 1
      BY <1>0
    <3> QED BY <2>1, <2>2, <3>1 DEF FromFile
  <2> QED BY <2>1, <2>3 DEF FromFile
<1>3. CASE UNCHANGED flashVars
  BY <1>1, <1>3 DEF flashVars
<1>4. CASE Rest
  BY <1>1, <1>4, RecordsRest
<1> QED BY <1>2, <1>3, <1>4 DEF FlashNext

(* What is staged is byte for byte and address for address what the file     *)
(* says, whichever byte, count or type of a line was damaged (parseLine,     *)
(* flash_engine.cpp:55-64; flashBuild, diag_shell.cpp:2069-2075).            *)
THEOREM ImageAsWritten ==
  ASSUME CountsTell
  PROVE  FlashSpec => []StagedAsWritten
<1>1. FlashInit => ImageInv /\ FromFile
  BY ImageInvInit
<1>2. ImageInv /\ FromFile /\ [FlashNext]_flashVars => ImageInv' /\ FromFile'
  BY ImageInvNext, FromFileNext
<1>3. ImageInv /\ FromFile => StagedAsWritten
  BY DEF ImageInv, Inv, FlashIn, Tallied, FromFile, AsWritten, StagedAsWritten
<1> QED BY <1>1, <1>2, <1>3, PTL DEF FlashSpec

(* A flash that is declared complete was announced for the records that were *)
(* staged then.                                                              *)
LEMMA CompleteInPlace ==
  ASSUME ImageInv, [FlashNext]_flashVars, DeclaredComplete, flash.index = announced,
         Consecutive(SubSeq(image, 1, flash.index))
  PROVE  InPlace(SubSeq(image, 1, flash.index))
<1> DEFINE s == SubSeq(image, 1, flash.index)
<1>1. flash.active /\ flash'.step = "Done" /\ ~flash'.active
  BY DEF DeclaredComplete
<1>2. flash.step \in Sending
  <2>1. ASSUME NEW line \in Readable, StageLine(line) PROVE FALSE
    <3>1. flash'.active = flash.active
      BY <2>1 DEF StageLine, FlashStage, ImageInv, Inv, FlashIn, Flashes
    <3> QED BY <1>1, <3>1
  <2>2. ~UNCHANGED flashVars
    BY <1>1 DEF flashVars, vars, jobs
  <2>3. Moves
    BY <2>1, <2>2, RecordsRest DEF FlashNext
  <2> QED BY <1>1, <2>3 DEF Moves
<1>3. flash.index \in 1 .. Len(image) /\ extent = Extent(s) /\ image \in Seq(Records)
  BY <1>1, <1>2 DEF ImageInv, Announced, Tallied
<1>4. s \in Seq(Records) /\ s # <<>>
  <2>1. Len(image) \in Nat
    BY <1>3
  <2>2. flash.index \in 0 .. Len(image) /\ flash.index # 0
    BY <1>3, <2>1
  <2>3. s \in Seq(Records) /\ Len(s) = flash.index
    BY <1>3, <2>2, HeadOf
  <2>4. Len(<<>>) = 0
    OBVIOUS
  <2> QED BY <2>2, <2>3, <2>4
<1>5. Consecutive(s)
  OBVIOUS
<1> HIDE DEF s
<1>6. /\ extent.size = Len(Received(s))
      /\ \A i \in 1 .. Len(s) :
           LET first == s[i].address - extent.address
           IN  SubSeq(Received(s), first + 1, first + Len(s[i].data)) = s[i].data
  BY <1>3, <1>4, <1>5, LaidInPlace
<1>7. InPlace(s)
  BY <1>6 DEF InPlace
<1> QED BY <1>7 DEF s

(* Every record that a completed flash has sent lies where it says, and the  *)
(* ECU was told how far they reach, if they were in order, without gaps, and *)
(* all staged when that was said; any line may have been damaged, any reply  *)
(* lost or refused (flashOnResponse, diag_shell.cpp:1443-1499).              *)
THEOREM FlashLands == FlashSpec => FlashedInPlace
<1>1. ImageInv /\ [FlashNext]_flashVars =>
        /\ ImageInv'
        /\ [ DeclaredComplete /\ flash.index = announced /\ Consecutive(SubSeq(image, 1, flash.index))
             => InPlace(SubSeq(image, 1, flash.index)) ]_flashVars
  BY ImageInvNext, CompleteInPlace
<1>2. FlashSpec =>
        [][ DeclaredComplete /\ flash.index = announced /\ Consecutive(SubSeq(image, 1, flash.index))
            => InPlace(SubSeq(image, 1, flash.index)) ]_flashVars
  BY <1>1, ImageInvInit, PTL DEF FlashSpec
<1> QED BY <1>2 DEF FlashedInPlace
=============================================================================
