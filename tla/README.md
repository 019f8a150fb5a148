# A verification development for open-lexia

TLA+ models, TLC runs and TLAPS proofs for the firmware of this repository: a
Raspberry Pi Pico W that speaks the PSA diagnostic protocols to the ECUs of a
car over CAN, and offers a serial console and a Wi-Fi dashboard to its user.

Paths below are relative to the repository's root (`src/isotp.cpp` is the file
next to the other sources of the firmware); in `PROJECT.json` they start at the
directory that holds the repository.

## 1. The system

One thread runs `main.cpp`'s loop: poll the shell, poll the network, drain the
receive buffers into the shell. Interrupt-driven Wi-Fi callbacks may run between
any two steps of it, and run shell commands. They may in fact come in the middle of a
step; `Console` is about that, where they share the line buffer with the loop. In the
other modules a step of the main loop, such as the dispatch of a reply or of a frame
to the sniffer, is atomic (section 8).

| Component | State | Operations | Talks to |
|---|---|---|---|
| **ISO-TP endpoint** `isotp.cpp` | a reassembly (length, bytes so far, expected sequence number) and a transfer (position, sequence number, block credit, timers) | `feed`, `beginSend`, `nextTxFrame`, `txTimedOut`, `txReset`, `flowControl`, `reset`; `encode` is pure | called by the shell only |
| **Diagnostic shell** `diag_shell.cpp` | session (`state_`, `ecu_`, `unlocked_`, `rw_enabled_`), the 0x78 streak, and six jobs: scan, identifier sweep, config readall, live polling, procedure, flash | `poll` (timers, transmit pump), `feedDiagFrame` / `handleResponse`, some thirty commands | ISO-TP, flash engine, CAN manager, sniffer; driven by the console and by HTTP |
| **Console** `diag_shell.cpp` (`readLine`, `processLine`, `feedCommandLine`) | one line buffer and a position, the write protection | characters from USB, whole commands from HTTP | runs the shell's commands |
| **Flash engine** `flash_engine.cpp` | step, download extent, block limit | `nextRequest`, `handleResponse`, `finishTransfer`; S-record parser and CRC are pure | called by the shell |
| **MCP2515 driver** `mcp2515.cpp` | controller mode, 3 transmit and 2 receive buffers | `init`, `setMode`, `setBaudRate`, `recoverBus`, `send`, `read`, `hasRx` | SPI |
| **CAN manager** `can_manager.cpp` | whether the controller answered | `init`, `reconfigureBus`, `send`, `read`, `hasRx` | driver |
| **Guided sniffer** `can_sniffer.cpp` | a table of slots, a window, a scenario, the map of what was learned and its copy in flash | `feed`, `tick`, baseline, count, hold, sweep, run, next, stop, clear, save, load | fed frames by the main loop, commanded by the shell |
| **HTTP/SSE server** `wifi_server.cpp` | a pool of connection records, the pcb of the one event stream | lwIP's accept, recv, sent, poll and err callbacks, `broadcastLog` | feeds commands to the console |
| **DHCP server** `dhcp_server.cpp` | a table of 8 leases, whose turn it is to be evicted | DISCOVER, REQUEST | lwIP |
| **Protocol header** `psa_protocol.hpp` | none | request builders, seed/key transform, ECU table | shell |
| **Tables** `ecu_params.hpp`, `ecu_zones.hpp`, `dtc_text.hpp`, `live_data.hpp`, `actuator_catalog.hpp`, `ecu_keys.hpp` | constant data | decoding formulas | shell |
| Dashboard, scripts, hardware files | - | - | outside the firmware |

What is hard about it, and what each part has to guarantee:

- **ISO-TP.** Two peers with one timer each and a flow-control handshake in both
  directions; frames may be lost (two-deep receive buffer) or swapped. A PDU must
  be handed up whole or not at all, a buffer never overrun, an ECU never sent more
  than it granted, and neither side left waiting for the other.
- **The shell.** Every job lives on replies that are told apart by sender and
  service byte only. The hard part is which handler a reply reaches: keep-alives
  and late answers look like awaited ones, several handlers return early, four
  timers change the same state. Every reply must be taken by the job that asked
  for it, every job must end, cursors must stay in their tables, and nothing may
  start to write in read-only mode.
- **The flash sequence.** An ECU that has been erased and then misses a block is a
  broken ECU. A damaged line must not be staged, an erase must belong to the flash
  under way, blocks be accepted in order and land where their records say, and
  success be reported only after the ECU confirmed it.
- **Driver.** The controller sends, receives and changes mode between any two
  exchanges on SPI. A frame must not be overwritten, lost or sent after it was
  given up, and a bus on which nobody acknowledges must not shut the transmitter.
- **Console and HTTP.** A callback shares the line buffer with the main loop and the
  record of a connection with a pcb that has not finished closing. Write commands
  must stay blocked in read-only mode whoever sends them, a line must run as it
  was typed, records must belong to open connections and come back, and the stream
  must be one that is alive.
- **DHCP.** A table of 8 for any number of stations, and no expiry: two stations must
  not share an address without an eviction, and a new one must still get one.
- **Sniffer.** What moves by itself must never be learned, through baselines,
  windows and scenarios in any order; what is loaded from flash must have been saved.

`PROJECT.json` lists every hazard found in the code at its line, with the
properties that watch it or the reason why none does yet.

## 2. Modules

| Module | What it is |
|---|---|
| `IsoTp` | one endpoint, all of its operations |
| `MCIsoTp`, `IsoTpProofs` | its TLC instance in an arbitrary environment; its proofs |
| `PduTransfer` | what a transport promises in one direction (abstract specification) |
| `IsoTpLink`, `MCIsoTpLink`, `IsoTpLinkProofs` | tester and ECU over a wire: two instances of `IsoTp`, and the part of the shell that drives one; the TLC instances; the proof that it implements `PduTransfer` |
| `FlashEngine` | the flash engine's step functions |
| `DiagShell`, `MCDiagShell`, `DiagShellProofs` | the shell with all its jobs, ECUs and wire; extends `FlashEngine`; TLC instances; proofs of what holds under every disturbance, and of what the jobs keep under none |
| `SRecord` | S-record lines, their checksum, the extent of an image, as functions |
| `FlashImage`, `MCFlash`, `FlashProofs` | composes `DiagShell` and `SRecord`: a flash with the records it stages, announces and sends; the TLC instance; proofs about the flash and its image |
| `Mcp2515`, `MCMcp2515`, `Mcp2515Proofs` | the driver and the CAN manager, as the shell and the main loop call them, against the controller; TLC instance; proofs |
| `Console` | the line buffer with its two writers, and the write protection |
| `HttpServer`, `MCHttpServer`, `HttpProofs` | the pool and lwIP's callbacks; extends `Console`, whose commands it feeds; TLC instance; proofs |
| `DhcpServer`, `MCDhcpServer`, `DhcpProofs` | the lease table and the stations; TLC instance; proofs |
| `CanSniffer`, `MCCanSniffer`, `CanSnifferProofs` | the guided sniffer and its store; TLC instance; proofs |

Some definitions are followed by one they resemble, such as `BlockOpenAlways`
before `BlockOpen`: the first is the second with a plausible slip and is used by
no specification. Putting it in the place of the right one must break the
property `PROJECT.json` names for it; this is how each property is known to be
able to fail.

### IsoTp

`rx` and `tx` are the two halves of the C++ object. A PDU is an identity with a
length; a data frame carries the identity and the position of its first byte, so
the receive buffer is summed up by the PDU all of its bytes come from, or
`Garbled`. That keeps every length, clamp, sequence number and early return of
`feed`, and lets the link's properties see a mixed-up PDU without any bytes.
`Feed(f, st)` is `feed` returning `st`, split by kind of frame as the code is.
Time is abstracted: a consecutive frame may be due at once or later (STmin), and
`TxMayTimeOut` holds whenever N_Bs could have run out.

### IsoTpLink and PduTransfer

The tester's steps are those of `DiagShell::poll` and `DiagShell::feedDiagFrame`:
pump, give up, receive, answer a first frame with flow control, reset after a
reply or an error. The ECU is external: a second `IsoTp` endpoint that follows
ISO 15765-2 as sender and sends a fresh flow control after every block it asked
for. The wire may lose any frame and swap neighbours in either direction, which
is what the driver's buffers can do (`Mcp2515`). `PduTransfer` (offer, hand up at most
once, whole) is the abstract specification; the refinement mapping is the pair of
history variables `offer*`, `handed*`, one pair per direction.

### DiagShell and FlashEngine

The shell is modelled one request or reply at a time, above ISO-TP: `IsoTpLink`
justifies that (a reply arrives whole or not at all), and a reply that cannot be
put together is the action `ReassemblyError`. A request longer than a frame waits
in `tx` for the ECU's flow control, as `tp_` does.

| Code | Model |
|---|---|
| `processLine`, `cmd*` | `Typed` and one action per command or family of commands |
| `feedDiagFrame` on a complete reply | `Receive` = leave `WaitingResponse`, then `HandleResponse` |
| `handleResponse`, in its order | `OnFlashSession`, `OnPending`, `OnNegative`, `OnPositive` and below it one operator per handler |
| timers of `poll` | `LidScanTimeout`, `ResponseTimeout`, `KeepAlive`, `LivePoll`, `TransferAborted` |
| `lidScanSend/Advance`, `advanceScan`, `connectByIndex`, `advanceProcedure` | operators of the same names, composed inside those actions |

A reply carries the request it answers, as history: the handlers use only what
the bytes tell (sender, positive, negative or pending, class of service), the
properties use the rest. `refused` is a negative reply on security or session
grounds, which the sweep counts as a hit. `asked` (what was sent last) and
`accepted` (blocks the ECU took since its last erase) are history too. In a
session without an ECU a command dereferences null; the model stops there, and
`ConnectedHasEcu` is the property about it.

Data left out: bytes of zones, DTCs and seeds; a seed's outcome (already
unlocked, key sent, no PIN) is a choice. `raw` stands among the writes because it
can encode any. The transient `UDS`/`KWP_HAB` difference has no influence on the
control flow; `KWP_IS` has (its close is acknowledged by another service). Block
lengths are left out of the flash.

### SRecord and FlashImage

A byte is a number below `ByteMod`, so that a checksum and the carry from one
address byte to the next happen with small numbers. `Accepted`, `Record` and
`Extent` are `parseLine`, the record it returns and the loop of `flashOnResponse`
that announces the download. `FlashImage` adds the records themselves to the
shell's counters: `StageLine` is `FlashStage` with the line it stages, `Rest` every
other step of `DiagShell`, which drops the image when `flash cancel` or the end
of a flash does and computes the extent when the download is asked for. The lines
typed are those of a file (`Written`), as written or with one byte or the count
damaged to any other, or the type to that of a line without firmware: from one type of
firmware to another is a damage the checksum does not cover (section 4). The ECU puts blocks one behind the other from the announced address:
`TransferData` carries none. `announced` is history.

### Console

A line is a command in two pieces. The main loop reads the position for a character,
stores the character there, and stores the position behind it (`GetChar`, `StoreChar`,
`SetPosition`); for a backspace it reads the position and stores the one before
(`Backspace`, `SetPosition`). It ends a line at any length and passes the check of the
write protection (`Enter`), and dispatches (`Dispatch`). A callback may come between any
two of these. `feedCommandLine` is atomic against the main loop: a callback runs to its
end. The comparisons of the dispatch and the command they find are one step. Pieces of
different commands in one buffer are `Garbage`, and neither that nor half a command is
one. `disturbed` and `refused` are history.

### HttpServer

`g_conns` and `sse_client_pcb` are the code's; `pcb` is lwIP's (external): a control
block is open, closing (after `tcp_close`), waiting for the last acknowledgement,
or gone, and keeps the argument `tcp_arg` gave it until it is gone, which is what
makes the pool hard. Each callback is the action of that name: `acceptCallback`,
`recvCallback` with half a request, a whole one or the end of the connection,
`sentCallback`, `pollCallback`, `errCallback`. Their common parts (`trySend`,
`registerSseClient`, `freeConn`...) are functions on the server's state, composed
in the code's order; `trySend` may also find the window full. `asked` (who has sent
a complete request) and `reused` (a record was given out while an older pcb still
had it) are history.

### DhcpServer

An address is its slot. `leaseFor` is the code's three passes: the station's own
slot, a free one, the one whose turn it is. Each station is external and has one
message under way, lost at any moment; the server may fail to allocate or send a
reply after it has changed the table. A station that has an address renews it, or
leaves without a word (RELEASE is not listened to). `evicted` and `before` (who came
before whom) are history.

### CanSniffer

The bytes of a frame are treated alike and separately, so an id has one here.
`feed` is one frame, `tick` the end of a baseline, and each command an action:
they may come in any order, windows may be reopened and a scenario started in the
middle of another. Counters wrap at `CounterMod` (256 in the code). `save` erases
the sector and programs it page by page, nothing else running meanwhile, and
`PowerFails` may come between: `flash` survives it. `heard`, `wild`, `stale`, `kept` are history.

### Mcp2515

`call` is the one driver call under way, a step per SPI exchange whose moment
matters: reading the three control registers, loading a buffer, copying a
received frame, clearing its flag, asking for a mode. Between two of them the
external controller starts or ends a transmission (`Transmit`, `Acknowledged`,
`NotAcknowledged`), receives, or enters the mode asked for. `sendFrame`'s retry
loop, the OBD poll's bare `send`, the response timeout's `recoverBus` and
`setBusMode` with its ignored failures are the callers. `queued` (frames accepted
and neither gone nor dropped, oldest first), `waiting` and `target` are history.
Frame numbers are used again, so the state stays finite without a bound on how
many frames are sent. A frame that is on the wire when `recoverBus` is called may
still end; the controller does not call it back.

## 3. Runs

All runs use small sets; the bound of each and why it is enough:

| Run | Checks | Bounds |
|---|---|---|
| `endpoint` | `TypeOK`, `RxBounded`, `TxOnSchedule` | a 132-byte PDU: 18 consecutive frames, so the sequence number wraps; buffer of 140 so that a first frame can announce one byte too many; frames of every kind, truncated ones too |
| `link_lossy` | `NoOverrun`; `PdusWholeAndOnce`: refinement of `PduTransfer` in both directions | two requests and two long replies of three frames (so that a piece of one can meet the other), block sizes none and 1, all flow statuses, loss and overtaking in both directions |
| `link_live` | `PdusArrive` | request of 125 bytes in blocks of 3, waits; a reply that fills one block of 8 exactly |
| `jobs` | `TypeOK`, `ConnectedHasEcu`, `JobsUnderTimeout`, `CursorsInTables`, `RepliesAnswer`, `ScanReportsAll`, `JobsInStep`, `JobsEnd` | 2 ECUs (one KWP_IS), 2 identifiers, 2 zones: every cursor has a first, a next and a last position; a procedure of seven steps and one of one; ECUs answer before a timeout or not at all, ask for patience less often than the cap, no reply is garbled and the user waits for the wire (what the other cases do is in section 4) |
| `flash` | `StagedAsWritten`, `FlashedInPlace`, `NoHole`, `CompleteIsVerified`, `ImageSent` | six lines, a header at address 0 and firmware around the carry into the second address byte, of one and two bytes, with short and long addresses; bytes below 8; up to 3 staged, in any order, `flash cancel` at any time; one byte, count or type damaged to anything below 8 (types: 0, and 4 to 9), none of the lines being one whose damaged count is accepted (`CountsTell`, evaluated by the run); the ECU accepts, possibly after asking for patience |
| `writes` | `WritesBegunReadWrite`, `WaitEnds` | a procedure, a flash and live polling with loss, garbled replies, aborted transfers, late replies, a response-pending cap of 1 against an ECU that asks twice, a user who types at any time |
| `can` | `TypeOK` with the retry bound, `LatchedIsQueued`, `ReceivedStaysHeld`, `ModeAsAsked`, `BusyEnds` | all three and two buffers; both callers, two attempts instead of 32 (a first and a last), two failed transmissions until the error flag; connect and both `gsniff rate` modes |
| `wifi` | `TypeOK`, `PoolMatchesPcbs`, `OneLiveStream`, `ReadOnlyHolds`, `RunsAsTyped`, `RecordReturns` | two connections and two records: one can be closing while the other takes its record, and a second stream replaces a first; pages, streams, a write command, `rw on` and `rw off` from the network, a write command typed and taken back at the console; while a line is typed one client comes and goes instead of two (`OneClientWhileTyping` in `MCHttpServer`: the console does not see who asks, the pool does not depend on the console, and all of both at once is too much for TLC) |
| `dhcp` | `TypeOK`, `NoConflict`, `EvictsOldest`, `GetsAddress` | three stations for two leases, so that the table is full and the eviction pointer wraps; one station is patient, the others do as they like |
| `sniffer` | `TypeOK`, `TopIsBest`, `StoredWasSaved`, `NoisyNeverLearned` | three ids for a table of two, a bit for a value, counters that wrap at 3, a scenario of two steps, a flash page of two entries (so that a map of two spans two pages); ids are symmetric |

`TopIsBest` and `NoisyNeverLearned` need commands in many orders; `MaxCommands` bounds
those typed by the user in `sniffer` (3; with 2 the run also holds for three
values). `MaxWire` bounds what is under way when the shell or the user sends (2 or
3), `MaxStaged` the staged records, `EcuPatience` how often an ECU asks for
patience in a row. `PromptEcu` and `UnhurriedUser` restrict when timers fire and
commands are typed; each run says in its `.cfg` whether it assumes them. Deadlock is
checked in `wifi`, `dhcp` and `sniffer`; it is off elsewhere, because an endpoint
that is fed nothing, a link that has been silenced by loss, and a shell to which
nobody types have nothing to do.

Fairness. In the shell (`FairSpec`) the main loop never stops polling, so replies are
received, transfers with flow control go through and timers that may fire do; a
conforming ECU does something with a request, staying silent included; an ECU that
asks to wait clears us to send in the end (strong fairness, since waits disable it
in between). Nothing is assumed of the user, of faults or of keep-alives. In
`Mcp2515`, calls return and the controller works on what is latched; the poll of
`obd` comes round again in the main loop however often other calls come between
(strong fairness, as it is enabled between calls only); acknowledgement is not
assumed. In `HttpServer`, lwIP's two-second timer comes round for every pcb and a
response that is pending goes out in the end or its connection dies; nothing is
assumed of when clients ask or close. In `DhcpServer`, a patient station asks again,
and of the messages it sends again and again, and of their answers, some get
through; the others may do nothing or everything.

## 4. Disagreements between the code and what it says

Each of these runs must find its property violated:

| Run | What it shows |
|---|---|
| `link_pause` (`PausedEcuResumes`) | our flow control asks for a pause every 8 frames (`isotp.hpp:39-40`), but only a first frame is answered with one: a reply over 62 bytes never completes against a conforming ECU |
| `stale_erase` (`EraseBelongsToFlash`) | the timeout leaves `flash_session_pending_` set: the next `connect` is answered with an erase request |

The passing runs hold under the restrictions of their `.cfg` and the premises of
their properties. These are the places where lifting one breaks them, each seen with
TLC by changing what is named:

| Change | Property that fails | Why |
|---|---|---|
| `jobs`: add `"live"` to `Commands` | `RepliesAnswer` | keep-alive and live poll leave in one pass (`diag_shell.cpp:159-179`) |
| `jobs`: `UnhurriedUser = FALSE` | `RepliesAnswer` | the reply to the close of `exit` arrives after the next `connect` and is taken for the session that opens (`diag_shell.cpp:540`) |
| `jobs`: `PromptEcu = FALSE` | `JobsInStep` | a late answer is counted for the next identifier (`diag_shell.cpp:94-99`) |
| `jobs`: `EcuPatience = 2`, `MaxResponsePending = 1` | `JobsEnd`, `ConnectedHasEcu` | the 0x78 cap goes Idle without ending the scan (`diag_shell.cpp:1272-1277`); `lidscan stop` then sets Connected without looking at `ecu_` (`diag_shell.cpp:561-568`) |
| `jobs`: add `"EspCalib"` to `Commands` | `JobsInStep` | the reply to the clear-DTC step returns before `advanceProcedure`; the next keep-alive's reply advances it (`diag_shell.cpp:1423`, `1507-1510`) |
| `jobs`: `Faults = {"garble"}` | `JobsUnderTimeout`, `JobsEnd` | a reassembly error leaves `lidscan` active with nothing outstanding (`diag_shell.cpp:259`), against `tests/test_psa.cpp:592-595` |
| `flash`: add `"negative"` to `EcuAnswers` | `CompleteIsVerified` | a refused checksum leaves the engine at Done: the next positive reply reports a successful flash (`flash_engine.cpp:226`) |
| the same | `NoHole` | a rejected block is skipped by the next positive reply (`diag_shell.cpp:1284-1340`, `1470`) |
| `flash`: `Faults = {"loss"}`, add `"exit"` to `Commands` | `NoHole` | `cmdDisconnect` leaves `flash_active_` set (`diag_shell.cpp:524-549`): when a block is lost and the user types `exit` and `connect`, the reply to a keep-alive sends the next block |
| `flash`: add `"silent"` to `EcuAnswers`, `"exit"` and `"actuator"` to `Commands` | `CompleteIsVerified` | the same after `flash end`: the reply to an actuator test in the next session reports a successful flash (`diag_shell.cpp:1429-1443`) |
| `flash`: `FlashedInPlace` without `flash.index = announced` | itself | a record staged during the walk is sent past the announced extent (`diag_shell.cpp:2078`, `1475`), though "the whole image has to be in place before" (`2063-2065`) |
| `flash`: `FlashedInPlace` without `Consecutive` | itself | an image with a gap or out of order lands at wrong addresses: the extent spans it, the blocks follow one another (`diag_shell.cpp:1452-1464`) |
| `flash`: the line at address 6 with the bytes 6, 6 | `StagedAsWritten` | a count that is too small ends the line before its checksum, and is accepted when the byte of data there happens to be the checksum of what precedes it (`flash_engine.cpp:45-64`): what follows is never looked at, and the record is staged short |
| `flash`: `Damaged` with every type of 0 to 9 | `StagedAsWritten` | the checksum does not cover the digit of the type (`flash_engine.cpp:35-37`, `55-64`): a damaged S0 header is staged as firmware, and an S1 line that becomes an S2 line at another address |
| `can`: check `SentInOrder` | itself | `send` refills the buffer of highest priority while older frames wait in the others (`mcp2515.cpp:220`): consecutive frames leave out of order, against `mcp2515.cpp:101-104` |
| `wifi`: `Pipelining = TRUE` | `OneLiveStream` | what follows a complete request runs the handler again: a stream may become a page (`wifi_server.cpp:290`) |
| `wifi`: `ReadOnlyHolds` without `=> refused`, that is never a write command in read-only mode | itself | a callback between the check and the dispatch of another line is refused a write command and leaves it in the buffer the dispatch compares, so the main loop runs it (`diag_shell.cpp:331-404`), against the comment at `316` |
| `wifi`: `RunsAsTyped` without `disturbed` | itself | a callback while a line is typed overwrites it and resets the position (`diag_shell.cpp:270-277`): the rest is another line |
| `wifi`: `PoolMatchesPcbs`, `OneLiveStream` without `~reused` | themselves | a record is free while its old pcb still calls back, and acts on it (`wifi_server.cpp:132`) |
| `wifi`: `RecordReturns` without `req # "half"` | itself | half a request keeps its record as long as the connection lives (`wifi_server.cpp:322`), against the comment at `326-327` |
| `sniffer`: `MaskIsExact` without `stale` | `NoisyNeverLearned` | a byte that moved between two windows is masked by the first frame of the next baseline (`can_sniffer.cpp:86`), against `can_sniffer.hpp:96` |
| `sniffer`: `StoredWasSaved` without `flash.count >= EntriesPerPage` | itself | a map of more than a page is accepted by `load` when the power failed after its first page (`can_sniffer.cpp:397-431`) |

The driver adds one: when configuration mode is not entered in time, `setBusMode`
returns with the old bit rate in force and no word of it (`mcp2515.cpp:156`,
`diag_shell.cpp:1176`); an invariant that says otherwise fails after five steps.

From reading only: `max_block_` is never learned, because the engine has left
RequestDownload when the reply comes (`flash_engine.cpp:170`, `256-268`); the
prompt of a scenario says that ENTER alone goes on, but `readLine` skips empty lines
(`diag_shell.cpp:286`); the sniffer's counters wrap at 256, so a byte that changed
256 times in a window does not count as changed (`can_sniffer.cpp:89`).

## 5. Proofs

Each theorem holds for every value of the constants that the named `ASSUME`s of its
module admit. No fairness is used.

**`IsoTpProofs`**, for every set of PDUs, lengths, buffer size from 8 to 4095, block
size and set of well-formed or malformed frames: `TypeCorrect` (`TypeOK`),
`ReassemblyBounded` (`RxBounded`), `SenderOnSchedule` (`TxOnSchedule`). The inductive
invariant is their conjunction. They need each other: that `rx.have` stays a natural
number needs `RxBounded` (the clamp subtracts), that the block credit stays one
needs that a block is open, and `TxOnSchedule` at the position after a frame needs
the types and the bound on the PDU's length. `RxStepInv` and `TxStepInv` say that a
step on one half keeps the invariant when the new half satisfies its part; each
operation then has a lemma of its own, and `NextInv` combines them.

**`IsoTpLinkProofs`**, for every set of PDUs with lengths up to 4095, every block size
the ECU asks for, every flow status it answers with, and wires that lose and swap
frames or do not: `PdusDelivered` (`PdusWholeAndOnce`, the refinement of
`PduTransfer` in both directions: initial states map to initial states, each step to
a step or a stutter) and `OverrunNever` (`NoOverrun`). A request and a reply are two
instances of one `Direction`: a sender that has sent s pieces, the frames under way,
a receiver. The difficulty is the sequence number, which has four bits: a piece 16
places on looks like the one due. Frames overtake by one place only, so such a piece
shows that others were lost, and from then on the pieces received and those under way
are fewer than those sent: the reassembly cannot complete any more. An open
reassembly is thus right so far or hopeless, and this is the invariant. That the ECU
is never overrun follows from a count of what its last flow control granted, what was
sent on it and what is still under way.

**`DhcpProofs`**, for every finite set of stations and number of slots: `TypeCorrect`
(`TypeOK`), `NoConflicts` (`NoConflict`) and the action property `OldestEvicted`
(`EvictsOldest`). That addresses in use are distinct is not inductive: it needs that
a station which was never evicted is in the slot it uses and in the slot an answer
under way to it names (`HolderListed`). That the one evicted came first needs that
slots fill from the front (`FilledInOrder`) and that, once they are full, turns come
in order of arrival (`TurnsInOrder`, with `Turn(i)` the number of evictions before
that of slot i).

**`HttpProofs`**, for every set of pcbs, pool size and set of commands:
`TypeCorrect` (`TypeOK`), `PoolCorrect` (`PoolMatchesPcbs`), `OneStreamAlive`
(`OneLiveStream`, if clients do not pipeline), `WritesGuarded` (the action property
`ReadOnlyHolds`) and `LinesRunAsTyped` (the action property `RunsAsTyped`). The condition
on clients is that of the run; section 4 shows that it is needed. The other four need
none, `WriteCommandsAssumption` apart: `rw` itself is not a write command.
The pool's invariant adds that no two pcbs have
the same record and that a closing pcb is the one its record names (`Whole`), as
long as no record was given out while an older pcb had it. The stream's adds that a
client without a complete request is not the stream (`Fresh`). Every callback is
shown to leave places alone (`Marks`), to take one pcb out of service (`Parts`) or to
register a stream, and each of the three keeps the invariant. For the lines, `LineAsTyped` says
that the buffer holds what the user has typed and not taken back and that the position is
behind it, or about to be, as long as no callback has run a command. What takes thought is
the position a step has read and not yet written when a callback resets it: it is never
past what is typed, so a line begins at position 0 whatever happened to the one before,
and a line disturbed in the middle spoils itself and none after it. For the write
protection, a line that passed the check is harmless until a callback changes the buffer,
and what the callback leaves there was run by it or refused.

**`Mcp2515Proofs`**, for every number of frames and retries: `TypeCorrect` (`TypeOK`
with the retry bound), `LatchedAccepted` (`LatchedIsQueued`), `ReceivedOnce`
(`ReceivedStaysHeld`) and `ModeLeftAsAsked` (`ModeAsAsked`). `LatchedAccepted` needs
that no frame is queued twice, that the number of the frame on the wire is not given
to another, and that the buffer `send` found free in one exchange is still free when
a later one loads it (`TxInv`). `ReceivedOnce` is inductive with what a read under way
has seen (`Reading`): the frame it copied stays in its buffer until the flag is
cleared, and no frame is in both buffers. `ModeLeftAsAsked` follows the mode through
the call that sets it (`ModeInv`).

**`DiagShellProofs`**, for every table of ECUs, range of identifiers and zones, number of
staged records, set of commands and ECU answers, and under loss, late and garbled
replies and transfers that fail: `TypeCorrect` (`TypeOK`), `CursorsStayIn`
(`CursorsInTables`), `SessionHasEcu` (`ConnectedHasEcu`) and `WritesBegun` (the action
property `WritesBegunReadWrite`). The inductive invariant (`Inv`) is the ranges
together with the cursors: a cursor that is advanced stays in its range because its
job was inside the table, and the other way round. One lemma per reply handler, timer
and command shows that it keeps `Inv`; the handlers are also shown to leave the shell
connected only if it had an ECU, which a reply that is heard requires. `SessionHasEcu`
is about users who do not type `lidscan stop`, the only command that sets Connected
without looking at `ecu_`; the row of section 4 about the 0x78 cap shows that the
condition is needed. `WritesBegun` follows what each handler sends: all but procedures
and the flash send requests that change nothing (`Reads`), and those two start only
from commands that read-only mode blocks.

The second part is about the jobs, for every table of ECUs, range of identifiers and
zones, and under loss: `JobsAreAwaited` (`JobsUnderTimeout`), `RepliesMatch` (`RepliesAnswer`),
`JobsKeepStep` (`JobsInStep`) and `ScansReport` (`ScanReportsAll`). They assume
`Undisturbed`: ECUs answer in time or not at all, the user waits for the wire, no
reply is garbled and no transfer breaks off, an ECU asks for patience no more often
than the cap allows, and live polling, a flash and procedures that clear trouble
codes are not started. Section 4 shows what goes wrong when ECUs or users are not so
patient, when a reply is garbled, when the cap is hit, when live polling runs or a
procedure clears codes, and `stale_erase` what a flash leaves behind. The run `jobs`
satisfies all of them. The invariant follows the one request outstanding:
it is being transferred, or is the last on its way to the ECU, or its replies are the
last on their way back (`Awaited`); while none is, only keep-alives are under way to
the ECU of the session (`Alone`). Each job waits for what it asked last (`Jobs`), and
a step is taken with nothing else under way (`Over`), so what a handler, timer or
command sends is what is awaited next. `AddressAssumption`, that no two rows of the
table have the same addresses, is needed: a scan closes one session and opens the
next at once, and the two replies are told apart by sender only.

**`FlashProofs`** is about a flash. Its first part: `BlocksFollow` (`NoHole`) and
`FlashVerified` (`CompleteIsVerified`), for every table of ECUs and number of records, under loss
and silence. They assume `Unrefused`: as above for ECUs, user and wire; no ECU
refuses what it is asked; and no other job is started and `exit` not typed while
the shell runs. Plain reads and writes, `config read`, `flash cancel` and further
records may be typed between the steps. The rows of section 4 on a refusal and on
`exit` show that these two conditions are needed. The run `flash` satisfies
`Unrefused`. `EcuPatience` must not exceed the cap: a flash that outlives the cap's
Idle is in the position `exit` leaves it in. The invariant adds that one ECU is on
the wire with one exchange (`Sole`), that a block whose acceptance is on its way back
has been accepted with no erase since (`Confirmed`), and how far the flash is: each
of its steps awaits the reply to its own request, except that a walk at its last
record waits for the user (`Under`, `Walking`). That exception is what takes thought:
any positive reply goes to the flash while it is active, one to a `read` typed at
that point too, so the step it makes must be harmless.

The rest is about the image, under every disturbance, refusals, `exit` and other jobs
included: `ImageAsWritten` (`StagedAsWritten`, with the walk's index inside the
image), `FlashLands` (the action property
`FlashedInPlace`) and `FlashIsShell` (`FlashSpec` implements `Spec`). Bytes have any
range (`ByteMod`), files any lines whose addresses fit in the bytes their type has
for them (`WrittenAssumption`), images any length. `ImageAsWritten` assumes
`CountsTell`, that no byte of the data is the checksum of what precedes it; the row
of section 4 shows that this is needed, and the run `flash` evaluates it for its
file. `FlashLands` does not. There are three arguments.

- *Reading back.* `Total`, `BigEndian` and `FlattenSeq` are recursive functions over
  the length of a sequence; `TotalIs`, `BigEndianIs` and `FlattenIs` derive their step
  by induction over a set of naturals, which in turn comes from the pigeonhole
  principle (`Induction`, see `CanSnifferProofs`). From them: replacing one byte
  changes the sum by less than `ByteMod`, so the checksum tells (`TotalDiffers`,
  `OneByteTells`), and an address that was split by repeated division is read back
  (`AddressBytesAre`).
- *Laying out.* If each record begins where the one before ends, then after k blocks
  the ECU has the first k records where they say, and the extent reaches exactly as
  far (`Laid`, `LaidInPlace`).
- *Following.* The inductive invariant (`ImageInv`) has the shell's `Inv`; that the
  records are as many as the shell counts (`Tallied`); that a flash which has asked for
  its download was announced for the first `announced` of them (`Announced`); and
  where it can be (`Phase`): opening only at Idle, active only at the five steps
  between two requests, and not asking for a download before its erase is answered.
  `StepMoves` says what any step of the shell does to that. `Announced` is needed in
  place of the simpler "the extent is that of the image", which is not inductive:
  records may be staged while the image is walked.

**`CanSnifferProofs`**, for every set of ids, values, scenario and limits:
`TypeCorrect` (`TypeOK`), `TopAlwaysBest` (`TopIsBest`), and the action properties
`StoreSurvives` (`StoredWasSaved`) and `MaskHolds` (`NoisyNeverLearned`).
`collectTop` is a loop, here a recursive function over the table: that it returns
the best candidates, best first, is an induction on the slots it has seen. The
library's induction theorem takes an operator as parameter, which the provers cannot
instantiate, so induction over a set of naturals is derived first, from the
pigeonhole principle. The mask needs that an id has one place in the table, that
one heard moving has a place, and that during a baseline every id of the table was
there before it or was heard in it (`MaskInv`). The store needs that nothing else
runs during a save, so that what is written is what it was given, and that the
sector is erased until the first page is in (`StoreInv`).

## 6. What is only model-checked

Every invariant and action property of a passing run is stated by a theorem, for all
values of the constants and under the restrictions section 5 names. What is left:

- All liveness (`PdusArrive`, `JobsEnd`, `ImageSent`, `WaitEnds`, `BusyEnds`,
  `RecordReturns`, `GetsAddress`): outside the prover's reach. So are the properties
  the runs of section 4 refute.

## 7. Plan

Done: every component with state of its own: the ISO-TP endpoint with proofs, the
link with the proof that it implements its abstract specification, the flash engine
and the shell with its jobs and proofs, the image that is flashed, the CAN driver,
the console and the HTTP server, the DHCP server, the sniffer with its store, each with
proofs.

What would come next:

1. `Mcp2515` composed with `IsoTpLink`, in place of the wire that may reorder; the bus
   modes of `obd`, `hwtest` and the sniffer while a session is open.
2. The seed/key transform of `psa_protocol.hpp` with the width of its integers.
3. `broadcastLog` split at its reads of `sse_client_pcb_`.

## 8. Not modelled

`sniff`, `hwtest` (and the driver's loopback mode), `pin`, `pincrack` and `status`
change bus modes and print. `broadcastLog` and the stdio driver that calls it write
to the stream that `OneLiveStream` is about, and keep no state. The request
builders' encodings and the seed/key transform are pure; the shell's model keeps
which requests exist. `crc16_x25` is never called by the firmware. Tables, decoding
formulas, the dashboard and the build scripts hold no state that a property could be
about. `IsoTp::encode` is pure and used by the keep-alive and the tests only.

A command from the network runs in a Wi-Fi callback, which may come in the middle of a
handler of the main loop: between two assignments of `handleResponse`, say, or while
`CanSniffer::feed` looks for a slot. Of these preemptions `Console` has those that meet
at the line buffer, and `Mcp2515` has the controller between two exchanges on SPI.
`DiagShell` and `CanSniffer` take every handler and every command as one step, so what
they show is about callbacks that come between two handlers.
