---------------------------- MODULE HttpServer -----------------------------
(* The HTTP and event-stream server (src/wifi_server.cpp): a pool of         *)
(* connection records, hung off lwIP's control blocks (pcbs) by tcp_arg, one *)
(* event stream, and the callbacks lwIP runs between any two steps of the    *)
(* main loop. A request for /api/cmd runs its command on the Console.        *)
(*                                                                           *)
(* lwIP and the clients are external. tcp_close only begins to close: the    *)
(* pcb goes on calling back with the record it was given until the other     *)
(* side has closed too, and the record may belong to another connection by   *)
(* then (`reused`). tcp_write on a pcb that is closing fails.                *)
(*                                                                           *)
(* A request is half there or complete, with its route; "page" is every      *)
(* route with no effect but its response, the 400 to a request that does not *)
(* end within kReqCap included. A response is pending or sent.               *)
EXTENDS Console

CONSTANTS
  Pcbs,
  NoPcb,
  kMaxConns,
  HttpCommands,  \* what clients ask of /api/cmd
  Pipelining     \* TRUE: a client may send on after a complete request

ASSUME PoolAssumption == kMaxConns \in Nat \ {0}
ASSUME PcbAssumption == NoPcb \notin Pcbs
ASSUME CommandsAssumption == HttpCommands \cap {"none", "half"} = {}

VARIABLES
  pcb,             \* lwIP's control blocks and the record tcp_arg gave them
  g_conns,         \* the pool
  sse_client_pcb,  \* sse_client_pcb_
  asked,           \* history: the clients there that have sent a complete request
  reused           \* history: a record was given out while an older pcb still had it

http == <<pcb, g_conns, sse_client_pcb, asked, reused>>
vars == <<console, http>>

Conns == 1 .. kMaxConns
NoConn == 0

Routes == {"page", "stream"} \cup HttpCommands
Requests == {"none", "half"} \cup Routes

FreeConn == [in_use |-> FALSE, pcb |-> NoPcb, req |-> "none", response |-> "none",
             is_sse |-> FALSE, close_when_done |-> FALSE]
NoBlock == [state |-> "none", conn |-> NoConn]

TypeOK ==
  /\ ConsoleTypeOK
  /\ pcb \in [Pcbs -> [state : {"none", "open", "closing", "last_ack"}, conn : Conns \cup {NoConn}]]
  /\ g_conns \in [Conns -> [in_use : BOOLEAN, pcb : Pcbs \cup {NoPcb}, req : Requests,
                            response : {"none", "pending", "sent"},
                            is_sse : BOOLEAN, close_when_done : BOOLEAN]]
  /\ sse_client_pcb \in Pcbs \cup {NoPcb}
  /\ asked \subseteq Pcbs
  /\ reused \in BOOLEAN

Init ==
  /\ ConsoleInit
  /\ pcb = [p \in Pcbs |-> NoBlock]
  /\ g_conns = [s \in Conns |-> FreeConn]
  /\ sse_client_pcb = NoPcb
  /\ asked = {}
  /\ reused = FALSE

----------------------------------------------------------------------------
(* The server's state as the callbacks pass it along: pool, pcbs, stream.    *)

Server == [conns |-> g_conns, pcb |-> pcb, sse |-> sse_client_pcb]

Becomes(sv) == g_conns' = sv.conns /\ pcb' = sv.pcb /\ sse_client_pcb' = sv.sse

freeConn(sv, s) == [sv EXCEPT !.conns[s].in_use = FALSE]

tcp_close(sv, p) ==
  IF sv.pcb[p].state = "open" THEN [sv EXCEPT !.pcb[p].state = "closing"] ELSE sv

unregisterSseClient(sv, s) ==
  IF sv.conns[s].is_sse /\ sv.conns[s].pcb = sv.sse THEN [sv EXCEPT !.sse = NoPcb] ELSE sv

(* What trySend can come to. While something is pending: the window may be   *)
(* full, everything may go, or tcp_write may refuse a pcb that is closing.   *)
Stalled(sv, s) == IF sv.conns[s].response = "pending" THEN {sv} ELSE {}

(* Finished that gives the record back and leaves the connection open. *)
FreedOnly(sv, p, s) ==
  IF sv.conns[s].close_when_done /\ ~sv.conns[s].is_sse THEN freeConn(sv, s) ELSE sv

Finished(sv, p, s) ==
  IF sv.conns[s].close_when_done /\ ~sv.conns[s].is_sse
  THEN tcp_close(freeConn(sv, s), p)
  ELSE sv

trySend(sv, p, s) ==
  IF sv.conns[s].response # "pending"
  THEN {Finished(sv, p, s)}
  ELSE Stalled(sv, s) \cup
       {IF sv.pcb[p].state = "open"
        THEN Finished([sv EXCEPT !.conns[s].response = "sent"], p, s)
        ELSE tcp_close(freeConn(sv, s), p)}

(* The first header is built. *)
Respond(sv, s) ==
  IF sv.conns[s].response = "none" THEN [sv EXCEPT !.conns[s].response = "pending"] ELSE sv

(* The record in use for p, if there is one. *)
findConn(sv, p) ==
  IF \E i \in Conns : sv.conns[i].in_use /\ sv.conns[i].pcb = p
  THEN CHOOSE i \in Conns : sv.conns[i].in_use /\ sv.conns[i].pcb = p
  ELSE NoConn

(* StreamTo that keeps the record where the pcb belongs. *)
StreamToRecord(sv, p, s) ==
  Respond([sv EXCEPT !.sse = s, !.conns[s].is_sse = TRUE,
                     !.conns[s].close_when_done = FALSE], s)

StreamTo(sv, p, s) ==
  Respond([sv EXCEPT !.sse = p, !.conns[s].is_sse = TRUE,
                     !.conns[s].close_when_done = FALSE], s)

(* registerSseClient that leaves the client before to the next poll. *)
registerOverOld(sv, p, s) == StreamTo(sv, p, s)

registerSseClient(sv, p, s) ==
  LET old == findConn(sv, sv.sse)
      freed == IF old = NoConn THEN sv ELSE freeConn(sv, old)
  IN  StreamTo(IF sv.sse = NoPcb THEN sv ELSE tcp_close(freed, sv.sse), p, s)

(* What is left to send of an answer when another takes its place and is     *)
(* perhaps longer: hdr_sent and body_sent stay where they are.               *)
Left(response) == IF response = "sent" THEN {"sent", "pending"} ELSE {response}

handleHttpRequest(sv, p, s) ==
  UNION {LET oneShot == [sv EXCEPT !.conns[s].close_when_done = TRUE, !.conns[s].response = left]
         IN  trySend(IF sv.conns[s].req = "stream" THEN registerSseClient(oneShot, p, s)
                     ELSE Respond(oneShot, s), p, s)
         : left \in Left(sv.conns[s].response)}

----------------------------------------------------------------------------
(* The callbacks. *)

IsFirstFree(s) == ~g_conns[s].in_use /\ \A i \in Conns : i < s => g_conns[i].in_use

allocConn(p, s) ==
  /\ IsFirstFree(s)
  /\ g_conns' = [g_conns EXCEPT ![s] = [FreeConn EXCEPT !.in_use = TRUE, !.pcb = p]]
  /\ pcb' = [pcb EXCEPT ![p] = [state |-> "open", conn |-> s]]
  /\ reused' = (reused \/ \E q \in Pcbs : pcb[q].conn = s)

(* With no record free the new pcb is closed without callbacks: it has no    *)
(* part in anything.                                                         *)
acceptCallback(p) ==
  /\ pcb[p].state = "none"
  /\ \E s \in Conns : allocConn(p, s)
  /\ asked' = asked \ {p}
  /\ UNCHANGED <<console, sse_client_pcb>>

(* errCallback: lwIP has freed the pcb. *)
errCallback(p) ==
  LET s == pcb[p].conn
      sv == freeConn(unregisterSseClient(Server, s), s)
  IN  Becomes([sv EXCEPT !.pcb[p] = NoBlock])

(* recvCallback with data, after which req is what the record holds. Once a  *)
(* request is complete, or too long to be one, whatever comes is answered    *)
(* like it.                                                                  *)
recvCallback(p, s, req) ==
  LET got == [Server EXCEPT !.conns[s].req = req]
  IN  IF req \in Routes
      THEN /\ \E sv \in handleHttpRequest(got, p, s) : Becomes(sv)
           /\ IF req \in HttpCommands THEN feedCommandLine(req) ELSE UNCHANGED console
           /\ asked' = asked \cup {p}
      ELSE Becomes(got) /\ UNCHANGED <<console, asked>>

(* A client sends half of a request, or the rest of it. Once tcp_close has   *)
(* been called, data makes lwIP abort.                                       *)
ClientSends(p, part) ==
  /\ pcb[p].state \in {"open", "closing"}
  /\ p \notin asked \/ Pipelining
  /\ IF pcb[p].state = "open"
     THEN LET s == pcb[p].conn
              had == g_conns[s].req
          IN  recvCallback(p, s, IF had \in {"none", "half"} THEN part ELSE had)
     ELSE errCallback(p) /\ UNCHANGED console /\ asked' = asked \ {p}
  /\ UNCHANGED reused

(* The client closes: recvCallback without data. *)
recvCallbackEnd(p) ==
  /\ pcb[p].state \in {"open", "closing"}
  /\ LET s == pcb[p].conn
         sv == freeConn(unregisterSseClient(Server, s), s)
     IN  Becomes([sv EXCEPT !.pcb[p] = IF pcb[p].state = "open"
                                       THEN [state |-> "last_ack", conn |-> s]
                                       ELSE NoBlock])
  /\ asked' = asked \ {p}
  /\ UNCHANGED <<console, reused>>

(* The connection is reset or given up. *)
Dies(p) ==
  /\ pcb[p].state # "none"
  /\ errCallback(p)
  /\ asked' = asked \ {p}
  /\ UNCHANGED <<console, reused>>

(* The last acknowledgement frees a pcb without a word. *)
Gone(p) ==
  /\ pcb[p].state = "last_ack"
  /\ pcb' = [pcb EXCEPT ![p] = NoBlock]
  /\ UNCHANGED <<console, g_conns, sse_client_pcb, asked, reused>>

sentCallback(p) ==
  /\ pcb[p].state # "none"
  /\ \E sv \in trySend(Server, p, pcb[p].conn) : Becomes(sv)
  /\ UNCHANGED <<console, asked, reused>>

(* pollCallback that takes a connection without a request for one that is    *)
(* still sending it.                                                         *)
pollCallbackWaits(p) ==
  /\ pcb[p].state # "none"
  /\ LET s == pcb[p].conn
         c == g_conns[s]
     IN  /\ ~c.is_sse
         /\ c.response # "none"
         /\ IF c.response = "pending"
            THEN \E sv \in trySend(Server, p, s) : Becomes(sv)
            ELSE Becomes(tcp_close(freeConn(Server, s), p))
  /\ UNCHANGED <<console, asked, reused>>

(* pollCallback, every two seconds. *)
pollCallback(p) ==
  /\ pcb[p].state # "none"
  /\ LET s == pcb[p].conn
         c == g_conns[s]
     IN  /\ ~c.is_sse
         /\ IF c.response = "pending"
            THEN \E sv \in trySend(Server, p, s) : Becomes(sv)
            ELSE /\ ~(c.req # "none" /\ c.response = "none")
                 /\ Becomes(tcp_close(freeConn(Server, s), p))
  /\ UNCHANGED <<console, asked, reused>>

Network ==
  \E p \in Pcbs :
    \/ acceptCallback(p)
    \/ \E part \in Requests \ {"none"} : ClientSends(p, part)
    \/ recvCallbackEnd(p) \/ Dies(p) \/ Gone(p) \/ sentCallback(p) \/ pollCallback(p)

Next == Network \/ (MainLoop /\ UNCHANGED http)

Spec == Init /\ [][Next]_vars

(* lwIP's timer goes round, and clients read what they are sent (or their    *)
(* connections die, which frees the record as well). Nothing is assumed of   *)
(* when they send or close.                                                  *)
Polled(p) ==
  pollCallback(p) /\ g_conns'[pcb[p].conn].response # "pending"

Fairness == \A p \in Pcbs : WF_vars(Polled(p))

FairSpec == Spec /\ Fairness
----------------------------------------------------------------------------
(* A record in use belongs to an open connection that calls back with it: a  *)
(* connection that is closed, in whichever way, always gives its place in    *)
(* the pool back ("so the pool slot ... don't leak", wifi_server.cpp:304).   *)
(* And an open connection has a record of its own, unless a pcb that was     *)
(* still closing had a say in a record given out again.                      *)
PoolMatchesPcbs ==
  /\ \A s \in Conns :
       g_conns[s].in_use => pcb[g_conns[s].pcb] = [state |-> "open", conn |-> s]
  /\ \A p \in Pcbs :
       pcb[p].state = "open" /\ ~reused
         => g_conns[pcb[p].conn].in_use /\ g_conns[pcb[p].conn].pcb = p

(* broadcastLog writes to a connection that is open and is a stream, and     *)
(* that is the only one: a second browser tab closes the first               *)
(* (wifi_server.cpp:447).                                                    *)
OneLiveStream ==
  ~reused =>
    /\ sse_client_pcb # NoPcb =>
         /\ pcb[sse_client_pcb].state = "open"
         /\ g_conns[pcb[sse_client_pcb].conn].is_sse
    /\ \A s \in Conns :
         g_conns[s].in_use /\ g_conns[s].is_sse => g_conns[s].pcb = sse_client_pcb

(* A connection that has not stopped in the middle of a request, and is not  *)
(* the stream, gives its record back.                                        *)
RecordReturns ==
  \A s \in Conns :
    LET busy == g_conns[s].in_use /\ ~g_conns[s].is_sse /\ g_conns[s].req # "half"
    IN  busy ~> ~busy
=============================================================================
