----------------------------- MODULE HttpProofs -----------------------------
(***************************************************************************)
(* The server's pool and stream, and the write protection of the console,  *)
(* for every number of connections and records and every command.          *)
(*                                                                         *)
(* Every callback does one of three things to the server: it leaves the    *)
(* places of records and pcbs alone (Marks), it takes one pcb out of       *)
(* service with its record (Parts), or it makes a pcb the stream, for      *)
(* which the one before parts first. Each keeps the invariant (MarksPool,  *)
(* PartsPool, PartsLive, Registers), and each callback is shown to be one  *)
(* of them. The invariant adds to what is claimed:                         *)
(*   - that no two pcbs have the same record, and that a pcb that is still *)
(*     closing is the one its record names (Whole), until a record is      *)
(*     given out while an older pcb has it;                                *)
(*   - for the stream, that a client which has sent no complete request is *)
(*     not the stream (Fresh).                                             *)
(***************************************************************************)
EXTENDS HttpServer, TLAPS

(* The types of Server's parts. *)
Records == [in_use : BOOLEAN, pcb : Pcbs \cup {NoPcb}, req : Requests,
            response : {"none", "pending", "sent"},
            is_sse : BOOLEAN, close_when_done : BOOLEAN]
Blocks == [state : {"none", "open", "closing", "last_ack"}, conn : Conns \cup {NoConn}]
Servers == [conns : [Conns -> Records], pcb : [Pcbs -> Blocks], sse : Pcbs \cup {NoPcb}]

(* A record in use is that of an open pcb. *)
Owned(sv) ==
  \A s \in Conns : sv.conns[s].in_use =>
    /\ sv.conns[s].pcb \in Pcbs
    /\ sv.pcb[sv.conns[s].pcb].state = "open" /\ sv.pcb[sv.conns[s].pcb].conn = s

(* A pcb has a record as long as lwIP has the pcb. *)
Placed(sv) == \A p \in Pcbs : sv.pcb[p].state # "none" => sv.pcb[p].conn \in Conns

(* No two pcbs have the same one. *)
Apart(sv) ==
  \A p, q \in Pcbs : sv.pcb[p].conn \in Conns /\ sv.pcb[p].conn = sv.pcb[q].conn => p = q

(* A pcb's record names it, and is in use while the pcb is open. *)
Held(sv) ==
  \A p \in Pcbs : sv.pcb[p].state # "none" =>
    /\ sv.conns[sv.pcb[p].conn].pcb = p
    /\ sv.pcb[p].state = "open" => sv.conns[sv.pcb[p].conn].in_use

Pool(sv) == sv \in Servers /\ Owned(sv) /\ Placed(sv)
Whole(sv) == Apart(sv) /\ Held(sv)

----------------------------------------------------------------------------
(* NoConn is no record. *)
LEMMA ConnIndex == Conns \subseteq Nat /\ NoConn \notin Conns
BY PoolAssumption DEF Conns, NoConn

(* What freeConn and tcp_close leave. *)
LEMMA Freed ==
  ASSUME NEW sv \in Servers, NEW s \in Conns
  PROVE  /\ freeConn(sv, s) \in Servers
         /\ freeConn(sv, s).pcb = sv.pcb /\ freeConn(sv, s).sse = sv.sse
         /\ freeConn(sv, s).conns = [sv.conns EXCEPT ![s] = [@ EXCEPT !.in_use = FALSE]]
<1> DEFINE c == [sv.conns[s] EXCEPT !.in_use = FALSE]
<1>1. c \in Records
  BY DEF Servers, Records
<1>2. [sv.conns EXCEPT ![s] = c] \in [Conns -> Records]
  BY <1>1 DEF Servers
<1>3. freeConn(sv, s) = [sv EXCEPT !.conns = [sv.conns EXCEPT ![s] = c]]
  BY DEF freeConn, Servers
<1> QED BY <1>2, <1>3 DEF Servers

LEMMA Closed ==
  ASSUME NEW sv \in Servers, NEW p \in Pcbs
  PROVE  /\ tcp_close(sv, p) \in Servers
         /\ tcp_close(sv, p).conns = sv.conns /\ tcp_close(sv, p).sse = sv.sse
         /\ tcp_close(sv, p).pcb =
              [sv.pcb EXCEPT ![p] = [state |-> IF @.state = "open" THEN "closing" ELSE @.state,
                                     conn |-> @.conn]]
<1> DEFINE b == [state |-> IF sv.pcb[p].state = "open" THEN "closing" ELSE sv.pcb[p].state,
                 conn |-> sv.pcb[p].conn]
<1>1. b \in Blocks
  BY DEF Servers, Blocks
<1>2. [sv.pcb EXCEPT ![p] = b] \in [Pcbs -> Blocks]
  BY <1>1 DEF Servers
<1>3. tcp_close(sv, p) = [sv EXCEPT !.pcb = [sv.pcb EXCEPT ![p] = b]]
  <2>1. CASE sv.pcb[p].state = "open"
    <3>1. b = [sv.pcb[p] EXCEPT !.state = "closing"]
      BY <2>1 DEF Servers, Blocks
    <3> QED BY <2>1, <3>1 DEF tcp_close, Servers
  <2>2. CASE sv.pcb[p].state # "open"
    <3>1. b = sv.pcb[p]
      BY <2>2 DEF Servers, Blocks
    <3>2. sv.pcb = [sv.pcb EXCEPT ![p] = b]
      BY <3>1 DEF Servers
    <3> QED BY <2>2, <3>2 DEF tcp_close, Servers
  <2> QED BY <2>1, <2>2
<1> QED BY <1>2, <1>3 DEF Servers

----------------------------------------------------------------------------
(* Callbacks are made of three steps. A record in use changes in what it     *)
(* says of its response only.                                                *)
Marks(sv, tv) ==
  /\ tv \in Servers
  /\ tv.pcb = sv.pcb
  /\ \A s \in Conns : tv.conns[s].in_use = sv.conns[s].in_use /\ tv.conns[s].pcb = sv.conns[s].pcb

LEMMA MarksPool ==
  ASSUME NEW sv, NEW tv, Pool(sv), Marks(sv, tv)
  PROVE  Pool(tv) /\ (Whole(sv) => Whole(tv))
<1>1. Owned(tv)
  BY DEF Pool, Owned, Marks
<1>2. Placed(tv)
  BY DEF Pool, Placed, Marks
<1>3. Whole(sv) => Whole(tv)
  BY DEF Whole, Apart, Held, Marks, Pool, Placed
<1> QED BY <1>1, <1>2, <1>3 DEF Pool, Marks

(* A pcb is open no more, and its record is given back.                      *)
Parts(sv, tv, p) ==
  /\ tv \in Servers
  /\ \A s \in Conns :
       /\ tv.conns[s].pcb = sv.conns[s].pcb
       /\ tv.conns[s].in_use => sv.conns[s].in_use /\ sv.conns[s].pcb # p
       /\ s # sv.pcb[p].conn => tv.conns[s] = sv.conns[s]
  /\ \A q \in Pcbs \ {p} : tv.pcb[q] = sv.pcb[q]
  /\ tv.pcb[p].state # "open"
  /\ tv.pcb[p] = NoBlock \/ /\ tv.pcb[p].conn = sv.pcb[p].conn
                            /\ sv.pcb[p].state = "none" => tv.pcb[p].state = "none"

LEMMA PartsPool ==
  ASSUME NEW sv, NEW tv, NEW p \in Pcbs, Pool(sv), Parts(sv, tv, p)
  PROVE  Pool(tv) /\ (Whole(sv) => Whole(tv))
<1>1. Owned(tv)
  <2> SUFFICES ASSUME NEW s \in Conns, tv.conns[s].in_use
               PROVE  /\ tv.conns[s].pcb \in Pcbs
                      /\ tv.pcb[tv.conns[s].pcb].state = "open"
                      /\ tv.pcb[tv.conns[s].pcb].conn = s
    BY DEF Owned
  <2>1. /\ sv.conns[s].pcb \in Pcbs
        /\ sv.pcb[sv.conns[s].pcb].state = "open" /\ sv.pcb[sv.conns[s].pcb].conn = s
    BY DEF Pool, Owned, Parts
  <2> QED BY <2>1 DEF Parts
<1>2. Placed(tv)
  BY DEF Parts, Pool, Placed, NoBlock
<1>3. ASSUME Whole(sv) PROVE Apart(tv)
  BY <1>3, ConnIndex DEF Whole, Apart, Parts, NoBlock
<1>4. ASSUME Whole(sv) PROVE Held(tv)
  <2> SUFFICES ASSUME NEW q \in Pcbs, tv.pcb[q].state # "none"
               PROVE  /\ tv.conns[tv.pcb[q].conn].pcb = q
                      /\ tv.pcb[q].state = "open" => tv.conns[tv.pcb[q].conn].in_use
    BY DEF Held
  <2>1. CASE q = p
    <3>1. tv.pcb[p].conn = sv.pcb[p].conn /\ sv.pcb[p].state # "none"
      BY <2>1 DEF Parts, NoBlock
    <3> QED BY <1>4, <2>1, <3>1 DEF Whole, Held, Parts, Pool, Placed
  <2>2. CASE q # p
    <3>1. tv.pcb[q] = sv.pcb[q]
      BY <2>2 DEF Parts
    <3>2. sv.pcb[q].conn \in Conns
      BY <3>1 DEF Pool, Placed
    <3>3. sv.pcb[q].conn # sv.pcb[p].conn
      BY <1>4, <2>2, <3>2 DEF Whole, Apart
    <3> QED BY <1>4, <3>1, <3>2, <3>3 DEF Whole, Held, Parts
  <2> QED BY <2>1, <2>2
<1> QED BY <1>1, <1>2, <1>3, <1>4 DEF Pool, Parts, Whole

(* The one live stream of OneLiveStream.                                     *)
Live(sv) ==
  /\ sv.sse # NoPcb =>
       sv.pcb[sv.sse].state = "open" /\ sv.conns[sv.pcb[sv.sse].conn].is_sse
  /\ \A s \in Conns : sv.conns[s].in_use /\ sv.conns[s].is_sse => sv.conns[s].pcb = sv.sse

(* A pcb that parts takes the stream with it, if it is its, and no other.    *)
LEMMA PartsLive ==
  ASSUME NEW sv, NEW tv, NEW p \in Pcbs, Pool(sv), Parts(sv, tv, p),
         Whole(sv), Live(sv),
         tv.sse = IF p = sv.sse THEN NoPcb ELSE sv.sse
  PROVE  Live(tv)
<1>1. ASSUME tv.sse # NoPcb
      PROVE  tv.pcb[tv.sse].state = "open" /\ tv.conns[tv.pcb[tv.sse].conn].is_sse
  <2>1. tv.sse = sv.sse /\ sv.sse # p /\ sv.sse \in Pcbs
    BY <1>1 DEF Pool, Servers
  <2>2. tv.pcb[sv.sse] = sv.pcb[sv.sse]
    BY <2>1 DEF Parts
  <2>3. sv.pcb[sv.sse].state = "open" /\ sv.conns[sv.pcb[sv.sse].conn].is_sse
    BY <1>1, <2>1 DEF Live
  <2>4. sv.pcb[sv.sse].conn \in Conns /\ sv.pcb[sv.sse].conn # sv.pcb[p].conn
    BY <2>1, <2>3 DEF Whole, Apart, Pool, Placed
  <2> QED BY <2>1, <2>2, <2>3, <2>4 DEF Parts
<1>2. ASSUME NEW s \in Conns, tv.conns[s].in_use, tv.conns[s].is_sse
      PROVE  tv.conns[s].pcb = tv.sse
  <2>1. sv.conns[s].in_use /\ sv.conns[s].pcb # p
    BY <1>2 DEF Parts
  <2>2. s # sv.pcb[p].conn
    <3>1. sv.conns[s].pcb \in Pcbs /\ sv.pcb[sv.conns[s].pcb].conn = s
      BY <2>1 DEF Pool, Owned
    <3> QED BY <2>1, <3>1 DEF Whole, Apart
  <2>3. tv.conns[s] = sv.conns[s] /\ sv.conns[s].pcb = sv.sse
    BY <1>2, <2>1, <2>2 DEF Live, Parts
  <2> QED BY <2>1, <2>3
<1> QED BY <1>1, <1>2 DEF Live

----------------------------------------------------------------------------
(* The callbacks' parts. *)

(* Freed and closed, a pcb has parted. *)
LEMMA FreedAndClosed ==
  ASSUME NEW sv, Pool(sv), NEW p \in Pcbs, sv.pcb[p].state # "none"
  PROVE  /\ Parts(sv, tcp_close(freeConn(sv, sv.pcb[p].conn), p), p)
         /\ tcp_close(freeConn(sv, sv.pcb[p].conn), p).sse = sv.sse
         /\ tcp_close(freeConn(sv, sv.pcb[p].conn), p).pcb[p].state # "none"
         /\ tcp_close(freeConn(sv, sv.pcb[p].conn), p).pcb[p].conn = sv.pcb[p].conn
<1> DEFINE i == sv.pcb[p].conn
           fv == freeConn(sv, i)
           tv == tcp_close(fv, p)
<1>1. i \in Conns /\ sv \in Servers
  BY DEF Pool, Placed
<1>2. /\ fv \in Servers /\ fv.pcb = sv.pcb /\ fv.sse = sv.sse
      /\ fv.conns = [sv.conns EXCEPT ![i] = [@ EXCEPT !.in_use = FALSE]]
  BY <1>1, Freed
<1>3. /\ tv \in Servers /\ tv.conns = fv.conns /\ tv.sse = fv.sse
      /\ tv.pcb = [fv.pcb EXCEPT ![p] = [state |-> IF @.state = "open" THEN "closing" ELSE @.state,
                                         conn |-> @.conn]]
  <2> HIDE DEF fv
  <2> QED BY <1>2, Closed
<1>4. \A s \in Conns :
        /\ tv.conns[s].pcb = sv.conns[s].pcb
        /\ tv.conns[s].in_use => sv.conns[s].in_use /\ s # i
        /\ s # i => tv.conns[s] = sv.conns[s]
  <2> HIDE DEF fv, tv
  <2> QED BY <1>1, <1>2, <1>3 DEF Servers, Records
<1>5. \A s \in Conns : sv.conns[s].in_use /\ s # i => sv.conns[s].pcb # p
  BY DEF Pool, Owned
<1>6. /\ \A q \in Pcbs \ {p} : tv.pcb[q] = sv.pcb[q]
      /\ tv.pcb[p].state # "open" /\ tv.pcb[p].state # "none"
      /\ tv.pcb[p].conn = sv.pcb[p].conn
  <2> HIDE DEF fv, tv
  <2> QED BY <1>1, <1>2, <1>3 DEF Servers
<1> QED BY <1>1, <1>2, <1>3, <1>4, <1>5, <1>6 DEF Parts

(* trySend leaves the pool alone, or the pcb it is called for parts. It      *)
(* never parts with the stream while that is open.                           *)
LEMMA TrySend ==
  ASSUME NEW sv, Pool(sv), NEW p \in Pcbs, sv.pcb[p].state # "none",
         NEW tv \in trySend(sv, p, sv.pcb[p].conn)
  PROVE  /\ tv.sse = sv.sse
         /\ \/ Marks(sv, tv) /\ (\A s \in Conns : tv.conns[s].is_sse = sv.conns[s].is_sse)
            \/ /\ Parts(sv, tv, p)
               /\ sv.pcb[p].state = "open" => ~sv.conns[sv.pcb[p].conn].is_sse
<1> DEFINE i == sv.pcb[p].conn
           sent == [sv EXCEPT !.conns[i].response = "sent"]
<1>1. i \in Conns /\ sv \in Servers
  BY DEF Pool, Placed
<1>2. Marks(sv, sv)
  BY <1>1 DEF Marks
<1>3. /\ sent \in Servers /\ sent.pcb = sv.pcb /\ sent.sse = sv.sse
      /\ sent.conns = [sv.conns EXCEPT ![i] = [@ EXCEPT !.response = "sent"]]
  <2> DEFINE c == [sv.conns[i] EXCEPT !.response = "sent"]
  <2>1. c \in Records
    BY <1>1 DEF Servers, Records
  <2>2. [sv.conns EXCEPT ![i] = c] \in [Conns -> Records]
    BY <1>1, <2>1 DEF Servers
  <2>3. sent = [sv EXCEPT !.conns = [sv.conns EXCEPT ![i] = c]]
    BY <1>1 DEF Servers
  <2> QED BY <1>1, <2>2, <2>3 DEF Servers
<1>4. /\ Marks(sv, sent)
      /\ \A s \in Conns : sent.conns[s].is_sse = sv.conns[s].is_sse
  <2> HIDE DEF sent
  <2> QED BY <1>1, <1>3 DEF Marks, Servers, Records
<1>5. /\ Parts(sv, tcp_close(freeConn(sv, i), p), p)
      /\ tcp_close(freeConn(sv, i), p).sse = sv.sse
  BY FreedAndClosed
<1>6. /\ Parts(sv, tcp_close(freeConn(sent, i), p), p)
      /\ tcp_close(freeConn(sent, i), p).sse = sv.sse
  <2> HIDE DEF sent
  <2>1. Pool(sent) /\ sent.pcb[p].state # "none" /\ sent.pcb[p].conn = i
    BY <1>3, <1>4, MarksPool
  <2>2. /\ Parts(sent, tcp_close(freeConn(sent, i), p), p)
        /\ tcp_close(freeConn(sent, i), p).sse = sent.sse
    BY <2>1, FreedAndClosed
  <2>3. \A s \in Conns : s # i => sent.conns[s] = sv.conns[s]
    BY <1>1, <1>3 DEF Servers
  <2> DEFINE tw == tcp_close(freeConn(sent, i), p)
  <2>4. tw \in Servers /\ tw.sse = sv.sse /\ Parts(sent, tw, p)
    BY <1>3, <2>2 DEF Parts
  <2> HIDE DEF tw
  <2>5. Parts(sv, tw, p)
    BY <1>3, <1>4, <2>3, <2>4 DEF Parts, Marks
  <2> QED BY <2>4, <2>5 DEF tw
<1>7. sent.conns[i].is_sse = sv.conns[i].is_sse
  BY <1>1, <1>4
<1> HIDE DEF sent
<1>8. CASE sv.conns[i].response # "pending"
  <2>1. tv = Finished(sv, p, i)
    BY <1>8 DEF trySend
  <2> QED BY <1>2, <1>5, <2>1 DEF Finished
<1>9. CASE sv.conns[i].response = "pending" /\ sv.pcb[p].state = "open"
  <2>1. tv = sv \/ tv = Finished(sent, p, i)
    BY <1>9 DEF trySend, Stalled, sent
  <2> QED BY <1>2, <1>3, <1>4, <1>6, <1>7, <2>1 DEF Finished
<1>10. CASE sv.conns[i].response = "pending" /\ sv.pcb[p].state # "open"
  <2>1. tv = sv \/ tv = tcp_close(freeConn(sv, i), p)
    BY <1>10 DEF trySend, Stalled
  <2> QED BY <1>2, <1>5, <1>10, <2>1
<1> QED BY <1>8, <1>9, <1>10

(* The record stays with its pcb when a response is begun. *)
LEMMA Responds ==
  ASSUME NEW sv \in Servers, NEW s \in Conns
  PROVE  /\ Marks(sv, Respond(sv, s))
         /\ Respond(sv, s).sse = sv.sse
         /\ \A t \in Conns : Respond(sv, s).conns[t].is_sse = sv.conns[t].is_sse
<1> DEFINE c == [sv.conns[s] EXCEPT !.response = "pending"]
           tv == [sv EXCEPT !.conns = [sv.conns EXCEPT ![s] = c]]
<1>1. c \in Records
  BY DEF Servers, Records
<1>2. [sv.conns EXCEPT ![s] = c] \in [Conns -> Records]
  BY <1>1 DEF Servers
<1>3. Respond(sv, s) = sv \/ Respond(sv, s) = tv
  BY DEF Respond, Servers
<1>4. tv \in Servers /\ tv.pcb = sv.pcb /\ tv.sse = sv.sse /\ tv.conns = [sv.conns EXCEPT ![s] = c]
  BY <1>2 DEF Servers
<1>5. /\ Marks(sv, tv)
      /\ \A t \in Conns : tv.conns[t].is_sse = sv.conns[t].is_sse
  <2> HIDE DEF tv
  <2> QED BY <1>4 DEF Marks, Servers, Records
<1> HIDE DEF tv
<1> QED BY <1>3, <1>4, <1>5 DEF Marks

(* So does it when its pcb becomes the stream. *)
LEMMA Streams ==
  ASSUME NEW sv \in Servers, NEW p \in Pcbs, NEW s \in Conns
  PROVE  /\ Marks(sv, StreamTo(sv, p, s))
         /\ StreamTo(sv, p, s).sse = p
         /\ StreamTo(sv, p, s).conns[s].is_sse
         /\ \A t \in Conns \ {s} : StreamTo(sv, p, s).conns[t].is_sse = sv.conns[t].is_sse
<1> DEFINE c == [sv.conns[s] EXCEPT !.is_sse = TRUE, !.close_when_done = FALSE]
           tv == [sv EXCEPT !.sse = p, !.conns = [sv.conns EXCEPT ![s] = c]]
<1>1. c \in Records
  BY DEF Servers, Records
<1>2. [sv.conns EXCEPT ![s] = c] \in [Conns -> Records]
  BY <1>1 DEF Servers
<1>3. StreamTo(sv, p, s) = Respond(tv, s)
  BY DEF StreamTo, Servers, Records
<1>4. tv \in Servers /\ tv.pcb = sv.pcb /\ tv.sse = p /\ tv.conns = [sv.conns EXCEPT ![s] = c]
  BY <1>2 DEF Servers
<1>5. /\ Marks(sv, tv) /\ tv.conns[s].is_sse
      /\ \A t \in Conns \ {s} : tv.conns[t].is_sse = sv.conns[t].is_sse
  <2> HIDE DEF tv
  <2> QED BY <1>4 DEF Marks, Servers, Records
<1> HIDE DEF tv
<1>6. /\ Marks(tv, Respond(tv, s)) /\ Respond(tv, s).sse = tv.sse
      /\ \A t \in Conns : Respond(tv, s).conns[t].is_sse = tv.conns[t].is_sse
  BY <1>4, Responds
<1> DEFINE rv == Respond(tv, s)
<1> HIDE DEF rv
<1>7. /\ Marks(sv, rv) /\ rv.sse = p /\ rv.conns[s].is_sse
      /\ \A t \in Conns \ {s} : rv.conns[t].is_sse = sv.conns[t].is_sse
  BY <1>4, <1>5, <1>6 DEF Marks, rv
<1> QED BY <1>3, <1>7 DEF rv

(* The stream there was loses its record and its pcb. *)
LEMMA OldParts ==
  ASSUME NEW sv, Pool(sv), sv.sse # NoPcb,
         NEW cv, cv = tcp_close(IF findConn(sv, sv.sse) = NoConn THEN sv
                                ELSE freeConn(sv, findConn(sv, sv.sse)), sv.sse)
  PROVE  /\ Parts(sv, cv, sv.sse) /\ cv.sse = sv.sse
         /\ cv.pcb[sv.sse].conn = sv.pcb[sv.sse].conn
         /\ sv.pcb[sv.sse].state # "none" => cv.pcb[sv.sse].state # "none"
<1> DEFINE old == findConn(sv, sv.sse)
<1>1. sv \in Servers /\ sv.sse \in Pcbs
  BY DEF Pool, Servers
<1>2. CASE \E i \in Conns : sv.conns[i].in_use /\ sv.conns[i].pcb = sv.sse
  <2>1. old \in Conns /\ sv.conns[old].in_use /\ sv.conns[old].pcb = sv.sse
    BY <1>2 DEF findConn
  <2> HIDE DEF old
  <2>2. sv.pcb[sv.sse].state = "open" /\ sv.pcb[sv.sse].conn = old
    BY <2>1 DEF Pool, Owned
  <2>3. cv = tcp_close(freeConn(sv, sv.pcb[sv.sse].conn), sv.sse)
    BY <2>1, <2>2, ConnIndex DEF old
  <2> QED BY <1>1, <2>2, <2>3, FreedAndClosed
<1>3. CASE ~\E i \in Conns : sv.conns[i].in_use /\ sv.conns[i].pcb = sv.sse
  <2>1. cv = tcp_close(sv, sv.sse)
    BY <1>3 DEF findConn
  <2>2. /\ cv \in Servers /\ cv.conns = sv.conns /\ cv.sse = sv.sse
        /\ cv.pcb = [sv.pcb EXCEPT ![sv.sse] =
                       [state |-> IF @.state = "open" THEN "closing" ELSE @.state,
                        conn |-> @.conn]]
    BY <1>1, <2>1, Closed
  <2>3. /\ \A q \in Pcbs \ {sv.sse} : cv.pcb[q] = sv.pcb[q]
        /\ cv.pcb[sv.sse].state # "open" /\ cv.pcb[sv.sse].conn = sv.pcb[sv.sse].conn
        /\ sv.pcb[sv.sse].state = "none" <=> cv.pcb[sv.sse].state = "none"
    BY <1>1, <2>2 DEF Servers
  <2> QED BY <1>3, <2>2, <2>3 DEF Parts
<1> QED BY <1>2, <1>3

(* The clients that have not sent a complete request are not the stream.     *)
Fresh(sv, done) ==
  \A p \in Pcbs \ done : sv.pcb[p].state = "open" => ~sv.conns[sv.pcb[p].conn].is_sse

LEMMA MarksLive ==
  ASSUME NEW sv, NEW tv, NEW done, Pool(sv), Marks(sv, tv), tv.sse = sv.sse,
         \A s \in Conns : tv.conns[s].is_sse = sv.conns[s].is_sse
  PROVE  (Live(sv) => Live(tv)) /\ (Fresh(sv, done) => Fresh(tv, done))
<1>1. ASSUME Live(sv) PROVE Live(tv)
  <2>1. ASSUME sv.sse # NoPcb
        PROVE  tv.pcb[tv.sse].state = "open" /\ tv.conns[tv.pcb[tv.sse].conn].is_sse
    <3>1. sv.pcb[sv.sse].state = "open" /\ sv.conns[sv.pcb[sv.sse].conn].is_sse /\ sv.sse \in Pcbs
      BY <1>1, <2>1 DEF Live, Pool, Servers
    <3> QED BY <3>1 DEF Pool, Placed, Marks
  <2> QED BY <1>1, <2>1 DEF Live, Marks
<1>2. ASSUME Fresh(sv, done) PROVE Fresh(tv, done)
  BY <1>2 DEF Fresh, Marks, Pool, Placed
<1> QED BY <1>1, <1>2

LEMMA PartsFresh ==
  ASSUME NEW sv, NEW tv, NEW p \in Pcbs, NEW done, Pool(sv), Parts(sv, tv, p), Whole(sv),
         Fresh(sv, done)
  PROVE  Fresh(tv, done)
<1> SUFFICES ASSUME NEW q \in Pcbs \ done, tv.pcb[q].state = "open"
             PROVE  ~tv.conns[tv.pcb[q].conn].is_sse
  BY DEF Fresh
<1>1. q # p /\ tv.pcb[q] = sv.pcb[q]
  BY DEF Parts
<1>2. sv.pcb[q].conn \in Conns /\ sv.pcb[q].conn # sv.pcb[p].conn
  BY <1>1 DEF Pool, Placed, Whole, Apart
<1> QED BY <1>1, <1>2 DEF Parts, Fresh

(* p, whose request it is, has become the stream.                            *)
Registered(sv, tv, p, done) ==
  /\ Pool(tv) /\ (Whole(sv) => Whole(tv))
  /\ tv.pcb[p].state # "none" /\ tv.pcb[p].conn = sv.pcb[p].conn
  /\ Whole(sv) /\ Live(sv) /\ p # sv.sse /\ Fresh(sv, done)
       => /\ Live(tv) /\ Fresh(tv, done \cup {p})
          /\ tv.pcb[p].state = "open" /\ tv.conns[tv.pcb[p].conn].is_sse

LEMMA Registers ==
  ASSUME NEW sv, Pool(sv), NEW p \in Pcbs, sv.pcb[p].state = "open",
         NEW done, NEW tv, tv = registerSseClient(sv, p, sv.pcb[p].conn)
  PROVE  Registered(sv, tv, p, done)
<1> DEFINE s == sv.pcb[p].conn
           freed == IF findConn(sv, sv.sse) = NoConn THEN sv
                    ELSE freeConn(sv, findConn(sv, sv.sse))
           cv == IF sv.sse = NoPcb THEN sv ELSE tcp_close(freed, sv.sse)
<1>1. s \in Conns /\ sv \in Servers
  BY DEF Pool, Placed
<1>2. tv = StreamTo(cv, p, s)
  BY DEF registerSseClient
<1>3. sv.sse # NoPcb => /\ Parts(sv, cv, sv.sse) /\ cv.sse = sv.sse /\ sv.sse \in Pcbs
                        /\ cv.pcb[sv.sse].conn = sv.pcb[sv.sse].conn
                        /\ sv.pcb[sv.sse].state # "none" => cv.pcb[sv.sse].state # "none"
  BY <1>1, OldParts DEF Servers
<1>4. sv.sse = NoPcb => cv = sv
  OBVIOUS
<1> HIDE DEF cv
<1>5. Pool(cv) /\ (Whole(sv) => Whole(cv))
  BY <1>3, <1>4, PartsPool
<1>6. /\ cv.pcb[p].state # "none" /\ cv.pcb[p].conn = s
      /\ p # sv.sse => cv.pcb[p] = sv.pcb[p]
  BY <1>3, <1>4 DEF Parts
<1>7. /\ Marks(cv, tv) /\ tv.sse = p /\ tv.conns[s].is_sse
      /\ \A t \in Conns \ {s} : tv.conns[t].is_sse = cv.conns[t].is_sse
  BY <1>1, <1>2, <1>5, Streams DEF Pool
<1>8. Pool(tv) /\ (Whole(sv) => Whole(tv))
  BY <1>5, <1>7, MarksPool
<1>9. tv.pcb[p].state # "none" /\ tv.pcb[p].conn = s
  BY <1>6, <1>7 DEF Marks
<1>10. ASSUME Whole(sv), Live(sv), p # sv.sse, Fresh(sv, done)
       PROVE  /\ Live(tv) /\ Fresh(tv, done \cup {p})
              /\ tv.pcb[p].state = "open" /\ tv.conns[tv.pcb[p].conn].is_sse
  <2>1. tv.pcb[p].state = "open" /\ tv.conns[tv.pcb[p].conn].is_sse
    BY <1>6, <1>7, <1>9, <1>10 DEF Marks
  <2>2. ASSUME NEW t \in Conns, tv.conns[t].in_use, tv.conns[t].is_sse PROVE tv.conns[t].pcb = p
    <3>1. CASE t = s
      BY <1>8, <1>9, <1>10, <2>1, <3>1 DEF Whole, Held
    <3>2. CASE t # s
      <4>1. cv.conns[t].in_use /\ cv.conns[t].is_sse
        BY <1>7, <2>2, <3>2 DEF Marks
      <4>2. sv.sse # NoPcb
        <5> SUFFICES ASSUME sv.sse = NoPcb PROVE FALSE
          OBVIOUS
        <5>1. sv.conns[t].pcb = NoPcb /\ sv.conns[t].pcb \in Pcbs
          BY <1>4, <1>10, <4>1 DEF Live, Pool, Owned
        <5> QED BY <5>1, PcbAssumption
      <4>3. sv.conns[t].in_use /\ sv.conns[t].pcb # sv.sse
        BY <1>3, <4>1, <4>2 DEF Parts
      <4>4. t # sv.pcb[sv.sse].conn
        <5>1. sv.conns[t].pcb \in Pcbs /\ sv.pcb[sv.conns[t].pcb].conn = t
          BY <4>3 DEF Pool, Owned
        <5> QED BY <1>3, <1>10, <4>2, <4>3, <5>1 DEF Whole, Apart
      <4>5. sv.conns[t].is_sse
        BY <1>3, <4>1, <4>2, <4>4 DEF Parts
      <4> QED BY <1>10, <4>3, <4>5 DEF Live
    <3> QED BY <3>1, <3>2
  <2>3. Fresh(cv, done)
    BY <1>3, <1>4, <1>10, PartsFresh
  <2>4. Fresh(tv, done \cup {p})
    <3> SUFFICES ASSUME NEW q \in Pcbs \ (done \cup {p}), tv.pcb[q].state = "open"
                 PROVE  ~tv.conns[tv.pcb[q].conn].is_sse
      BY DEF Fresh
    <3>1. tv.pcb[q] = cv.pcb[q] /\ ~cv.conns[cv.pcb[q].conn].is_sse
      BY <1>7, <2>3 DEF Fresh, Marks
    <3>2. tv.pcb[q].conn \in Conns /\ tv.pcb[q].conn # s
      BY <1>1, <1>8, <1>9, <1>10 DEF Pool, Placed, Whole, Apart
    <3> QED BY <1>7, <3>1, <3>2
  <2> QED BY <1>7, <2>1, <2>2, <2>4 DEF Live
<1> QED BY <1>8, <1>9, <1>10 DEF Registered

(* A callback keeps what it finds of the pool, and, if all is in order, the  *)
(* stream.                                                                   *)
Keeps(sv, tv, done, done2) ==
  /\ Pool(tv)
  /\ Whole(sv) => Whole(tv)
  /\ Whole(sv) /\ Live(sv) /\ Fresh(sv, done) => Live(tv) /\ Fresh(tv, done2)

LEMMA PartsKeeps ==
  ASSUME NEW sv, Pool(sv), NEW tv, NEW p \in Pcbs, NEW done, Parts(sv, tv, p), tv.sse = sv.sse,
         sv.pcb[p].state = "open" => ~sv.conns[sv.pcb[p].conn].is_sse
  PROVE  Keeps(sv, tv, done, done)
<1>1. Pool(tv) /\ (Whole(sv) => Whole(tv))
  BY PartsPool
<1>2. ASSUME Whole(sv), Live(sv), Fresh(sv, done) PROVE Live(tv) /\ Fresh(tv, done)
  <2>1. p # sv.sse
    BY <1>2, PcbAssumption DEF Live
  <2> QED BY <1>2, <2>1, PartsLive, PartsFresh
<1> QED BY <1>1, <1>2 DEF Keeps

LEMMA Tried ==
  ASSUME NEW sv, Pool(sv), NEW p \in Pcbs, sv.pcb[p].state # "none", NEW done,
         NEW tv \in trySend(sv, p, sv.pcb[p].conn)
  PROVE  Keeps(sv, tv, done, done)
<1>1. CASE Marks(sv, tv) /\ (\A s \in Conns : tv.conns[s].is_sse = sv.conns[s].is_sse)
  BY <1>1, TrySend, MarksPool, MarksLive DEF Keeps
<1>2. CASE Parts(sv, tv, p) /\ (sv.pcb[p].state = "open" => ~sv.conns[sv.pcb[p].conn].is_sse)
  BY <1>2, TrySend, PartsKeeps
<1> QED BY <1>1, <1>2, TrySend

LEMMA Updated ==
  ASSUME NEW sv \in Servers, NEW s \in Conns, NEW c \in Records,
         c.in_use = sv.conns[s].in_use, c.pcb = sv.conns[s].pcb, c.is_sse = sv.conns[s].is_sse,
         NEW tv, tv = [sv EXCEPT !.conns = [sv.conns EXCEPT ![s] = c]]
  PROVE  /\ Marks(sv, tv) /\ tv.sse = sv.sse
         /\ \A t \in Conns : tv.conns[t].is_sse = sv.conns[t].is_sse
<1>1. [sv.conns EXCEPT ![s] = c] \in [Conns -> Records]
  BY DEF Servers
<1>2. tv \in Servers /\ tv.pcb = sv.pcb /\ tv.sse = sv.sse /\ tv.conns = [sv.conns EXCEPT ![s] = c]
  BY <1>1 DEF Servers
<1> QED BY <1>2 DEF Marks, Servers

(* A request of a client that had not sent one before. *)
LEMMA Handled ==
  ASSUME NEW sv, Pool(sv), NEW p \in Pcbs, sv.pcb[p].state = "open", NEW done,
         NEW tv \in handleHttpRequest(sv, p, sv.pcb[p].conn)
  PROVE  /\ Pool(tv) /\ (Whole(sv) => Whole(tv))
         /\ p \notin done => Keeps(sv, tv, done, done \cup {p})
<1>0. PICK left \in Left(sv.conns[sv.pcb[p].conn].response) :
        LET ov == [sv EXCEPT !.conns[sv.pcb[p].conn].close_when_done = TRUE,
                             !.conns[sv.pcb[p].conn].response = left]
        IN  tv \in trySend(IF sv.conns[sv.pcb[p].conn].req = "stream"
                           THEN registerSseClient(ov, p, sv.pcb[p].conn)
                           ELSE Respond(ov, sv.pcb[p].conn), p, sv.pcb[p].conn)
  BY DEF handleHttpRequest
<1> DEFINE s == sv.pcb[p].conn
           ov == [sv EXCEPT !.conns[s].close_when_done = TRUE, !.conns[s].response = left]
           mv == IF ov.conns[s].req = "stream" THEN registerSseClient(ov, p, s) ELSE Respond(ov, s)
           c == [sv.conns[s] EXCEPT !.close_when_done = TRUE, !.response = left]
<1>1. s \in Conns /\ sv \in Servers
  BY DEF Pool, Placed
<1>2. c \in Records /\ c.in_use = sv.conns[s].in_use /\ c.pcb = sv.conns[s].pcb
      /\ c.is_sse = sv.conns[s].is_sse /\ c.req = sv.conns[s].req
  <2>1. sv.conns[s] \in Records
    BY <1>1 DEF Servers
  <2>2. left \in {"none", "pending", "sent"}
    BY <1>0, <2>1 DEF Left, Records
  <2> QED BY <2>1, <2>2 DEF Records
<1>3. ov = [sv EXCEPT !.conns = [sv.conns EXCEPT ![s] = c]]
  BY <1>1 DEF Servers
<1>4. /\ Marks(sv, ov) /\ ov.sse = sv.sse
      /\ \A t \in Conns : ov.conns[t].is_sse = sv.conns[t].is_sse
  <2> HIDE DEF ov, c
  <2> QED BY <1>1, <1>2, <1>3, Updated
<1>5. ov.conns[s].req = sv.conns[s].req
  BY <1>1, <1>2, <1>3 DEF Servers
<1>6. tv \in trySend(mv, p, s)
  BY <1>0, <1>5
<1> HIDE DEF ov
<1>7. Pool(ov) /\ (Whole(sv) => Whole(ov)) /\ ov.pcb[p].state = "open" /\ ov.pcb[p].conn = s
  BY <1>4, MarksPool DEF Marks
<1>8. (Live(sv) => Live(ov)) /\ (Fresh(sv, done) => Fresh(ov, done))
  BY <1>4, MarksLive
<1>9. /\ Pool(mv) /\ (Whole(ov) => Whole(mv))
      /\ mv.pcb[p].state # "none" /\ mv.pcb[p].conn = s
      /\ Whole(ov) /\ Live(ov) /\ p # ov.sse /\ Fresh(ov, done)
           => Live(mv) /\ Fresh(mv, done \cup {p})
  <2>1. CASE ov.conns[s].req = "stream"
    <3>1. mv = registerSseClient(ov, p, ov.pcb[p].conn)
      BY <1>7, <2>1
    <3> HIDE DEF mv
    <3>2. Registered(ov, mv, p, done)
      BY <1>7, <3>1, Registers
    <3> QED BY <1>7, <3>2 DEF Registered
  <2>2. CASE ov.conns[s].req # "stream"
    <3>1. /\ Marks(ov, mv) /\ mv.sse = ov.sse
          /\ \A t \in Conns : mv.conns[t].is_sse = ov.conns[t].is_sse
      BY <1>1, <1>7, <2>2, Responds DEF Pool
    <3> HIDE DEF mv
    <3>2. Pool(mv) /\ (Whole(ov) => Whole(mv))
      BY <1>7, <3>1, MarksPool
    <3>3. (Live(ov) => Live(mv)) /\ (Fresh(ov, done) => Fresh(mv, done))
      BY <1>7, <3>1, MarksLive
    <3>4. Fresh(mv, done) => Fresh(mv, done \cup {p})
      BY DEF Fresh
    <3> QED BY <1>7, <3>1, <3>2, <3>3, <3>4 DEF Marks
  <2> QED BY <2>1, <2>2
<1> HIDE DEF mv
<1>10. Keeps(mv, tv, done \cup {p}, done \cup {p})
  BY <1>6, <1>9, Tried
<1>11. ASSUME p \notin done, Whole(sv), Live(sv), Fresh(sv, done) PROVE p # ov.sse
  <2>1. ~sv.conns[s].is_sse
    BY <1>11 DEF Fresh
  <2> QED BY <1>4, <1>11, <2>1, PcbAssumption DEF Live
<1> QED BY <1>7, <1>8, <1>9, <1>10, <1>11 DEF Keeps

(* The other side closes, or lwIP gives the pcb up. *)
LEMMA Departed ==
  ASSUME NEW sv, Pool(sv), NEW p \in Pcbs, sv.pcb[p].state # "none", NEW done,
         NEW b \in {NoBlock, [state |-> "last_ack", conn |-> sv.pcb[p].conn]},
         NEW tv
  PROVE  tv = [freeConn(unregisterSseClient(sv, sv.pcb[p].conn), sv.pcb[p].conn)
                 EXCEPT !.pcb[p] = b]
           => Keeps(sv, tv, done, done \ {p})
<1> DEFINE s == sv.pcb[p].conn
           uv == unregisterSseClient(sv, s)
           fv == freeConn(uv, s)
<1>1. s \in Conns /\ sv \in Servers /\ b \in Blocks
  BY DEF Pool, Placed, Blocks, NoBlock
<1>2. /\ uv \in Servers /\ uv.pcb = sv.pcb /\ uv.conns = sv.conns
      /\ uv.sse = IF sv.conns[s].is_sse /\ sv.conns[s].pcb = sv.sse THEN NoPcb ELSE sv.sse
  BY <1>1 DEF unregisterSseClient, Servers
<1> HIDE DEF uv
<1>3. /\ fv \in Servers /\ fv.pcb = sv.pcb /\ fv.sse = uv.sse
      /\ fv.conns = [sv.conns EXCEPT ![s] = [@ EXCEPT !.in_use = FALSE]]
  <2>1. /\ fv \in Servers /\ fv.pcb = uv.pcb /\ fv.sse = uv.sse
        /\ fv.conns = [uv.conns EXCEPT ![s] = [@ EXCEPT !.in_use = FALSE]]
    BY <1>1, <1>2, Freed
  <2> HIDE DEF fv
  <2> QED BY <1>2, <2>1
<1> HIDE DEF fv
<1> SUFFICES ASSUME tv = [fv EXCEPT !.pcb[p] = b]
             PROVE  Keeps(sv, tv, done, done \ {p})
  BY DEF fv, uv
<1>5. /\ tv \in Servers /\ tv.conns = fv.conns /\ tv.sse = uv.sse
      /\ tv.pcb = [sv.pcb EXCEPT ![p] = b]
  <2>1. [sv.pcb EXCEPT ![p] = b] \in [Pcbs -> Blocks]
    BY <1>1 DEF Servers
  <2> QED BY <1>3, <2>1 DEF Servers
<1>6. \A t \in Conns :
        /\ tv.conns[t].pcb = sv.conns[t].pcb
        /\ tv.conns[t].in_use => sv.conns[t].in_use /\ t # s
        /\ t # s => tv.conns[t] = sv.conns[t]
  BY <1>1, <1>3, <1>5 DEF Servers, Records
<1>7. \A t \in Conns : sv.conns[t].in_use /\ t # s => sv.conns[t].pcb # p
  BY DEF Pool, Owned
<1>8. Parts(sv, tv, p)
  BY <1>1, <1>5, <1>6, <1>7 DEF Parts, Servers, NoBlock
<1>9. ASSUME Whole(sv), Live(sv) PROVE tv.sse = IF p = sv.sse THEN NoPcb ELSE sv.sse
  <2>1. sv.conns[s].pcb = p
    BY <1>9 DEF Whole, Held
  <2>2. p = sv.sse => sv.conns[s].is_sse
    BY <1>9, PcbAssumption DEF Live
  <2> QED BY <1>2, <1>5, <2>1, <2>2
<1>10. Fresh(tv, done) => Fresh(tv, done \ {p})
  <2>1. tv.pcb[p].state # "open"
    BY <1>1, <1>5 DEF Servers, NoBlock
  <2> QED BY <2>1 DEF Fresh
<1> QED BY <1>8, <1>9, <1>10, PartsPool, PartsLive, PartsFresh DEF Keeps

----------------------------------------------------------------------------
(* The console. *)

LEMMA GetCharTypes == ASSUME ConsoleTypeOK, NEW c \in TypedCommands, GetChar(c) PROVE ConsoleTypeOK'
<1>1. typed' \in {Nothing} \cup [command : TypedCommands, pieces : 1 .. Pieces]
  <2>1. CASE typed = Nothing
    <3>1. typed.pieces = 0
      BY <2>1 DEF Nothing, Text
    <3>2. typed' = [command |-> c, pieces |-> 1]
      BY <3>1 DEF GetChar, Text
    <3> QED BY <3>2 DEF Pieces
  <2>2. CASE typed # Nothing
    <3>1. typed.pieces \in 1 .. Pieces /\ typed.pieces < Pieces
      BY <2>2 DEF ConsoleTypeOK, GetChar
    <3>2. typed.pieces + 1 \in 1 .. Pieces
      BY <3>1 DEF Pieces
    <3>3. typed' = [command |-> c, pieces |-> typed.pieces + 1]
      BY DEF GetChar, Text
    <3> QED BY <3>2, <3>3
  <2> QED BY <2>1, <2>2
<1>2. main' = Reading \/ \E p \in 0 .. Pieces - 1 : main' = Storing(p)
  <2>1. CASE line_pos < Pieces
    <3>1. line_pos \in 0 .. Pieces - 1
      BY <2>1 DEF ConsoleTypeOK, Pieces
    <3> QED BY <2>1, <3>1 DEF GetChar
  <2>2. CASE ~(line_pos < Pieces)
    BY <2>2 DEF GetChar
  <2> QED BY <2>1, <2>2
<1> QED BY <1>1, <1>2 DEF ConsoleTypeOK, GetChar

LEMMA StoreCharTypes == ASSUME ConsoleTypeOK, StoreChar PROVE ConsoleTypeOK'
<1>1. PICK p \in 0 .. Pieces - 1 : main = Storing(p)
  BY DEF ConsoleTypeOK, StoreChar, Reading, Passed, Setting
<1>2. main.pos = p
  BY <1>1 DEF Storing
<1>3. main' = Setting(p + 1) /\ p + 1 \in 0 .. Pieces
  BY <1>2 DEF StoreChar, Pieces
<1>4. line_buf'.pieces \in 0 .. Pieces
  BY <1>2 DEF StoreChar, Stored, Text, Garbage, Pieces
<1> QED BY <1>3, <1>4 DEF ConsoleTypeOK, StoreChar

(* A position that is about to be set is in range. *)
LEMMA PositionInRange ==
  ASSUME ConsoleTypeOK
  PROVE  /\ main.at = "store" => main.pos \in 0 .. Pieces - 1
         /\ main.at = "count" => main.pos \in 0 .. Pieces
BY DEF ConsoleTypeOK, Reading, Passed, Storing, Setting

LEMMA SetPositionTypes == ASSUME ConsoleTypeOK, SetPosition PROVE ConsoleTypeOK'
<1>1. line_pos' \in 0 .. Pieces
  BY PositionInRange DEF SetPosition
<1> QED BY <1>1 DEF ConsoleTypeOK, SetPosition

LEMMA BackspaceTypes == ASSUME ConsoleTypeOK, Backspace PROVE ConsoleTypeOK'
<1>1. typed \in [command : TypedCommands, pieces : 1 .. Pieces]
  BY DEF ConsoleTypeOK, Backspace
<1>2. typed' \in {Nothing} \cup [command : TypedCommands, pieces : 1 .. Pieces]
  <2>1. CASE typed.pieces = 1
    BY <2>1 DEF Backspace
  <2>2. CASE typed.pieces # 1
    <3>1. typed.pieces - 1 \in 1 .. Pieces
      BY <1>1, <2>2 DEF Pieces
    <3>2. typed' = [command |-> typed.command, pieces |-> typed.pieces - 1]
      BY <2>2 DEF Backspace, Text
    <3> QED BY <1>1, <3>1, <3>2
  <2> QED BY <2>1, <2>2
<1>3. main' = Reading \/ \E p \in 0 .. Pieces : main' = Setting(p)
  <2>1. CASE line_pos > 0
    <3>1. line_pos - 1 \in 0 .. Pieces
      BY <2>1 DEF ConsoleTypeOK, Pieces
    <3> QED BY <2>1, <3>1 DEF Backspace
  <2>2. CASE ~(line_pos > 0)
    BY <2>2 DEF Backspace
  <2> QED BY <2>1, <2>2
<1>4. disturbed' \in BOOLEAN
  BY DEF Backspace, ConsoleTypeOK
<1> QED BY <1>2, <1>3, <1>4 DEF ConsoleTypeOK, Backspace

LEMMA EnterTypes == ASSUME ConsoleTypeOK, Enter PROVE ConsoleTypeOK'
<1>1. line_pos' \in 0 .. Pieces
  BY DEF ConsoleTypeOK, Enter, Pieces
<1>2. line_buf'.pieces \in 0 .. Pieces
  <2>1. Terminated.pieces \in 0 .. Pieces
    BY DEF ConsoleTypeOK, Terminated, Text
  <2> QED BY <2>1 DEF ConsoleTypeOK, Enter
<1>3. main' \in {Reading, Passed} /\ typed' \in {Nothing, typed}
  BY DEF Enter, NewLine
<1>4. disturbed' \in BOOLEAN /\ refused' \in BOOLEAN /\ rw_enabled' \in BOOLEAN
  BY DEF Enter, NewLine, ConsoleTypeOK
<1> QED BY <1>1, <1>2, <1>3, <1>4 DEF ConsoleTypeOK

LEMMA ExecuteTypes ==
  ASSUME ConsoleTypeOK, NEW c, Execute(c) PROVE rw_enabled' \in BOOLEAN
BY DEF ConsoleTypeOK, Execute

LEMMA DispatchTypes == ASSUME ConsoleTypeOK, Dispatch PROVE ConsoleTypeOK'
<1>1. rw_enabled' \in BOOLEAN
  BY ExecuteTypes DEF Dispatch
<1> QED BY <1>1 DEF ConsoleTypeOK, Dispatch, NewLine

LEMMA FeedTypes ==
  ASSUME ConsoleTypeOK, NEW c, feedCommandLine(c) PROVE ConsoleTypeOK'
<1>1. rw_enabled' \in BOOLEAN
  BY ExecuteTypes DEF feedCommandLine, ConsoleTypeOK
<1>2. line_pos' \in 0 .. Pieces /\ line_buf'.pieces \in 0 .. Pieces
  BY DEF feedCommandLine, Text, Pieces
<1>3. disturbed' \in BOOLEAN /\ refused' \in BOOLEAN
  BY DEF feedCommandLine, ConsoleTypeOK, Blocked
<1> QED BY <1>1, <1>2, <1>3 DEF ConsoleTypeOK, feedCommandLine

LEMMA MainLoopTypes == ASSUME ConsoleTypeOK, MainLoop PROVE ConsoleTypeOK'
BY GetCharTypes, StoreCharTypes, SetPositionTypes, BackspaceTypes, EnterTypes, DispatchTypes
   DEF MainLoop

----------------------------------------------------------------------------
(* The steps of the server. *)

Inv ==
  /\ ConsoleTypeOK
  /\ asked \subseteq Pcbs /\ reused \in BOOLEAN
  /\ Pool(Server)
  /\ ~reused => Whole(Server)

StreamInv == ~reused => Live(Server) /\ Fresh(Server, asked)

LEMMA Stepped ==
  ASSUME Inv, NEW tv, Becomes(tv), Keeps(Server, tv, asked, asked'),
         ConsoleTypeOK', asked' \subseteq Pcbs, UNCHANGED reused
  PROVE  Inv' /\ (StreamInv => StreamInv')
<1>1. tv = [conns |-> tv.conns, pcb |-> tv.pcb, sse |-> tv.sse]
  BY DEF Keeps, Pool, Servers
<1>2. Server' = tv
  BY <1>1 DEF Server, Becomes
<1>3. Inv'
  BY <1>2 DEF Inv, Keeps
<1>4. StreamInv => StreamInv'
  BY <1>2 DEF Inv, StreamInv, Keeps
<1> QED BY <1>3, <1>4

LEMMA InitInv == Init => Inv /\ StreamInv
<1> SUFFICES ASSUME Init PROVE Inv /\ StreamInv
  OBVIOUS
<1>1. ConsoleTypeOK
  <2>1. Nothing.pieces = 0 /\ 0 \in 0 .. Pieces
    BY DEF Pieces, Nothing, Text
  <2> QED BY <2>1 DEF Init, ConsoleInit, ConsoleTypeOK
<1>2. FreeConn \in Records /\ FreeConn.in_use = FALSE /\ FreeConn.is_sse = FALSE
  BY DEF FreeConn, Records, Requests
<1>3. NoBlock \in Blocks /\ NoBlock.state = "none" /\ NoBlock.conn = NoConn
  BY DEF NoBlock, Blocks
<1>4. /\ Server \in Servers /\ Server.sse = NoPcb
      /\ \A p \in Pcbs : Server.pcb[p] = NoBlock
      /\ \A s \in Conns : Server.conns[s] = FreeConn
  BY <1>2, <1>3 DEF Init, Server, Servers
<1>5. Pool(Server) /\ Whole(Server)
  BY <1>2, <1>3, <1>4, ConnIndex DEF Pool, Whole, Owned, Placed, Apart, Held
<1>6. Live(Server) /\ Fresh(Server, asked)
  BY <1>2, <1>3, <1>4 DEF Live, Fresh
<1> QED BY <1>1, <1>5, <1>6 DEF Init, Inv, StreamInv

(* A new connection takes a record that is free. Unless a pcb still has it,  *)
(* the new one has it alone.                                                 *)
LEMMA Accepted ==
  ASSUME Inv, NEW p \in Pcbs, acceptCallback(p) PROVE Inv' /\ (StreamInv => StreamInv')
<1> DEFINE fresh == [FreeConn EXCEPT !.in_use = TRUE, !.pcb = p]
           block(s) == [state |-> "open", conn |-> s]
<1>1. PICK s \in Conns : allocConn(p, s)
  BY DEF acceptCallback
<1>2. Server \in Servers /\ pcb[p].state = "none" /\ ~g_conns[s].in_use
  BY <1>1 DEF Inv, Pool, acceptCallback, allocConn, IsFirstFree
<1>3. /\ fresh \in Records /\ fresh.in_use /\ fresh.pcb = p /\ ~fresh.is_sse
      /\ block(s) \in Blocks /\ block(s).state = "open" /\ block(s).conn = s
  BY DEF FreeConn, Records, Requests, Blocks
<1>4. /\ g_conns \in [Conns -> Records] /\ pcb \in [Pcbs -> Blocks] /\ sse_client_pcb \in Pcbs \cup {NoPcb}
  BY <1>2 DEF Server, Servers
<1>5. g_conns' = [g_conns EXCEPT ![s] = fresh] /\ pcb' = [pcb EXCEPT ![p] = block(s)]
  BY <1>1 DEF allocConn
<1> HIDE DEF fresh, block
<1>6. /\ Server' \in Servers
      /\ Server'.conns[s] = fresh /\ \A t \in Conns \ {s} : Server'.conns[t] = g_conns[t]
      /\ Server'.pcb[p] = block(s) /\ \A q \in Pcbs \ {p} : Server'.pcb[q] = pcb[q]
      /\ Server'.sse = sse_client_pcb
  BY <1>3, <1>4, <1>5 DEF Server, Servers, acceptCallback
<1>7. Server.conns = g_conns /\ Server.pcb = pcb /\ Server.sse = sse_client_pcb
  BY DEF Server
<1>8. Owned(Server')
  <2> SUFFICES ASSUME NEW t \in Conns, Server'.conns[t].in_use
               PROVE  /\ Server'.conns[t].pcb \in Pcbs
                      /\ Server'.pcb[Server'.conns[t].pcb].state = "open"
                      /\ Server'.pcb[Server'.conns[t].pcb].conn = t
    BY DEF Owned
  <2>1. CASE t = s
    BY <1>3, <1>6, <2>1
  <2>2. CASE t # s
    <3>1. /\ g_conns[t].pcb \in Pcbs
          /\ pcb[g_conns[t].pcb].state = "open" /\ pcb[g_conns[t].pcb].conn = t
      BY <1>6, <1>7, <2>2 DEF Inv, Pool, Owned
    <3> QED BY <1>2, <1>6, <2>2, <3>1
  <2> QED BY <2>1, <2>2
<1>9. Placed(Server')
  BY <1>3, <1>6, <1>7 DEF Placed, Inv, Pool
<1>10. ASSUME ~reused' PROVE ~reused /\ \A q \in Pcbs : pcb[q].conn # s
  BY <1>1, <1>10 DEF allocConn, Inv
<1>11. ASSUME ~reused' PROVE Apart(Server')
  <2>1. \A q, r \in Pcbs : pcb[q].conn \in Conns /\ pcb[q].conn = pcb[r].conn => q = r
    BY <1>7, <1>10, <1>11 DEF Inv, Whole, Apart
  <2> QED BY <1>3, <1>6, <1>10, <1>11, <2>1 DEF Apart
<1>12. ASSUME ~reused' PROVE Held(Server')
  <2> SUFFICES ASSUME NEW q \in Pcbs, Server'.pcb[q].state # "none"
               PROVE  /\ Server'.conns[Server'.pcb[q].conn].pcb = q
                      /\ Server'.pcb[q].state = "open" => Server'.conns[Server'.pcb[q].conn].in_use
    BY DEF Held
  <2>1. CASE q = p
    BY <1>3, <1>6, <2>1
  <2>2. CASE q # p
    <3>1. /\ g_conns[pcb[q].conn].pcb = q
          /\ pcb[q].state = "open" => g_conns[pcb[q].conn].in_use
          /\ pcb[q].conn \in Conns
      BY <1>6, <1>7, <1>10, <1>12, <2>2 DEF Inv, Whole, Held, Pool, Placed
    <3> QED BY <1>6, <1>10, <1>12, <2>2, <3>1
  <2> QED BY <2>1, <2>2
<1>13. Inv'
  <2>1. ConsoleTypeOK'
    BY DEF Inv, acceptCallback, console, ConsoleTypeOK
  <2>2. asked' \subseteq Pcbs /\ reused' \in BOOLEAN
    BY <1>1 DEF Inv, acceptCallback, allocConn
  <2>3. Pool(Server)' /\ (~reused' => Whole(Server)')
    BY <1>6, <1>8, <1>9, <1>11, <1>12 DEF Pool, Whole
  <2> QED BY <2>1, <2>2, <2>3 DEF Inv
<1>14. ASSUME StreamInv, ~reused' PROVE Live(Server')
  <2>1. Live(Server)
    BY <1>10, <1>14 DEF StreamInv
  <2>2. ASSUME sse_client_pcb # NoPcb
        PROVE  /\ Server'.pcb[sse_client_pcb].state = "open"
               /\ Server'.conns[Server'.pcb[sse_client_pcb].conn].is_sse
    <3>1. /\ sse_client_pcb \in Pcbs /\ pcb[sse_client_pcb].state = "open"
          /\ g_conns[pcb[sse_client_pcb].conn].is_sse
      BY <1>4, <1>7, <2>1, <2>2 DEF Live
    <3>2. sse_client_pcb # p /\ pcb[sse_client_pcb].conn \in Conns \ {s}
      BY <1>2, <1>7, <1>10, <1>14, <3>1 DEF Inv, Pool, Placed
    <3> QED BY <1>6, <3>1, <3>2
  <2>3. ASSUME NEW t \in Conns, Server'.conns[t].in_use, Server'.conns[t].is_sse
        PROVE  Server'.conns[t].pcb = sse_client_pcb
    BY <1>3, <1>6, <1>7, <2>1, <2>3 DEF Live
  <2> QED BY <1>6, <2>2, <2>3 DEF Live
<1>15. ASSUME StreamInv, ~reused' PROVE Fresh(Server', asked')
  <2> SUFFICES ASSUME NEW q \in Pcbs \ asked', Server'.pcb[q].state = "open"
               PROVE  ~Server'.conns[Server'.pcb[q].conn].is_sse
    BY DEF Fresh
  <2>1. CASE q = p
    BY <1>3, <1>6, <2>1
  <2>2. CASE q # p
    <3>1. q \notin asked /\ pcb[q].state = "open" /\ pcb[q].conn \in Conns \ {s}
      BY <1>6, <1>7, <1>10, <1>15, <2>2 DEF acceptCallback, Inv, Pool, Placed
    <3> QED BY <1>6, <1>7, <1>10, <1>15, <2>2, <3>1 DEF StreamInv, Fresh
  <2> QED BY <2>1, <2>2
<1> QED BY <1>13, <1>14, <1>15 DEF StreamInv

LEMMA ServerPool ==
  ASSUME Inv
  PROVE  /\ Pool(Server) /\ Server \in Servers
         /\ Server.conns = g_conns /\ Server.pcb = pcb /\ Server.sse = sse_client_pcb
BY DEF Inv, Pool, Server

LEMMA TrySendStep ==
  ASSUME Inv, NEW p \in Pcbs, pcb[p].state # "none",
         NEW tv \in trySend(Server, p, pcb[p].conn), Becomes(tv), UNCHANGED <<console, asked, reused>>
  PROVE  Inv' /\ (StreamInv => StreamInv')
<1>1. Keeps(Server, tv, asked, asked)
  BY ServerPool, Tried
<1>2. ConsoleTypeOK'
  BY DEF Inv, console, ConsoleTypeOK
<1> QED BY <1>1, <1>2, Stepped DEF Inv

LEMMA PolledStep ==
  ASSUME Inv, NEW p \in Pcbs, pollCallback(p) PROVE Inv' /\ (StreamInv => StreamInv')
<1> DEFINE s == pcb[p].conn
           tv == tcp_close(freeConn(Server, s), p)
<1>1. CASE g_conns[s].response = "pending"
  BY <1>1, TrySendStep DEF pollCallback
<1>2. CASE g_conns[s].response # "pending"
  <2>1. Becomes(tv) /\ ~g_conns[s].is_sse /\ pcb[p].state # "none"
        /\ UNCHANGED <<console, asked, reused>>
    BY <1>2 DEF pollCallback
  <2>2. Parts(Server, tv, p) /\ tv.sse = Server.sse
    BY <2>1, ServerPool, FreedAndClosed
  <2> HIDE DEF tv
  <2>3. Keeps(Server, tv, asked, asked)
    BY <2>1, <2>2, ServerPool, PartsKeeps
  <2>4. ConsoleTypeOK'
    BY <2>1 DEF Inv, console, ConsoleTypeOK
  <2> QED BY <2>1, <2>3, <2>4, Stepped DEF Inv
<1> QED BY <1>1, <1>2

LEMMA DepartedStep ==
  ASSUME Inv, NEW p \in Pcbs, pcb[p].state # "none",
         UNCHANGED <<console, reused>>, asked' = asked \ {p},
         NEW b \in {NoBlock, [state |-> "last_ack", conn |-> pcb[p].conn]},
         Becomes([freeConn(unregisterSseClient(Server, pcb[p].conn), pcb[p].conn)
                    EXCEPT !.pcb[p] = b])
  PROVE  Inv' /\ (StreamInv => StreamInv')
<1> DEFINE tv == [freeConn(unregisterSseClient(Server, pcb[p].conn), pcb[p].conn)
                    EXCEPT !.pcb[p] = b]
<1>1. Becomes(tv)
  OBVIOUS
<1>2. tv = [freeConn(unregisterSseClient(Server, Server.pcb[p].conn), Server.pcb[p].conn)
              EXCEPT !.pcb[p] = b]
  BY ServerPool
<1> HIDE DEF tv
<1>3. b \in {NoBlock, [state |-> "last_ack", conn |-> Server.pcb[p].conn]} /\ Server.pcb[p].state # "none"
  BY ServerPool
<1>4. Keeps(Server, tv, asked, asked \ {p})
  BY <1>2, <1>3, ServerPool, Departed
<1>5. ConsoleTypeOK'
  BY DEF Inv, console, ConsoleTypeOK
<1> QED BY <1>1, <1>4, <1>5, Stepped DEF Inv

LEMMA GoneStep ==
  ASSUME Inv, NEW p \in Pcbs, Gone(p) PROVE Inv' /\ (StreamInv => StreamInv')
<1> DEFINE tv == [Server EXCEPT !.pcb = [pcb EXCEPT ![p] = NoBlock]]
<1>1. NoBlock \in Blocks /\ NoBlock.state = "none"
  BY DEF NoBlock, Blocks
<1>2. pcb \in [Pcbs -> Blocks] /\ pcb[p].state = "last_ack"
  BY ServerPool DEF Servers, Gone
<1>3. /\ tv \in Servers /\ tv.conns = g_conns /\ tv.sse = sse_client_pcb
      /\ tv.pcb = [pcb EXCEPT ![p] = NoBlock]
  <2>1. [pcb EXCEPT ![p] = NoBlock] \in [Pcbs -> Blocks]
    BY <1>1, <1>2
  <2> QED BY <2>1, ServerPool DEF Servers
<1> HIDE DEF tv
<1>4. \A t \in Conns : g_conns[t].in_use => g_conns[t].pcb # p
  BY <1>2, ServerPool DEF Pool, Owned
<1>5. Parts(Server, tv, p)
  BY <1>1, <1>2, <1>3, <1>4, ServerPool DEF Parts
<1>6. Keeps(Server, tv, asked, asked)
  BY <1>2, <1>3, <1>5, ServerPool, PartsKeeps
<1>7. Becomes(tv)
  BY <1>3 DEF Gone, Becomes
<1>8. ConsoleTypeOK'
  BY DEF Gone, Inv, console, ConsoleTypeOK
<1> QED BY <1>6, <1>7, <1>8, Stepped DEF Gone, Inv

(* A client that has not sent a complete request sends.                      *)
LEMMA SentStep ==
  ASSUME Inv, NEW p \in Pcbs, NEW part \in Requests \ {"none"}, ClientSends(p, part)
  PROVE  Inv' /\ (Pipelining = FALSE /\ StreamInv => StreamInv')
<1> DEFINE s == pcb[p].conn
           req == IF g_conns[s].req \in {"none", "half"} THEN part ELSE g_conns[s].req
           c == [g_conns[s] EXCEPT !.req = req]
           got == [Server EXCEPT !.conns[s].req = req]
<1>1. CASE pcb[p].state = "closing"
  BY <1>1, DepartedStep DEF ClientSends, errCallback
<1>2. CASE pcb[p].state = "open"
  <2>1. s \in Conns /\ g_conns[s] \in Records
    BY <1>2, ServerPool DEF Pool, Placed, Servers
  <2>2. req \in Requests
    BY <2>1 DEF Records
  <2>3. /\ c \in Records /\ c.in_use = g_conns[s].in_use /\ c.pcb = g_conns[s].pcb
        /\ c.is_sse = g_conns[s].is_sse
    BY <2>1, <2>2 DEF Records
  <2>4. recvCallback(p, s, req) /\ UNCHANGED reused /\ (Pipelining = FALSE => p \notin asked)
    BY <1>2 DEF ClientSends
  <2>5. got = [Server EXCEPT !.conns = [Server.conns EXCEPT ![s] = c]]
    BY <2>1, ServerPool DEF Servers, Server
  <2> HIDE DEF c, req
  <2>6. /\ Marks(Server, got) /\ got.sse = Server.sse
        /\ \A t \in Conns : got.conns[t].is_sse = Server.conns[t].is_sse
    <3> HIDE DEF got
    <3> QED BY <2>1, <2>3, <2>5, ServerPool, Updated
  <2>7. CASE req \notin Routes
    <3>1. Becomes(got) /\ UNCHANGED <<console, asked>>
      BY <2>4, <2>7 DEF recvCallback
    <3> HIDE DEF got
    <3>2. Keeps(Server, got, asked, asked)
      BY <2>6, ServerPool, MarksPool, MarksLive DEF Keeps
    <3>3. ConsoleTypeOK'
      BY <3>1 DEF Inv, console, ConsoleTypeOK
    <3> QED BY <2>4, <3>1, <3>2, <3>3, Stepped DEF Inv
  <2>8. CASE req \in Routes
    <3>1. /\ \E tv \in handleHttpRequest(got, p, s) : Becomes(tv)
          /\ IF req \in HttpCommands THEN feedCommandLine(req) ELSE UNCHANGED console
          /\ asked' = asked \cup {p}
      BY <2>4, <2>8 DEF recvCallback
    <3> HIDE DEF got
    <3>2. PICK tv \in handleHttpRequest(got, p, s) : Becomes(tv)
      BY <3>1
    <3>3. Pool(got) /\ (Whole(Server) => Whole(got)) /\ got.pcb[p].state = "open" /\ got.pcb[p].conn = s
      BY <1>2, <2>6, ServerPool, MarksPool DEF Marks
    <3>4. Live(Server) /\ Fresh(Server, asked) => Live(got) /\ Fresh(got, asked)
      BY <2>6, ServerPool, MarksLive
    <3>5. /\ Pool(tv) /\ (Whole(got) => Whole(tv))
          /\ p \notin asked => Keeps(got, tv, asked, asked \cup {p})
      BY <3>2, <3>3, Handled
    <3>6. tv = [conns |-> tv.conns, pcb |-> tv.pcb, sse |-> tv.sse]
      BY <3>5 DEF Pool, Servers
    <3>7. Server' = tv
      BY <3>2, <3>6 DEF Server, Becomes
    <3>8. ConsoleTypeOK'
      <4>1. CASE req \in HttpCommands
        BY <3>1, <4>1, FeedTypes DEF Inv
      <4>2. CASE req \notin HttpCommands
        BY <3>1, <4>2 DEF Inv, console, ConsoleTypeOK
      <4> QED BY <4>1, <4>2
    <3>9. Inv'
      BY <2>4, <3>1, <3>3, <3>5, <3>7, <3>8 DEF Inv
    <3>10. ASSUME Pipelining = FALSE, StreamInv PROVE StreamInv'
      BY <2>4, <3>1, <3>3, <3>4, <3>5, <3>7, <3>10 DEF Inv, StreamInv, Keeps
    <3> QED BY <3>9, <3>10
  <2> QED BY <2>7, <2>8
<1> QED BY <1>1, <1>2 DEF ClientSends

LEMMA NextInv ==
  ASSUME Inv, [Next]_vars
  PROVE  Inv' /\ (Pipelining = FALSE /\ StreamInv => StreamInv')
<1>1. ASSUME NEW p \in Pcbs, recvCallbackEnd(p) PROVE Inv' /\ (StreamInv => StreamInv')
  <2> DEFINE b == IF pcb[p].state = "open" THEN [state |-> "last_ack", conn |-> pcb[p].conn]
                  ELSE NoBlock
  <2>1. b \in {NoBlock, [state |-> "last_ack", conn |-> pcb[p].conn]}
    OBVIOUS
  <2>2. /\ Becomes([freeConn(unregisterSseClient(Server, pcb[p].conn), pcb[p].conn)
                      EXCEPT !.pcb[p] = b])
        /\ pcb[p].state # "none" /\ UNCHANGED <<console, reused>> /\ asked' = asked \ {p}
    BY <1>1 DEF recvCallbackEnd
  <2> HIDE DEF b
  <2> QED BY <2>1, <2>2, DepartedStep
<1>2. ASSUME NEW p \in Pcbs, Dies(p) PROVE Inv' /\ (StreamInv => StreamInv')
  BY <1>2, DepartedStep DEF Dies, errCallback
<1>3. ASSUME NEW p \in Pcbs, sentCallback(p) PROVE Inv' /\ (StreamInv => StreamInv')
  BY <1>3, TrySendStep DEF sentCallback
<1>4. CASE MainLoop /\ UNCHANGED http
  <2>1. ConsoleTypeOK'
    BY <1>4, MainLoopTypes DEF Inv
  <2> QED BY <1>4, <2>1 DEF Inv, StreamInv, http, Server
<1>5. CASE UNCHANGED vars
  BY <1>5 DEF Inv, StreamInv, vars, http, console, Server, ConsoleTypeOK
<1> QED BY <1>1, <1>2, <1>3, <1>4, <1>5, Accepted, SentStep, PolledStep, GoneStep DEF Next, Network

LEMMA Invariance == Spec => []Inv
BY InitInv, NextInv, PTL DEF Spec

----------------------------------------------------------------------------
(* Every record, control block and console field keeps its range.            *)
THEOREM TypeCorrect == Spec => []TypeOK
<1>1. Inv => TypeOK
  BY ServerPool DEF Inv, TypeOK, Servers, Records, Blocks
<1> QED BY <1>1, Invariance, PTL

(* A record in use is that of an open connection, and an open connection has *)
(* one, for any number of connections and records (wifi_server.cpp:304).     *)
THEOREM PoolCorrect == Spec => []PoolMatchesPcbs
<1>1. Inv => PoolMatchesPcbs
  <2> SUFFICES ASSUME Inv PROVE PoolMatchesPcbs
    OBVIOUS
  <2>1. ASSUME NEW s \in Conns, g_conns[s].in_use
        PROVE  pcb[g_conns[s].pcb] = [state |-> "open", conn |-> s]
    <3>1. /\ g_conns[s].pcb \in Pcbs
          /\ pcb[g_conns[s].pcb].state = "open" /\ pcb[g_conns[s].pcb].conn = s
      BY <2>1, ServerPool DEF Pool, Owned
    <3>2. pcb[g_conns[s].pcb] \in Blocks
      BY <3>1, ServerPool DEF Servers
    <3> QED BY <3>1, <3>2 DEF Blocks
  <2>2. ASSUME NEW p \in Pcbs, pcb[p].state = "open", ~reused
        PROVE  g_conns[pcb[p].conn].in_use /\ g_conns[pcb[p].conn].pcb = p
    BY <2>2, ServerPool DEF Inv, Whole, Held
  <2> QED BY <2>1, <2>2 DEF PoolMatchesPcbs
<1> QED BY <1>1, Invariance, PTL

(* broadcastLog's pcb is open and the only stream, as long as clients do not *)
(* send on after a complete request (wifi_server.cpp:447).                   *)
THEOREM OneStreamAlive ==
  ASSUME Pipelining = FALSE PROVE Spec => []OneLiveStream
<1>1. Spec => []StreamInv
  <2>1. StreamInv /\ Inv /\ [Next]_vars => StreamInv'
    BY NextInv
  <2> QED BY <2>1, InitInv, Invariance, PTL DEF Spec
<1>2. Inv /\ StreamInv => OneLiveStream
  BY ServerPool DEF StreamInv, Live, OneLiveStream
<1> QED BY <1>1, <1>2, Invariance, PTL

(* What a step does to the console: nothing, or one of these.                *)
LEMMA ConsoleSteps ==
  ASSUME [Next]_vars
  PROVE  UNCHANGED console \/ MainLoop \/ \E c \in HttpCommands : feedCommandLine(c)
<1>1. ASSUME NEW p \in Pcbs, NEW part \in Requests \ {"none"}, ClientSends(p, part)
      PROVE  UNCHANGED console \/ \E c \in HttpCommands : feedCommandLine(c)
  BY <1>1 DEF ClientSends, recvCallback
<1> QED BY <1>1
        DEF Next, Network, vars, acceptCallback, recvCallbackEnd, Dies, Gone, sentCallback, pollCallback

(* A write command runs in read-only mode only as one that a callback was    *)
(* refused and left in the buffer, between the check of another line and its *)
(* dispatch (processLine, diag_shell.cpp:316-332), whatever is typed and     *)
(* asked over the network.                                                   *)
THEOREM WritesGuarded == Spec => ReadOnlyHolds
<1> DEFINE Checked == main = Passed => refused \/ ~Blocked(Command(line_buf))
<1>1. Init => Checked
  BY DEF Init, ConsoleInit, Reading, Passed
<1>2. Checked /\ [Next]_vars => Checked'
  <2> SUFFICES ASSUME Checked, [Next]_vars, main' = Passed, ~refused'
               PROVE  ~Blocked(Command(line_buf))'
    OBVIOUS
  <2>1. ASSUME NEW c \in HttpCommands, feedCommandLine(c) PROVE ~Blocked(Command(line_buf))'
    <3>1. Command(line_buf') = c
      BY <2>1 DEF feedCommandLine, Command, Text
    <3>2. ~Blocked(c) /\ Execute(c)
      BY <2>1 DEF feedCommandLine
    <3>3. c \in WriteCommands => rw_enabled'
      BY <3>2, WriteCommandsAssumption DEF Blocked, Execute
    <3> QED BY <3>1, <3>3 DEF Blocked
  <2>2. CASE UNCHANGED console
    BY <2>2 DEF console, Command, Blocked
  <2>3. CASE MainLoop
    <3>1. ASSUME NEW c \in TypedCommands, GetChar(c) PROVE FALSE
      BY <3>1 DEF GetChar, Storing, Reading, Passed
    <3>2. ~StoreChar
      BY DEF StoreChar, Setting, Passed
    <3>3. ~SetPosition /\ ~Dispatch
      BY DEF SetPosition, Dispatch, Reading, Passed
    <3>4. ~Backspace
      BY DEF Backspace, Setting, Reading, Passed
    <3>5. CASE Enter
      <4>1. line_buf' = Terminated /\ ~Blocked(Command(Terminated)) /\ UNCHANGED rw_enabled
        BY <3>5 DEF Enter, Reading, Passed
      <4> QED BY <4>1 DEF Command, Blocked
    <3> QED BY <2>3, <3>1, <3>2, <3>3, <3>4, <3>5 DEF MainLoop
  <2> QED BY <2>1, <2>2, <2>3, ConsoleSteps
<1>3. Checked => [main = Passed /\ main' = Reading /\ Blocked(Command(line_buf)) => refused]_console
  OBVIOUS
<1>4. Spec => [][main = Passed /\ main' = Reading /\ Blocked(Command(line_buf)) => refused]_console
  BY <1>1, <1>2, <1>3, PTL DEF Spec
<1> QED BY <1>4 DEF ReadOnlyHolds

----------------------------------------------------------------------------
(* The buffer begins with what was typed.                                    *)
Holds == typed.pieces = 0 \/ (line_buf.command = typed.command /\ line_buf.pieces >= typed.pieces)

(* How far the line is: the position is never behind what was typed, and     *)
(* while no callback has run a command it is right behind it, or about to    *)
(* be, in a buffer that holds it; and a line begins at position 0, whatever  *)
(* happened before.                                                          *)
LineAsTyped ==
  /\ main.at = "getchar" =>
       /\ line_pos <= typed.pieces
       /\ ~disturbed => line_pos = typed.pieces /\ Holds
  /\ main.at = "store" =>
       /\ main.pos < typed.pieces
       /\ ~disturbed =>
            /\ main.pos = typed.pieces - 1
            /\ main.pos = 0 \/ (line_buf.command = typed.command /\ line_buf.pieces >= main.pos)
  /\ main.at = "count" =>
       /\ main.pos <= typed.pieces
       /\ ~disturbed => main.pos = typed.pieces /\ Holds
  /\ main.at = "dispatch" =>
       /\ line_pos = 0 /\ typed # Nothing
       /\ ~disturbed => Command(line_buf) = Command(typed)

(* What is typed has a piece at least, or is nothing. *)
LEMMA TypedPieces ==
  ASSUME ConsoleTypeOK
  PROVE  /\ typed.pieces \in 0 .. Pieces
         /\ typed = Nothing <=> typed.pieces = 0
         /\ Nothing.pieces = 0
<1>1. Nothing.pieces = 0
  BY DEF Nothing, Text
<1>2. CASE typed = Nothing
  BY <1>1, <1>2 DEF Pieces
<1>3. CASE typed \in [command : TypedCommands, pieces : 1 .. Pieces]
  <2>1. typed.pieces \in 1 .. Pieces
    BY <1>3
  <2> QED BY <1>1, <2>1 DEF Pieces
<1>4. typed = Nothing \/ typed \in [command : TypedCommands, pieces : 1 .. Pieces]
  BY DEF ConsoleTypeOK
<1> QED BY <1>1, <1>2, <1>3, <1>4

LEMMA GetCharLine ==
  ASSUME ConsoleTypeOK, LineAsTyped, NEW c \in TypedCommands, GetChar(c)
  PROVE  LineAsTyped'
<1>1. /\ main.at = "getchar" /\ UNCHANGED <<line_buf, line_pos, disturbed>>
      /\ typed = Nothing \/ (typed.command = c /\ typed.pieces < Pieces)
      /\ typed' = Text(c, typed.pieces + 1)
      /\ main' = IF line_pos < Pieces THEN Storing(line_pos) ELSE Reading
  BY DEF GetChar, Reading
<1>2. typed.pieces \in Nat /\ typed.pieces < Pieces /\ line_pos \in Nat
  BY <1>1, TypedPieces DEF Pieces, ConsoleTypeOK
<1>3. typed'.pieces = typed.pieces + 1 /\ typed'.command = c
  BY <1>1 DEF Text
<1>4. line_pos <= typed.pieces
  BY <1>1 DEF LineAsTyped
<1>5. main'.at = "store" /\ main'.pos = line_pos
  BY <1>1, <1>2, <1>4 DEF Storing, Pieces
<1>6. ASSUME ~disturbed
      PROVE  line_pos = typed.pieces
               /\ (line_pos = 0 \/ (line_buf.command = c /\ line_buf.pieces >= line_pos))
  <2>1. line_pos = typed.pieces /\ Holds
    BY <1>1, <1>6 DEF LineAsTyped
  <2> QED BY <1>1, <2>1, TypedPieces DEF Holds
<1> QED BY <1>1, <1>2, <1>3, <1>4, <1>5, <1>6 DEF LineAsTyped

LEMMA StoreCharLine ==
  ASSUME ConsoleTypeOK, LineAsTyped, StoreChar PROVE LineAsTyped'
<1>1. /\ main.at = "store" /\ main' = Setting(main.pos + 1)
      /\ line_buf' = Stored(typed.command, typed.pieces, main.pos)
      /\ UNCHANGED <<typed, disturbed>>
  BY DEF StoreChar
<1>2. main'.at = "count" /\ main'.pos = main.pos + 1
  BY <1>1 DEF Setting
<1>3. main.pos \in Nat /\ typed.pieces \in Nat /\ main.pos < typed.pieces
  BY <1>1, TypedPieces, PositionInRange DEF LineAsTyped
<1>4. ASSUME ~disturbed PROVE main.pos + 1 = typed.pieces /\ Holds'
  <2>1. /\ main.pos = typed.pieces - 1
        /\ main.pos = 0 \/ (line_buf.command = typed.command /\ line_buf.pieces >= main.pos)
    BY <1>1, <1>4 DEF LineAsTyped
  <2>2. typed.pieces = main.pos + 1
    BY <1>3, <2>1
  <2>3. line_buf' = Text(typed.command, typed.pieces)
    BY <1>1, <2>1, <2>2 DEF Stored
  <2>4. line_buf'.command = typed.command /\ line_buf'.pieces = typed.pieces
    BY <2>3 DEF Text
  <2> QED BY <1>1, <1>3, <2>2, <2>4 DEF Holds
<1> QED BY <1>1, <1>2, <1>3, <1>4 DEF LineAsTyped

LEMMA BackspaceLine ==
  ASSUME ConsoleTypeOK, LineAsTyped, Backspace PROVE LineAsTyped'
<1>1. /\ main.at = "getchar" /\ typed # Nothing /\ UNCHANGED <<line_buf, line_pos>>
      /\ typed' = IF typed.pieces = 1 THEN Nothing ELSE Text(typed.command, typed.pieces - 1)
      /\ disturbed' = (disturbed /\ typed.pieces > 1)
      /\ main' = IF line_pos > 0 THEN Setting(line_pos - 1) ELSE Reading
  BY DEF Backspace, Reading
<1>2. typed.pieces \in Nat /\ typed.pieces > 0 /\ line_pos \in Nat /\ line_pos <= typed.pieces
  BY <1>1, TypedPieces DEF LineAsTyped, ConsoleTypeOK
<1>3. /\ typed'.pieces = typed.pieces - 1
      /\ typed'.pieces = 0 \/ typed'.command = typed.command
  <2>1. CASE typed.pieces = 1
    BY <1>1, <2>1, TypedPieces
  <2>2. CASE typed.pieces # 1
    BY <1>1, <2>2 DEF Text
  <2> QED BY <2>1, <2>2
<1>4. ASSUME ~disturbed', typed.pieces # 1 PROVE line_pos = typed.pieces /\ Holds
  <2>1. ~disturbed
    BY <1>1, <1>2, <1>4 DEF ConsoleTypeOK
  <2> QED BY <1>1, <2>1 DEF LineAsTyped
<1>5. ASSUME ~disturbed' PROVE Holds'
  <2>1. CASE typed.pieces = 1
    BY <1>3, <2>1 DEF Holds
  <2>2. CASE typed.pieces # 1
    <3>1. line_buf.command = typed.command /\ line_buf.pieces >= typed.pieces
      BY <1>2, <1>4, <1>5, <2>2 DEF Holds
    <3>2. line_buf.pieces \in Nat
      BY DEF ConsoleTypeOK
    <3> QED BY <1>1, <1>2, <1>3, <3>1, <3>2 DEF Holds
  <2> QED BY <2>1, <2>2
<1>6. CASE line_pos > 0
  <2>1. main'.at = "count" /\ main'.pos = line_pos - 1
    BY <1>1, <1>6 DEF Setting
  <2> QED BY <1>2, <1>3, <1>4, <1>5, <1>6, <2>1 DEF LineAsTyped
<1>7. CASE ~(line_pos > 0)
  <2>1. main'.at = "getchar"
    BY <1>1, <1>7 DEF Reading
  <2> QED BY <1>1, <1>2, <1>3, <1>4, <1>5, <1>7, <2>1 DEF LineAsTyped
<1> QED BY <1>6, <1>7

(* A line of which nothing is typed.                                         *)
LEMMA NewLineLine ==
  ASSUME ConsoleTypeOK, NewLine, line_pos' = 0, main'.at = "getchar" PROVE LineAsTyped'
<1>1. typed'.pieces = 0
  BY TypedPieces DEF NewLine
<1> QED BY <1>1 DEF LineAsTyped, Holds

LEMMA EnterLine ==
  ASSUME ConsoleTypeOK, LineAsTyped, Enter PROVE LineAsTyped'
<1>1. main.at = "getchar"
  BY DEF Enter, Reading
<1>2. CASE line_pos = 0
  BY <1>1, <1>2, NewLineLine DEF Enter
<1>3. CASE line_pos # 0
  <2>1. /\ line_buf' = Terminated /\ line_pos' = 0
        /\ \/ NewLine /\ UNCHANGED main
           \/ main' = Passed /\ UNCHANGED <<typed, disturbed, refused>>
    BY <1>3 DEF Enter
  <2>2. CASE NewLine /\ UNCHANGED main
    BY <1>1, <2>1, <2>2, NewLineLine
  <2>3. CASE main' = Passed /\ UNCHANGED <<typed, disturbed, refused>>
    <3>1. main'.at = "dispatch"
      BY <2>3 DEF Passed
    <3>2. typed # Nothing
      BY <1>1, <1>3, TypedPieces DEF LineAsTyped, ConsoleTypeOK
    <3>3. ASSUME ~disturbed PROVE Command(Terminated) = Command(typed)
      <4>1. line_pos = typed.pieces /\ Holds
        BY <1>1, <3>3 DEF LineAsTyped
      <4>2. line_buf.command = typed.command /\ line_buf.pieces >= typed.pieces
        BY <1>3, <4>1 DEF Holds
      <4>3. line_buf.pieces \in 0 .. Pieces /\ typed.pieces \in 0 .. Pieces
        BY TypedPieces DEF ConsoleTypeOK
      <4>4. CASE line_pos < line_buf.pieces
        <5>1. Terminated = Text(typed.command, typed.pieces)
          BY <4>1, <4>2, <4>4 DEF Terminated
        <5> QED BY <5>1 DEF Command, Text
      <4>5. CASE ~(line_pos < line_buf.pieces)
        <5>1. Terminated = line_buf /\ line_buf.pieces = typed.pieces
          BY <4>1, <4>2, <4>3, <4>5 DEF Terminated, Pieces
        <5> QED BY <4>2, <5>1 DEF Command
      <4> QED BY <4>4, <4>5
    <3>4. ASSUME ~disturbed' PROVE Command(line_buf') = Command(typed')
      BY <2>1, <2>3, <3>3, <3>4
    <3> QED BY <2>1, <2>3, <3>1, <3>2, <3>4 DEF LineAsTyped, Command
  <2> QED BY <2>1, <2>2, <2>3
<1> QED BY <1>2, <1>3

LEMMA MainLoopLine ==
  ASSUME ConsoleTypeOK, LineAsTyped, MainLoop PROVE LineAsTyped'
<1>1. CASE SetPosition
  <2>1. /\ main.at = "count" /\ main'.at = "getchar" /\ line_pos' = main.pos
        /\ UNCHANGED <<line_buf, typed, disturbed>>
    BY <1>1 DEF SetPosition, Reading
  <2> QED BY <2>1 DEF LineAsTyped, Holds
<1>2. CASE Dispatch
  <2>1. NewLine /\ line_pos' = 0 /\ main'.at = "getchar"
    BY <1>2 DEF Dispatch, LineAsTyped, Passed, Reading
  <2> QED BY <2>1, NewLineLine
<1> QED BY <1>1, <1>2, GetCharLine, StoreCharLine, BackspaceLine, EnterLine DEF MainLoop

(* A command from the network spoils the line that is being typed, if one    *)
(* is, and leaves the position at 0 for the next.                            *)
LEMMA FeedLine ==
  ASSUME ConsoleTypeOK, LineAsTyped, NEW c, feedCommandLine(c) PROVE LineAsTyped'
<1>1. line_pos' = 0 /\ disturbed' = (disturbed \/ typed # Nothing) /\ UNCHANGED <<main, typed>>
  BY DEF feedCommandLine
<1>2. typed.pieces \in Nat /\ (typed = Nothing <=> typed.pieces = 0)
  BY TypedPieces
<1>3. main.at = "store" => main.pos \in Nat
  BY PositionInRange
<1>4. CASE typed # Nothing
  <2>1. disturbed'
    BY <1>1, <1>4
  <2> QED BY <1>1, <1>2, <1>4, <2>1 DEF LineAsTyped
<1>5. CASE typed = Nothing
  <2>1. typed.pieces = 0 /\ Holds' /\ main.at # "store" /\ main.at # "dispatch"
    BY <1>1, <1>2, <1>3, <1>5 DEF LineAsTyped, Holds
  <2>2. ~disturbed' => ~disturbed
    BY <1>1
  <2> QED BY <1>1, <2>1, <2>2 DEF LineAsTyped
<1> QED BY <1>4, <1>5

(* What the main loop dispatches is the line as the user left it, after all  *)
(* he typed and took back, unless a callback ran a command meanwhile         *)
(* (readLine, feedCommandLine).                                              *)
THEOREM LinesRunAsTyped == Spec => RunsAsTyped
<1>1. Init => LineAsTyped
  <2>1. Init => main.at = "getchar" /\ line_pos = 0 /\ typed = Nothing
    BY DEF Init, ConsoleInit, Reading
  <2>2. Nothing.pieces = 0
    BY DEF Nothing, Text
  <2> QED BY <2>1, <2>2 DEF LineAsTyped, Holds
<1>2. Inv /\ LineAsTyped /\ [Next]_vars => LineAsTyped'
  <2> SUFFICES ASSUME Inv, LineAsTyped, [Next]_vars PROVE LineAsTyped'
    OBVIOUS
  <2>1. CASE UNCHANGED console
    BY <2>1 DEF console, LineAsTyped, Holds, Command
  <2> QED BY <2>1, ConsoleSteps, MainLoopLine, FeedLine DEF Inv
<1>3. LineAsTyped => (main = Passed => disturbed \/ Command(line_buf) = Command(typed))
  BY DEF LineAsTyped, Passed
<1>4. LineAsTyped =>
        [main = Passed /\ main' = Reading => disturbed \/ Command(line_buf) = Command(typed)]_console
  BY <1>3
<1>5. Spec => [][main = Passed /\ main' = Reading
                   => disturbed \/ Command(line_buf) = Command(typed)]_console
  BY <1>1, <1>2, <1>4, Invariance, PTL DEF Spec
<1> QED BY <1>5 DEF RunsAsTyped
=============================================================================
