--------------------------- MODULE IsoTpLinkProofs ---------------------------
(***************************************************************************)
(* The link of IsoTpLink.tla delivers PDUs whole and at most once in both  *)
(* directions, and never overruns the ECU, for PDUs of every length, every *)
(* block size and wires that lose and swap frames as they like.            *)
(*                                                                         *)
(* A request and a reply are two instances of one Direction: a sender that *)
(* has sent s pieces, a receiver, the frames between them. A sequence      *)
(* number has four bits, so a piece may come in whose number is the one    *)
(* due and which is another one: 16, 32, ... pieces on. The invariant says *)
(* what makes that harmless. Frames overtake by one place only, so such a  *)
(* piece shows that pieces were lost, and from then on the pieces received *)
(* and those under way are fewer than those sent: the reassembly can never *)
(* complete. An open reassembly is thus either right so far or hopeless.   *)
(*                                                                         *)
(* The lemmas come in that order: frames and directions, what a wire may   *)
(* do to them, what each step of an endpoint does, the steps of the link,  *)
(* and last the grants of the ECU's flow control.                          *)
(***************************************************************************)
EXTENDS IsoTpLink, FiniteSetTheorems, SequenceTheorems, TLAPS

----------------------------------------------------------------------------
(* Frames and endpoints. *)

Singles == [kind : {"SF"}, len : 1 .. 7, dlc : 2 .. 8, pdu : AllPdus]
Firsts == [kind : {"FF"}, len : 8 .. MaxPdu, dlc : {8}, pdu : AllPdus]
Consecutives == [kind : {"CF"}, seq : 0 .. 15, dlc : {8}, pdu : AllPdus, at : Nat]
FlowControls == [kind : {"FC"}, fs : 0 .. 2, bs : 0 .. 255, dlc : {3}]
Carried == Singles \cup Firsts \cup Consecutives \cup FlowControls

Senders == [state : {"Idle", "WaitFlowControl", "Sending"}, pdu : AllPdus \cup {NoPdu},
            pos : Nat, seq : 0 .. 15, bs : 0 .. 255, left : 0 .. 255]
Receivers == [len : Nat, have : Nat, seq : 0 .. 15, multi : BOOLEAN,
              from : AllPdus \cup {NoPdu, Garbled}]

Cfs(d) == {i \in 1 .. Len(d) : d[i].kind = "CF"}
HasFc(b) == \E i \in 1 .. Len(b) : b[i].kind = "FC"

(* The sender has sent s consecutive frames of its PDU.                      *)
Sender(tx, s) ==
  /\ tx \in Senders /\ s \in Nat
  /\ tx.state # "Idle" => tx.pdu \in AllPdus
  /\ tx.pdu \in AllPdus =>
       /\ Length[tx.pdu] \in 8 .. MaxPdu
       /\ tx.seq = (s + 1) % 16
       /\ \/ tx.pos = 6 + 7 * s /\ tx.pos < Length[tx.pdu]
          \/ /\ tx.pos = Length[tx.pdu] /\ s >= 1
             /\ tx.pos <= 6 + 7 * s /\ 6 + 7 * (s - 1) < tx.pos

(* The consecutive frames on the wire are among those, in order but for the  *)
(* two oldest.                                                               *)
Pieces(tx, s, d) ==
  /\ \A i \in Cfs(d) :
       /\ tx.pdu \in AllPdus /\ d[i].pdu = tx.pdu
       /\ \E k \in 0 .. s - 1 : d[i].at = 6 + 7 * k /\ d[i].seq = (k + 1) % 16
  /\ \A i, j \in Cfs(d) :
       i < j => d[i].at # d[j].at /\ (i # 1 \/ j # 2 => d[i].at < d[j].at)

(* A frame that begins a transfer is alone: nothing of an earlier transfer   *)
(* is left.                                                                  *)
Begins(tx, d, b, o, w) ==
  \A i \in 1 .. Len(d) : d[i].kind \in {"SF", "FF"} =>
    /\ \A j \in 1 .. Len(d) : j # i => d[j].kind = "FC"
    /\ ~HasFc(b) /\ ~w /\ tx.state # "Sending"
    /\ o \in AllPdus /\ d[i].pdu = o /\ d[i].len = Length[o]
    /\ d[i].kind = "SF" => Length[o] \in 1 .. 7 /\ d[i].dlc = Length[o] + 1
    /\ d[i].kind = "FF" => Length[o] \in 8 .. MaxPdu /\ d[i].dlc = 8 /\ tx.pdu = o /\ tx.pos = 6

(* The receiver has the first j pieces of the PDU on offer, and no older one *)
(* is under way; or a piece has been lost, so that too few are left for it   *)
(* ever to complete.                                                         *)
Reassembles(tx, s, rx, d, o) ==
  /\ o = tx.pdu /\ o \in AllPdus /\ rx.len = Length[o]
  /\ \E j \in Nat :
       /\ rx.have = 6 + 7 * j /\ rx.have < rx.len /\ rx.seq = (j + 1) % 16
       /\ \/ rx.from = o /\ j <= s /\ \A i \in Cfs(d) : d[i].at >= rx.have
          \/ j + Cardinality(Cfs(d)) < s

Flows(tx, d, b, w) == w \/ HasFc(b) \/ Cfs(d) # {} \/ tx.state = "Sending"

(* One direction: a sender, a receiver, the wire d between them, the wire b  *)
(* back, the PDU o on offer and whether the receiver owes a flow control.    *)
Direction(tx, s, rx, d, b, o, w) ==
  /\ Sender(tx, s) /\ rx \in Receivers
  /\ d \in Seq(Carried) /\ b \in Seq(Carried) /\ w \in BOOLEAN
  /\ Pieces(tx, s, d)
  /\ Begins(tx, d, b, o, w)
  /\ Flows(tx, d, b, w) /\ rx.multi => Reassembles(tx, s, rx, d, o)

----------------------------------------------------------------------------
(* Wires that lose and swap frames. *)

(* t is what is left of d when frames are lost and the two oldest swapped.   *)
Thinner(t, d) ==
  /\ t \in Seq(Carried)
  /\ \E g \in [1 .. Len(t) -> 1 .. Len(d)] :
       /\ \A i \in 1 .. Len(t) : t[i] = d[g[i]]
       /\ \A i, j \in 1 .. Len(t) : i < j =>
            g[i] # g[j] /\ (i # 1 \/ j # 2 => g[i] < g[j] /\ (g[i] # 1 \/ g[j] # 2))

LEMMA CfsFinite ==
  ASSUME NEW d \in Seq(Carried)
  PROVE  IsFiniteSet(Cfs(d)) /\ Cardinality(Cfs(d)) \in Nat
<1>1. Cfs(d) \in SUBSET (1 .. Len(d)) /\ IsFiniteSet(1 .. Len(d))
  BY FS_Interval DEF Cfs
<1> QED BY <1>1, FS_Subset, FS_CardinalityType

LEMMA ThinnerTail ==
  ASSUME NEW d \in Seq(Carried), d # <<>> PROVE Thinner(Tail(d), d)
<1> DEFINE g == [i \in 1 .. Len(Tail(d)) |-> i + 1]
<1>1. Tail(d) \in Seq(Carried) /\ Len(Tail(d)) = Len(d) - 1 /\ Len(d) \in Nat \ {0}
      /\ \A i \in 1 .. Len(Tail(d)) : Tail(d)[i] = d[i + 1]
  BY HeadTailProperties
<1>2. g \in [1 .. Len(Tail(d)) -> 1 .. Len(d)]
  BY <1>1
<1>3. \A i \in 1 .. Len(Tail(d)) : Tail(d)[i] = d[g[i]]
  BY <1>1
<1>4. \A i, j \in 1 .. Len(Tail(d)) : i < j =>
            g[i] # g[j] /\ (i # 1 \/ j # 2 => g[i] < g[j] /\ (g[i] # 1 \/ g[j] # 2))
  BY <1>1
<1> HIDE DEF g
<1> QED BY <1>1, <1>2, <1>3, <1>4 DEF Thinner

LEMMA ThinnerRemove ==
  ASSUME NEW d \in Seq(Carried), NEW n \in 1 .. Len(d) PROVE Thinner(RemoveAt(d, n), d)
<1> DEFINE t == RemoveAt(d, n)
           g == [i \in 1 .. Len(t) |-> IF i < n THEN i ELSE i + 1]
<1>1. /\ t \in Seq(Carried) /\ Len(t) = Len(d) - 1 /\ Len(d) \in Nat \ {0}
      /\ \A i \in 1 .. Len(t) : t[i] = IF i < n THEN d[i] ELSE d[i + 1]
  <2>1. /\ SubSeq(d, 1, n - 1) \in Seq(Carried) /\ Len(SubSeq(d, 1, n - 1)) = n - 1
        /\ \A i \in 1 .. n - 1 : SubSeq(d, 1, n - 1)[i] = d[i]
    OBVIOUS
  <2>2. /\ SubSeq(d, n + 1, Len(d)) \in Seq(Carried) /\ Len(SubSeq(d, n + 1, Len(d))) = Len(d) - n
        /\ \A i \in 1 .. Len(d) - n : SubSeq(d, n + 1, Len(d))[i] = d[i + n]
    OBVIOUS
  <2> DEFINE x == SubSeq(d, 1, n - 1)
             y == SubSeq(d, n + 1, Len(d))
  <2>3. t = x \o y
    BY DEF RemoveAt
  <2> HIDE DEF t, x, y
  <2>4. /\ x \o y \in Seq(Carried) /\ Len(x \o y) = Len(x) + Len(y)
        /\ \A i \in 1 .. Len(x) + Len(y) : (x \o y)[i] = IF i <= Len(x) THEN x[i] ELSE y[i - Len(x)]
    BY <2>1, <2>2, ConcatProperties DEF x, y
  <2>5. Len(x) = n - 1 /\ Len(y) = Len(d) - n /\ Len(d) \in Nat \ {0}
    BY <2>1, <2>2 DEF x, y
  <2>6. ASSUME NEW i \in 1 .. Len(t) PROVE t[i] = IF i < n THEN d[i] ELSE d[i + 1]
    <3>1. i \in 1 .. Len(x) + Len(y)
      BY <2>3, <2>4, <2>6
    <3>2. CASE i < n
      BY <2>1, <2>3, <2>4, <2>5, <3>1, <3>2 DEF x
    <3>3. CASE ~(i < n)
      <4>1. i - Len(x) \in 1 .. Len(d) - n /\ (i - Len(x)) + n = i + 1
        BY <2>5, <3>1, <3>3
      <4>2. y[i - Len(x)] = d[i + 1]
        BY <2>2, <4>1 DEF y
      <4> QED BY <2>3, <2>4, <2>5, <3>1, <3>3, <4>2
    <3> QED BY <3>2, <3>3
  <2> QED BY <2>3, <2>4, <2>5, <2>6
<1> HIDE DEF t
<1>2. g \in [1 .. Len(t) -> 1 .. Len(d)]
  BY <1>1
<1>3. \A i \in 1 .. Len(t) : t[i] = d[g[i]]
  BY <1>1
<1>4. \A i, j \in 1 .. Len(t) : i < j =>
            g[i] # g[j] /\ (i # 1 \/ j # 2 => g[i] < g[j] /\ (g[i] # 1 \/ g[j] # 2))
  BY <1>1
<1> HIDE DEF g
<1>5. Thinner(t, d)
  BY <1>1, <1>2, <1>3, <1>4 DEF Thinner
<1> QED BY <1>5 DEF t

LEMMA ThinnerOvertaken ==
  ASSUME NEW d \in Seq(Carried), Len(d) >= 2 PROVE Thinner(Overtaken(d), d)
<1> DEFINE t == Overtaken(d)
           g == [i \in 1 .. Len(t) |-> IF i = 1 THEN 2 ELSE IF i = 2 THEN 1 ELSE i]
<1>1. /\ t \in Seq(Carried) /\ Len(t) = Len(d) /\ Len(d) \in Nat
      /\ \A i \in 1 .. Len(t) : t[i] = IF i = 1 THEN d[2] ELSE IF i = 2 THEN d[1] ELSE d[i]
  <2> DEFINE y == SubSeq(d, 3, Len(d))
  <2>1. /\ y \in Seq(Carried) /\ Len(y) = Len(d) - 2
        /\ \A i \in 1 .. Len(d) - 2 : y[i] = d[i + 2]
    <3>1. \A i \in 3 .. Len(d) : d[i] \in Carried
      OBVIOUS
    <3>2. 3 \in Int /\ Len(d) \in Int
      OBVIOUS
    <3>3. /\ y \in Seq(Carried) /\ Len(y) = (IF 3 <= Len(d) THEN Len(d) - 3 + 1 ELSE 0)
          /\ \A i \in 1 .. Len(d) - 3 + 1 : y[i] = d[3 + i - 1]
      BY <3>1, <3>2, SubSeqProperties
    <3>4. Len(d) - 3 + 1 = Len(d) - 2 /\ 3 <= Len(d) + 1 /\ Len(d) \in Nat
      OBVIOUS
    <3>5. \A i \in 1 .. Len(d) - 2 : 3 + i - 1 = i + 2
      OBVIOUS
    <3> HIDE DEF y, t, g
    <3>6. Len(y) = Len(d) - 2
      <4>1. CASE 3 <= Len(d)
        BY <3>3, <3>4, <4>1
      <4>2. CASE Len(d) = 2
        BY <3>3, <4>2
      <4> DEFINE n == Len(d)
      <4>4. n \in Nat /\ n >= 2
        OBVIOUS
      <4>3. 3 <= Len(d) \/ Len(d) = 2
        <5> HIDE DEF n
        <5>1. 3 <= n \/ n = 2
          BY <4>4
        <5> QED BY <5>1 DEF n
      <4> QED BY <4>1, <4>2, <4>3
    <3>7. \A i \in 1 .. Len(d) - 2 : y[i] = d[i + 2]
      BY <3>3, <3>4, <3>5
    <3> QED BY <3>3, <3>6, <3>7
  <2>2. /\ <<d[2], d[1]>> \in Seq(Carried) /\ Len(<<d[2], d[1]>>) = 2
        /\ <<d[2], d[1]>>[1] = d[2] /\ <<d[2], d[1]>>[2] = d[1]
    OBVIOUS
  <2>3. t = <<d[2], d[1]>> \o y
    BY DEF Overtaken
  <2> HIDE DEF y, t
  <2> QED BY <2>1, <2>2, <2>3
<1> HIDE DEF t
<1>2. g \in [1 .. Len(t) -> 1 .. Len(d)]
  BY <1>1
<1>3. \A i \in 1 .. Len(t) : t[i] = d[g[i]]
  BY <1>1
<1>4. \A i, j \in 1 .. Len(t) : i < j =>
            g[i] # g[j] /\ (i # 1 \/ j # 2 => g[i] < g[j] /\ (g[i] # 1 \/ g[j] # 2))
  BY <1>1
<1> HIDE DEF g
<1>5. Thinner(t, d)
  BY <1>1, <1>2, <1>3, <1>4 DEF Thinner
<1> QED BY <1>5 DEF t

LEMMA ThinnerFewer ==
  ASSUME NEW d \in Seq(Carried), NEW t, Thinner(t, d)
  PROVE  Cardinality(Cfs(t)) <= Cardinality(Cfs(d))
<1>1. PICK g \in [1 .. Len(t) -> 1 .. Len(d)] :
         /\ \A i \in 1 .. Len(t) : t[i] = d[g[i]]
         /\ \A i, j \in 1 .. Len(t) : i < j => g[i] # g[j]
  BY DEF Thinner
<1> DEFINE h == [i \in Cfs(t) |-> g[i]]
<1>2. h \in [Cfs(t) -> Cfs(d)]
  BY <1>1 DEF Cfs
<1>3. \A i, j \in Cfs(t) : h[i] = h[j] => i = j
  <2>1. \A i, j \in Cfs(t) : i \in 1 .. Len(t) /\ j \in 1 .. Len(t) /\ (i < j \/ j < i \/ i = j)
    BY DEF Cfs, Thinner
  <2> QED BY <1>1, <2>1
<1> HIDE DEF h
<1>4. h \in Injection(Cfs(t), Cfs(d))
  BY <1>2, <1>3 DEF Injection, IsInjective
<1> QED BY <1>4, CfsFinite, FS_Injection

(* A direction whose wires lose or swap frames.                              *)
LEMMA DirectionThins ==
  ASSUME NEW tx, NEW s, NEW rx, NEW d, NEW b, NEW o, NEW w, Direction(tx, s, rx, d, b, o, w),
         NEW d2, Thinner(d2, d), NEW b2 \in Seq(Carried), HasFc(b2) => HasFc(b)
  PROVE  Direction(tx, s, rx, d2, b2, o, w)
<1>1. PICK g \in [1 .. Len(d2) -> 1 .. Len(d)] :
         /\ \A i \in 1 .. Len(d2) : d2[i] = d[g[i]]
         /\ \A i, j \in 1 .. Len(d2) : i < j =>
              g[i] # g[j] /\ (i # 1 \/ j # 2 => g[i] < g[j] /\ (g[i] # 1 \/ g[j] # 2))
  BY DEF Thinner
<1>2. d2 \in Seq(Carried) /\ d \in Seq(Carried) /\ Len(d2) \in Nat
  BY DEF Direction, Thinner
<1>3. \A i \in Cfs(d2) : i \in 1 .. Len(d2) /\ g[i] \in Cfs(d) /\ d2[i] = d[g[i]]
  BY <1>1 DEF Cfs
<1>4. Pieces(tx, s, d2)
  <2>1. ASSUME NEW i \in Cfs(d2), NEW j \in Cfs(d2), i < j
        PROVE  d2[i].at # d2[j].at /\ (i # 1 \/ j # 2 => d2[i].at < d2[j].at)
    <3>1. g[i] \in Cfs(d) /\ g[j] \in Cfs(d) /\ g[i] # g[j] /\ d2[i] = d[g[i]] /\ d2[j] = d[g[j]]
          /\ g[i] \in Nat /\ g[j] \in Nat
      BY <1>1, <1>3, <2>1 DEF Cfs
    <3>2. \A k, m \in Cfs(d) : k < m => d[k].at # d[m].at /\ (k # 1 \/ m # 2 => d[k].at < d[m].at)
      BY DEF Direction, Pieces
    <3>3. g[i] < g[j] \/ g[j] < g[i]
      BY <3>1
    <3>4. d[g[i]].at # d[g[j]].at
      BY <3>1, <3>2, <3>3
    <3>5. i # 1 \/ j # 2 => g[i] < g[j] /\ (g[i] # 1 \/ g[j] # 2)
      BY <1>1, <1>3, <2>1
    <3> QED BY <3>1, <3>2, <3>4, <3>5
  <2>2. ASSUME NEW i \in Cfs(d2)
        PROVE  /\ tx.pdu \in AllPdus /\ d2[i].pdu = tx.pdu
               /\ \E k \in 0 .. s - 1 : d2[i].at = 6 + 7 * k /\ d2[i].seq = (k + 1) % 16
    <3>1. g[i] \in Cfs(d) /\ d2[i] = d[g[i]]
      BY <1>3
    <3> QED BY <3>1 DEF Direction, Pieces
  <2> QED BY <2>1, <2>2 DEF Pieces
<1>5. Begins(tx, d2, b2, o, w)
  <2> SUFFICES ASSUME NEW i \in 1 .. Len(d2), d2[i].kind \in {"SF", "FF"}
               PROVE  /\ \A j \in 1 .. Len(d2) : j # i => d2[j].kind = "FC"
                      /\ ~HasFc(b2) /\ ~w /\ tx.state # "Sending"
                      /\ o \in AllPdus /\ d2[i].pdu = o /\ d2[i].len = Length[o]
                      /\ d2[i].kind = "SF" => Length[o] \in 1 .. 7 /\ d2[i].dlc = Length[o] + 1
                      /\ d2[i].kind = "FF" => Length[o] \in 8 .. MaxPdu /\ d2[i].dlc = 8 /\ tx.pdu = o /\ tx.pos = 6
    BY DEF Begins
  <2>1. d2[i] = d[g[i]] /\ g[i] \in 1 .. Len(d)
    BY <1>1
  <2>2. \A j \in 1 .. Len(d2) : j # i => g[j] # g[i] /\ g[j] \in 1 .. Len(d) /\ d2[j] = d[g[j]]
    <3> TAKE j \in 1 .. Len(d2)
    <3>1. i < j \/ j < i \/ i = j
      OBVIOUS
    <3> QED BY <1>1, <3>1
  <2>3. /\ \A j \in 1 .. Len(d) : j # g[i] => d[j].kind = "FC"
        /\ ~HasFc(b) /\ ~w /\ tx.state # "Sending"
        /\ o \in AllPdus /\ d2[i].pdu = o /\ d2[i].len = Length[o]
        /\ d2[i].kind = "SF" => Length[o] \in 1 .. 7 /\ d2[i].dlc = Length[o] + 1
        /\ d2[i].kind = "FF" => Length[o] \in 8 .. MaxPdu /\ d2[i].dlc = 8 /\ tx.pdu = o /\ tx.pos = 6
    BY <2>1 DEF Direction, Begins
  <2> QED BY <2>2, <2>3
<1>6. Flows(tx, d2, b2, w) => Flows(tx, d, b, w)
  BY <1>3 DEF Flows
<1>7. Reassembles(tx, s, rx, d, o) => Reassembles(tx, s, rx, d2, o)
  <2> SUFFICES ASSUME Reassembles(tx, s, rx, d, o) PROVE Reassembles(tx, s, rx, d2, o)
    OBVIOUS
  <2>1. PICK j \in Nat :
       /\ rx.have = 6 + 7 * j /\ rx.have < rx.len /\ rx.seq = (j + 1) % 16
       /\ \/ rx.from = o /\ j <= s /\ \A i \in Cfs(d) : d[i].at >= rx.have
          \/ j + Cardinality(Cfs(d)) < s
    BY DEF Reassembles
  <2>2. \/ rx.from = o /\ j <= s /\ \A i \in Cfs(d2) : d2[i].at >= rx.have
        \/ j + Cardinality(Cfs(d2)) < s
    <3>1. Cardinality(Cfs(d2)) <= Cardinality(Cfs(d)) /\ Cardinality(Cfs(d2)) \in Nat
          /\ Cardinality(Cfs(d)) \in Nat /\ s \in Nat
      BY <1>2, ThinnerFewer, CfsFinite DEF Direction, Sender
    <3> QED BY <1>3, <2>1, <3>1
  <2> QED BY <2>1, <2>2 DEF Reassembles
<1> QED BY <1>2, <1>4, <1>5, <1>6, <1>7 DEF Direction

----------------------------------------------------------------------------
(* The steps of a direction. *)

(* The other direction's receiver grants the other sender a block.           *)
LEMMA GrantPasses ==
  ASSUME NEW tx, NEW s, NEW rx, NEW d, NEW b, NEW o, NEW w, Direction(tx, s, rx, d, b, o, w),
         NEW fc \in FlowControls
  PROVE  Direction(tx, s, rx, Append(d, fc), b, o, w) /\ Cfs(Append(d, fc)) = Cfs(d)
<1> DEFINE d2 == Append(d, fc)
<1>1. d \in Seq(Carried) /\ Len(d) \in Nat /\ fc \in Carried /\ fc.kind = "FC"
  BY DEF Direction, Carried, FlowControls
<1>2. d2 \in Seq(Carried) /\ Len(d2) = Len(d) + 1 /\ d2[Len(d) + 1] = fc
      /\ \A i \in 1 .. Len(d) : d2[i] = d[i]
  BY <1>1
<1> HIDE DEF d2
<1>3. \A i \in 1 .. Len(d2) : i \in 1 .. Len(d) \/ i = Len(d) + 1
  BY <1>1, <1>2
<1>4. \A i \in 1 .. Len(d) : i \in 1 .. Len(d2)
  BY <1>1, <1>2
<1>5. Cfs(d2) = Cfs(d) /\ \A i \in Cfs(d) : d2[i] = d[i]
  BY <1>1, <1>2, <1>3, <1>4 DEF Cfs
<1>6. Pieces(tx, s, d2)
  BY <1>5 DEF Direction, Pieces
<1>7. Begins(tx, d2, b, o, w)
  <2>1. Begins(tx, d, b, o, w)
    BY DEF Direction
  <2>2. \A i \in 1 .. Len(d2) : d2[i].kind \in {"SF", "FF"} =>
          i \in 1 .. Len(d) /\ d2[i] = d[i] /\ d[i].kind \in {"SF", "FF"}
    BY <1>1, <1>2, <1>3
  <2>3. \A j \in 1 .. Len(d2) : d2[j].kind = "FC" \/ (j \in 1 .. Len(d) /\ d2[j] = d[j])
    BY <1>1, <1>2, <1>3
  <2> QED BY <2>1, <2>2, <2>3 DEF Begins
<1>8. Direction(tx, s, rx, d2, b, o, w)
  BY <1>2, <1>5, <1>6, <1>7 DEF Direction, Flows, Reassembles
<1> QED BY <1>5, <1>8 DEF d2

(* The receiver sends the flow control it owes.                              *)
LEMMA GrantSent ==
  ASSUME NEW tx, NEW s, NEW rx, NEW d, NEW b, NEW o, Direction(tx, s, rx, d, b, o, TRUE),
         NEW fc \in FlowControls, NEW w \in BOOLEAN
  PROVE  Direction(tx, s, rx, d, Append(b, fc), o, w)
<1>1. b \in Seq(Carried) /\ fc \in Carried
  BY DEF Direction, Carried
<1>2. Append(b, fc) \in Seq(Carried)
  BY <1>1
<1>3. Begins(tx, d, Append(b, fc), o, w)
  BY DEF Direction, Begins
<1> QED BY <1>2, <1>3 DEF Direction, Flows

(* The receiver forgets, or no longer owes.                                  *)
LEMMA ReceiverQuiets ==
  ASSUME NEW tx, NEW s, NEW rx, NEW d, NEW b, NEW o, NEW w, Direction(tx, s, rx, d, b, o, w),
         NEW rx2 \in Receivers, rx2 = rx \/ ~rx2.multi, NEW w2 \in BOOLEAN, w2 => w
  PROVE  Direction(tx, s, rx2, d, b, o, w2)
BY DEF Direction, Begins, Flows

(* ... and has handed up, which ends the offer.                              *)
LEMMA OfferEnds ==
  ASSUME NEW tx, NEW s, NEW rx, NEW d, NEW b, NEW o, NEW w, Direction(tx, s, rx, d, b, o, w),
         \A i \in 1 .. Len(d) : d[i].kind \notin {"SF", "FF"}, ~rx.multi, NEW o2
  PROVE  Direction(tx, s, rx, d, b, o2, w)
BY DEF Direction, Begins

(* The sender stops or pauses.                                               *)
LEMMA SenderQuiets ==
  ASSUME NEW tx, NEW s, NEW rx, NEW d, NEW b, NEW o, NEW w, Direction(tx, s, rx, d, b, o, w),
         NEW state \in {"Idle", "WaitFlowControl"}, state # "Idle" => tx.state # "Idle",
         NEW tx2, tx2 = [tx EXCEPT !.state = state]
  PROVE  Direction(tx2, s, rx, d, b, o, w)
<1>1. /\ tx2 \in Senders /\ tx2.state = state /\ tx2.pdu = tx.pdu /\ tx2.pos = tx.pos
      /\ tx2.seq = tx.seq
  BY DEF Direction, Sender, Senders
<1>2. Sender(tx2, s)
  BY <1>1 DEF Direction, Sender
<1>3. Pieces(tx2, s, d) /\ Begins(tx2, d, b, o, w)
  BY <1>1 DEF Direction, Pieces, Begins
<1>4. /\ Flows(tx2, d, b, w) => Flows(tx, d, b, w)
      /\ Reassembles(tx, s, rx, d, o) => Reassembles(tx2, s, rx, d, o)
  BY <1>1 DEF Flows, Reassembles
<1> QED BY <1>2, <1>3, <1>4 DEF Direction

(* The sender is cleared to send.                                            *)
LEMMA SenderCleared ==
  ASSUME NEW tx, NEW s, NEW rx, NEW d, NEW b, NEW o, NEW w, Direction(tx, s, rx, d, b, o, w),
         HasFc(b), tx.state # "Idle", NEW bs \in 0 .. 255,
         NEW tx2, tx2 = [state |-> "Sending", pdu |-> tx.pdu, pos |-> tx.pos, seq |-> tx.seq,
                         bs |-> bs, left |-> bs]
  PROVE  Direction(tx2, s, rx, d, b, o, w)
<1>1. /\ tx2 \in Senders /\ tx2.state = "Sending" /\ tx2.pdu = tx.pdu /\ tx2.pos = tx.pos
      /\ tx2.seq = tx.seq
  BY DEF Direction, Sender, Senders
<1>2. Sender(tx2, s)
  BY <1>1 DEF Direction, Sender
<1>3. Pieces(tx2, s, d) /\ Begins(tx2, d, b, o, w)
  BY <1>1 DEF Direction, Pieces, Begins
<1>4. /\ Flows(tx, d, b, w)
      /\ Reassembles(tx, s, rx, d, o) => Reassembles(tx2, s, rx, d, o)
  BY <1>1 DEF Flows, Reassembles
<1> QED BY <1>2, <1>3, <1>4 DEF Direction

(* The oldest frame of a wire, and what follows it.                          *)
LEMMA HeadFrame ==
  ASSUME NEW d \in Seq(Carried), d # <<>>
  PROVE  /\ Head(d) = d[1] /\ Head(d) \in Carried /\ Tail(d) \in Seq(Carried)
         /\ Len(d) \in Nat \ {0} /\ Len(Tail(d)) = Len(d) - 1 /\ 1 \in 1 .. Len(d)
         /\ \A i \in 1 .. Len(Tail(d)) : Tail(d)[i] = d[i + 1] /\ i + 1 \in 1 .. Len(d)
<1>1. Head(d) = d[1] /\ Tail(d) \in Seq(Carried) /\ Len(d) \in Nat \ {0} /\ Len(Tail(d)) = Len(d) - 1
      /\ \A i \in 1 .. Len(Tail(d)) : Tail(d)[i] = d[i + 1]
  BY HeadTailProperties
<1>2. 1 \in 1 .. Len(d) /\ \A i \in 1 .. Len(Tail(d)) : i + 1 \in 1 .. Len(d)
  BY <1>1
<1>3. d[1] \in Carried
  BY <1>2
<1> QED BY <1>1, <1>2, <1>3

LEMMA FcTail ==
  ASSUME NEW b \in Seq(Carried), b # <<>> PROVE HasFc(Tail(b)) => HasFc(b)
BY HeadFrame DEF HasFc

LEMMA FcAppend ==
  ASSUME NEW b \in Seq(Carried), NEW f \in Carried, f.kind # "FC"
  PROVE  Append(b, f) \in Seq(Carried) /\ (HasFc(Append(b, f)) => HasFc(b))
<1>1. /\ Append(b, f) \in Seq(Carried) /\ Len(Append(b, f)) = Len(b) + 1 /\ Len(b) \in Nat
      /\ Append(b, f)[Len(b) + 1] = f /\ \A i \in 1 .. Len(b) : Append(b, f)[i] = b[i]
  OBVIOUS
<1>2. \A i \in 1 .. Len(Append(b, f)) : i \in 1 .. Len(b) \/ i = Len(b) + 1
  BY <1>1
<1> QED BY <1>1, <1>2 DEF HasFc

LEMMA ThinnerSelf == ASSUME NEW d \in Seq(Carried) PROVE Thinner(d, d)
<1> DEFINE g == [i \in 1 .. Len(d) |-> i]
<1>1. Len(d) \in Nat
  OBVIOUS
<1>2. /\ g \in [1 .. Len(d) -> 1 .. Len(d)] /\ \A i \in 1 .. Len(d) : d[i] = d[g[i]]
      /\ \A i, j \in 1 .. Len(d) : i < j =>
            g[i] # g[j] /\ (i # 1 \/ j # 2 => g[i] < g[j] /\ (g[i] # 1 \/ g[j] # 2))
  BY <1>1
<1> HIDE DEF g
<1> QED BY <1>2 DEF Thinner

(* The wire back carries the other direction's frames, or loses some.        *)
LEMMA BackChanges ==
  ASSUME NEW tx, NEW s, NEW rx, NEW d, NEW b, NEW o, NEW w, Direction(tx, s, rx, d, b, o, w),
         NEW b2 \in Seq(Carried), HasFc(b2) => HasFc(b)
  PROVE  Direction(tx, s, rx, d, b2, o, w)
<1>1. Thinner(d, d)
  BY ThinnerSelf DEF Direction
<1> QED BY <1>1, DirectionThins

(* Sequence numbers follow the count of the pieces.                          *)
LEMMA Nibble ==
  /\ \A k \in Nat : (k + 1) % 16 \in 0 .. 15
  /\ \A k \in Nat : (((k + 1) % 16) + 1) % 16 = (k + 2) % 16
  /\ \A j, k \in Nat : j < k /\ (j + 1) % 16 = (k + 1) % 16 => j + 16 <= k
BY SMT

(* The sender sends its next piece.                                          *)
PieceDue(tx) == [kind |-> "CF", seq |-> tx.seq, dlc |-> 8, pdu |-> tx.pdu, at |-> tx.pos]
PosAfter(tx) ==
  tx.pos + (IF 7 < Length[tx.pdu] - tx.pos THEN 7 ELSE Length[tx.pdu] - tx.pos)
Sent(tx, left) ==
  [state |-> IF PosAfter(tx) >= Length[tx.pdu] THEN "Idle" ELSE "Sending", pdu |-> tx.pdu,
   pos |-> PosAfter(tx), seq |-> (tx.seq + 1) % 16, bs |-> tx.bs, left |-> left]

LEMMA Pumped ==
  ASSUME NEW tx, NEW s, NEW rx, NEW d, NEW b, NEW o, NEW w, Direction(tx, s, rx, d, b, o, w),
         tx.state = "Sending", tx.pos < Length[tx.pdu],
         NEW left \in 0 .. 255, NEW tx2, tx2 = Sent(tx, left), NEW cf, cf = PieceDue(tx)
  PROVE  Direction(tx2, s + 1, rx, Append(d, cf), b, o, w) /\ cf \in Carried
<1> DEFINE pos == PosAfter(tx)
<1> USE DEF PieceDue, Sent, PosAfter
<1> DEFINE d2 == Append(d, cf)
           L == Length[tx.pdu]
<1>1. /\ s \in Nat /\ tx \in Senders /\ tx.pdu \in AllPdus /\ L \in 8 .. MaxPdu
      /\ tx.seq = (s + 1) % 16 /\ tx.pos \in Nat
      /\ tx.pos = 6 + 7 * s
  BY DEF Direction, Sender, Senders
<1>2. cf \in Carried /\ cf.kind = "CF" /\ cf.at = 6 + 7 * s /\ cf.seq = (s + 1) % 16 /\ cf.pdu = tx.pdu
  BY <1>1, Nibble DEF Carried, Consecutives
<1>3. d \in Seq(Carried) /\ Len(d) \in Nat
  BY DEF Direction
<1>4. d2 \in Seq(Carried) /\ Len(d2) = Len(d) + 1 /\ d2[Len(d) + 1] = cf
      /\ \A i \in 1 .. Len(d) : d2[i] = d[i]
  BY <1>2, <1>3
<1> HIDE DEF d2
<1>5. \A i \in 1 .. Len(d2) : i \in 1 .. Len(d) \/ i = Len(d) + 1
  BY <1>3, <1>4
<1>6. Cfs(d2) = Cfs(d) \cup {Len(d) + 1} /\ Len(d) + 1 \notin Cfs(d)
      /\ \A i \in Cfs(d) : d2[i] = d[i] /\ i < Len(d) + 1
  BY <1>2, <1>3, <1>4, <1>5 DEF Cfs
<1>7. Sender(tx2, s + 1)
  <2> HIDE DEF L
  <2>1. /\ pos \in Nat
        /\ \/ pos = 6 + 7 * (s + 1) /\ pos < L
           \/ pos = L /\ s + 1 >= 1 /\ pos <= 6 + 7 * (s + 1) /\ 6 + 7 * s < pos
    BY <1>1, PduAssumption DEF L
  <2>2. tx2 \in Senders
    BY <1>1, <2>1, Nibble DEF Senders
  <2>3. /\ tx2.seq = (s + 1 + 1) % 16 /\ tx2.pdu = tx.pdu /\ tx2.pos = pos
    BY <1>1, Nibble
  <2>4. s + 1 \in Nat /\ 6 + 7 * (s + 1 - 1) = 6 + 7 * s
    BY <1>1
  <2> QED BY <1>1, <2>1, <2>2, <2>3, <2>4 DEF Sender, L
<1>8. Pieces(tx2, s + 1, d2)
  <2> DEFINE n == s + 1
  <2>3. n - 1 = s
    BY <1>1
  <2> HIDE DEF n
  <2>1. ASSUME NEW i \in Cfs(d2)
        PROVE  /\ tx2.pdu \in AllPdus /\ d2[i].pdu = tx2.pdu
               /\ \E k \in 0 .. n - 1 : d2[i].at = 6 + 7 * k /\ d2[i].seq = (k + 1) % 16
    <3>1. CASE i \in Cfs(d)
      <4>1. PICK k \in 0 .. s - 1 : d[i].at = 6 + 7 * k /\ d[i].seq = (k + 1) % 16
        BY <3>1 DEF Direction, Pieces
      <4>2. k \in 0 .. n - 1
        BY <1>1, <2>3
      <4>3. d[i].pdu = tx.pdu
        BY <3>1 DEF Direction, Pieces
      <4> QED BY <1>1, <1>6, <3>1, <4>1, <4>2, <4>3
    <3>2. CASE i = Len(d) + 1
      <4>1. s \in 0 .. n - 1
        BY <1>1, <2>3
      <4> QED BY <1>1, <1>2, <1>4, <3>2, <4>1
    <3> QED BY <1>6, <3>1, <3>2
  <2>2. ASSUME NEW i \in Cfs(d2), NEW j \in Cfs(d2), i < j
        PROVE  d2[i].at # d2[j].at /\ (i # 1 \/ j # 2 => d2[i].at < d2[j].at)
    <3>1. i \in Cfs(d)
      BY <1>3, <1>4, <1>6, <2>2 DEF Cfs
    <3>2. CASE j \in Cfs(d)
      BY <1>6, <2>2, <3>1, <3>2 DEF Direction, Pieces
    <3>3. CASE j = Len(d) + 1
      <4>1. PICK k \in 0 .. s - 1 : d[i].at = 6 + 7 * k
        BY <3>1 DEF Direction, Pieces
      <4>2. d2[i].at = 6 + 7 * k /\ d2[j].at = 6 + 7 * s
        BY <1>2, <1>4, <1>6, <3>1, <3>3, <4>1
      <4>3. 6 + 7 * k < 6 + 7 * s
        BY <1>1
      <4> QED BY <1>1, <4>2, <4>3
    <3> QED BY <1>6, <3>2, <3>3
  <2>4. Pieces(tx2, n, d2)
    BY <2>1, <2>2 DEF Pieces
  <2> QED BY <2>4 DEF n
<1>9. Begins(tx2, d2, b, o, w)
  <2>1. \A i \in 1 .. Len(d) : d[i].kind \notin {"SF", "FF"}
    BY DEF Direction, Begins
  <2>2. \A i \in 1 .. Len(d2) : d2[i].kind \notin {"SF", "FF"}
    BY <1>2, <1>4, <1>5, <2>1
  <2> QED BY <2>2 DEF Begins
<1>10. ASSUME rx.multi PROVE Reassembles(tx2, s + 1, rx, d2, o)
  <2>1. Reassembles(tx, s, rx, d, o)
    BY <1>10 DEF Direction, Flows
  <2>2. PICK j \in Nat :
       /\ rx.have = 6 + 7 * j /\ rx.have < rx.len /\ rx.seq = (j + 1) % 16
       /\ \/ rx.from = o /\ j <= s /\ \A i \in Cfs(d) : d[i].at >= rx.have
          \/ j + Cardinality(Cfs(d)) < s
    BY <2>1 DEF Reassembles
  <2>3. Cardinality(Cfs(d2)) = Cardinality(Cfs(d)) + 1 /\ Cardinality(Cfs(d)) \in Nat
    BY <1>3, <1>6, CfsFinite, FS_AddElement
  <2>4. CASE rx.from = o /\ j <= s /\ \A i \in Cfs(d) : d[i].at >= rx.have
    <3>3. d2[Len(d) + 1].at >= rx.have
      BY <1>1, <1>2, <1>4, <2>2, <2>4
    <3>1. \A i \in Cfs(d2) : d2[i].at >= rx.have
      BY <1>6, <2>4, <3>3
    <3>2. j <= s + 1
      BY <1>1, <2>4
    <3> QED BY <2>1, <2>2, <2>4, <3>1, <3>2 DEF Reassembles
  <2>5. CASE j + Cardinality(Cfs(d)) < s
    <3>1. j + Cardinality(Cfs(d2)) < s + 1
      BY <1>1, <2>3, <2>5
    <3> QED BY <2>1, <2>2, <3>1 DEF Reassembles
  <2> QED BY <2>2, <2>4, <2>5
<1>11. Direction(tx2, s + 1, rx, d2, b, o, w)
  BY <1>4, <1>7, <1>8, <1>9, <1>10 DEF Direction
<1> QED BY <1>2, <1>11 DEF d2

(* The sender offers a PDU on a quiet wire.                                  *)
LEMMA Offered ==
  ASSUME NEW tx, NEW s, NEW rx, NEW o, Direction(tx, s, rx, <<>>, <<>>, o, FALSE), tx.state = "Idle",
         NEW p \in AllPdus, NEW f, NEW tx2,
         \/ /\ Length[p] \in 1 .. 7 /\ tx2 = tx
            /\ f = [kind |-> "SF", len |-> Length[p], dlc |-> Length[p] + 1, pdu |-> p]
         \/ /\ Length[p] \in 8 .. MaxPdu
            /\ tx2 = [state |-> "WaitFlowControl", pdu |-> p, pos |-> 6, seq |-> 1,
                      bs |-> 0, left |-> 0]
            /\ f = [kind |-> "FF", len |-> Length[p], dlc |-> 8, pdu |-> p]
  PROVE  f \in Carried /\ f.kind # "FC" /\ \E s2 \in Nat : Direction(tx2, s2, rx, <<f>>, <<>>, p, FALSE)
<1>1. f \in Carried /\ f.kind \in {"SF", "FF"} /\ f.pdu = p /\ f.len = Length[p]
      /\ (f.kind = "SF" => Length[p] \in 1 .. 7 /\ f.dlc = Length[p] + 1)
      /\ (f.kind = "FF" => Length[p] \in 8 .. MaxPdu /\ f.dlc = 8 /\ tx2.pdu = p /\ tx2.pos = 6)
      /\ tx2.state \in {"Idle", "WaitFlowControl"}
  <2>1. CASE Length[p] \in 1 .. 7
    <3>1. Length[p] + 1 \in 2 .. 8
      BY <2>1
    <3> QED BY <2>1, <3>1 DEF Carried, Singles
  <2>2. CASE Length[p] \in 8 .. MaxPdu
    BY <2>2 DEF Carried, Firsts
  <2> QED BY <2>1, <2>2
<1>2. PICK s2 \in Nat : Sender(tx2, s2)
  <2>1. CASE tx2 = tx
    BY <2>1 DEF Direction, Sender
  <2>2. CASE Length[p] \in 8 .. MaxPdu /\
             tx2 = [state |-> "WaitFlowControl", pdu |-> p, pos |-> 6, seq |-> 1,
                      bs |-> 0, left |-> 0]
    <3>1. tx2 \in Senders /\ tx2.pdu = p /\ tx2.pos = 6 /\ tx2.seq = 1
      BY <2>2 DEF Senders
    <3>2. 6 = 6 + 7 * 0 /\ 6 < Length[p] /\ 1 = (0 + 1) % 16
      BY <2>2
    <3>3. Sender(tx2, 0)
      BY <2>2, <3>1, <3>2 DEF Sender
    <3> QED BY <3>3
  <2> QED BY <2>1, <2>2
<1> DEFINE d2 == <<f>>
<1>3. d2 \in Seq(Carried) /\ Len(d2) = 1 /\ d2[1] = f /\ <<>> \in Seq(Carried) /\ Len(<<>>) = 0
  BY <1>1
<1> HIDE DEF d2
<1>4. \A i \in 1 .. Len(d2) : i = 1
  BY <1>3
<1>5. Cfs(d2) = {}
  BY <1>1, <1>3, <1>4 DEF Cfs
<1>6. ~HasFc(<<>>)
  BY <1>3 DEF HasFc
<1>7. Pieces(tx2, s2, d2)
  BY <1>5 DEF Pieces
<1>8. Begins(tx2, d2, <<>>, p, FALSE)
  BY <1>1, <1>3, <1>4, <1>6 DEF Begins
<1>9. ~Flows(tx2, d2, <<>>, FALSE)
  BY <1>1, <1>5, <1>6 DEF Flows
<1>10. Direction(tx2, s2, rx, d2, <<>>, p, FALSE)
  BY <1>2, <1>3, <1>7, <1>8, <1>9 DEF Direction
<1> QED BY <1>1, <1>10 DEF d2

(* A frame that begins a transfer arrives: it is of the PDU on offer, and    *)
(* valid.                                                                    *)
LEMMA BeginsWithOffer ==
  ASSUME NEW tx, NEW s, NEW rx, NEW d, NEW b, NEW o, NEW w, Direction(tx, s, rx, d, b, o, w),
         d # <<>>, Head(d).kind \in {"SF", "FF"}
  PROVE  /\ o \in AllPdus /\ Head(d).pdu = o /\ Head(d).len = Length[o] /\ o # NoPdu
         /\ Head(d).kind = "SF" => Length[o] \in 1 .. 7 /\ Head(d).dlc = Length[o] + 1
         /\ Head(d).kind = "FF" => Length[o] \in 8 .. MaxPdu /\ Head(d).dlc = 8
                                   /\ tx.pdu = o /\ tx.pos = 6
         /\ \A i \in 1 .. Len(Tail(d)) : Tail(d)[i].kind = "FC"
         /\ ~HasFc(b) /\ tx.state # "Sending"
<1>1. d \in Seq(Carried) /\ Begins(tx, d, b, o, w)
  BY DEF Direction
<1>2. /\ Head(d) = d[1] /\ 1 \in 1 .. Len(d) /\ Len(d) \in Nat /\ Len(Tail(d)) = Len(d) - 1
      /\ \A i \in 1 .. Len(Tail(d)) : Tail(d)[i] = d[i + 1] /\ i + 1 \in 1 .. Len(d)
  BY <1>1, HeadFrame
<1>3. \A i \in 1 .. Len(Tail(d)) : i + 1 # 1
  OBVIOUS
<1>4. /\ \A j \in 1 .. Len(d) : j # 1 => d[j].kind = "FC"
      /\ ~HasFc(b) /\ ~w /\ tx.state # "Sending"
      /\ o \in AllPdus /\ d[1].pdu = o /\ d[1].len = Length[o]
      /\ d[1].kind = "SF" => Length[o] \in 1 .. 7 /\ d[1].dlc = Length[o] + 1
      /\ d[1].kind = "FF" => Length[o] \in 8 .. MaxPdu /\ d[1].dlc = 8 /\ tx.pdu = o /\ tx.pos = 6
  BY <1>1, <1>2 DEF Begins
<1>5. o # NoPdu
  BY <1>4, PduAssumption DEF AllPdus
<1> QED BY <1>2, <1>3, <1>4, <1>5

(* A first frame opens the reassembly, and the receiver owes a flow control. *)
LEMMA ReceivesFirst ==
  ASSUME NEW tx, NEW s, NEW rx, NEW d, NEW b, NEW o, NEW w, Direction(tx, s, rx, d, b, o, w),
         d # <<>>, Head(d).kind = "FF",
         NEW rx2, rx2 = [len |-> Head(d).len, have |-> 6, seq |-> 1, multi |-> TRUE,
                         from |-> Head(d).pdu]
  PROVE  Direction(tx, s, rx2, Tail(d), b, o, TRUE)
<1>1. /\ o \in AllPdus /\ Head(d).pdu = o /\ Head(d).len = Length[o] /\ tx.pdu = o /\ tx.pos = 6
      /\ Length[o] \in 8 .. MaxPdu
      /\ \A i \in 1 .. Len(Tail(d)) : Tail(d)[i].kind = "FC"
  BY BeginsWithOffer
<1>2. Cfs(Tail(d)) = {}
  BY <1>1 DEF Cfs
<1>3. s \in Nat /\ s = 0
  BY <1>1 DEF Direction, Sender
<1>4. rx2 \in Receivers
  BY <1>1, PduAssumption DEF Receivers
<1>5. d \in Seq(Carried) /\ b \in Seq(Carried) /\ Sender(tx, s)
  BY DEF Direction
<1>6. Tail(d) \in Seq(Carried)
  BY <1>5, HeadFrame
<1>7. Pieces(tx, s, Tail(d)) /\ Begins(tx, Tail(d), b, o, TRUE)
  BY <1>1, <1>2 DEF Pieces, Begins
<1>8. Reassembles(tx, s, rx2, Tail(d), o)
  <2>1. rx2.len = Length[o] /\ rx2.have = 6 /\ rx2.seq = 1 /\ rx2.from = o
    BY <1>1
  <2>2. 6 = 6 + 7 * 0 /\ 6 < Length[o] /\ 1 = (0 + 1) % 16 /\ 0 <= s
    BY <1>1, <1>3
  <2> QED BY <1>1, <1>2, <2>1, <2>2 DEF Reassembles
<1> QED BY <1>4, <1>5, <1>6, <1>7, <1>8 DEF Direction

(* No frame that begins a transfer is on a wire that carries a piece.        *)
LEMMA NothingBegins ==
  ASSUME NEW tx, NEW s, NEW rx, NEW d, NEW b, NEW o, NEW w, Direction(tx, s, rx, d, b, o, w),
         Cfs(d) # {}
  PROVE  \A i \in 1 .. Len(d) : d[i].kind \notin {"SF", "FF"}
<1>1. PICK k \in Cfs(d) : TRUE
  OBVIOUS
<1>2. k \in 1 .. Len(d) /\ d[k].kind = "CF"
  BY <1>1 DEF Cfs
<1> QED BY <1>2 DEF Direction, Begins

(* Taking the oldest piece off the wire: how many are left.                  *)
LEMMA TailOfPieces ==
  ASSUME NEW d \in Seq(Carried), d # <<>>, Head(d).kind = "CF"
  PROVE  /\ 1 \in Cfs(d) /\ Cardinality(Cfs(Tail(d))) < Cardinality(Cfs(d))
         /\ \A i \in Cfs(Tail(d)) : i + 1 \in Cfs(d) /\ Tail(d)[i] = d[i + 1] /\ i >= 1 /\ i \in Nat
<1>1. /\ Head(d) = d[1] /\ 1 \in 1 .. Len(d) /\ Tail(d) \in Seq(Carried)
      /\ \A i \in 1 .. Len(Tail(d)) : Tail(d)[i] = d[i + 1] /\ i + 1 \in 1 .. Len(d)
  BY HeadFrame
<1>2. 1 \in Cfs(d)
  BY <1>1 DEF Cfs
<1>3. \A i \in Cfs(Tail(d)) : i + 1 \in Cfs(d) /\ Tail(d)[i] = d[i + 1] /\ i >= 1 /\ i \in Nat
  BY <1>1 DEF Cfs
<1> DEFINE h == [i \in Cfs(Tail(d)) |-> i + 1]
<1>4. h \in [Cfs(Tail(d)) -> Cfs(d) \ {1}]
  BY <1>3
<1>5. \A i, j \in Cfs(Tail(d)) : h[i] = h[j] => i = j
  BY <1>3
<1> HIDE DEF h
<1>6. h \in Injection(Cfs(Tail(d)), Cfs(d) \ {1})
  BY <1>4, <1>5 DEF Injection, IsInjective
<1>7. IsFiniteSet(Cfs(d)) /\ IsFiniteSet(Cfs(d) \ {1})
      /\ Cardinality(Cfs(d) \ {1}) = Cardinality(Cfs(d)) - 1
  BY <1>2, CfsFinite, FS_RemoveElement
<1>8. Cardinality(Cfs(Tail(d))) <= Cardinality(Cfs(d) \ {1})
  BY <1>6, <1>7, FS_Injection
<1>9. Cardinality(Cfs(Tail(d))) \in Nat /\ Cardinality(Cfs(d)) \in Nat
  BY <1>1, CfsFinite
<1>10. Cardinality(Cfs(Tail(d))) < Cardinality(Cfs(d))
  BY <1>7, <1>8, <1>9
<1> QED BY <1>2, <1>3, <1>10

(* Behind piece k come the pieces after it, and at most one before it.       *)
LEMMA PiecesLeft ==
  ASSUME NEW tx, NEW s \in Nat, NEW d \in Seq(Carried), d # <<>>, Head(d).kind = "CF",
         Pieces(tx, s, d), NEW k \in 0 .. s - 1, Head(d).at = 6 + 7 * k
  PROVE  Cardinality(Cfs(Tail(d))) <= s - k
<1> DEFINE Piece(i) == CHOOSE m \in 0 .. s - 1 : d[i + 1].at = 6 + 7 * m
           h == [i \in Cfs(Tail(d)) |-> IF i = 1 THEN k ELSE Piece(i)]
<1>1. 1 \in Cfs(d) /\ Head(d) = d[1]
      /\ \A i \in Cfs(Tail(d)) : i + 1 \in Cfs(d) /\ i >= 1 /\ i \in Nat
  BY TailOfPieces, HeadFrame
<1>2. ASSUME NEW i \in Cfs(Tail(d)), i # 1
      PROVE  Piece(i) \in k + 1 .. s - 1 /\ d[i + 1].at = 6 + 7 * Piece(i)
  <2>1. \E m \in 0 .. s - 1 : d[i + 1].at = 6 + 7 * m
    BY <1>1 DEF Pieces
  <2>2. Piece(i) \in 0 .. s - 1 /\ d[i + 1].at = 6 + 7 * Piece(i)
    BY <2>1
  <2>3. 1 < i + 1 /\ i + 1 # 2 /\ i + 1 \in Cfs(d)
    BY <1>1, <1>2
  <2>4. d[1].at < d[i + 1].at
    BY <1>1, <2>3 DEF Pieces
  <2> HIDE DEF Piece
  <2>5. 6 + 7 * k < 6 + 7 * Piece(i)
    BY <1>1, <2>2, <2>4
  <2> QED BY <2>2, <2>5
<1> HIDE DEF Piece
<1>3. h \in [Cfs(Tail(d)) -> k .. s - 1]
  <2> SUFFICES ASSUME NEW i \in Cfs(Tail(d)) PROVE (IF i = 1 THEN k ELSE Piece(i)) \in k .. s - 1
    OBVIOUS
  <2> QED BY <1>2
<1>4. ASSUME NEW i \in Cfs(Tail(d)), NEW j \in Cfs(Tail(d)), i < j PROVE h[i] # h[j]
  <2>1. i \in Nat /\ j \in Nat /\ i >= 1 /\ j # 1 /\ h[j] = Piece(j)
    BY <1>1, <1>4
  <2>2. CASE i = 1
    BY <1>2, <2>1, <2>2
  <2>3. CASE i # 1
    <3>1. h[i] = Piece(i)
      BY <2>3
    <3>2. d[i + 1].at # d[j + 1].at
      <4>1. i + 1 \in Cfs(d) /\ j + 1 \in Cfs(d) /\ i + 1 < j + 1
        BY <1>1, <1>4, <2>1
      <4> QED BY <4>1 DEF Pieces
    <3> QED BY <1>2, <2>1, <2>3, <3>1, <3>2
  <2> QED BY <2>2, <2>3
<1>5. \A i, j \in Cfs(Tail(d)) : h[i] = h[j] => i = j
  <2>1. \A i, j \in Cfs(Tail(d)) : i < j \/ j < i \/ i = j
    BY <1>1
  <2> QED BY <1>4, <2>1
<1> HIDE DEF h
<1>6. h \in Injection(Cfs(Tail(d)), k .. s - 1)
  BY <1>3, <1>5 DEF Injection, IsInjective
<1>7. IsFiniteSet(k .. s - 1) /\ Cardinality(k .. s - 1) = s - k
  <2> DEFINE n == s - 1
  <2>1. k \in Int /\ n \in Int /\ ~(k > n) /\ n - k + 1 = s - k
    OBVIOUS
  <2> HIDE DEF n
  <2>2. IsFiniteSet(k .. n) /\ Cardinality(k .. n) = n - k + 1
    BY <2>1, FS_Interval
  <2> QED BY <2>1, <2>2 DEF n
<1>8. Cardinality(Cfs(Tail(d))) <= Cardinality(k .. s - 1)
  BY <1>6, <1>7, FS_Injection
<1> QED BY <1>7, <1>8

(* The next piece in sequence arrives. If it completes the reassembly, what  *)
(* the buffer holds is the PDU on offer, whole; a piece that only shares its *)
(* sequence number with the one that is due comes 16 later, and then too few *)
(* are left.                                                                 *)
Taken(rx) == IF 7 < rx.len - rx.have THEN 7 ELSE rx.len - rx.have
Holds(rx, f) == IF f.pdu = rx.from /\ f.at = rx.have THEN rx.from ELSE Garbled
Extended(rx, f) ==
  [len |-> rx.len, have |-> rx.have + Taken(rx), seq |-> (rx.seq + 1) % 16,
   multi |-> rx.have + Taken(rx) < rx.len, from |-> Holds(rx, f)]

LEMMA ReceivesNext ==
  ASSUME NEW tx, NEW s, NEW rx, NEW d, NEW b, NEW o, NEW w, Direction(tx, s, rx, d, b, o, w),
         d # <<>>, Head(d).kind = "CF", rx.multi, Head(d).seq = rx.seq, NEW w2 \in BOOLEAN,
         NEW rx2, rx2 = Extended(rx, Head(d))
  PROVE  /\ rx.have + Taken(rx) >= rx.len => Holds(rx, Head(d)) = o /\ o \in AllPdus /\ o # NoPdu
         /\ rx.have + Taken(rx) < rx.len => Direction(tx, s, rx2, Tail(d), b, o, w2)
<1> DEFINE c == Taken(rx)
           from == Holds(rx, Head(d))
<1> USE DEF Taken, Holds, Extended
<1> DEFINE f == Head(d)
           t == Tail(d)
<1>1. /\ d \in Seq(Carried) /\ b \in Seq(Carried) /\ Sender(tx, s) /\ rx \in Receivers
      /\ Pieces(tx, s, d) /\ s \in Nat
  BY DEF Direction, Sender
<1>2. /\ f = d[1] /\ 1 \in Cfs(d) /\ t \in Seq(Carried)
      /\ Cardinality(Cfs(t)) < Cardinality(Cfs(d))
      /\ Cardinality(Cfs(t)) \in Nat /\ Cardinality(Cfs(d)) \in Nat
      /\ \A i \in Cfs(t) : i + 1 \in Cfs(d) /\ t[i] = d[i + 1] /\ i >= 1 /\ i \in Nat
  BY <1>1, TailOfPieces, HeadFrame, CfsFinite
<1>3. Thinner(t, d)
  BY <1>1, ThinnerTail
<1>4. Direction(tx, s, rx, t, b, o, w)
  BY <1>1, <1>3, DirectionThins
<1>5. Reassembles(tx, s, rx, d, o)
  BY <1>2 DEF Direction, Flows
<1>6. /\ o = tx.pdu /\ o \in AllPdus /\ rx.len = Length[o] /\ Length[o] \in 8 .. MaxPdu
      /\ rx.have \in Nat /\ rx.len \in Nat /\ tx.pos <= rx.len /\ 6 + 7 * (s - 1) < tx.pos
      /\ tx.pos \in Nat
  <2>1. o = tx.pdu /\ o \in AllPdus /\ rx.len = Length[o] /\ rx.have \in Nat /\ rx.len \in Nat
        /\ tx.pos \in Nat
    BY <1>1, <1>5 DEF Reassembles, Receivers, Sender, Senders
  <2>2. \/ tx.pos = 6 + 7 * s /\ tx.pos < Length[tx.pdu]
        \/ /\ tx.pos = Length[tx.pdu] /\ s >= 1
           /\ tx.pos <= 6 + 7 * s /\ 6 + 7 * (s - 1) < tx.pos
    BY <1>1, <2>1 DEF Sender
  <2>3. Length[o] \in 8 .. MaxPdu
    BY <1>1, <2>1 DEF Sender
  <2> QED BY <1>1, <2>1, <2>2, <2>3
<1>7. PICK j \in Nat :
       /\ rx.have = 6 + 7 * j /\ rx.have < rx.len /\ rx.seq = (j + 1) % 16
       /\ \/ rx.from = o /\ j <= s /\ \A i \in Cfs(d) : d[i].at >= rx.have
          \/ j + Cardinality(Cfs(d)) < s
  BY <1>5 DEF Reassembles
<1>8. PICK k \in 0 .. s - 1 : f.at = 6 + 7 * k /\ f.seq = (k + 1) % 16
  BY <1>1, <1>2 DEF Pieces
<1>9. f.pdu = o
  BY <1>1, <1>2, <1>6 DEF Pieces
<1>10. Cardinality(Cfs(t)) <= s - k
  BY <1>1, <1>8, PiecesLeft
<1> HIDE DEF f, t
<1>11. o # NoPdu
  BY <1>6, PduAssumption DEF AllPdus
<1>12. 6 + 7 * (j + 1) = rx.have + 7 /\ j + 1 \in Nat
  BY <1>7
<1>13. rx.have + c < rx.len => c = 7 /\ rx2.have = 6 + 7 * (j + 1)
  BY <1>6, <1>7, <1>12
<1>14. rx2 \in Receivers /\ rx2.seq = (j + 1 + 1) % 16
  <2>1. rx.have + c \in Nat
    BY <1>6, <1>7
  <2>2. from \in AllPdus \cup {NoPdu, Garbled}
    BY <1>1 DEF Receivers
  <2>3. (rx.seq + 1) % 16 = (j + 1 + 1) % 16 /\ (rx.seq + 1) % 16 \in 0 .. 15
    BY <1>7, <1>12, Nibble
  <2>4. rx2.seq = (rx.seq + 1) % 16
    OBVIOUS
  <2> QED BY <1>6, <2>1, <2>2, <2>3, <2>4 DEF Receivers
(* It is enough to see that the reassembly goes on. *)
<1>15. ASSUME rx.have + c < rx.len, rx.have + c < rx.len => Reassembles(tx, s, rx2, t, o)
       PROVE  Direction(tx, s, rx2, t, b, o, w2)
  <2>1. \A i \in 1 .. Len(t) : t[i].kind \notin {"SF", "FF"}
    <3>1. \A i \in 1 .. Len(d) : d[i].kind \notin {"SF", "FF"}
      BY <1>2, NothingBegins
    <3> QED BY <1>1, <3>1, HeadFrame DEF t
  <2>2. Begins(tx, t, b, o, w2)
    BY <2>1 DEF Begins
  <2> QED BY <1>1, <1>4, <1>14, <1>15, <2>2 DEF Direction
<1>16. CASE rx.from = o /\ j <= s /\ k = j /\ \A i \in Cfs(d) : d[i].at >= rx.have
  <2>1. from = o
    BY <1>7, <1>8, <1>9, <1>16 DEF f
  <2>2. ASSUME NEW i \in Cfs(t) PROVE t[i].at >= 6 + 7 * (j + 1)
    <3>1. i + 1 \in Cfs(d) /\ t[i] = d[i + 1] /\ 1 < i + 1
      BY <1>2
    <3>2. PICK m \in 0 .. s - 1 : d[i + 1].at = 6 + 7 * m
      BY <1>1, <3>1 DEF Pieces
    <3>3. d[1].at # d[i + 1].at
      BY <1>1, <1>2, <3>1 DEF Pieces
    <3>4. 6 + 7 * m >= 6 + 7 * j /\ m # j
      BY <1>2, <1>7, <1>8, <1>16, <3>1, <3>2, <3>3
    <3> QED BY <3>1, <3>2, <3>4
  <2>3. j + 1 <= s
    BY <1>1, <1>8, <1>16
  <2>4. ASSUME rx.have + c < rx.len PROVE Reassembles(tx, s, rx2, t, o)
    <3>1. /\ rx2.have = 6 + 7 * (j + 1) /\ rx2.have < rx2.len /\ rx2.len = Length[o]
          /\ rx2.from = o
      BY <1>6, <1>13, <2>1, <2>4
    <3>2. \A i \in Cfs(t) : t[i].at >= rx2.have
      BY <2>2, <3>1
    <3> QED BY <1>6, <1>12, <1>14, <2>3, <3>1, <3>2 DEF Reassembles
  <2> QED BY <1>6, <1>11, <1>15, <2>1, <2>4 DEF t
<1>17. CASE j + 1 + Cardinality(Cfs(t)) < s
  <2>1. j + 1 <= s - 1
    BY <1>1, <1>2, <1>17
  <2>2. rx.have + c < rx.len
    <3>1. 6 + 7 * (j + 1) <= 6 + 7 * (s - 1)
      BY <1>1, <2>1
    <3>2. 6 + 7 * (j + 1) < rx.len
      BY <1>1, <1>6, <3>1
    <3> QED BY <1>6, <1>7, <1>12, <3>2
  <2>3. /\ rx2.have = 6 + 7 * (j + 1) /\ rx2.have < rx2.len /\ rx2.len = Length[o]
    BY <1>6, <1>13, <2>2
  <2>4. Reassembles(tx, s, rx2, t, o)
    BY <1>6, <1>12, <1>14, <1>17, <2>3 DEF Reassembles
  <2>5. ~(rx.have + c >= rx.len)
    BY <1>6, <1>7, <2>2
  <2> QED BY <1>15, <2>2, <2>4, <2>5 DEF t
<1>18. CASE j + Cardinality(Cfs(d)) < s
  <2>1. j + 1 + Cardinality(Cfs(t)) < s
    BY <1>1, <1>2, <1>18
  <2> QED BY <1>17, <2>1
<1>19. CASE rx.from = o /\ j <= s /\ k # j /\ \A i \in Cfs(d) : d[i].at >= rx.have
  <2>1. k \in Nat /\ 6 + 7 * k >= 6 + 7 * j
    BY <1>2, <1>7, <1>8, <1>19
  <2>2. j < k /\ (j + 1) % 16 = (k + 1) % 16
    BY <1>7, <1>8, <1>19, <2>1 DEF f
  <2>3. j + 16 <= k
    BY <2>1, <2>2, Nibble
  <2>4. j + 1 + Cardinality(Cfs(t)) < s
    BY <1>1, <1>2, <1>10, <2>1, <2>3
  <2> QED BY <1>17, <2>4
<1> QED BY <1>7, <1>16, <1>18, <1>19

(* A frame that is refused, or that completes a PDU, closes the reassembly.  *)
LEMMA ReceivesLast ==
  ASSUME NEW tx, NEW s, NEW rx, NEW d, NEW b, NEW o, NEW w, Direction(tx, s, rx, d, b, o, w),
         d # <<>>, NEW rx2 \in Receivers, ~rx2.multi, NEW w2 \in BOOLEAN, w2 => w
  PROVE  Direction(tx, s, rx2, Tail(d), b, o, w2)
<1>1. Thinner(Tail(d), d) /\ b \in Seq(Carried)
  BY ThinnerTail DEF Direction
<1>2. Direction(tx, s, rx, Tail(d), b, o, w)
  BY <1>1, DirectionThins
<1> QED BY <1>2, ReceiverQuiets

(* What a sender makes of a flow control f.                                  *)
Told(tx, f, tx2) ==
  \/ tx.state = "Idle" /\ tx2 = tx
  \/ tx.state # "Idle" /\ f.fs # 0 /\ tx2 = [tx EXCEPT !.state = "WaitFlowControl"]
  \/ tx.state # "Idle" /\ f.fs # 0 /\ tx2 = [tx EXCEPT !.state = "Idle"]
  \/ /\ tx.state # "Idle" /\ f.fs = 0
     /\ tx2 = [state |-> "Sending", pdu |-> tx.pdu, pos |-> tx.pos, seq |-> tx.seq,
               bs |-> f.bs, left |-> f.bs]

LEMMA SenderTold ==
  ASSUME NEW tx, NEW s, NEW rx, NEW d, NEW b, NEW o, NEW w, Direction(tx, s, rx, d, b, o, w),
         b # <<>>, Head(b).kind = "FC", NEW tx2, Told(tx, Head(b), tx2)
  PROVE  Direction(tx2, s, rx, d, Tail(b), o, w)
<1>1. b \in Seq(Carried)
  BY DEF Direction
<1>2. Head(b) = b[1] /\ 1 \in 1 .. Len(b) /\ Head(b) \in Carried /\ Tail(b) \in Seq(Carried)
  BY <1>1, HeadFrame
<1>3. HasFc(b)
  BY <1>2 DEF HasFc
<1>4. Head(b).bs \in 0 .. 255
  BY <1>2 DEF Carried, Singles, Firsts, Consecutives, FlowControls
<1>5. Direction(tx2, s, rx, d, b, o, w)
  <2>1. CASE tx2 = tx
    BY <2>1
  <2>2. CASE tx.state # "Idle" /\ tx2 = [tx EXCEPT !.state = "WaitFlowControl"]
    BY <2>2, SenderQuiets
  <2>3. CASE tx.state # "Idle" /\ tx2 = [tx EXCEPT !.state = "Idle"]
    BY <2>3, SenderQuiets
  <2>4. CASE /\ tx.state # "Idle"
             /\ tx2 = [state |-> "Sending", pdu |-> tx.pdu, pos |-> tx.pos, seq |-> tx.seq,
                       bs |-> Head(b).bs, left |-> Head(b).bs]
    BY <1>3, <1>4, <2>4, SenderCleared
  <2> QED BY <2>1, <2>2, <2>3, <2>4 DEF Told
<1> QED BY <1>2, <1>3, <1>5, BackChanges

LEMMA ThinnerFc ==
  ASSUME NEW b \in Seq(Carried), NEW b2, Thinner(b2, b)
  PROVE  b2 \in Seq(Carried) /\ (HasFc(b2) => HasFc(b))
<1>1. PICK g \in [1 .. Len(b2) -> 1 .. Len(b)] : \A i \in 1 .. Len(b2) : b2[i] = b[g[i]]
  BY DEF Thinner
<1>2. b2 \in Seq(Carried)
  BY DEF Thinner
<1> QED BY <1>1, <1>2 DEF HasFc

----------------------------------------------------------------------------
(* The two directions of the link. *)

Asks    == \E s \in Nat : Direction(txT, s, rxE, toE, toT, offerT, ecuOwes)
Answers == \E s \in Nat : Direction(txE, s, rxT, toT, toE, offerE, FALSE)

LEMMA AsksStep ==
  ASSUME NEW s \in Nat,
         Direction(txT', s, rxE', toE', toT', offerT', ecuOwes')
  PROVE  Asks'
BY DEF Asks

LEMMA AnswersStep ==
  ASSUME NEW s \in Nat,
         Direction(txE', s, rxT', toT', toE', offerE', FALSE)
  PROVE  Answers'
BY DEF Answers

(* What the transport promises of a step, in both directions.                *)
Promised == [Requests!Next]_(Requests!vars) /\ [Replies!Next]_(Replies!vars)

LEMMA Kept == ASSUME UNCHANGED ghost PROVE Promised
BY DEF ghost, Promised, Requests!vars, Replies!vars

LEMMA TesterOffersStep ==
  ASSUME Asks, Answers, TesterOffers PROVE Asks' /\ Answers' /\ Promised
<1>1. PICK p \in TesterPdus : \E f \in {T!SingleFrame(p), T!FirstFrame(p)} :
         T!BeginSend(p, f) /\ toE' = Append(toE, f) /\ offerT' = p
  BY DEF TesterOffers
<1>2. PICK f : T!BeginSend(p, f) /\ toE' = Append(toE, f) /\ offerT' = p
  BY <1>1
<1>3. p \in AllPdus
  BY DEF AllPdus
<1>4. /\ toE = <<>> /\ toT = <<>> /\ ecuOwes = FALSE /\ txT.state = "Idle"
      /\ rxE' = rxE /\ txE' = txE /\ toT' = toT /\ ecuOwes' = ecuOwes /\ rxT' = rxT
      /\ offerE' = offerE /\ handedE' = handedE /\ handedT' = handedT
  <2>1. ecuOwes \in BOOLEAN
    BY DEF Asks, Direction
  <2> QED BY <1>2, <2>1 DEF TesterOffers, Quiet, grant, T!BeginSend
<1>5. toE' = <<f>>
  BY <1>2, <1>4
<1>6. PICK s \in Nat : Direction(txT, s, rxE, toE, toT, offerT, ecuOwes)
  BY DEF Asks
<1>7. txT \in Senders
  BY <1>6 DEF Direction, Sender
<1>8. \/ /\ Length[p] \in 1 .. 7 /\ txT' = txT
         /\ f = [kind |-> "SF", len |-> Length[p], dlc |-> Length[p] + 1, pdu |-> p]
      \/ /\ Length[p] \in 8 .. MaxPdu
         /\ txT' = [state |-> "WaitFlowControl", pdu |-> p, pos |-> 6, seq |-> 1,
                    bs |-> 0, left |-> 0]
         /\ f = [kind |-> "FF", len |-> Length[p], dlc |-> 8, pdu |-> p]
  <2>1. CASE Length[p] <= 7 /\ f = T!SingleFrame(p) /\ txT' = [txT EXCEPT !.state = "Idle"]
    <3>1. txT' = txT
      BY <1>4, <1>7, <2>1 DEF Senders
    <3> QED BY <1>2, <2>1, <3>1, PduAssumption DEF T!BeginSend, T!SingleFrame
  <2>2. CASE Length[p] > 7
    BY <1>2, <2>2, PduAssumption DEF T!BeginSend, T!FirstFrame
  <2> QED BY <1>2, <2>1, <2>2 DEF T!BeginSend
<1>9. /\ f \in Carried /\ f.kind # "FC"
      /\ \E s2 \in Nat : Direction(txT', s2, rxE, <<f>>, <<>>, p, FALSE)
  <2>1. Direction(txT, s, rxE, <<>>, <<>>, offerT, FALSE)
    BY <1>4, <1>6
  <2> QED BY <1>3, <1>4, <1>8, <2>1, Offered
<1>10. Asks'
  BY <1>2, <1>4, <1>5, <1>9, AsksStep
<1>11. Answers'
  <2>1. PICK s2 \in Nat : Direction(txE, s2, rxT, toT, toE, offerE, FALSE)
    BY DEF Answers
  <2>2. toE' \in Seq(Carried) /\ (HasFc(toE') => HasFc(toE))
    BY <1>2, <1>9, <2>1, FcAppend DEF Direction
  <2>3. Direction(txE, s2, rxT, toT, toE', offerE, FALSE)
    BY <2>1, <2>2, BackChanges
  <2> QED BY <1>4, <2>3, AnswersStep
<1>12. Promised
  BY <1>2, <1>4 DEF Promised, Requests!Next, Requests!Offer, Requests!vars, Replies!vars
<1> QED BY <1>10, <1>11, <1>12

LEMMA TesterPumpsStep ==
  ASSUME Asks, Answers, TesterPumps PROVE Asks' /\ Answers' /\ Promised
<1>1. /\ rxE' = rxE /\ txE' = txE /\ toT' = toT /\ ecuOwes' = ecuOwes /\ rxT' = rxT
      /\ offerE' = offerE /\ offerT' = offerT /\ UNCHANGED ghost
  BY DEF TesterPumps, grant, ghost, T!NextTxFrame, T!NextTxPause
<1>2. PICK s \in Nat : Direction(txT, s, rxE, toE, toT, offerT, ecuOwes)
  BY DEF Asks
<1>3. txT \in Senders /\ txT.state # "Idle" /\ txT.pdu \in AllPdus /\ T!TxLen = Length[txT.pdu]
  <2>1. txT.state # "Idle"
    BY DEF TesterPumps, T!NextTxFrame, T!NextTxPause
  <2> QED BY <1>2, <2>1 DEF Direction, Sender, T!TxLen
<1>4. PICK s2 \in Nat : Direction(txE, s2, rxT, toT, toE, offerE, FALSE)
  BY DEF Answers
<1>5. CASE T!NextTxFrame(T!ConsecutiveFrame) /\ toE' = Append(toE, T!ConsecutiveFrame)
  <2> DEFINE left == T!BlockLeft
  <2>1. left \in 0 .. 255
    BY <1>3, <1>5 DEF T!BlockLeft, T!BlockOpen, T!NextTxFrame, Senders
  <2>2. /\ txT.state = "Sending" /\ txT.pos < Length[txT.pdu] /\ txT' = Sent(txT, left)
    BY <1>3, <1>5 DEF T!NextTxFrame, T!Least, T!NextSeq, Sent, PosAfter
  <2>3. T!ConsecutiveFrame = PieceDue(txT) /\ T!ConsecutiveFrame.kind = "CF"
    BY DEF T!ConsecutiveFrame, PieceDue
  <2> HIDE DEF left
  <2>4. /\ Direction(txT', s + 1, rxE, Append(toE, T!ConsecutiveFrame), toT, offerT, ecuOwes)
        /\ T!ConsecutiveFrame \in Carried
    BY <1>2, <2>1, <2>2, <2>3, Pumped
  <2>5. Asks'
    BY <1>1, <1>5, <2>4, AsksStep
  <2>6. toE' \in Seq(Carried) /\ (HasFc(toE') => HasFc(toE))
    BY <1>2, <1>5, <2>3, <2>4, FcAppend DEF Direction
  <2>7. Direction(txE, s2, rxT, toT, toE', offerE, FALSE)
    BY <1>4, <2>6, BackChanges
  <2> QED BY <1>1, <2>5, <2>7, AnswersStep, Kept
<1>6. CASE T!NextTxPause /\ UNCHANGED toE
  <2>1. \E state \in {"Idle", "WaitFlowControl"} : txT' = [txT EXCEPT !.state = state]
    BY <1>6 DEF T!NextTxPause
  <2>2. Direction(txT', s, rxE, toE, toT, offerT, ecuOwes)
    BY <1>2, <1>3, <2>1, SenderQuiets
  <2> QED BY <1>1, <1>4, <1>6, <2>2, AsksStep, AnswersStep, Kept
<1> QED BY <1>5, <1>6 DEF TesterPumps

LEMMA TesterStopsStep ==
  ASSUME Asks, Answers, TesterCannotTransmit \/ TesterGivesUp PROVE Asks' /\ Answers' /\ Promised
<1>1. /\ rxE' = rxE /\ txE' = txE /\ toT' = toT /\ toE' = toE /\ ecuOwes' = ecuOwes /\ rxT' = rxT
      /\ offerE' = offerE /\ offerT' = offerT /\ UNCHANGED ghost
      /\ txT' = [txT EXCEPT !.state = "Idle"]
  BY DEF TesterCannotTransmit, TesterGivesUp, wire, grant, ghost, T!TxReset
<1>2. PICK s \in Nat : Direction(txT, s, rxE, toE, toT, offerT, ecuOwes)
  BY DEF Asks
<1>3. Direction(txT', s, rxE, toE, toT, offerT, ecuOwes)
  BY <1>1, <1>2, SenderQuiets
<1> QED BY <1>1, <1>3, AsksStep, Kept DEF Answers

(* Every frame on the wire is one that feed looks into.                      *)
LEMMA FrameKinds ==
  ASSUME NEW f \in Carried
  PROVE  /\ f.kind \in {"SF", "FF", "CF", "FC"}
         /\ f.kind = "CF" => f.dlc = 8
         /\ f.kind = "FC" => f \in FlowControls /\ f.dlc = 3
BY DEF Carried, Singles, Firsts, Consecutives, FlowControls

(* What feed does with a frame it goes on from.                              *)
Goes(rx, f, rx2) ==
  /\ rx.multi /\ f.seq = rx.seq /\ ~(rx.have + Taken(rx) >= rx.len)
  /\ rx2 = Extended(rx, f)

LEMMA TesterFeeds ==
  ASSUME NEW f \in Carried, NEW st \in {"Continue", "TxClearToSend", "TxWait", "TxAbort"},
         T!Feed(f, st)
  PROVE  \/ f.kind = "CF" /\ st = "Continue" /\ Goes(rxT, f, rxT') /\ txT' = txT
         \/ f.kind = "FC" /\ Told(txT, f, txT') /\ rxT' = rxT
<1>1. f.kind \in {"SF", "FF", "CF", "FC"} /\ (f.kind = "CF" => f.dlc = 8)
      /\ (f.kind = "FC" => f.dlc = 3)
  BY FrameKinds
<1>2. CASE T!FeedConsecutive(f, st)
  <2>1. f.kind = "CF" /\ T!Chunk(f) = Taken(rxT)
    BY <1>1, <1>2 DEF T!FeedConsecutive, T!Chunk, T!Least, Taken
  <2>2. rxT.multi /\ f.seq = rxT.seq /\ ~(rxT.have + Taken(rxT) >= rxT.len) /\ st = "Continue"
    BY <1>2, <2>1 DEF T!FeedConsecutive, T!InSequence
  <2>3. rxT' = Extended(rxT, f)
    BY <1>2, <2>1, <2>2
       DEF T!FeedConsecutive, T!InSequence, T!NextSeq, T!Source, Extended, Holds
  <2> QED BY <1>2, <2>1, <2>2, <2>3 DEF Goes, T!FeedConsecutive
<1>3. CASE T!FeedFlowControl(f, st)
  BY <1>1, <1>3 DEF T!FeedFlowControl, T!ClearToSend, Told
<1> QED BY <1>1, <1>2, <1>3 DEF T!Feed, T!FeedSingle, T!FeedFirst, T!FeedOther

LEMMA TesterOpens ==
  ASSUME NEW f, T!Feed(f, "NeedFlowControl")
  PROVE  /\ f.kind = "FF" /\ txT' = txT
         /\ f.dlc = 8 => rxT' = [len |-> f.len, have |-> 6, seq |-> 1, multi |-> TRUE, from |-> f.pdu]
<1>1. T!FeedFirst(f, "NeedFlowControl") /\ T!ValidFirst(f)
  BY DEF T!Feed, T!FeedSingle, T!FeedFirst, T!FeedConsecutive, T!FeedFlowControl, T!FeedOther
<1> QED BY <1>1 DEF T!FeedFirst, T!Least

(* The transmit direction's frame that completes a PDU completes the offer.  *)
LEMMA TesterCompletes ==
  ASSUME Answers, toT # <<>>, T!Completes(Head(toT))
  PROVE  /\ T!Received(Head(toT)) = offerE /\ offerE # NoPdu
         /\ \A i \in 1 .. Len(Tail(toT)) : Tail(toT)[i].kind \notin {"SF", "FF"}
<1> DEFINE f == Head(toT)
<1>1. PICK s \in Nat : Direction(txE, s, rxT, toT, toE, offerE, FALSE)
  BY DEF Answers
<1>2. toT \in Seq(Carried)
  BY <1>1 DEF Direction
<1>3. f \in Carried
  BY <1>2, HeadFrame
<1>4. CASE f.kind = "SF"
  <2>1. /\ f.pdu = offerE /\ offerE # NoPdu
        /\ \A i \in 1 .. Len(Tail(toT)) : Tail(toT)[i].kind = "FC"
    <3>1. Head(toT).kind \in {"SF", "FF"}
      BY <1>4
    <3>2. PICK w : Direction(txE, s, rxT, toT, toE, offerE, w)
      BY <1>1
    <3> QED BY <3>1, <3>2, BeginsWithOffer
  <2> QED BY <1>4, <2>1 DEF T!Received
<1>5. CASE f.kind # "SF"
  <2>1. f.kind = "CF" /\ T!InSequence(f) /\ rxT.have + T!Chunk(f) >= rxT.len
    BY <1>5 DEF T!Completes
  <2>2. T!Chunk(f) = Taken(rxT) /\ T!Received(f) = Holds(rxT, f)
    BY <1>3, <2>1, FrameKinds DEF T!Chunk, T!Least, Taken, T!Received, T!Source, Holds
  <2>3. Holds(rxT, f) = offerE /\ offerE # NoPdu
    BY <1>1, <2>1, <2>2, ReceivesNext DEF T!InSequence
  <2>4. Cfs(toT) # {}
    BY <1>2, <2>1, TailOfPieces
  <2>5. \A i \in 1 .. Len(toT) : toT[i].kind \notin {"SF", "FF"}
    BY <1>1, <2>4, NothingBegins
  <2> QED BY <1>2, <2>2, <2>3, <2>5, HeadFrame
<1> QED BY <1>4, <1>5

LEMMA TesterReceivesStep ==
  ASSUME Asks, Answers, TesterReceives PROVE Asks' /\ Answers' /\ Promised
<1> DEFINE f == Head(toT)
<1>1. /\ toT # <<>> /\ toT' = Tail(toT) /\ rxE' = rxE /\ txE' = txE /\ ecuOwes' = ecuOwes
  BY DEF TesterReceives, grant
<1>2. PICK s \in Nat : Direction(txT, s, rxE, toE, toT, offerT, ecuOwes)
  BY DEF Asks
<1>3. PICK s2 \in Nat : Direction(txE, s2, rxT, toT, toE, offerE, FALSE)
  BY DEF Answers
<1>4. /\ toT \in Seq(Carried) /\ toE \in Seq(Carried) /\ Tail(toT) \in Seq(Carried) /\ f \in Carried
      /\ (HasFc(Tail(toT)) => HasFc(toT)) /\ rxT \in Receivers
  BY <1>1, <1>3, HeadFrame, FcTail DEF Direction
<1>5. Direction(txT, s, rxE, toE, Tail(toT), offerT, ecuOwes)
  BY <1>2, <1>4, BackChanges
<1>6. ASSUME T!Reset
      PROVE  rxT' \in Receivers /\ ~rxT'.multi /\ txT' = txT
             /\ Direction(txE, s2, rxT', Tail(toT), toE, offerE, FALSE)
  <2>1. rxT' \in Receivers /\ ~rxT'.multi /\ txT' = txT
    BY <1>4, <1>6 DEF T!Reset, Receivers
  <2> QED BY <1>1, <1>3, <2>1, ReceivesLast
<1>7. CASE T!Rejects(f) /\ T!Reset /\ UNCHANGED <<toE, ghost>>
  <2>1. Asks' /\ Answers'
    BY <1>1, <1>5, <1>6, <1>7, AsksStep, AnswersStep DEF ghost
  <2> QED BY <1>7, <2>1, Kept
<1>8. CASE /\ T!Completes(f)
           /\ T!Reset
           /\ handedT' = HandUp(handedT, T!Received(f))
           /\ offerE' = NoPdu
           /\ UNCHANGED <<toE, offerT, handedE>>
  <2>1. /\ T!Received(f) = offerE /\ offerE # NoPdu
        /\ \A i \in 1 .. Len(Tail(toT)) : Tail(toT)[i].kind \notin {"SF", "FF"}
    BY <1>1, <1>8, TesterCompletes
  <2>2. Direction(txE, s2, rxT', Tail(toT), toE, NoPdu, FALSE)
    BY <1>6, <1>8, <2>1, OfferEnds
  <2>3. Asks' /\ Answers'
    BY <1>1, <1>5, <1>6, <1>8, <2>2, AsksStep, AnswersStep
  <2>4. Promised
    BY <1>8, <2>1 DEF Promised, HandUp, Replies!Next, Replies!HandUp, Replies!vars, Requests!vars
  <2> QED BY <2>3, <2>4
<1>9. CASE /\ T!Feed(f, "NeedFlowControl")
           /\ toE' = Append(toE, T!FlowControl)
           /\ UNCHANGED ghost
  <2>1. T!FlowControl \in FlowControls
    BY PduAssumption DEF T!FlowControl, FlowControls
  <2>2. f.kind = "FF" /\ txT' = txT
    BY <1>9, TesterOpens
  <2>3. f.dlc = 8
    <3>1. Head(toT).kind \in {"SF", "FF"}
      BY <2>2
    <3>2. PICK w : Direction(txE, s2, rxT, toT, toE, offerE, w)
      BY <1>3
    <3> QED BY <1>1, <2>2, <3>1, <3>2, BeginsWithOffer
  <2>4. Direction(txE, s2, rxT', Tail(toT), toE, offerE, TRUE)
    BY <1>1, <1>3, <1>9, <2>2, <2>3, TesterOpens, ReceivesFirst
  <2>5. Direction(txE, s2, rxT', Tail(toT), toE', offerE, FALSE)
    BY <1>9, <2>1, <2>4, GrantSent
  <2>6. Direction(txT, s, rxE, toE', Tail(toT), offerT, ecuOwes)
    BY <1>5, <1>9, <2>1, GrantPasses
  <2>7. Asks' /\ Answers'
    BY <1>1, <1>9, <2>2, <2>5, <2>6, AsksStep, AnswersStep DEF ghost
  <2> QED BY <1>9, <2>7, Kept
<1>10. CASE /\ \E st \in {"Continue", "TxClearToSend", "TxWait", "TxAbort"} : T!Feed(f, st)
            /\ UNCHANGED <<toE, ghost>>
  <2>1. \/ f.kind = "CF" /\ Goes(rxT, f, rxT') /\ txT' = txT
        \/ f.kind = "FC" /\ Told(txT, f, txT') /\ rxT' = rxT
    BY <1>4, <1>10, TesterFeeds
  <2>2. CASE f.kind = "CF" /\ Goes(rxT, f, rxT') /\ txT' = txT
    <3>1. rxT.have + Taken(rxT) < rxT.len
      BY <1>4, <2>2 DEF Goes, Taken, Receivers
    <3>2. Direction(txE, s2, rxT', Tail(toT), toE, offerE, FALSE)
      BY <1>1, <1>3, <2>2, <3>1, ReceivesNext DEF Goes
    <3>3. Asks' /\ Answers'
      BY <1>1, <1>5, <1>10, <2>2, <3>2, AsksStep, AnswersStep DEF ghost
    <3> QED BY <1>10, <3>3, Kept
  <2>3. CASE f.kind = "FC" /\ Told(txT, f, txT') /\ rxT' = rxT
    <3>1. Direction(txT', s, rxE, toE, Tail(toT), offerT, ecuOwes)
      BY <1>1, <1>2, <2>3, SenderTold
    <3>2. Thinner(Tail(toT), toT)
      BY <1>1, <1>4, ThinnerTail
    <3>3. Direction(txE, s2, rxT, Tail(toT), toE, offerE, FALSE)
      BY <1>3, <1>4, <3>2, DirectionThins
    <3>4. Asks' /\ Answers'
      BY <1>1, <1>10, <2>3, <3>1, <3>3, AsksStep, AnswersStep DEF ghost
    <3> QED BY <1>10, <3>4, Kept
  <2> QED BY <2>1, <2>2, <2>3
<1> QED BY <1>7, <1>8, <1>9, <1>10 DEF TesterReceives

LEMMA EcuOffersStep ==
  ASSUME Asks, Answers, EcuOffers PROVE Asks' /\ Answers' /\ Promised
<1>1. PICK p \in EcuPdus : \E f \in {E!SingleFrame(p), E!FirstFrame(p)} :
         E!BeginSend(p, f) /\ toT' = Append(toT, f) /\ offerE' = p
  BY DEF EcuOffers
<1>2. PICK f : E!BeginSend(p, f) /\ toT' = Append(toT, f) /\ offerE' = p
  BY <1>1
<1>3. p \in AllPdus
  BY DEF AllPdus
<1>4. /\ toT = <<>> /\ toE = <<>> /\ ecuOwes = FALSE /\ txE.state = "Idle"
      /\ rxT' = rxT /\ txT' = txT /\ toE' = toE /\ ecuOwes' = ecuOwes /\ rxE' = rxE
      /\ offerT' = offerT /\ handedT' = handedT /\ handedE' = handedE
  <2>1. ecuOwes \in BOOLEAN
    BY DEF Asks, Direction
  <2> QED BY <1>2, <2>1 DEF EcuOffers, Quiet, grant, E!BeginSend
<1>5. toT' = <<f>>
  BY <1>2, <1>4
<1>6. PICK s \in Nat : Direction(txE, s, rxT, toT, toE, offerE, FALSE)
  BY DEF Answers
<1>7. txE \in Senders
  BY <1>6 DEF Direction, Sender
<1>8. \/ /\ Length[p] \in 1 .. 7 /\ txE' = txE
         /\ f = [kind |-> "SF", len |-> Length[p], dlc |-> Length[p] + 1, pdu |-> p]
      \/ /\ Length[p] \in 8 .. MaxPdu
         /\ txE' = [state |-> "WaitFlowControl", pdu |-> p, pos |-> 6, seq |-> 1,
                    bs |-> 0, left |-> 0]
         /\ f = [kind |-> "FF", len |-> Length[p], dlc |-> 8, pdu |-> p]
  <2>1. CASE Length[p] <= 7 /\ f = E!SingleFrame(p) /\ txE' = [txE EXCEPT !.state = "Idle"]
    <3>1. txE' = txE
      BY <1>4, <1>7, <2>1 DEF Senders
    <3> QED BY <1>2, <2>1, <3>1, PduAssumption DEF E!BeginSend, E!SingleFrame
  <2>2. CASE Length[p] > 7
    BY <1>2, <2>2, PduAssumption DEF E!BeginSend, E!FirstFrame
  <2> QED BY <1>2, <2>1, <2>2 DEF E!BeginSend
<1>9. /\ f \in Carried /\ f.kind # "FC"
      /\ \E s2 \in Nat : Direction(txE', s2, rxT, <<f>>, <<>>, p, FALSE)
  <2>1. Direction(txE, s, rxT, <<>>, <<>>, offerE, FALSE)
    BY <1>4, <1>6
  <2> QED BY <1>3, <1>4, <1>8, <2>1, Offered
<1>10. Answers'
  BY <1>2, <1>4, <1>5, <1>9, AnswersStep
<1>11. Asks'
  <2>1. PICK s2 \in Nat : Direction(txT, s2, rxE, toE, toT, offerT, ecuOwes)
    BY DEF Asks
  <2>2. toT' \in Seq(Carried) /\ (HasFc(toT') => HasFc(toT))
    BY <1>2, <1>9, <2>1, FcAppend DEF Direction
  <2>3. Direction(txT, s2, rxE, toE, toT', offerT, ecuOwes)
    BY <2>1, <2>2, BackChanges
  <2> QED BY <1>4, <2>3, AsksStep
<1>12. Promised
  BY <1>2, <1>4 DEF Promised, Replies!Next, Replies!Offer, Replies!vars, Requests!vars
<1> QED BY <1>10, <1>11, <1>12

LEMMA EcuPumpsStep ==
  ASSUME Asks, Answers, EcuPumps PROVE Asks' /\ Answers' /\ Promised
<1>1. /\ rxT' = rxT /\ txT' = txT /\ toE' = toE /\ ecuOwes' = ecuOwes /\ rxE' = rxE
      /\ offerT' = offerT /\ offerE' = offerE /\ UNCHANGED ghost
  BY DEF EcuPumps, grant, ghost, E!NextTxFrame, E!NextTxPause
<1>2. PICK s \in Nat : Direction(txE, s, rxT, toT, toE, offerE, FALSE)
  BY DEF Answers
<1>3. txE \in Senders /\ txE.state # "Idle" /\ txE.pdu \in AllPdus /\ E!TxLen = Length[txE.pdu]
  <2>1. txE.state # "Idle"
    BY DEF EcuPumps, E!NextTxFrame, E!NextTxPause
  <2> QED BY <1>2, <2>1 DEF Direction, Sender, E!TxLen
<1>4. PICK s2 \in Nat : Direction(txT, s2, rxE, toE, toT, offerT, ecuOwes)
  BY DEF Asks
<1>5. CASE E!NextTxFrame(E!ConsecutiveFrame) /\ toT' = Append(toT, E!ConsecutiveFrame)
  <2> DEFINE left == E!BlockLeft
  <2>1. left \in 0 .. 255
    BY <1>3, <1>5 DEF E!BlockLeft, E!BlockOpen, E!NextTxFrame, Senders
  <2>2. /\ txE.state = "Sending" /\ txE.pos < Length[txE.pdu] /\ txE' = Sent(txE, left)
    BY <1>3, <1>5 DEF E!NextTxFrame, E!Least, E!NextSeq, Sent, PosAfter
  <2>3. E!ConsecutiveFrame = PieceDue(txE) /\ E!ConsecutiveFrame.kind = "CF"
    BY DEF E!ConsecutiveFrame, PieceDue
  <2> HIDE DEF left
  <2> DEFINE w == FALSE
  <2>8. Direction(txE, s, rxT, toT, toE, offerE, w)
    BY <1>2
  <2> HIDE DEF w
  <2>4. /\ Direction(txE', s + 1, rxT, Append(toT, E!ConsecutiveFrame), toE, offerE, w)
        /\ E!ConsecutiveFrame \in Carried
    BY <2>1, <2>2, <2>3, <2>8, Pumped
  <2>9. Direction(txE', s + 1, rxT', toT', toE', offerE', w)
    BY <1>1, <1>5, <2>4
  <2>10. Direction(txE', s + 1, rxT', toT', toE', offerE', FALSE)
    BY <2>9 DEF w
  <2>5. Answers'
    <3>1. s + 1 \in Nat
      OBVIOUS
    <3> QED BY <2>10, <3>1, AnswersStep
  <2>6. toT' \in Seq(Carried) /\ (HasFc(toT') => HasFc(toT))
    BY <1>2, <1>5, <2>3, <2>4, FcAppend DEF Direction
  <2>7. Direction(txT, s2, rxE, toE, toT', offerT, ecuOwes)
    BY <1>4, <2>6, BackChanges
  <2> QED BY <1>1, <2>5, <2>7, AsksStep, Kept
<1>6. CASE E!NextTxPause /\ UNCHANGED toT
  <2>1. \E state \in {"Idle", "WaitFlowControl"} : txE' = [txE EXCEPT !.state = state]
    BY <1>6 DEF E!NextTxPause
  <2>2. Direction(txE', s, rxT, toT, toE, offerE, FALSE)
    BY <1>2, <1>3, <2>1, SenderQuiets
  <2> QED BY <1>1, <1>4, <1>6, <2>2, AnswersStep, AsksStep, Kept
<1> QED BY <1>5, <1>6 DEF EcuPumps

LEMMA EcuGivesUpStep ==
  ASSUME Asks, Answers, EcuGivesUp PROVE Asks' /\ Answers' /\ Promised
<1>1. /\ rxT' = rxT /\ txT' = txT /\ toE' = toE /\ toT' = toT /\ ecuOwes' = ecuOwes /\ rxE' = rxE
      /\ offerT' = offerT /\ offerE' = offerE /\ UNCHANGED ghost
      /\ txE' = [txE EXCEPT !.state = "Idle"]
  BY DEF EcuGivesUp, wire, grant, ghost, E!TxReset
<1>2. PICK s \in Nat : Direction(txE, s, rxT, toT, toE, offerE, FALSE)
  BY DEF Answers
<1>3. Direction(txE', s, rxT, toT, toE, offerE, FALSE)
  BY <1>1, <1>2, SenderQuiets
<1> QED BY <1>1, <1>3, AnswersStep, Kept DEF Asks

LEMMA EcuFeeds ==
  ASSUME NEW f \in Carried, NEW st \in {"Continue", "TxClearToSend", "TxWait", "TxAbort"},
         E!Feed(f, st)
  PROVE  \/ f.kind = "CF" /\ st = "Continue" /\ Goes(rxE, f, rxE') /\ txE' = txE
         \/ f.kind = "FC" /\ Told(txE, f, txE') /\ rxE' = rxE
<1>1. f.kind \in {"SF", "FF", "CF", "FC"} /\ (f.kind = "CF" => f.dlc = 8)
      /\ (f.kind = "FC" => f.dlc = 3)
  BY FrameKinds
<1>2. CASE E!FeedConsecutive(f, st)
  <2>1. f.kind = "CF" /\ E!Chunk(f) = Taken(rxE)
    BY <1>1, <1>2 DEF E!FeedConsecutive, E!Chunk, E!Least, Taken
  <2>2. rxE.multi /\ f.seq = rxE.seq /\ ~(rxE.have + Taken(rxE) >= rxE.len) /\ st = "Continue"
    BY <1>2, <2>1 DEF E!FeedConsecutive, E!InSequence
  <2>3. rxE' = Extended(rxE, f)
    BY <1>2, <2>1, <2>2
       DEF E!FeedConsecutive, E!InSequence, E!NextSeq, E!Source, Extended, Holds
  <2> QED BY <1>2, <2>1, <2>2, <2>3 DEF Goes, E!FeedConsecutive
<1>3. CASE E!FeedFlowControl(f, st)
  BY <1>1, <1>3 DEF E!FeedFlowControl, E!ClearToSend, Told
<1> QED BY <1>1, <1>2, <1>3 DEF E!Feed, E!FeedSingle, E!FeedFirst, E!FeedOther

LEMMA EcuOpens ==
  ASSUME NEW f, E!Feed(f, "NeedFlowControl")
  PROVE  /\ f.kind = "FF" /\ txE' = txE
         /\ f.dlc = 8 => rxE' = [len |-> f.len, have |-> 6, seq |-> 1, multi |-> TRUE, from |-> f.pdu]
<1>1. E!FeedFirst(f, "NeedFlowControl") /\ E!ValidFirst(f)
  BY DEF E!Feed, E!FeedSingle, E!FeedFirst, E!FeedConsecutive, E!FeedFlowControl, E!FeedOther
<1> QED BY <1>1 DEF E!FeedFirst, E!Least

LEMMA EcuCompletes ==
  ASSUME Asks, toE # <<>>, E!Completes(Head(toE))
  PROVE  /\ E!Received(Head(toE)) = offerT /\ offerT # NoPdu
         /\ \A i \in 1 .. Len(Tail(toE)) : Tail(toE)[i].kind \notin {"SF", "FF"}
<1> DEFINE f == Head(toE)
<1>1. PICK s \in Nat : Direction(txT, s, rxE, toE, toT, offerT, ecuOwes)
  BY DEF Asks
<1>2. toE \in Seq(Carried)
  BY <1>1 DEF Direction
<1>3. f \in Carried
  BY <1>2, HeadFrame
<1>4. CASE f.kind = "SF"
  <2>1. /\ f.pdu = offerT /\ offerT # NoPdu
        /\ \A i \in 1 .. Len(Tail(toE)) : Tail(toE)[i].kind = "FC"
    <3>1. Head(toE).kind \in {"SF", "FF"}
      BY <1>4
    <3> QED BY <1>1, <3>1, BeginsWithOffer
  <2> QED BY <1>4, <2>1 DEF E!Received
<1>5. CASE f.kind # "SF"
  <2>1. f.kind = "CF" /\ E!InSequence(f) /\ rxE.have + E!Chunk(f) >= rxE.len
    BY <1>5 DEF E!Completes
  <2>2. E!Chunk(f) = Taken(rxE) /\ E!Received(f) = Holds(rxE, f)
    BY <1>3, <2>1, FrameKinds DEF E!Chunk, E!Least, Taken, E!Received, E!Source, Holds
  <2>3. Holds(rxE, f) = offerT /\ offerT # NoPdu
    BY <1>1, <2>1, <2>2, ReceivesNext DEF E!InSequence
  <2>4. Cfs(toE) # {}
    BY <1>2, <2>1, TailOfPieces
  <2>5. \A i \in 1 .. Len(toE) : toE[i].kind \notin {"SF", "FF"}
    BY <1>1, <2>4, NothingBegins
  <2> QED BY <1>2, <2>2, <2>3, <2>5, HeadFrame
<1> QED BY <1>4, <1>5

LEMMA EcuReceivesStep ==
  ASSUME Asks, Answers, EcuReceives PROVE Asks' /\ Answers' /\ Promised
<1> DEFINE f == Head(toE)
<1>1. /\ toE # <<>> /\ toE' = Tail(toE) /\ rxT' = rxT /\ txT' = txT /\ toT' = toT
  BY DEF EcuReceives
<1>2. PICK s \in Nat : Direction(txE, s, rxT, toT, toE, offerE, FALSE)
  BY DEF Answers
<1>3. PICK s2 \in Nat : Direction(txT, s2, rxE, toE, toT, offerT, ecuOwes)
  BY DEF Asks
<1>4. /\ toE \in Seq(Carried) /\ toT \in Seq(Carried) /\ Tail(toE) \in Seq(Carried) /\ f \in Carried
      /\ (HasFc(Tail(toE)) => HasFc(toE)) /\ rxE \in Receivers
  BY <1>1, <1>3, HeadFrame, FcTail DEF Direction
<1>5. Direction(txE, s, rxT, toT, Tail(toE), offerE, FALSE)
  BY <1>2, <1>4, BackChanges
<1>6. ASSUME E!Reset, ecuOwes' = FALSE
      PROVE  rxE' \in Receivers /\ ~rxE'.multi /\ txE' = txE
             /\ Direction(txT, s2, rxE', Tail(toE), toT, offerT, ecuOwes')
  <2>1. rxE' \in Receivers /\ ~rxE'.multi /\ txE' = txE
    BY <1>4, <1>6 DEF E!Reset, Receivers
  <2> QED BY <1>1, <1>3, <1>6, <2>1, ReceivesLast
<1>7. CASE /\ E!Rejects(f)
           /\ E!Reset
           /\ ecuOwes' = FALSE /\ UNCHANGED <<ecuLeft, ghost>>
  <2>1. Asks' /\ Answers'
    BY <1>1, <1>5, <1>6, <1>7, AsksStep, AnswersStep DEF ghost
  <2> QED BY <1>7, <2>1, Kept
<1>8. CASE /\ E!Completes(f)
           /\ E!Reset
           /\ handedE' = HandUp(handedE, E!Received(f))
           /\ offerT' = NoPdu
           /\ ecuOwes' = FALSE /\ UNCHANGED <<ecuLeft, offerE, handedT>>
  <2>1. /\ E!Received(f) = offerT /\ offerT # NoPdu
        /\ \A i \in 1 .. Len(Tail(toE)) : Tail(toE)[i].kind \notin {"SF", "FF"}
    BY <1>1, <1>8, EcuCompletes
  <2>2. Direction(txT, s2, rxE', Tail(toE), toT, NoPdu, ecuOwes')
    BY <1>6, <1>8, <2>1, OfferEnds
  <2>3. Asks' /\ Answers'
    BY <1>1, <1>5, <1>6, <1>8, <2>2, AsksStep, AnswersStep
  <2>4. Promised
    BY <1>8, <2>1 DEF Promised, HandUp, Requests!Next, Requests!HandUp, Requests!vars, Replies!vars
  <2> QED BY <2>3, <2>4
<1>9. CASE /\ E!Feed(f, "NeedFlowControl")
           /\ ecuOwes' = TRUE /\ UNCHANGED <<ecuLeft, ghost>>
  <2>1. f.kind = "FF" /\ txE' = txE
    BY <1>9, EcuOpens
  <2>2. f.dlc = 8
    <3>1. Head(toE).kind \in {"SF", "FF"}
      BY <2>1
    <3> QED BY <1>1, <1>3, <2>1, <3>1, BeginsWithOffer
  <2>3. Direction(txT, s2, rxE', Tail(toE), toT, offerT, TRUE)
    BY <1>1, <1>3, <1>9, <2>1, <2>2, EcuOpens, ReceivesFirst
  <2>4. Asks' /\ Answers'
    BY <1>1, <1>5, <1>9, <2>1, <2>3, AsksStep, AnswersStep DEF ghost
  <2> QED BY <1>9, <2>4, Kept
<1>10. CASE /\ f.kind = "CF" /\ E!Feed(f, "Continue")
            /\ ecuOwes' = (ecuLeft = 1)
            /\ UNCHANGED ghost
  <2>1. Goes(rxE, f, rxE') /\ txE' = txE
    BY <1>4, <1>10, EcuFeeds
  <2>2. rxE.have + Taken(rxE) < rxE.len
    BY <1>4, <2>1 DEF Goes, Taken, Receivers
  <2>3. ecuOwes' \in BOOLEAN
    BY <1>10
  <2>4. Direction(txT, s2, rxE', Tail(toE), toT, offerT, ecuOwes')
    BY <1>1, <1>3, <1>10, <2>1, <2>2, <2>3, ReceivesNext DEF Goes
  <2>5. Asks' /\ Answers'
    BY <1>1, <1>5, <1>10, <2>1, <2>4, AsksStep, AnswersStep DEF ghost
  <2> QED BY <1>10, <2>5, Kept
<1>11. CASE /\ f.kind = "FC"
            /\ \E st \in {"Continue", "TxClearToSend", "TxWait", "TxAbort"} : E!Feed(f, st)
            /\ UNCHANGED <<grant, ghost>>
  <2>1. Told(txE, f, txE') /\ rxE' = rxE
    BY <1>4, <1>11, EcuFeeds
  <2>2. Direction(txE', s, rxT, toT, Tail(toE), offerE, FALSE)
    BY <1>1, <1>2, <1>11, <2>1, SenderTold
  <2>3. Thinner(Tail(toE), toE)
    BY <1>1, <1>4, ThinnerTail
  <2>4. Direction(txT, s2, rxE, Tail(toE), toT, offerT, ecuOwes)
    BY <1>3, <1>4, <2>3, DirectionThins
  <2>5. Asks' /\ Answers'
    BY <1>1, <1>11, <2>1, <2>2, <2>4, AsksStep, AnswersStep DEF grant, ghost
  <2> QED BY <1>11, <2>5, Kept
<1> QED BY <1>7, <1>8, <1>9, <1>10, <1>11 DEF EcuReceives

LEMMA EcuFlowControlStep ==
  ASSUME Asks, Answers, NEW fs \in EcuAnswers, EcuFlowControl(fs) PROVE Asks' /\ Answers' /\ Promised
<1>1. PICK bs \in EcuBlockSizes :
        /\ toT' = Append(toT, [kind |-> "FC", fs |-> fs, bs |-> bs, dlc |-> 3])
        /\ ecuOwes' = (fs = 1)
  BY DEF EcuFlowControl
<1> DEFINE fc == [kind |-> "FC", fs |-> fs, bs |-> bs, dlc |-> 3]
<1>2. fc \in FlowControls
  BY EcuAssumption DEF FlowControls
<1> HIDE DEF fc
<1>3. toT' = Append(toT, fc) /\ ecuOwes' \in BOOLEAN
  BY <1>1 DEF fc
<1>4. /\ ecuOwes /\ rxT' = rxT /\ txT' = txT /\ toE' = toE /\ txE' = txE /\ UNCHANGED ghost
      /\ (rxE' = rxE \/ E!Reset)
  BY DEF EcuFlowControl, E!Reset
<1>5. PICK s \in Nat : Direction(txT, s, rxE, toE, toT, offerT, ecuOwes)
  BY DEF Asks
<1>6. PICK s2 \in Nat : Direction(txE, s2, rxT, toT, toE, offerE, FALSE)
  BY DEF Answers
<1>7. Direction(txT, s, rxE, toE, toT, offerT, TRUE)
  <2>1. ecuOwes = TRUE
    BY <1>4, <1>5 DEF Direction
  <2> QED BY <1>5, <2>1
<1>8. Direction(txT, s, rxE, toE, toT', offerT, ecuOwes')
  BY <1>2, <1>3, <1>7, GrantSent
<1>9. rxE' \in Receivers /\ (rxE' = rxE \/ ~rxE'.multi)
  <2>1. rxE \in Receivers
    BY <1>5 DEF Direction
  <2>2. CASE E!Reset
    BY <2>1, <2>2 DEF E!Reset, Receivers
  <2> QED BY <1>4, <2>1, <2>2
<1>10. Direction(txT, s, rxE', toE, toT', offerT, ecuOwes')
  BY <1>3, <1>8, <1>9, ReceiverQuiets
<1>11. Direction(txE, s2, rxT, toT', toE, offerE, FALSE)
  BY <1>2, <1>3, <1>6, GrantPasses
<1>12. Asks' /\ Answers'
  BY <1>4, <1>10, <1>11, AsksStep, AnswersStep DEF ghost
<1> QED BY <1>4, <1>12, Kept

LEMMA WireStep ==
  ASSUME Asks, Answers, Lose \/ Overtake PROVE Asks' /\ Answers' /\ Promised
<1>1. /\ rxT' = rxT /\ txT' = txT /\ rxE' = rxE /\ txE' = txE /\ ecuOwes' = ecuOwes
      /\ offerT' = offerT /\ offerE' = offerE /\ UNCHANGED ghost
  BY DEF Lose, Overtake, grant, ghost
<1>2. PICK s \in Nat : Direction(txT, s, rxE, toE, toT, offerT, ecuOwes)
  BY DEF Asks
<1>3. PICK s2 \in Nat : Direction(txE, s2, rxT, toT, toE, offerE, FALSE)
  BY DEF Answers
<1>4. toE \in Seq(Carried) /\ toT \in Seq(Carried)
  BY <1>2 DEF Direction
<1>5. Thinner(toE', toE) /\ Thinner(toT', toT)
  <2>1. CASE Lose
    BY <1>4, <2>1, ThinnerRemove, ThinnerSelf DEF Lose
  <2>2. CASE Overtake
    BY <1>4, <2>2, ThinnerOvertaken, ThinnerSelf DEF Overtake
  <2> QED BY <2>1, <2>2
<1>6. /\ toE' \in Seq(Carried) /\ (HasFc(toE') => HasFc(toE))
      /\ toT' \in Seq(Carried) /\ (HasFc(toT') => HasFc(toT))
  BY <1>4, <1>5, ThinnerFc
<1>7. Direction(txT, s, rxE, toE', toT', offerT, ecuOwes)
  BY <1>2, <1>5, <1>6, DirectionThins
<1>8. Direction(txE, s2, rxT, toT', toE', offerE, FALSE)
  BY <1>3, <1>5, <1>6, DirectionThins
<1> QED BY <1>1, <1>7, <1>8, AsksStep, AnswersStep, Kept

LEMMA LinkStep ==
  ASSUME Asks, Answers, [Next]_vars PROVE Asks' /\ Answers' /\ Promised
<1>1. CASE TesterOffers
  BY <1>1, TesterOffersStep
<1>2. CASE TesterPumps
  BY <1>2, TesterPumpsStep
<1>3. CASE TesterCannotTransmit \/ TesterGivesUp
  BY <1>3, TesterStopsStep
<1>4. CASE TesterReceives
  BY <1>4, TesterReceivesStep
<1>5. CASE EcuOffers
  BY <1>5, EcuOffersStep
<1>6. CASE EcuPumps
  BY <1>6, EcuPumpsStep
<1>7. CASE EcuGivesUp
  BY <1>7, EcuGivesUpStep
<1>8. CASE EcuReceives
  BY <1>8, EcuReceivesStep
<1>9. CASE \E fs \in EcuAnswers : EcuFlowControl(fs)
  BY <1>9, EcuFlowControlStep
<1>10. CASE Lose \/ Overtake
  BY <1>10, WireStep
<1>11. CASE UNCHANGED vars
  <2>1. UNCHANGED <<rxT, txT, rxE, txE, toE, toT, ecuOwes, offerT, offerE, ghost>>
    BY <1>11 DEF vars, wire, grant, ghost
  <2> QED BY <2>1, Kept DEF Asks, Answers
<1> QED BY <1>1, <1>2, <1>3, <1>4, <1>5, <1>6, <1>7, <1>8, <1>9, <1>10, <1>11 DEF Next

LEMMA LinkInit ==
  ASSUME Init PROVE Asks /\ Answers /\ Requests!Init /\ Replies!Init
<1> DEFINE rx0 == [len |-> 0, have |-> 0, seq |-> 1, multi |-> FALSE, from |-> NoPdu]
           tx0 == [state |-> "Idle", pdu |-> NoPdu, pos |-> 0, seq |-> 1, bs |-> 0, left |-> 0]
<1>1. /\ rxT = rx0 /\ txT = tx0 /\ rxE = rx0 /\ txE = tx0 /\ toE = <<>> /\ toT = <<>>
      /\ ecuOwes = FALSE /\ offerT = NoPdu /\ offerE = NoPdu
      /\ handedE = [pdu |-> NoPdu, odd |-> FALSE] /\ handedT = [pdu |-> NoPdu, odd |-> FALSE]
  BY DEF Init, T!Init, E!Init
<1>2. Sender(tx0, 0) /\ rx0 \in Receivers /\ ~rx0.multi
  BY PduAssumption DEF Sender, Senders, Receivers, AllPdus
<1>3. <<>> \in Seq(Carried) /\ Len(<<>>) = 0
  OBVIOUS
<1> HIDE DEF rx0, tx0
<1>4. Pieces(tx0, 0, <<>>) /\ Begins(tx0, <<>>, <<>>, NoPdu, FALSE)
  BY <1>3 DEF Pieces, Begins, Cfs
<1>5. Direction(tx0, 0, rx0, <<>>, <<>>, NoPdu, FALSE)
  BY <1>2, <1>3, <1>4 DEF Direction
<1> QED BY <1>1, <1>5 DEF Asks, Answers, Requests!Init, Replies!Init

(* Whatever the wire loses or swaps, a request reaches the ECU, and a reply  *)
(* the shell, only as the PDU offered last, whole and at most once: the link *)
(* implements PduTransfer in both directions, for PDUs of every length and   *)
(* flow control of every block size.                                         *)
THEOREM PdusDelivered == Spec => PdusWholeAndOnce
<1>1. Init => Asks /\ Answers /\ Requests!Init /\ Replies!Init
  BY LinkInit
<1>2. Asks /\ Answers /\ [Next]_vars => Asks' /\ Answers' /\ Promised
  BY LinkStep
<1> QED BY <1>1, <1>2, PTL DEF Spec, PdusWholeAndOnce, Promised, Requests!Spec, Replies!Spec

----------------------------------------------------------------------------
(* Flow control of the requests.                                             *)

Cts(b) == {i \in 1 .. Len(b) : b[i].kind = "FC" /\ b[i].fs = 0}
Opening(d) == \E i \in 1 .. Len(d) : d[i].kind = "FF"
Closed(tx) == tx.state = "Sending" => tx.bs # 0 /\ tx.left = 0
Credit(tx) == IF tx.state = "Sending" THEN tx.left ELSE 0
Under(d) == Cardinality(Cfs(d))

(* The ECU grants n more frames (n = -1: without limit); w says it owes a    *)
(* flow control. At most one grant is under way, and while one is, or is     *)
(* still to be given, the tester sends nothing: its block is used up. After  *)
(* that the frames under way and those it may still send are within n.       *)
Grant(tx, d, b, w, n) ==
  /\ tx \in Senders /\ d \in Seq(Carried) /\ b \in Seq(Carried) /\ w \in BOOLEAN
  /\ n \in Int /\ n >= -1
  /\ \A i, j \in Cts(b) : i = j
  /\ w \/ Opening(d) => Cts(b) = {} /\ Cfs(d) = {} /\ Closed(tx)
  /\ \A i \in Cts(b) : ~w /\ Cfs(d) = {} /\ Closed(tx) /\ n = IF b[i].bs = 0 THEN -1 ELSE b[i].bs
  /\ n >= 0 /\ Cts(b) = {} =>
       /\ tx.state = "Sending" => tx.bs # 0
       /\ Under(d) + Credit(tx) <= IF w THEN 0 ELSE n

LEMMA CreditType == ASSUME NEW tx \in Senders PROVE Credit(tx) \in Nat
BY DEF Credit, Senders

LEMMA SenderLeft == ASSUME NEW tx \in Senders PROVE tx.left \in Nat
BY DEF Senders

LEMMA UnderType == ASSUME NEW d \in Seq(Carried) PROVE Under(d) \in Nat /\ (Cfs(d) = {} => Under(d) = 0)
BY CfsFinite, FS_EmptySet DEF Under

(* Both wires may lose and swap frames.                                      *)
LEMMA GrantThins ==
  ASSUME NEW tx, NEW d, NEW b, NEW w, NEW n, Grant(tx, d, b, w, n),
         NEW d2, Thinner(d2, d), NEW b2, Thinner(b2, b)
  PROVE  Grant(tx, d2, b2, w, n)
<1>1. /\ tx \in Senders /\ d \in Seq(Carried) /\ b \in Seq(Carried) /\ w \in BOOLEAN
      /\ n \in Int /\ n >= -1 /\ d2 \in Seq(Carried) /\ b2 \in Seq(Carried)
  BY DEF Grant, Thinner
<1>2. Under(d2) <= Under(d) /\ Under(d2) \in Nat /\ Under(d) \in Nat /\ Credit(tx) \in Nat
  BY <1>1, ThinnerFewer, UnderType, CreditType DEF Under
<1>3. (Cfs(d) = {} => Cfs(d2) = {}) /\ (Opening(d2) => Opening(d))
  <2>1. PICK g \in [1 .. Len(d2) -> 1 .. Len(d)] : \A i \in 1 .. Len(d2) : d2[i] = d[g[i]]
    BY DEF Thinner
  <2>2. \A i \in Cfs(d2) : g[i] \in Cfs(d)
    BY <2>1 DEF Cfs
  <2>3. Opening(d2) => Opening(d)
    BY <2>1 DEF Opening
  <2> QED BY <2>2, <2>3
<1>4. PICK h \in [1 .. Len(b2) -> 1 .. Len(b)] :
         /\ \A i \in 1 .. Len(b2) : b2[i] = b[h[i]]
         /\ \A i, j \in 1 .. Len(b2) : i < j => h[i] # h[j]
  BY DEF Thinner
<1>5. \A i \in Cts(b2) : h[i] \in Cts(b) /\ b2[i] = b[h[i]] /\ i \in 1 .. Len(b2)
  BY <1>4 DEF Cts
<1>6. \A i, j \in Cts(b) : i = j
  BY DEF Grant
<1>7. ASSUME NEW i \in Cts(b2), NEW j \in Cts(b2) PROVE i = j
  <2>1. h[i] = h[j] /\ i \in 1 .. Len(b2) /\ j \in 1 .. Len(b2)
    BY <1>5, <1>6
  <2>2. i < j \/ j < i \/ i = j
    BY <2>1
  <2> QED BY <1>4, <2>1, <2>2
<1>8. ASSUME w \/ Opening(d2) PROVE Cts(b2) = {} /\ Cfs(d2) = {} /\ Closed(tx)
  BY <1>3, <1>5, <1>8 DEF Grant
<1>9. ASSUME NEW i \in Cts(b2)
      PROVE  ~w /\ Cfs(d2) = {} /\ Closed(tx) /\ n = IF b2[i].bs = 0 THEN -1 ELSE b2[i].bs
  BY <1>3, <1>5 DEF Grant
<1>10. ASSUME n >= 0, Cts(b2) = {}
       PROVE  /\ tx.state = "Sending" => tx.bs # 0
              /\ Under(d2) + Credit(tx) <= IF w THEN 0 ELSE n
  <2>1. CASE Cts(b) = {}
    BY <1>1, <1>2, <1>10, <2>1 DEF Grant
  <2>2. CASE Cts(b) # {}
    <3>1. ~w /\ Cfs(d) = {} /\ Closed(tx)
      BY <2>2 DEF Grant
    <3>2. Under(d2) = 0 /\ Credit(tx) = 0
      BY <1>1, <1>3, <3>1, UnderType DEF Closed, Credit
    <3> QED BY <1>10, <3>1, <3>2 DEF Closed
  <2> QED BY <2>1, <2>2
<1> QED BY <1>1, <1>7, <1>8, <1>9, <1>10 DEF Grant

(* The tester stops, pauses or offers.                                       *)
LEMMA GrantQuiets ==
  ASSUME NEW tx, NEW d, NEW b, NEW w, NEW n, Grant(tx, d, b, w, n),
         NEW tx2 \in Senders, tx2.state # "Sending"
  PROVE  Grant(tx2, d, b, w, n)
<1>1. Closed(tx2) /\ Credit(tx2) = 0 /\ Credit(tx) \in Nat
  BY CreditType DEF Closed, Credit, Grant
<1>2. Under(d) \in Nat /\ n \in Int
  BY UnderType DEF Grant
<1>3. ASSUME n >= 0, Cts(b) = {} PROVE Under(d) + Credit(tx2) <= IF w THEN 0 ELSE n
  <2>1. Under(d) + Credit(tx) <= IF w THEN 0 ELSE n
    BY <1>3 DEF Grant
  <2> QED BY <1>1, <1>2, <2>1
<1> QED BY <1>1, <1>3 DEF Grant

(* The ECU owes no longer.                                                   *)
LEMMA GrantUnowed ==
  ASSUME NEW tx, NEW d, NEW b, NEW w, NEW n, Grant(tx, d, b, w, n) PROVE Grant(tx, d, b, FALSE, n)
<1>1. ASSUME n >= 0, Cts(b) = {} PROVE Under(d) + Credit(tx) <= n
  <2>1. Under(d) \in Nat /\ Credit(tx) \in Nat /\ n \in Int
    BY UnderType, CreditType DEF Grant
  <2> QED BY <1>1, <2>1 DEF Grant
<1> QED BY <1>1 DEF Grant

(* A frame that grants nothing goes out to the tester.                       *)
LEMMA NoGrantSent ==
  ASSUME NEW b \in Seq(Carried), NEW f \in Carried, ~(f.kind = "FC" /\ f.fs = 0)
  PROVE  Append(b, f) \in Seq(Carried) /\ Cts(Append(b, f)) = Cts(b)
         /\ \A i \in Cts(b) : Append(b, f)[i] = b[i]
<1> DEFINE b2 == Append(b, f)
<1>1. /\ b2 \in Seq(Carried) /\ Len(b2) = Len(b) + 1 /\ Len(b) \in Nat
      /\ b2[Len(b) + 1] = f /\ \A i \in 1 .. Len(b) : b2[i] = b[i]
  OBVIOUS
<1> HIDE DEF b2
<1>2. /\ \A i \in 1 .. Len(b2) : i \in 1 .. Len(b) \/ i = Len(b) + 1
      /\ \A i \in 1 .. Len(b) : i \in 1 .. Len(b2)
  BY <1>1
<1>3. Cts(b2) = Cts(b) /\ \A i \in Cts(b) : b2[i] = b[i]
  BY <1>1, <1>2 DEF Cts
<1> QED BY <1>1, <1>3 DEF b2

LEMMA GrantBack ==
  ASSUME NEW tx, NEW d, NEW b, NEW w, NEW n, Grant(tx, d, b, w, n),
         NEW f \in Carried, ~(f.kind = "FC" /\ f.fs = 0)
  PROVE  Grant(tx, d, Append(b, f), w, n)
<1>1. Append(b, f) \in Seq(Carried) /\ Cts(Append(b, f)) = Cts(b)
      /\ \A i \in Cts(b) : Append(b, f)[i] = b[i]
  BY NoGrantSent DEF Grant
<1> QED BY <1>1 DEF Grant

(* The tester's own flow control joins the frames to the ECU.                *)
LEMMA GrantForth ==
  ASSUME NEW tx, NEW d, NEW b, NEW w, NEW n, Grant(tx, d, b, w, n), NEW f \in FlowControls
  PROVE  Grant(tx, Append(d, f), b, w, n)
<1> DEFINE d2 == Append(d, f)
<1>1. d \in Seq(Carried) /\ Len(d) \in Nat /\ f \in Carried /\ f.kind = "FC"
  BY DEF Grant, Carried, FlowControls
<1>2. /\ d2 \in Seq(Carried) /\ Len(d2) = Len(d) + 1 /\ d2[Len(d) + 1] = f
      /\ \A i \in 1 .. Len(d) : d2[i] = d[i]
  BY <1>1
<1> HIDE DEF d2
<1>3. /\ \A i \in 1 .. Len(d2) : i \in 1 .. Len(d) \/ i = Len(d) + 1
      /\ \A i \in 1 .. Len(d) : i \in 1 .. Len(d2)
  BY <1>1, <1>2
<1>4. Cfs(d2) = Cfs(d)
  BY <1>1, <1>2, <1>3 DEF Cfs
<1>5. Opening(d2) => Opening(d)
  BY <1>1, <1>2, <1>3 DEF Opening
<1>6. Under(d2) = Under(d)
  BY <1>4 DEF Under
<1>7. Grant(tx, d2, b, w, n)
  BY <1>2, <1>4, <1>5, <1>6 DEF Grant
<1> QED BY <1>7 DEF d2

(* The tester begins a transfer, or sends a single frame, on a quiet wire.   *)
LEMMA GrantOffered ==
  ASSUME NEW tx, NEW n, Grant(tx, <<>>, <<>>, FALSE, n), NEW f \in Carried, f.kind # "CF",
         NEW tx2 \in Senders, tx2.state # "Sending"
  PROVE  Grant(tx2, <<f>>, <<>>, FALSE, n)
<1> DEFINE d == <<f>>
<1>1. d \in Seq(Carried) /\ Len(d) = 1 /\ d[1] = f /\ <<>> \in Seq(Carried) /\ Len(<<>>) = 0
  OBVIOUS
<1> HIDE DEF d
<1>2. \A i \in 1 .. Len(d) : i = 1
  BY <1>1
<1>3. Cfs(d) = {} /\ Cts(<<>>) = {}
  BY <1>1, <1>2 DEF Cfs, Cts
<1>4. Under(d) = 0 /\ Credit(tx2) = 0 /\ Closed(tx2)
  BY <1>1, <1>3, UnderType DEF Credit, Closed
<1>5. n \in Int /\ n >= -1
  BY DEF Grant
<1>6. Grant(tx2, d, <<>>, FALSE, n)
  BY <1>1, <1>3, <1>4, <1>5 DEF Grant
<1> QED BY <1>6 DEF d

(* The tester sends a piece within its block.                                *)
LEMMA GrantPumped ==
  ASSUME NEW tx, NEW d, NEW b, NEW w, NEW n, Grant(tx, d, b, w, n),
         tx.state = "Sending", tx.bs = 0 \/ tx.left > 0, NEW cf \in Carried, cf.kind = "CF",
         NEW tx2 \in Senders, tx2.bs = tx.bs,
         tx2.left = IF tx.bs # 0 THEN tx.left - 1 ELSE tx.left
  PROVE  Grant(tx2, Append(d, cf), b, w, n)
<1> DEFINE d2 == Append(d, cf)
<1>1. /\ tx \in Senders /\ d \in Seq(Carried) /\ b \in Seq(Carried) /\ w \in BOOLEAN
      /\ n \in Int /\ n >= -1 /\ Len(d) \in Nat
  BY DEF Grant
<1>2. ~Closed(tx)
  BY <1>1 DEF Closed, Senders
<1>3. ~w /\ ~Opening(d) /\ Cts(b) = {}
  BY <1>2 DEF Grant
<1>4. /\ d2 \in Seq(Carried) /\ Len(d2) = Len(d) + 1 /\ d2[Len(d) + 1] = cf
      /\ \A i \in 1 .. Len(d) : d2[i] = d[i]
  BY <1>1
<1> HIDE DEF d2
<1>5. /\ \A i \in 1 .. Len(d2) : i \in 1 .. Len(d) \/ i = Len(d) + 1
      /\ \A i \in 1 .. Len(d) : i \in 1 .. Len(d2) /\ i # Len(d) + 1
      /\ Len(d) + 1 \in 1 .. Len(d2)
  BY <1>1, <1>4
<1>6. ~Opening(d2)
  BY <1>3, <1>4, <1>5 DEF Opening
<1>7. Cfs(d2) = Cfs(d) \cup {Len(d) + 1} /\ Len(d) + 1 \notin Cfs(d)
  BY <1>4, <1>5 DEF Cfs
<1>8. Under(d2) = Under(d) + 1 /\ Under(d) \in Nat
  BY <1>1, <1>7, CfsFinite, FS_AddElement DEF Under
<1>9. ASSUME n >= 0
      PROVE  /\ tx2.state = "Sending" => tx2.bs # 0
             /\ Under(d2) + Credit(tx2) <= n
  <2>1. tx.bs # 0 /\ Under(d) + tx.left <= n
    BY <1>3, <1>9 DEF Grant, Credit
  <2>4. tx.left \in Nat
    BY <1>1, SenderLeft
  <2>2. tx2.left = tx.left - 1 /\ tx.left > 0 /\ tx.left \in Nat
    BY <2>1, <2>4
  <2>3. Credit(tx2) = tx.left - 1 \/ Credit(tx2) = 0
    BY <2>2 DEF Credit
  <2> QED BY <1>1, <1>8, <2>1, <2>2, <2>3
<1>10. Grant(tx2, d2, b, w, n)
  BY <1>1, <1>3, <1>4, <1>6, <1>9 DEF Grant
<1> QED BY <1>10 DEF d2

(* The tester is cleared to send.                                            *)
LEMMA GrantTaken ==
  ASSUME NEW tx, NEW d, NEW b, NEW w, NEW n, Grant(tx, d, b, w, n),
         b # <<>>, Head(b).kind = "FC", Head(b).fs = 0,
         NEW tx2 \in Senders, tx2.bs = Head(b).bs, tx2.left = Head(b).bs
  PROVE  Grant(tx2, d, Tail(b), w, n)
<1>1. /\ tx \in Senders /\ d \in Seq(Carried) /\ b \in Seq(Carried) /\ w \in BOOLEAN
      /\ n \in Int /\ n >= -1
  BY DEF Grant
<1>2. /\ Head(b) = b[1] /\ 1 \in 1 .. Len(b) /\ Tail(b) \in Seq(Carried)
      /\ \A i \in 1 .. Len(Tail(b)) : Tail(b)[i] = b[i + 1] /\ i + 1 \in 1 .. Len(b)
  BY <1>1, HeadFrame
<1>3. 1 \in Cts(b)
  BY <1>2 DEF Cts
<1>4. ~w /\ Cfs(d) = {} /\ n = IF b[1].bs = 0 THEN -1 ELSE b[1].bs
  BY <1>3 DEF Grant
<1>5. ~Opening(d)
  BY <1>3 DEF Grant
<1>6. Cts(Tail(b)) = {}
  <2>1. ASSUME NEW i \in Cts(Tail(b)) PROVE FALSE
    <3>1. i \in 1 .. Len(Tail(b)) /\ i + 1 \in Cts(b)
      BY <1>2, <2>1 DEF Cts
    <3>2. i + 1 = 1
      BY <1>3, <3>1 DEF Grant
    <3> QED BY <3>1, <3>2
  <2> QED BY <2>1
<1>7. Under(d) = 0
  BY <1>1, <1>4, UnderType
<1>8. ASSUME n >= 0
      PROVE  /\ tx2.state = "Sending" => tx2.bs # 0
             /\ Under(d) + Credit(tx2) <= n
  <2>1. tx2.bs # 0 /\ tx2.left = n
    BY <1>2, <1>4, <1>8
  <2> QED BY <1>1, <1>7, <1>8, <2>1 DEF Credit
<1> QED BY <1>1, <1>2, <1>4, <1>5, <1>6, <1>8 DEF Grant

(* The ECU takes a first frame: it owes a flow control.                      *)
LEMMA GrantOpened ==
  ASSUME NEW tx, NEW d, NEW b, NEW w, NEW n, Grant(tx, d, b, w, n),
         d # <<>>, Head(d).kind = "FF"
  PROVE  Grant(tx, Tail(d), b, TRUE, n)
<1>1. /\ tx \in Senders /\ d \in Seq(Carried) /\ b \in Seq(Carried) /\ n \in Int /\ n >= -1
  BY DEF Grant
<1>2. Head(d) = d[1] /\ 1 \in 1 .. Len(d) /\ Tail(d) \in Seq(Carried)
  BY <1>1, HeadFrame
<1>3. Opening(d)
  BY <1>2 DEF Opening
<1>4. Cts(b) = {} /\ Cfs(d) = {} /\ Closed(tx)
  BY <1>3 DEF Grant
<1>5. Grant(tx, Tail(d), b, w, n)
  BY <1>1, GrantThins, ThinnerTail, ThinnerSelf
<1>6. Cfs(Tail(d)) = {}
  <2>1. \A i \in 1 .. Len(Tail(d)) : Tail(d)[i] = d[i + 1] /\ i + 1 \in 1 .. Len(d)
    BY <1>1, HeadFrame
  <2> QED BY <1>4, <2>1 DEF Cfs
<1>7. Under(Tail(d)) = 0 /\ Credit(tx) = 0
  BY <1>1, <1>2, <1>4, <1>6, UnderType DEF Closed, Credit
<1> QED BY <1>1, <1>2, <1>4, <1>6, <1>7 DEF Grant, Closed

(* The ECU takes a piece: the block is one frame shorter, and when it is     *)
(* used up the ECU owes the next flow control.                               *)
LEMMA GrantUsed ==
  ASSUME NEW tx, NEW d, NEW b, NEW w, NEW n, Grant(tx, d, b, w, n),
         d # <<>>, Head(d).kind = "CF"
  PROVE  Grant(tx, Tail(d), b, n = 1, IF n > 0 THEN n - 1 ELSE n)
<1> DEFINE t == Tail(d)
           m == IF n > 0 THEN n - 1 ELSE n
<1>1. /\ tx \in Senders /\ d \in Seq(Carried) /\ b \in Seq(Carried) /\ w \in BOOLEAN
      /\ n \in Int /\ n >= -1
  BY DEF Grant
<1>2. 1 \in Cfs(d) /\ Under(t) < Under(d) /\ t \in Seq(Carried) /\ Under(t) \in Nat /\ Under(d) \in Nat
      /\ Credit(tx) \in Nat
  BY <1>1, TailOfPieces, HeadFrame, UnderType, CreditType DEF Under
<1>3. ~w /\ ~Opening(d) /\ Cts(b) = {}
  BY <1>2 DEF Grant
<1>4. ~Opening(t)
  <2>1. \A i \in 1 .. Len(t) : t[i] = d[i + 1] /\ i + 1 \in 1 .. Len(d)
    BY <1>1, HeadFrame
  <2> QED BY <1>3, <2>1 DEF Opening
<1>5. n >= 0 => (tx.state = "Sending" => tx.bs # 0) /\ Under(d) + Credit(tx) <= n
  BY <1>3 DEF Grant
<1>6. Cfs(t) # {} => Under(t) >= 1
  <2>1. IsFiniteSet(Cfs(t))
    BY <1>2, CfsFinite
  <2>2. Cfs(t) # {} => Cardinality(Cfs(t)) # 0
    BY <2>1, FS_EmptySet
  <2> QED BY <1>2, <2>2 DEF Under
<1>7. n = 1 => Cfs(t) = {} /\ Closed(tx)
  <2> SUFFICES ASSUME n = 1 PROVE Cfs(t) = {} /\ Closed(tx)
    OBVIOUS
  <2>1. Under(t) = 0 /\ Credit(tx) = 0
    BY <1>2, <1>5
  <2> QED BY <1>5, <1>6, <2>1 DEF Closed, Credit
<1>8. m \in Int /\ m >= -1 /\ (m >= 0 => n > 0 /\ m = n - 1)
  <2>1. n # 0
    BY <1>2, <1>5
  <2> QED BY <1>1, <2>1
<1> HIDE DEF t, m
<1>9. ASSUME m >= 0
      PROVE  /\ tx.state = "Sending" => tx.bs # 0
             /\ Under(t) + Credit(tx) <= IF n = 1 THEN 0 ELSE m
  <2>1. n > 0 /\ m = n - 1
    BY <1>8, <1>9
  <2>2. Under(d) + Credit(tx) <= n
    BY <1>1, <1>5, <2>1
  <2>3. Under(t) + Credit(tx) <= m
    BY <1>1, <1>2, <2>1, <2>2
  <2> QED BY <1>1, <1>5, <2>1, <2>3
<1>10. Grant(tx, t, b, n = 1, m)
  BY <1>1, <1>2, <1>3, <1>4, <1>7, <1>8, <1>9 DEF Grant
<1> QED BY <1>10 DEF t, m

(* The ECU sends the flow control it owes.                                   *)
LEMMA GrantGiven ==
  ASSUME NEW tx, NEW d, NEW b, NEW n, Grant(tx, d, b, TRUE, n), ~Opening(d),
         NEW fs \in 0 .. 2, NEW bs \in 0 .. 255,
         NEW f, f = [kind |-> "FC", fs |-> fs, bs |-> bs, dlc |-> 3]
  PROVE  Grant(tx, d, Append(b, f), fs = 1, IF fs # 0 THEN 0 ELSE IF bs = 0 THEN -1 ELSE bs)
<1> DEFINE b2 == Append(b, f)
           m == IF fs # 0 THEN 0 ELSE IF bs = 0 THEN -1 ELSE bs
<1>1. /\ tx \in Senders /\ d \in Seq(Carried) /\ b \in Seq(Carried)
      /\ Cts(b) = {} /\ Cfs(d) = {} /\ Closed(tx)
  BY DEF Grant
<1>2. f \in Carried /\ f.kind = "FC" /\ f.fs = fs /\ f.bs = bs
  BY DEF Carried, FlowControls
<1>3. /\ b2 \in Seq(Carried) /\ Len(b2) = Len(b) + 1 /\ Len(b) \in Nat
      /\ b2[Len(b) + 1] = f /\ \A i \in 1 .. Len(b) : b2[i] = b[i]
  BY <1>1, <1>2
<1>4. Under(d) = 0 /\ Credit(tx) = 0
  BY <1>1, UnderType DEF Closed, Credit
<1>5. m \in Int /\ m >= -1
  OBVIOUS
<1>6. fs # 0 => m = 0
  OBVIOUS
<1>7. fs = 0 => m = IF bs = 0 THEN -1 ELSE bs
  OBVIOUS
<1> HIDE DEF b2, m
<1>8. \A i \in Cts(b2) : i = Len(b) + 1 /\ b2[i] = f /\ fs = 0
  <2> SUFFICES ASSUME NEW i \in Cts(b2) PROVE i = Len(b) + 1 /\ b2[i] = f /\ fs = 0
    OBVIOUS
  <2>1. i \in 1 .. Len(b) \/ i = Len(b) + 1
    BY <1>3 DEF Cts
  <2>2. i \notin 1 .. Len(b)
    BY <1>1, <1>3 DEF Cts
  <2> QED BY <1>2, <1>3, <2>1, <2>2 DEF Cts
<1>9. fs = 1 => Cts(b2) = {}
  BY <1>8
<1>11. ASSUME NEW i \in Cts(b2)
       PROVE  ~(fs = 1) /\ Cfs(d) = {} /\ Closed(tx) /\ m = IF b2[i].bs = 0 THEN -1 ELSE b2[i].bs
  BY <1>1, <1>2, <1>7, <1>8
<1>12. ASSUME m >= 0
       PROVE  /\ tx.state = "Sending" => tx.bs # 0
              /\ Under(d) + Credit(tx) <= IF fs = 1 THEN 0 ELSE m
  BY <1>1, <1>4, <1>5, <1>12 DEF Closed
<1>13. Grant(tx, d, b2, fs = 1, m)
  <2>1. \A i, j \in Cts(b2) : i = j
    BY <1>8
  <2>2. fs = 1 \/ Opening(d) => Cts(b2) = {} /\ Cfs(d) = {} /\ Closed(tx)
    BY <1>1, <1>9
  <2> QED BY <1>1, <1>3, <1>5, <1>11, <1>12, <2>1, <2>2 DEF Grant
<1> QED BY <1>13 DEF b2, m

(* The grant the ECU has given the tester.                                   *)
Granted == Grant(txT, toE, toT, ecuOwes, ecuLeft)

LEMMA TesterTypes ==
  ASSUME Asks PROVE /\ txT \in Senders /\ ecuOwes \in BOOLEAN
                    /\ toE \in Seq(Carried) /\ toT \in Seq(Carried)
                    /\ txT.state # "Idle" => txT.pdu \in AllPdus
BY DEF Asks, Direction, Sender

LEMMA GrantedOffers ==
  ASSUME Asks, Answers, Granted, TesterOffers \/ EcuOffers PROVE Granted'
<1>1. txT \in Senders /\ txT' \in Senders /\ toE' \in Seq(Carried) /\ toT' \in Seq(Carried)
  <2>1. Asks'
    BY TesterOffersStep, EcuOffersStep
  <2> QED BY <2>1 DEF Asks, Direction, Sender
<1>2. ecuOwes = FALSE /\ toE = <<>> /\ toT = <<>> /\ ecuOwes' = ecuOwes /\ ecuLeft' = ecuLeft
  BY TesterTypes DEF TesterOffers, EcuOffers, Quiet, grant
<1>3. Grant(txT, <<>>, <<>>, FALSE, ecuLeft)
  BY <1>2 DEF Granted
<1>4. CASE TesterOffers
  <2>1. PICK p \in TesterPdus : \E f \in {T!SingleFrame(p), T!FirstFrame(p)} :
           T!BeginSend(p, f) /\ toE' = Append(toE, f)
    BY <1>4 DEF TesterOffers
  <2>2. PICK f : f \in {T!SingleFrame(p), T!FirstFrame(p)} /\ T!BeginSend(p, f) /\ toE' = Append(toE, f)
    BY <2>1
  <2>3. toE' = <<f>> /\ f.kind # "CF" /\ toT' = toT
    BY <1>2, <1>4, <2>2 DEF T!SingleFrame, T!FirstFrame, TesterOffers
  <2>4. f \in Carried
    <3>1. Len(toE') = 1 /\ toE'[1] = f
      BY <2>3
    <3> QED BY <1>1, <3>1
  <2>5. txT'.state # "Sending"
    BY <1>1, <2>2 DEF T!BeginSend, Senders
  <2>6. Grant(txT', <<f>>, <<>>, FALSE, ecuLeft)
    BY <1>1, <1>3, <2>3, <2>4, <2>5, GrantOffered
  <2> QED BY <1>2, <2>3, <2>6 DEF Granted
<1>5. CASE EcuOffers
  <2>1. PICK p \in EcuPdus : \E f \in {E!SingleFrame(p), E!FirstFrame(p)} :
           E!BeginSend(p, f) /\ toT' = Append(toT, f)
    BY <1>5 DEF EcuOffers
  <2>2. PICK f : f \in {E!SingleFrame(p), E!FirstFrame(p)} /\ toT' = Append(toT, f)
    BY <2>1
  <2>3. toT' = <<f>> /\ f.kind # "FC" /\ toE' = toE /\ txT' = txT
    BY <1>2, <1>5, <2>2 DEF E!SingleFrame, E!FirstFrame, EcuOffers
  <2>4. f \in Carried
    <3>1. Len(toT') = 1 /\ toT'[1] = f /\ 1 \in 1 .. 1
      BY <2>3
    <3>2. \A i \in 1 .. Len(toT') : toT'[i] \in Carried
      BY <1>1
    <3> QED BY <3>1, <3>2
  <2>5. Grant(txT, toE, Append(toT, f), ecuOwes, ecuLeft)
    BY <2>3, <2>4, GrantBack DEF Granted
  <2> QED BY <1>2, <2>2, <2>3, <2>5 DEF Granted
<1> QED BY <1>4, <1>5

LEMMA GrantedTesterSends ==
  ASSUME Asks, Granted, TesterPumps \/ TesterCannotTransmit \/ TesterGivesUp PROVE Granted'
<1>1. /\ toT' = toT /\ ecuOwes' = ecuOwes /\ ecuLeft' = ecuLeft
  BY DEF TesterPumps, TesterCannotTransmit, TesterGivesUp, wire, grant
<1>2. txT \in Senders /\ (txT.state # "Idle" => txT.pdu \in AllPdus)
  BY TesterTypes
<1>3. CASE T!NextTxFrame(T!ConsecutiveFrame) /\ toE' = Append(toE, T!ConsecutiveFrame)
  <2>1. PICK s \in Nat : Direction(txT, s, rxE, toE, toT, offerT, ecuOwes)
    BY DEF Asks
  <2> DEFINE left == T!BlockLeft
  <2>2. left \in 0 .. 255
    BY <1>2, <1>3 DEF T!BlockLeft, T!BlockOpen, T!NextTxFrame, Senders
  <2>3. txT.pdu \in AllPdus /\ T!TxLen = Length[txT.pdu]
    BY <1>2, <1>3 DEF T!NextTxFrame, T!TxLen
  <2>4. /\ txT.state = "Sending" /\ txT.pos < Length[txT.pdu] /\ txT' = Sent(txT, left)
        /\ (txT.bs = 0 \/ txT.left > 0)
    BY <1>3, <2>3 DEF T!NextTxFrame, T!Least, T!NextSeq, T!BlockOpen, Sent, PosAfter
  <2>5. T!ConsecutiveFrame = PieceDue(txT) /\ T!ConsecutiveFrame.kind = "CF"
    BY DEF T!ConsecutiveFrame, PieceDue
  <2>6. left = IF txT.bs # 0 THEN txT.left - 1 ELSE txT.left
    BY DEF T!BlockLeft
  <2> HIDE DEF left
  <2>7. /\ Direction(txT', s + 1, rxE, Append(toE, T!ConsecutiveFrame), toT, offerT, ecuOwes)
        /\ T!ConsecutiveFrame \in Carried
    BY <2>1, <2>2, <2>4, <2>5, Pumped
  <2>8. txT' \in Senders
    BY <2>7 DEF Direction, Sender
  <2>9. txT'.bs = txT.bs /\ txT'.left = left
    BY <2>4 DEF Sent
  <2>10. Grant(txT', Append(toE, T!ConsecutiveFrame), toT, ecuOwes, ecuLeft)
    BY <2>4, <2>5, <2>6, <2>7, <2>8, <2>9, GrantPumped DEF Granted
  <2> QED BY <1>1, <1>3, <2>10 DEF Granted
<1>4. CASE UNCHANGED toE /\ \E state \in {"Idle", "WaitFlowControl"} : txT' = [txT EXCEPT !.state = state]
  <2>1. txT' \in Senders /\ txT'.state # "Sending"
    BY <1>2, <1>4 DEF Senders
  <2>2. Grant(txT', toE, toT, ecuOwes, ecuLeft)
    BY <2>1, GrantQuiets DEF Granted
  <2> QED BY <1>1, <1>4, <2>2 DEF Granted
<1> QED BY <1>3, <1>4
    DEF TesterPumps, TesterCannotTransmit, TesterGivesUp, T!NextTxPause, T!TxReset, wire

LEMMA GrantedTesterReceives ==
  ASSUME Asks, Answers, Granted, TesterReceives PROVE Granted'
<1> DEFINE f == Head(toT)
<1>1. toT # <<>> /\ toT' = Tail(toT) /\ ecuOwes' = ecuOwes /\ ecuLeft' = ecuLeft
  BY DEF TesterReceives, grant
<1>2. txT \in Senders /\ toE \in Seq(Carried) /\ toT \in Seq(Carried) /\ f \in Carried
  BY <1>1, TesterTypes, HeadFrame
<1>3. Thinner(Tail(toT), toT) /\ Thinner(toE, toE)
  BY <1>1, <1>2, ThinnerTail, ThinnerSelf
<1>4. Grant(txT, toE, Tail(toT), ecuOwes, ecuLeft)
  BY <1>3, GrantThins DEF Granted
<1>5. CASE txT' = txT /\ UNCHANGED toE
  BY <1>1, <1>4, <1>5 DEF Granted
<1>6. CASE txT' = txT /\ toE' = Append(toE, T!FlowControl)
  <2>1. T!FlowControl \in FlowControls
    BY PduAssumption DEF T!FlowControl, FlowControls
  <2>2. Grant(txT, Append(toE, T!FlowControl), Tail(toT), ecuOwes, ecuLeft)
    BY <1>4, <2>1, GrantForth
  <2> QED BY <1>1, <1>6, <2>2 DEF Granted
<1>7. CASE f.kind = "FC" /\ Told(txT, f, txT') /\ UNCHANGED toE
  <2>1. txT' \in Senders
    BY <1>1, <1>2, TesterReceivesStep, TesterTypes DEF Asks, Direction, Sender
  <2>2. CASE f.fs = 0 /\ txT'.bs = f.bs /\ txT'.left = f.bs
    <3>1. Grant(txT', toE, Tail(toT), ecuOwes, ecuLeft)
      BY <1>1, <1>7, <2>1, <2>2, GrantTaken DEF Granted
    <3> QED BY <1>1, <1>7, <3>1 DEF Granted
  <2>3. CASE txT'.state # "Sending"
    <3>1. Grant(txT', toE, Tail(toT), ecuOwes, ecuLeft)
      BY <1>4, <2>1, <2>3, GrantQuiets
    <3> QED BY <1>1, <1>7, <3>1 DEF Granted
  <2>4. \/ f.fs = 0 /\ txT'.bs = f.bs /\ txT'.left = f.bs
        \/ txT'.state # "Sending"
    BY <1>2, <1>7 DEF Told, Senders
  <2> QED BY <2>2, <2>3, <2>4
<1>8. \/ txT' = txT /\ UNCHANGED toE
      \/ txT' = txT /\ toE' = Append(toE, T!FlowControl)
      \/ f.kind = "FC" /\ Told(txT, f, txT') /\ UNCHANGED toE
  <2>1. CASE T!Reset /\ UNCHANGED toE
    BY <2>1 DEF T!Reset
  <2>2. CASE T!Feed(f, "NeedFlowControl") /\ toE' = Append(toE, T!FlowControl)
    BY <2>2, TesterOpens
  <2>3. CASE /\ \E st \in {"Continue", "TxClearToSend", "TxWait", "TxAbort"} : T!Feed(f, st)
             /\ UNCHANGED toE
    BY <1>2, <2>3, TesterFeeds
  <2> QED BY <2>1, <2>2, <2>3 DEF TesterReceives
<1> QED BY <1>5, <1>6, <1>7, <1>8

LEMMA GrantedEcuSends ==
  ASSUME Asks, Answers, Granted, EcuPumps \/ EcuGivesUp PROVE Granted'
<1>1. /\ toE' = toE /\ txT' = txT /\ ecuOwes' = ecuOwes /\ ecuLeft' = ecuLeft
  BY DEF EcuPumps, EcuGivesUp, wire, grant
<1>2. CASE UNCHANGED toT
  BY <1>1, <1>2 DEF Granted
<1>3. CASE EcuPumps /\ toT' = Append(toT, E!ConsecutiveFrame)
  <2>1. toT' \in Seq(Carried) /\ toT \in Seq(Carried)
    BY <1>3, EcuPumpsStep, TesterTypes DEF Asks, Direction
  <2>2. Len(toT') = Len(toT) + 1 /\ toT'[Len(toT) + 1] = E!ConsecutiveFrame /\ Len(toT) \in Nat
    BY <1>3, <2>1
  <2>3. E!ConsecutiveFrame \in Carried
    <3>1. Len(toT) + 1 \in 1 .. Len(toT')
      BY <2>2
    <3> QED BY <2>1, <2>2, <3>1
  <2>4. E!ConsecutiveFrame.kind # "FC"
    BY DEF E!ConsecutiveFrame
  <2>5. Grant(txT, toE, Append(toT, E!ConsecutiveFrame), ecuOwes, ecuLeft)
    BY <2>3, <2>4, GrantBack DEF Granted
  <2> QED BY <1>1, <1>3, <2>5 DEF Granted
<1> QED BY <1>2, <1>3 DEF EcuPumps, EcuGivesUp, wire

LEMMA GrantedEcuReceives ==
  ASSUME Asks, Answers, Granted, EcuReceives PROVE Granted'
<1> DEFINE f == Head(toE)
<1>1. toE # <<>> /\ toE' = Tail(toE) /\ toT' = toT /\ txT' = txT
  BY DEF EcuReceives
<1>2. toE \in Seq(Carried) /\ toT \in Seq(Carried) /\ f \in Carried
  BY <1>1, TesterTypes, HeadFrame
<1>3. Grant(txT, Tail(toE), toT, ecuOwes, ecuLeft)
  BY <1>1, <1>2, ThinnerTail, ThinnerSelf, GrantThins DEF Granted
<1>4. CASE ecuOwes' = FALSE /\ ecuLeft' = ecuLeft
  BY <1>1, <1>3, <1>4, GrantUnowed DEF Granted
<1>5. CASE E!Feed(f, "NeedFlowControl") /\ ecuOwes' = TRUE /\ ecuLeft' = ecuLeft
  <2>1. f.kind = "FF"
    BY <1>5, EcuOpens
  <2>2. Grant(txT, Tail(toE), toT, TRUE, ecuLeft)
    BY <1>1, <2>1, GrantOpened DEF Granted
  <2> QED BY <1>1, <1>5, <2>2 DEF Granted
<1>6. CASE /\ f.kind = "CF"
           /\ ecuLeft' = IF ecuLeft > 0 THEN ecuLeft - 1 ELSE ecuLeft
           /\ ecuOwes' = (ecuLeft = 1)
  <2>1. Grant(txT, Tail(toE), toT, ecuLeft = 1, IF ecuLeft > 0 THEN ecuLeft - 1 ELSE ecuLeft)
    BY <1>1, <1>6, GrantUsed DEF Granted
  <2> QED BY <1>1, <1>6, <2>1 DEF Granted
<1>7. CASE UNCHANGED grant
  BY <1>1, <1>3, <1>7 DEF Granted, grant
<1> QED BY <1>4, <1>5, <1>6, <1>7 DEF EcuReceives

LEMMA GrantedEcuAnswers ==
  ASSUME Asks, Granted, NEW fs \in EcuAnswers, EcuFlowControl(fs) PROVE Granted'
<1>1. PICK bs \in EcuBlockSizes :
        /\ toT' = Append(toT, [kind |-> "FC", fs |-> fs, bs |-> bs, dlc |-> 3])
        /\ ecuOwes' = (fs = 1)
        /\ ecuLeft' = IF fs # 0 THEN 0 ELSE IF bs = 0 THEN -1 ELSE bs
  BY DEF EcuFlowControl
<1>2. ecuOwes = TRUE /\ toE' = toE /\ txT' = txT
  BY TesterTypes DEF EcuFlowControl
<1>3. fs \in 0 .. 2 /\ bs \in 0 .. 255
  BY EcuAssumption
<1>4. ~Opening(toE)
  BY <1>2 DEF Asks, Direction, Begins, Opening
<1>5. Grant(txT, toE, toT, TRUE, ecuLeft)
  BY <1>2 DEF Granted
<1>6. Grant(txT, toE, toT', fs = 1, IF fs # 0 THEN 0 ELSE IF bs = 0 THEN -1 ELSE bs)
  BY <1>1, <1>3, <1>4, <1>5, GrantGiven
<1> QED BY <1>1, <1>2, <1>6 DEF Granted

LEMMA GrantedWire == ASSUME Asks, Granted, Lose \/ Overtake PROVE Granted'
<1>1. txT' = txT /\ ecuOwes' = ecuOwes /\ ecuLeft' = ecuLeft
  BY DEF Lose, Overtake, grant
<1>2. toE \in Seq(Carried) /\ toT \in Seq(Carried)
  BY TesterTypes
<1>3. Thinner(toE', toE) /\ Thinner(toT', toT)
  <2>1. CASE Lose
    BY <1>2, <2>1, ThinnerRemove, ThinnerSelf DEF Lose
  <2>2. CASE Overtake
    BY <1>2, <2>2, ThinnerOvertaken, ThinnerSelf DEF Overtake
  <2> QED BY <2>1, <2>2
<1>4. Grant(txT, toE', toT', ecuOwes, ecuLeft)
  BY <1>3, GrantThins DEF Granted
<1> QED BY <1>1, <1>4 DEF Granted

LEMMA GrantedStep == ASSUME Asks, Answers, Granted, [Next]_vars PROVE Granted'
<1>1. CASE UNCHANGED vars
  BY <1>1 DEF vars, wire, grant, Granted
<1> QED BY <1>1, GrantedOffers, GrantedTesterSends, GrantedTesterReceives, GrantedEcuSends,
          GrantedEcuReceives, GrantedEcuAnswers, GrantedWire DEF Next

LEMMA GrantedInit == ASSUME Init PROVE Granted
<1>1. /\ txT = [state |-> "Idle", pdu |-> NoPdu, pos |-> 0, seq |-> 1, bs |-> 0, left |-> 0]
      /\ toE = <<>> /\ toT = <<>> /\ ecuOwes = FALSE /\ ecuLeft = 0
  BY DEF Init, T!Init
<1>2. txT \in Senders /\ txT.state = "Idle"
  BY <1>1 DEF Senders
<1>3. toE \in Seq(Carried) /\ Len(toE) = 0 /\ toT \in Seq(Carried) /\ Len(toT) = 0
  BY <1>1
<1>4. Cfs(toE) = {} /\ Cts(toT) = {}
  BY <1>3 DEF Cfs, Cts
<1>5. Under(toE) = 0 /\ Credit(txT) = 0 /\ Closed(txT)
  BY <1>2, <1>3, <1>4, UnderType DEF Credit, Closed
<1>6. Opening(toE) => FALSE
  BY <1>3 DEF Opening
<1>7. Grant(txT, toE, toT, FALSE, 0)
  BY <1>2, <1>3, <1>4, <1>5, <1>6 DEF Grant
<1> QED BY <1>1, <1>7 DEF Granted

(* The tester never has more consecutive frames under way than the ECU's     *)
(* last flow control grants, and none while the ECU owes the next one,       *)
(* whatever the wire does and whatever block sizes the ECU asks for.         *)
THEOREM OverrunNever == Spec => []NoOverrun
<1>1. Init => Asks /\ Answers /\ Granted
  BY LinkInit, GrantedInit
<1>2. Asks /\ Answers /\ Granted /\ [Next]_vars => Asks' /\ Answers' /\ Granted'
  BY LinkStep, GrantedStep
<1>3. Granted => NoOverrun
  <2> SUFFICES ASSUME Granted, ecuLeft >= 0
               PROVE  CfUnderWay <= IF ecuOwes THEN 0 ELSE ecuLeft
    BY DEF NoOverrun
  <2>1. toE \in Seq(Carried) /\ txT \in Senders /\ ecuLeft \in Int
    BY DEF Granted, Grant
  <2>2. CfUnderWay = Under(toE)
    <3>1. {i \in DOMAIN toE : toE[i].kind = "CF"} = Cfs(toE)
      BY <2>1 DEF Cfs
    <3> QED BY <3>1 DEF CfUnderWay, Under
  <2>3. CASE Cts(toT) = {}
    <3>1. Under(toE) + Credit(txT) <= IF ecuOwes THEN 0 ELSE ecuLeft
      BY <2>3 DEF Granted, Grant
    <3>2. Under(toE) \in Nat /\ Credit(txT) \in Nat
      BY <2>1, UnderType, CreditType
    <3> QED BY <2>1, <2>2, <3>1, <3>2
  <2>4. CASE Cts(toT) # {}
    <3>1. ~ecuOwes /\ Cfs(toE) = {}
      BY <2>4 DEF Granted, Grant
    <3>2. Under(toE) = 0
      BY <2>1, <3>1, UnderType
    <3> QED BY <2>1, <2>2, <3>1, <3>2
  <2> QED BY <2>3, <2>4
<1> QED BY <1>1, <1>2, <1>3, PTL DEF Spec
=============================================================================
