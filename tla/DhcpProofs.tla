----------------------------- MODULE DhcpProofs -----------------------------
(***************************************************************************)
(* The lease table of DhcpServer.tla for every number of stations and      *)
(* slots, whatever the air loses: one lease each, no address in use twice  *)
(* unless a lease was taken away, and taken away only from the station     *)
(* that came first. None of the three is inductive:                        *)
(*   - that addresses in use are distinct needs what the station's address *)
(*     and the answer on its way to it have to do with the table           *)
(*     (HolderListed);                                                     *)
(*   - that the one evicted came first needs the order in which the slots  *)
(*     are filled (FilledInOrder) and that, once the table is full, turns  *)
(*     are taken in the order of arrival (TurnsInOrder).                   *)
(***************************************************************************)
EXTENDS DhcpServer, TLAPS

(* A station whose lease was never taken away is in the slot it uses, and    *)
(* in the one it is being told.                                              *)
HolderListed ==
  \A m \in Macs : m \notin evicted =>
    /\ address[m] # NoAddress => leases[address[m]] = m
    /\ air[m] \in Answers => leases[air[m].yiaddr] = m

(* The free slots are at the end, and none was ever taken from while there   *)
(* is one.                                                                   *)
FilledInOrder ==
  \A i \in Slots : leases[i] = NoMac =>
    /\ next_evict = 0
    /\ \A j \in Slots : leases[j] # NoMac => j < i

(* How many evictions there will be before that of slot i. *)
Turn(i) == IF i >= next_evict THEN i - next_evict ELSE i + kPoolSize - next_evict

TurnsInOrder ==
  /\ before \subseteq Holders \X Holders
  /\ \A i, j \in Slots : <<leases[i], leases[j]>> \in before => Turn(i) < Turn(j)

Inv == TypeOK /\ OneLeaseEach /\ HolderListed /\ FilledInOrder /\ TurnsInOrder

----------------------------------------------------------------------------
(* next_evict_ goes round the table. *)
LEMMA NextSlot ==
  ASSUME NEW k \in Nat \ {0}, NEW n \in 0 .. k - 1
  PROVE  (n + 1) % k = IF n + 1 = k THEN 0 ELSE n + 1
BY SMT

LEMMA InitInv == Init => Inv
<1> SUFFICES ASSUME Init PROVE Inv
  OBVIOUS
<1>1. TypeOK
  BY PoolAssumption DEF Init, TypeOK, Slots
<1>2. OneLeaseEach
  BY DEF Init, OneLeaseEach
<1>3. HolderListed
  BY DEF Init, HolderListed, Quiet, Answers
<1>4. FilledInOrder
  BY DEF Init, FilledInOrder
<1>5. TurnsInOrder
  BY DEF Init, TurnsInOrder
<1> QED BY <1>1, <1>2, <1>3, <1>4, <1>5 DEF Inv

----------------------------------------------------------------------------
(* What leaseFor does to the table, in each of its three cases.              *)

TableInv ==
  /\ OneLeaseEach /\ FilledInOrder /\ TurnsInOrder
  /\ leases \in [Slots -> Macs \cup {NoMac}]
  /\ next_evict \in Slots
  /\ evicted \subseteq Macs
  /\ before \in SUBSET (Macs \X Macs)

LEMMA AllocateInv ==
  ASSUME TableInv, NEW m \in Macs, NEW i \in Slots, Allocate(m, i)
  PROVE  TableInv' /\ leases' = [leases EXCEPT ![i] = m] /\ leases[i] = NoMac /\ evicted' = evicted
<1> USE MacAssumption DEF TableInv
<1>1. leases' = [leases EXCEPT ![i] = m] /\ leases[i] = NoMac /\ next_evict' = next_evict
        /\ evicted' = evicted /\ before' = before \cup (Holders \X {m})
  BY DEF Allocate, IsFirstFree
<1>2. \A j \in Slots : leases[j] # m
  BY DEF Allocate, Known
<1>3. \A j \in Slots : j < i <=> leases[j] # NoMac
  BY <1>1 DEF Allocate, IsFirstFree, FilledInOrder, Slots
<1>4. next_evict = 0
  BY <1>1 DEF FilledInOrder
<1>5. Holders \subseteq Macs /\ Holders' = Holders \cup {m}
  BY <1>1 DEF Holders
<1>6. /\ leases' \in [Slots -> Macs \cup {NoMac}] /\ next_evict' \in Slots
      /\ evicted' \subseteq Macs /\ before' \in SUBSET (Macs \X Macs)
  BY <1>1, <1>5
<1>7. OneLeaseEach'
  BY <1>1, <1>2 DEF OneLeaseEach
<1>8. FilledInOrder'
  BY <1>1, <1>3, <1>4 DEF FilledInOrder, Slots
<1>9. TurnsInOrder'
  <2>1. (before \subseteq Holders \X Holders)'
    BY <1>1, <1>5 DEF TurnsInOrder
  <2>2. ASSUME NEW j \in Slots, NEW k \in Slots, <<leases'[j], leases'[k]>> \in before'
        PROVE  Turn(j)' < Turn(k)'
    <3>1. CASE j # i /\ k # i
      <4>1. <<leases[j], leases[k]>> \in before
        BY <1>1, <1>2, <2>2, <3>1
      <4> QED BY <1>1, <4>1 DEF TurnsInOrder, Turn
    <3>2. CASE k = i /\ j # i
      <4>1. leases[j] # NoMac
        BY <1>1, <1>2, <2>2, <3>2 DEF TurnsInOrder, Holders
      <4>2. j < i
        BY <1>3, <4>1
      <4> QED BY <1>1, <1>4, <3>2, <4>2 DEF Turn, Slots
    <3>3. CASE j = i
      <4>1. m \notin Holders
        BY <1>2 DEF Holders
      <4>2. leases'[j] = m
        BY <1>1, <3>3
      <4> QED BY <1>1, <2>2, <4>1, <4>2 DEF TurnsInOrder
    <3> QED BY <3>1, <3>2, <3>3
  <2> QED BY <2>1, <2>2 DEF TurnsInOrder
<1> QED BY <1>1, <1>6, <1>7, <1>8, <1>9

(* The station evicted is the one that came first.                           *)
LEMMA EvictInv ==
  ASSUME TableInv, NEW m \in Macs, NEW i \in Slots, Evict(m, i)
  PROVE  /\ TableInv'
         /\ Full /\ leases' = [leases EXCEPT ![i] = m] /\ evicted' = evicted \cup {leases[i]}
         /\ \A n \in Holders : <<n, leases[i]>> \notin before
<1> USE MacAssumption, PoolAssumption DEF TableInv
<1> DEFINE old == leases[i]
<1>1. /\ Full /\ i = next_evict
      /\ leases' = [leases EXCEPT ![i] = m] /\ evicted' = evicted \cup {old}
      /\ before' = {p \in before : old \notin {p[1], p[2]}} \cup ((Holders \ {old}) \X {m})
  BY DEF Evict, TakePlace
<1>2. next_evict' = IF i + 1 = kPoolSize THEN 0 ELSE i + 1
  BY <1>1, NextSlot DEF Evict, Slots
<1>3. \A j \in Slots : leases[j] # m
  BY DEF Evict, TakePlace, Known
<1>4. \A j \in Slots : leases[j] # NoMac /\ (j # i => leases[j] # old)
  BY <1>1 DEF Full, OneLeaseEach
<1>5. old \in Macs /\ Holders \subseteq Macs /\ Holders' = (Holders \ {old}) \cup {m}
  BY <1>1, <1>3, <1>4 DEF Holders
<1>6. /\ leases' \in [Slots -> Macs \cup {NoMac}] /\ next_evict' \in Slots
      /\ evicted' \subseteq Macs /\ before' \in SUBSET (Macs \X Macs)
  BY <1>1, <1>2, <1>5 DEF Slots
<1>7. OneLeaseEach'
  BY <1>1, <1>3 DEF OneLeaseEach
<1>8. FilledInOrder'
  BY <1>1, <1>4 DEF FilledInOrder
<1>9. TurnsInOrder'
  <2>1. (before \subseteq Holders \X Holders)'
    <3>1. {p \in before : old \notin {p[1], p[2]}} \subseteq (Holders \ {old}) \X (Holders \ {old})
      BY DEF TurnsInOrder
    <3> QED BY <1>1, <1>5, <3>1
  <2>2. ASSUME NEW j \in Slots, NEW k \in Slots, <<leases'[j], leases'[k]>> \in before'
        PROVE  Turn(j)' < Turn(k)'
    <3>1. j # i
      <4>1. m \notin Holders
        BY <1>3 DEF Holders
      <4>2. SUFFICES ASSUME j = i PROVE FALSE
        OBVIOUS
      <4>3. leases'[j] = m
        BY <1>1, <4>2
      <4> QED BY <1>1, <2>2, <4>1, <4>3 DEF TurnsInOrder
    <3>2. CASE k # i
      <4>1. <<leases[j], leases[k]>> \in before
        BY <1>1, <1>3, <2>2, <3>1, <3>2
      <4>2. Turn(j) < Turn(k)
        BY <4>1 DEF TurnsInOrder
      <4> QED BY <1>1, <1>2, <3>1, <3>2, <4>2 DEF Turn, Slots
    <3>3. CASE k = i
      BY <1>1, <1>2, <3>1, <3>3 DEF Turn, Slots
    <3> QED BY <3>2, <3>3
  <2> QED BY <2>1, <2>2 DEF TurnsInOrder
<1>10. ASSUME NEW n \in Holders, <<n, old>> \in before PROVE FALSE
  <2>1. PICK j \in Slots : leases[j] = n
    BY DEF Holders
  <2>2. Turn(j) < Turn(i)
    BY <1>10, <2>1 DEF TurnsInOrder
  <2> QED BY <1>1, <2>2 DEF Turn, Slots
<1> QED BY <1>1, <1>6, <1>7, <1>8, <1>9, <1>10

(* leaseFor gives m the slot, and every station its own that is not evicted. *)
LEMMA LeaseForInv ==
  ASSUME TableInv, NEW m \in Macs, NEW i \in Slots, leaseFor(m, i)
  PROVE  /\ TableInv'
         /\ leases'[i] = m
         /\ \A n \in Macs : n \notin evicted' =>
              n \notin evicted /\ \A j \in Slots : leases[j] = n => leases'[j] = n
<1>1. CASE Reuse(m, i)
  <2>1. UNCHANGED <<leases, next_evict, evicted, before>> /\ leases[i] = m
    BY <1>1 DEF Reuse
  <2>2. TableInv'
    BY <2>1 DEF TableInv, OneLeaseEach, FilledInOrder, TurnsInOrder, Holders, Turn
  <2> QED BY <2>1, <2>2
<1>2. CASE Allocate(m, i)
  BY <1>2, AllocateInv, MacAssumption DEF TableInv
<1>3. CASE Evict(m, i)
  BY <1>3, EvictInv, MacAssumption DEF TableInv
<1> QED BY <1>1, <1>2, <1>3 DEF leaseFor

----------------------------------------------------------------------------
(* The steps that leave the table alone: of one station, whose answer under  *)
(* way is gone, and whose address is kept, dropped or what it was told.      *)
LEMMA StationInv ==
  ASSUME Inv, UNCHANGED <<up, leases, next_evict, evicted, before>>, NEW m \in Macs,
         NEW msg \in {Quiet} \cup Asked, air' = [air EXCEPT ![m] = msg],
         \/ address' = address
         \/ address' = [address EXCEPT ![m] = NoAddress]
         \/ air[m] \in Answers /\ address' = [address EXCEPT ![m] = air[m].yiaddr]
  PROVE  Inv'
<1>1. msg \notin Answers
  BY DEF Quiet, Asked, Answers
<1>2. address' \in [Macs -> Slots \cup {NoAddress}]
  BY DEF Inv, TypeOK, Answers
<1>3. TypeOK'
  BY <1>2 DEF Inv, TypeOK
<1>4. HolderListed'
  BY <1>1 DEF Inv, TypeOK, HolderListed
<1>5. OneLeaseEach' /\ FilledInOrder' /\ TurnsInOrder'
  BY DEF Inv, OneLeaseEach, FilledInOrder, TurnsInOrder, Holders, Turn
<1> QED BY <1>3, <1>4, <1>5 DEF Inv

LEMMA Messages ==
  ASSUME TypeOK, NEW m \in Macs
  PROVE  /\ air[m].type \in {"OFFER", "ACK"} => air[m] \in Answers
         /\ \A t \in {"DISCOVER", "REQUEST"} : [type |-> t] \in Asked
BY DEF TypeOK, Quiet, Asked, Answers

(* The server's only step. *)
LEMMA HandleRequestInv ==
  ASSUME Inv, NEW m \in Macs, handleRequest(m)
  PROVE  Inv'
<1>1. PICK i \in Slots, msg \in {Quiet} \cup Answers :
        /\ leaseFor(m, i)
        /\ air' = [air EXCEPT ![m] = msg]
        /\ msg \in Answers => msg.yiaddr = i
  <2>1. PICK i \in Slots, sent \in BOOLEAN :
          /\ leaseFor(m, i)
          /\ air' = [air EXCEPT ![m] =
               IF sent
               THEN [type |-> IF air[m].type = "DISCOVER" THEN "OFFER" ELSE "ACK", yiaddr |-> i]
               ELSE Quiet]
    BY DEF handleRequest, Inv, TypeOK
  <2>2. Quiet \notin Answers
    BY DEF Quiet, Answers
  <2>3. \A t \in {"OFFER", "ACK"} :
          [type |-> t, yiaddr |-> i] \in Answers /\ [type |-> t, yiaddr |-> i].yiaddr = i
    BY DEF Answers
  <2> QED BY <2>1, <2>2, <2>3
<1>2. UNCHANGED <<up, address>>
  BY DEF handleRequest
<1>3. /\ TableInv' /\ leases'[i] = m
      /\ \A n \in Macs : n \notin evicted' =>
           n \notin evicted /\ \A j \in Slots : leases[j] = n => leases'[j] = n
  BY <1>1, LeaseForInv DEF Inv, TableInv, TypeOK
<1>4. TypeOK'
  BY <1>1, <1>2, <1>3 DEF Inv, TypeOK, TableInv
<1>5. HolderListed'
  <2> SUFFICES ASSUME NEW n \in Macs, n \notin evicted'
               PROVE  /\ address'[n] # NoAddress => leases'[address'[n]] = n
                      /\ air'[n] \in Answers => leases'[air'[n].yiaddr] = n
    BY DEF HolderListed
  <2>1. /\ address[n] # NoAddress => leases[address[n]] = n /\ address[n] \in Slots
        /\ air[n] \in Answers => leases[air[n].yiaddr] = n /\ air[n].yiaddr \in Slots
    BY <1>3 DEF Inv, HolderListed, TypeOK, Answers
  <2>2. address'[n] # NoAddress => leases'[address'[n]] = n
    BY <1>2, <1>3, <2>1
  <2>3. air'[n] \in Answers => leases'[air'[n].yiaddr] = n
    <3>1. CASE n = m
      BY <1>1, <1>3, <3>1 DEF Inv, TypeOK
    <3>2. CASE n # m
      BY <1>1, <1>3, <2>1, <3>2 DEF Inv, TypeOK
    <3> QED BY <3>1, <3>2
  <2> QED BY <2>2, <2>3
<1> QED BY <1>3, <1>4, <1>5 DEF Inv, TableInv

LEMMA StepInv == Inv /\ [Next]_vars => Inv'
<1> SUFFICES ASSUME Inv, [Next]_vars PROVE Inv'
  OBVIOUS
<1>1. CASE UNCHANGED vars
  BY <1>1 DEF vars, Inv, TypeOK, OneLeaseEach, HolderListed, FilledInOrder, TurnsInOrder,
              Holders, Turn
<1>2. ASSUME NEW m \in Macs, handleRequest(m) PROVE Inv'
  BY <1>2, HandleRequestInv
<1>3. ASSUME NEW m \in Macs, NEW t \in {"DISCOVER", "REQUEST"}, Ask(m, t) PROVE Inv'
  BY <1>3, Messages, StationInv DEF Ask, Inv
<1>4. ASSUME NEW m \in Macs, TakeOffer(m) PROVE Inv'
  BY <1>4, Messages, StationInv DEF TakeOffer, Inv
<1>5. ASSUME NEW m \in Macs, TakeAck(m) PROVE Inv'
  BY <1>5, Messages, StationInv DEF TakeAck, Inv
<1>6. ASSUME NEW m \in Macs, Lose(m) PROVE Inv'
  BY <1>6, StationInv DEF Lose
<1>7. ASSUME NEW m \in Macs, Leave(m) PROVE Inv'
  BY <1>7, StationInv DEF Leave
<1> QED BY <1>1, <1>2, <1>3, <1>4, <1>5, <1>6, <1>7 DEF Next

LEMMA Invariance == Spec => []Inv
BY InitInv, StepInv, PTL DEF Spec

----------------------------------------------------------------------------
(* The table, the messages and the addresses keep their types, next_evict_   *)
(* staying inside the table (leaseFor).                                      *)
THEOREM TypeCorrect == Spec => []TypeOK
BY Invariance, PTL DEF Inv

(* leaseFor never gives a station a second slot, and of two stations with    *)
(* the same address, one has lost its lease to a full table.                 *)
THEOREM NoConflicts == Spec => []NoConflict
<1>1. Inv => AddressesDistinct
  BY DEF Inv, TypeOK, HolderListed, AddressesDistinct
<1>2. Inv => NoConflict
  BY <1>1 DEF Inv, NoConflict
<1> QED BY <1>2, Invariance, PTL

(* The lease taken away is that of the station that came first               *)
(* (dhcp_server.hpp:48), for every table size.                               *)
THEOREM OldestEvicted == Spec => EvictsOldest
<1> DEFINE Step == \A i \in Slots : leases'[i] # leases[i] /\ leases[i] # NoMac
                     => Full /\ \A m \in Holders : <<m, leases[i]>> \notin before
<1>1. Inv /\ [Next]_vars => Step
  <2> SUFFICES ASSUME Inv, [Next]_vars, NEW i \in Slots,
                      leases'[i] # leases[i], leases[i] # NoMac
               PROVE  Full /\ \A m \in Holders : <<m, leases[i]>> \notin before
    OBVIOUS
  <2>1. PICK m \in Macs : handleRequest(m)
    BY DEF Next, vars, Ask, TakeOffer, TakeAck, Lose, Leave
  <2>2. PICK j \in Slots : leaseFor(m, j)
    BY <2>1 DEF handleRequest
  <2>3. TableInv /\ leases \in [Slots -> Macs \cup {NoMac}]
    BY DEF Inv, TableInv, TypeOK
  <2>4. CASE Reuse(m, j)
    BY <2>4 DEF Reuse
  <2>5. CASE Allocate(m, j)
    BY <2>3, <2>5, AllocateInv
  <2>6. CASE Evict(m, j)
    BY <2>3, <2>6, EvictInv
  <2> QED BY <2>2, <2>4, <2>5, <2>6 DEF leaseFor
<1>2. Spec => [][Next]_vars /\ []Inv
  BY Invariance, PTL DEF Spec
<1> QED BY <1>1, <1>2, PTL DEF EvictsOldest
=============================================================================
