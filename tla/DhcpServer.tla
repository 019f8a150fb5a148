----------------------------- MODULE DhcpServer -----------------------------
(* The DHCP server of the access point (src/dhcp_server.cpp): a table of     *)
(* leases keyed by MAC address, which hands out server_ip + 1 + slot. A      *)
(* lease never expires and is never given back; a station that finds the     *)
(* table full takes the place of another one.                                *)
(*                                                                           *)
(* The stations are external: each has one exchange under way at a time, a   *)
(* request or its reply, which the air may lose; a station asks again, and   *)
(* takes only the reply to its last request (xid). An address is a slot.     *)
EXTENDS Naturals, FiniteSets

CONSTANTS
  Macs,        \* the stations
  NoMac,       \* in_use = false
  NoAddress,
  kPoolSize,
  Patient      \* the stations that ask until they have an address

ASSUME PoolAssumption == kPoolSize \in Nat \ {0}
ASSUME MacAssumption == IsFiniteSet(Macs) /\ NoMac \notin Macs /\ Patient \subseteq Macs
ASSUME AddressAssumption == NoAddress \notin Nat

VARIABLES
  up,          \* init() has bound port 67
  leases,      \* leases_: who holds a slot
  next_evict,  \* next_evict_
  air,         \* the message under way to or from each station
  address,     \* the address a station uses
  evicted,     \* history: the stations whose lease was ever taken away
  before       \* history: which station in the table came before which

vars == <<up, leases, next_evict, air, address, evicted, before>>

Slots == 0 .. kPoolSize - 1

Quiet == [type |-> "none"]
Asked == [type : {"DISCOVER", "REQUEST"}]
Answers == [type : {"OFFER", "ACK"}, yiaddr : Slots]

TypeOK ==
  /\ up \in BOOLEAN
  /\ leases \in [Slots -> Macs \cup {NoMac}]
  /\ next_evict \in Slots
  /\ air \in [Macs -> {Quiet} \cup Asked \cup Answers]
  /\ address \in [Macs -> Slots \cup {NoAddress}]
  /\ evicted \subseteq Macs
  /\ before \in SUBSET (Macs \X Macs)

Init ==
  /\ up \in BOOLEAN
  /\ leases = [i \in Slots |-> NoMac]
  /\ next_evict = 0
  /\ air = [m \in Macs |-> Quiet]
  /\ address = [m \in Macs |-> NoAddress]
  /\ evicted = {}
  /\ before = {}

----------------------------------------------------------------------------
(* leaseFor: the slot this MAC has; or the first that is free; or, in turn,  *)
(* the one next_evict_ points to.                                            *)

IsFirstFree(i) == leases[i] = NoMac /\ \A j \in Slots : j < i => leases[j] # NoMac

Full == \A i \in Slots : leases[i] # NoMac

Known(m) == \E i \in Slots : leases[i] = m

Holders == {leases[i] : i \in Slots} \ {NoMac}

Reuse(m, i) ==
  /\ leases[i] = m
  /\ UNCHANGED <<leases, next_evict, evicted, before>>

(* Allocating without marking the slot in use. *)
AllocateUnmarked(m, i) ==
  /\ ~Known(m)
  /\ IsFirstFree(i)
  /\ UNCHANGED <<leases, next_evict, evicted, before>>

Allocate(m, i) ==
  /\ ~Known(m)
  /\ IsFirstFree(i)
  /\ leases' = [leases EXCEPT ![i] = m]
  /\ before' = before \cup (Holders \X {m})
  /\ UNCHANGED <<next_evict, evicted>>

TakePlace(m, i) ==
  /\ ~Known(m) /\ Full
  /\ i = next_evict
  /\ leases' = [leases EXCEPT ![i] = m]
  /\ evicted' = evicted \cup {leases[i]}
  /\ before' = {p \in before : leases[i] \notin {p[1], p[2]}}
                 \cup ((Holders \ {leases[i]}) \X {m})

(* Evicting from the same slot every time, and past the last one. *)
EvictAgain(m, i) == TakePlace(m, i) /\ UNCHANGED next_evict
EvictOnwards(m, i) == TakePlace(m, i) /\ next_evict' = next_evict + 1

Evict(m, i) == TakePlace(m, i) /\ next_evict' = (next_evict + 1) % kPoolSize

(* leaseFor that has no answer to a full table. *)
leaseForNoEviction(m, i) == Reuse(m, i) \/ Allocate(m, i)

leaseFor(m, i) == Reuse(m, i) \/ Allocate(m, i) \/ Evict(m, i)

(* handleRequest on a well-formed DISCOVER or REQUEST: the table changes     *)
(* before the reply is allocated, and no reply leaves when that fails.       *)
handleRequest(m) ==
  /\ up
  /\ air[m] \in Asked
  /\ \E i \in Slots :
       /\ leaseFor(m, i)
       /\ \E sent \in BOOLEAN :
            air' = [air EXCEPT ![m] =
              IF sent
              THEN [type |-> IF @.type = "DISCOVER" THEN "OFFER" ELSE "ACK", yiaddr |-> i]
              ELSE Quiet]
  /\ UNCHANGED <<up, address>>

----------------------------------------------------------------------------
(* The stations. *)

(* A station without an address, or one whose exchange came to nothing,      *)
(* starts again; one with an address renews it.                              *)
Ask(m, type) ==
  /\ air[m] = Quiet
  /\ type = IF address[m] = NoAddress THEN "DISCOVER" ELSE "REQUEST"
  /\ air' = [air EXCEPT ![m] = [type |-> type]]
  /\ UNCHANGED <<up, leases, next_evict, address, evicted, before>>

TakeOffer(m) ==
  /\ air[m].type = "OFFER"
  /\ air' = [air EXCEPT ![m] = [type |-> "REQUEST"]]
  /\ UNCHANGED <<up, leases, next_evict, address, evicted, before>>

TakeAck(m) ==
  /\ air[m].type = "ACK"
  /\ address' = [address EXCEPT ![m] = air[m].yiaddr]
  /\ air' = [air EXCEPT ![m] = Quiet]
  /\ UNCHANGED <<up, leases, next_evict, evicted, before>>

(* The message is lost. *)
Lose(m) ==
  /\ air[m] # Quiet
  /\ air' = [air EXCEPT ![m] = Quiet]
  /\ UNCHANGED <<up, leases, next_evict, address, evicted, before>>

(* A station leaves; the server does not listen to its RELEASE. *)
Leave(m) ==
  /\ address[m] # NoAddress
  /\ address' = [address EXCEPT ![m] = NoAddress]
  /\ air' = [air EXCEPT ![m] = Quiet]
  /\ UNCHANGED <<up, leases, next_evict, evicted, before>>

Next ==
  \E m \in Macs :
    \/ handleRequest(m)
    \/ \E type \in {"DISCOVER", "REQUEST"} : Ask(m, type)
    \/ TakeOffer(m) \/ TakeAck(m) \/ Lose(m) \/ Leave(m)

Spec == Init /\ [][Next]_vars

(* A patient station goes on asking; the server, if it came up, answers; and *)
(* of the messages sent again and again, and of the answers to them, some    *)
(* get through. Nothing is assumed of the other stations.                    *)
Fairness ==
  \A m \in Patient :
    /\ WF_vars(\E type \in {"DISCOVER", "REQUEST"} : Ask(m, type))
    /\ SF_vars(air[m].type = "DISCOVER" /\ handleRequest(m) /\ air'[m] # Quiet)
    /\ SF_vars(air[m].type = "REQUEST" /\ handleRequest(m) /\ air'[m] # Quiet)
    /\ SF_vars(TakeOffer(m)) /\ SF_vars(TakeAck(m))

FairSpec == Spec /\ Fairness

----------------------------------------------------------------------------
(* No station has two leases: a DISCOVER that is asked again, or a renewal   *)
(* that crosses with evictions, finds the slot there is (leaseFor).          *)
OneLeaseEach ==
  \A i, j \in Slots : leases[i] # NoMac /\ leases[i] = leases[j] => i = j

(* Two stations use the same address only if the lease of one was taken      *)
(* away: whatever is lost, asked again or left in between, an address in use *)
(* is not given to another while there is a free slot.                       *)
AddressesDistinct ==
  \A m, n \in Macs :
    m # n /\ address[m] # NoAddress /\ address[m] = address[n]
      => m \in evicted \/ n \in evicted

(* What the table and the stations have to agree on.                         *)
NoConflict == OneLeaseEach /\ AddressesDistinct

(* "reconnects just reuse the same slot (matched by MAC) or evict the oldest *)
(* one" (include/psa/dhcp_server.hpp:48): a lease is taken away only when    *)
(* the table is full, and then from the station that came first of all.      *)
EvictsOldest ==
  [][ \A i \in Slots :
        leases'[i] # leases[i] /\ leases[i] # NoMac
          => Full /\ \A m \in Holders : <<m, leases[i]>> \notin before ]_vars

(* A patient station gets an address, however many others come and go.       *)
GetsAddress ==
  \A m \in Patient : up /\ address[m] = NoAddress ~> address[m] # NoAddress
=============================================================================
