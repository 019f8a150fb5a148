---------------------------- MODULE PduTransfer ----------------------------
(***************************************************************************)
(* What the transport promises in one direction: a PDU that was offered is *)
(* handed up whole, as it was offered, and at most once. It may be given   *)
(* up silently, when the next one is offered in its place.                 *)
(***************************************************************************)
CONSTANTS Pdus, NoPdu

VARIABLES
  offered,   (* the PDU that may still be handed up, or NoPdu             *)
  handed     (* the PDU handed up last, and the parity of their count     *)

vars == <<offered, handed>>

Init == offered = NoPdu /\ handed = [pdu |-> NoPdu, odd |-> FALSE]

Offer(p) == offered' = p /\ UNCHANGED handed

HandUp ==
  /\ offered # NoPdu
  /\ handed' = [pdu |-> offered, odd |-> ~handed.odd]
  /\ offered' = NoPdu

Next == (\E p \in Pdus : Offer(p)) \/ HandUp

Spec == Init /\ [][Next]_vars
=============================================================================
