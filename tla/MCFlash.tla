------------------------------ MODULE MCFlash -------------------------------
(* The TLC instance of a whole flash. *)
EXTENDS MCDiagShell, FlashImage

(* A header at address 0, and firmware around the carry into the second byte *)
(* of an address; records of one and two bytes, one with a long address.     *)
MCWritten ==
  {[type |-> 0, address |-> 0, data |-> <<5>>],
   [type |-> 1, address |-> 6, data |-> <<0>>],
   [type |-> 1, address |-> 6, data |-> <<2, 6>>],
   [type |-> 1, address |-> 7, data |-> <<2>>],
   [type |-> 2, address |-> 8, data |-> <<1, 7>>],
   [type |-> 1, address |-> 10, data |-> <<3>>]}

ASSUME CountsTell
=============================================================================
