---------------------------- MODULE MCIsoTpLink ----------------------------
(* TLC instances of the tester and one ECU. *)
EXTENDS IsoTpLink, TLC

CONSTANTS ask1, ask2, askLong, say, say1, say2, sayBlock, sayLong

(* 3 bytes: a single frame. 20: a first frame and two consecutive ones. 62: *)
(* the last reply that fits one block of 8. 63: one byte more. 125: 17      *)
(* consecutive frames, past the wrap of the sequence number.                *)
MCLength ==
  (ask1 :> 20) @@ (ask2 :> 20) @@ (askLong :> 125) @@
  (say :> 3) @@ (say1 :> 20) @@ (say2 :> 20) @@ (sayBlock :> 62) @@ (sayLong :> 63)
MCAllLength == [p \in AllPdus |-> MCLength[p]]
============================================================================
