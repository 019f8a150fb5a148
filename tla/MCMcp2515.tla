----------------------------- MODULE MCMcp2515 -----------------------------
(* TLC instance of Mcp2515: the bus modes that connect, gsniff rate hs and   *)
(* gsniff rate ls ask for.                                                   *)
EXTENDS Mcp2515

MCOutgoing == 1 .. 5
MCIncoming == 1 .. 3
MCBusModes ==
  {[rate |-> 500, mode |-> "normal"], [rate |-> 500, mode |-> "listen"],
   [rate |-> 125, mode |-> "listen"]}
=============================================================================
