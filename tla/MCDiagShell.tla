---------------------------- MODULE MCDiagShell ----------------------------
(* TLC instances of the diagnostic shell. *)
EXTENDS DiagShell, TLC

CONSTANTS engine, bsi

MCTable == <<engine, bsi>>
MCProtocol == (engine :> "KWP_IS") @@ (bsi :> "UDS")
============================================================================
