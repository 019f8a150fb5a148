------------------------------ MODULE MCIsoTp ------------------------------
(* TLC instance of one endpoint in an arbitrary environment. *)
EXTENDS IsoTp, TLC

CONSTANTS short, long

MCLength == (short :> 5) @@ (long :> 132)

(* Well-formed, truncated and lying frames of every kind. Data positions    *)
(* are left at 0: what the buffer holds is the subject of IsoTpLink.        *)
MCFrames ==
       [kind : {"SF"}, len : {0, 7}, dlc : {4, 8}, pdu : {short}]
  \cup [kind : {"FF"}, len : {7, 16, MaxPdu + 1}, dlc : {1, 4, 8}, pdu : {long}]
  \cup [kind : {"CF"}, seq : 0 .. 4, dlc : {4, 8}, pdu : {long}, at : {0}]
  \cup [kind : {"FC"}, fs : 0 .. 2, bs : {0, 2}, dlc : {2, 3}]
  \cup [kind : {"Other"}]
============================================================================
