---------------------------- MODULE MCCanSniffer ----------------------------
(* TLC instances of the guided sniffer. *)
EXTENDS CanSniffer, TLC

TwoSteps == << [mode |-> "count", expected |-> 1], [mode |-> "count", expected |-> 2] >>

IdSymmetry == Permutations(Ids)
=============================================================================
