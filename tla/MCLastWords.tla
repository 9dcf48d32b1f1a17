----------------------------- MODULE MCLastWords -----------------------------
(* Instances of LastWords for TLC.                                         *)
EXTENDS LastWords

AllFaults == FaultKinds
=============================================================================
