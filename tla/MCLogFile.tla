------------------------------ MODULE MCLogFile ------------------------------
(* Instances of LogFile for TLC.                                           *)
EXTENDS LogFile, TLC

OneName  == [s \in Sessions |-> "a"]
InodeSymmetry == Permutations(Inodes)
RecoverFaults == {"recover", "copy"}
WriteFaults == {"open", "write", "copy", "kill"}
AllTampering == TamperKinds
NoTampering == {}
=============================================================================
