----------------------------- MODULE MCSession -----------------------------
(* Instances of Session for TLC.                                           *)
EXTENDS SessionClaims

(* No failure the kernel does not owe to a signal, but at the ends of the  *)
(* session: fork may fail, and somebody may kill rootsh.                   *)
Ends    == {"fork", "kill"}
NoFault == {}
=============================================================================
