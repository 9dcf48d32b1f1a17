------------------------------ MODULE Recorder ------------------------------
(***************************************************************************)
(* What a session recorder promises about the output of a terminal         *)
(* session, whatever its event loop looks like: a chunk is recorded before *)
(* the user can see it, in the order in which it was written, and the      *)
(* record never runs ahead of the session.                                 *)
(***************************************************************************)
EXTENDS Naturals

VARIABLES
  written,    \* chunks the session has written
  recorded,   \* how many of them are in the log
  displayed,  \* how many of them the user has been shown
  ended       \* the recorder is gone

vars == <<written, recorded, displayed, ended>>

Init == written = 0 /\ recorded = 0 /\ displayed = 0 /\ ended = FALSE

Write ==
  /\ ~ended
  /\ written' = written + 1
  /\ UNCHANGED <<recorded, displayed, ended>>

Record ==
  /\ ~ended
  /\ recorded' \in recorded + 1 .. written
  /\ UNCHANGED <<written, displayed, ended>>

Display ==
  /\ ~ended
  /\ displayed' \in displayed + 1 .. recorded
  /\ UNCHANGED <<written, recorded, ended>>

End ==
  /\ ~ended
  /\ ended' = TRUE
  /\ UNCHANGED <<written, recorded, displayed>>

Next == Write \/ Record \/ Display \/ End

Spec == Init /\ [][Next]_vars
=============================================================================
