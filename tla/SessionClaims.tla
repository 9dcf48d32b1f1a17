--------------------------- MODULE SessionClaims ---------------------------
(***************************************************************************)
(* What the repository's documents and comments say of a session, stated   *)
(* as they say it.  TLC refutes each of these: the exact behaviour is what *)
(* the properties of Session say.                                          *)
(***************************************************************************)
EXTENDS Session

(* README, "How it works": "Every output including the echoed input will   *)
(* be written to a logfile and to the syslog daemon."  A log that ends     *)
(* with "session ended by user" holds all the output of the session.       *)
EveryOutputLogged == (LogClosed /\ epilogue = "ended") => logged = produced
=============================================================================
