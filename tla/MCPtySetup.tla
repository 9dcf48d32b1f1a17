------------------------------ MODULE MCPtySetup ------------------------------
(* Instances of PtySetup for TLC.                                          *)
EXTENDS PtySetup

ForkFaults == {"fork", "kill"}
BothLogs   == {"logFile", "syslog"}
Solaris    == {"ptem", "ldterm", "ttcompat"}
=============================================================================
