---------------------------- MODULE SyslogClaims ----------------------------
(***************************************************************************)
(* What comments and documents say of the syslog writer.  TLC refutes      *)
(* each of these.                                                          *)
(***************************************************************************)
EXTENDS SyslogWriter

(* The head of write2syslog.c: it "handles the buffered transmission of    *)
(* escape-character-free lines to the syslog daemon".                      *)
EscapeFreeLines ==
  \A i \in 1 .. Len(sent) : \A k \in 1 .. Len(sent[i].text) : sent[i].text[k] # ESC
=============================================================================
