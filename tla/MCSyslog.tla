------------------------------ MODULE MCSyslog ------------------------------
(* Instances of SyslogWriter for TLC.  97 is the letter a.                 *)
EXTENDS SyslogClaims

PlainChars == {97, NUL, LF, CR}
EscChars   == {97, ESC, CR}
=============================================================================
