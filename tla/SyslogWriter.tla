---------------------------- MODULE SyslogWriter ----------------------------
(***************************************************************************)
(* write2syslog: output arrives in arbitrary chunks, a line leaves for     *)
(* syslog at every carriage return, the rest is kept for the next call.    *)
(* endlogging's last call flushes it.  A call is taken apart at each line  *)
(* it sends: nothing else of it can be seen from outside.                  *)
(*                                                                         *)
(* A definition whose name ends in Bug is the definition after it with one *)
(* plausible mistake.                                                      *)
(***************************************************************************)
EXTENDS StripEsc

CONSTANTS
  Chars,     \* the characters the session prints
  MaxChunk,  \* bound: characters in one call
  MaxInput,  \* bound: characters in all calls together
  LineWrap   \* the line counter starts again at 0 here: 101 in the code

LF == 10
CR == 13

ASSUME WriterAssumption ==
  /\ Chars \subseteq 0 .. 255
  /\ MaxChunk \in Nat /\ MaxInput \in Nat
  /\ LineWrap \in Nat /\ LineWrap > 1

VARIABLES
  pc,        \* "idle" between calls, "scan" in one, "closed" after closelog
  rptr,      \* the characters kept; empty when the pointer is NULL
  tptr,      \* how many of them are behind tptr
  rflag,     \* a CR was found in this call, or else in the one before
  linecnt,
  vtstate,   \* of stripesc
  closing,   \* this is the call endlogging makes
  sent,      \* the messages syslog was given
  received   \* history: all characters of all calls

vars == <<pc, rptr, tptr, rflag, linecnt, vtstate, closing, sent, received>>

Chunks(n) == UNION {[1 .. k -> Chars] : k \in 1 .. n}
Room      == MaxInput - Len(received)

Init ==
  /\ pc = "idle" /\ rptr = <<>> /\ tptr = 0 /\ rflag = FALSE
  /\ linecnt = 0 /\ vtstate = "Normal" /\ closing = FALSE
  /\ sent = <<>> /\ received = <<>>

(* The beginning of write2syslog: a line feed that seems to belong to the  *)
(* carriage return before it is skipped, the rest is appended to rptr.     *)
Enter(chunk) ==
  /\ pc = "idle" /\ ~closing
  /\ rptr' = rptr \o (IF rflag /\ chunk[1] = LF THEN Tail(chunk) ELSE chunk)
  /\ received' = received \o chunk
  /\ rflag' = FALSE /\ tptr' = 0 /\ pc' = "scan"
  /\ UNCHANGED <<linecnt, vtstate, sent>>

(* dologging calls for some output of the session.                         *)
Write ==
  /\ Room > 0
  /\ \E chunk \in Chunks(IF Room < MaxChunk THEN Room ELSE MaxChunk) : Enter(chunk)
  /\ UNCHANGED closing

(* endlogging calls, to flush.                                             *)
FlushWith(chunk) == Enter(chunk) /\ closing' = TRUE
(* A bare line feed does not end a line.                                   *)
CloseBug == FlushWith(<<LF>>)
Close    == FlushWith(<<CR, LF>>)

(* lptr: the first CR from tptr on.                                        *)
FoundCR(lptr) ==
  /\ lptr \in tptr + 1 .. Len(rptr)
  /\ rptr[lptr] = CR
  /\ \A i \in tptr + 1 .. lptr - 1 : rptr[i] # CR
NoCR == \A i \in tptr + 1 .. Len(rptr) : rptr[i] # CR

(* A C string ends before the first NUL.                                   *)
EndsAt(text, k) ==
  /\ \A i \in 1 .. k : text[i] # NUL
  /\ k < Len(text) => text[k + 1] = NUL
(* The text is sent whatever its characters are.                           *)
CStringBug(text) == text
CString(text) ==
  SubSeq(text, 1, CHOOSE k \in 0 .. Len(text) : EndsAt(text, k))

(* One line goes to syslog.  The search goes on behind the CR, behind a    *)
(* line feed after it if more characters follow.                           *)
Send(next, wrap) ==
  /\ pc = "scan"
  /\ \E lptr \in tptr + 1 .. Len(rptr) :
       /\ FoundCR(lptr)
       /\ LET r == stripesc(vtstate, CString(SubSeq(rptr, tptr + 1, lptr - 1)))
          IN sent' = Append(sent, [num |-> linecnt, text |-> r.line]) /\ vtstate' = r.vt
       /\ tptr' = next[lptr]
  /\ linecnt' = IF linecnt + 1 = wrap THEN 0 ELSE linecnt + 1
  /\ rflag' = TRUE
  /\ UNCHANGED <<pc, rptr, closing, received>>

BehindCR ==
  [lptr \in 1 .. Len(rptr) |->
     IF lptr + 1 < Len(rptr) /\ rptr[lptr + 1] = LF THEN lptr + 1 ELSE lptr]

(* Any character behind a CR is taken for its line feed.  The counter      *)
(* is reset after every line.                                              *)
SkipAnyBug == Send([lptr \in 1 .. Len(rptr) |-> lptr + 1], LineWrap)
StuckBug   == Send(BehindCR, linecnt + 1)
SendLine   == Send(BehindCR, LineWrap)

(* The end of write2syslog: line feeds in front are skipped, what follows  *)
(* is moved to the beginning of the buffer.                                *)
Keep(move) ==
  /\ pc = "scan" /\ NoCR
  /\ \E k \in tptr .. Len(rptr) :
       /\ \A i \in tptr + 1 .. k : rptr[i] = LF
       /\ k < Len(rptr) => rptr[k + 1] # LF
       /\ rptr' = IF move THEN SubSeq(rptr, k + 1, Len(rptr)) ELSE rptr
  /\ tptr' = 0
  /\ pc' = IF closing THEN "closed" ELSE "idle"
  /\ UNCHANGED <<rflag, linecnt, vtstate, closing, sent, received>>

(* The memmove is forgotten.  The loop over line feeds does not advance    *)
(* tptr: it has no end.                                                    *)
KeepRestBug == Keep(FALSE)
EndlessBug  == (tptr < Len(rptr) => rptr[tptr + 1] # LF) /\ Keep(TRUE)
KeepRest    == Keep(TRUE)

(* The realloc of a buffer that holds something fails: exit.               *)
OutOfMemory ==
  /\ \/ pc = "idle" /\ rptr # <<>>
     \/ pc = "scan" /\ NoCR /\ tptr < Len(rptr)
  /\ pc' = "exited"
  /\ UNCHANGED <<rptr, tptr, rflag, linecnt, vtstate, closing, sent, received>>

Next == Write \/ Close \/ SendLine \/ KeepRest \/ OutOfMemory

Spec == Init /\ [][Next]_vars
(* A call runs to its end.                                                 *)
FairSpec == Spec /\ WF_vars(SendLine \/ KeepRest)
-----------------------------------------------------------------------------
(* A text without its line feeds.                                          *)
NoLF(text) ==
  LET kept[i \in 0 .. Len(text)] ==
        IF i = 0 THEN <<>>
        ELSE IF text[i] = LF THEN kept[i - 1] ELSE Append(kept[i - 1], text[i])
  IN  kept[Len(text)]

(* What is heard of a text up to each place of it: no line breaks, and     *)
(* nothing from a NUL to the CR that ends its line.                        *)
Hearing(text) ==
  LET heard[i \in 0 .. Len(text)] ==
        IF i = 0 THEN [silent |-> FALSE, text |-> <<>>]
        ELSE CASE text[i] = NUL -> [heard[i - 1] EXCEPT !.silent = TRUE]
               [] text[i] = CR  -> [heard[i - 1] EXCEPT !.silent = FALSE]
               [] text[i] = LF  -> heard[i - 1]
               [] OTHER -> IF heard[i - 1].silent THEN heard[i - 1]
                           ELSE [heard[i - 1] EXCEPT !.text = Append(@, text[i])]
  IN  heard
Heard(text) == Hearing(text)[Len(text)].text

Unsent    == SubSeq(rptr, tptr + 1, Len(rptr))
SentLines == [i \in 1 .. Len(sent) |-> NoLF(sent[i].text)]

TypeOK ==
  /\ pc \in {"idle", "scan", "closed", "exited"}
  /\ rptr \in Seq(Chars \cup {CR, LF})
  /\ tptr \in 0 .. Len(rptr)
  /\ rflag \in BOOLEAN /\ closing \in BOOLEAN
  /\ linecnt \in 0 .. LineWrap - 1
  /\ vtstate \in VtStates
  /\ Len(sent) \in Nat
  /\ received \in Seq(Chars \cup {CR, LF})

(* However the output was cut into calls, what was sent and what is kept   *)
(* are together the characters received, in their order: only line breaks  *)
(* are dropped, and what follows a NUL in its line.                        *)
NothingLost ==
  FlattenSeq(SentLines) \o Heard(Unsent) = Heard(received)

(* LineLog with line feeds disregarded: every CR ends exactly one line,    *)
(* of which the text before a NUL is sent, and the lines do not depend on  *)
(* how the output was cut into calls.                                      *)
Lines == INSTANCE LineLog
  WITH Chars <- Chars \cup {CR}, todo <- NoLF(Unsent), lines <- SentLines
KeepsLines == Lines!Spec

(* No complete line is left behind by a call, so that a line is in syslog  *)
(* as soon as its CR was printed.                                          *)
NoLineKept == pc = "idle" => NoCR

(* endlogging's call flushes everything.                                   *)
ClosedEmpty == pc = "closed" => rptr = <<>>

(* The counter "allows the detection of dropped lines": from the numbers   *)
(* of two messages that arrive follows how many there were between them,   *)
(* up to multiples of LineWrap.                                            *)
GapsShow ==
  \A i, j \in 1 .. Len(sent) :
    i < j => (sent[j].num - sent[i].num) % LineWrap = (j - i) % LineWrap

(* A call returns: each turn of its loop leaves less to search.            *)
CallsReturn == pc = "scan" ~> pc # "scan"
=============================================================================
