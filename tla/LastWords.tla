------------------------------ MODULE LastWords ------------------------------
(***************************************************************************)
(* What a session leaves in syslog on each way out: Session joined with    *)
(* dologging, the line buffer of write2syslog and endlogging.  A word is a *)
(* text given to dologging: a chunk of output, by its position, or a       *)
(* message of rootsh.  That the buffer keeps its characters is the         *)
(* business of SyslogWriter.  LogFile tells of the file; here it matters   *)
(* because endlogging gives up when it cannot write to it, and because it  *)
(* reports, to both logs, that users have tampered with it.  A failing     *)
(* write in dologging changes nothing: rootsh complains and goes on.       *)
(*                                                                         *)
(* A definition whose name ends in Bug is the definition after it with one *)
(* plausible mistake.                                                      *)
(***************************************************************************)
EXTENDS Session, Sequences

CONSTANTS
  Logs,         \* logtofile and logtosyslog: {"file", "syslog"} or one of them
  DiskMayFail   \* the disk of the logfile may be full

ASSUME LogsAssumption ==
  /\ Logs \subseteq {"file", "syslog"} /\ Logs # {}
  /\ DiskMayFail \in BOOLEAN

VARIABLES
  told,    \* history: all words given to dologging
  syslog,  \* those that have reached syslog
  rptr,    \* those write2syslog keeps until their line is complete
  closed,  \* the logs that got their closing message
  recovery, \* of a manipulated logfile: "none", "open" or "over"
  tries     \* forceopen's failed attempts

rescueVars == <<recovery, tries>>
logVars == <<told, syslog, rptr, closed, rescueVars>>
allVars == <<vars, logVars>>

(* The messages that end with CR and LF; the others have no CR.  The first *)
(* two are verdicts on the child, the others are endlogging's on the file. *)
Lines      == {"ended", "interrupted", "accusation", "retry", "recovered", "lost"}
Texts      == Lines \cup {"output", "error", "waitError", "commands"}
Words      == [text : Texts, n : Nat]
Output(n)  == [text |-> "output", n |-> n]
Message(t) == [text |-> t, n |-> 0]

(* beginlogging.  The commands of -c are the first words.                  *)
InitLogs ==
  /\ told \in {<<>>, <<Message("commands")>>}
  /\ syslog = <<>>
  /\ rptr = IF "syslog" \in Logs THEN told ELSE <<>>
  /\ closed = {}
  /\ recovery = "none" /\ tries = 0

(* dologging, when write2syslog keeps a beginning of a line.  The last CR  *)
(* is behind the first cr words.                                           *)
LogAfter(kept, words, cr) ==
  /\ told' = told \o words
  /\ IF "syslog" \notin Logs THEN UNCHANGED <<syslog, rptr>>
     ELSE IF cr = 0 THEN rptr' = kept \o words /\ UNCHANGED syslog
     ELSE /\ syslog' = syslog \o kept \o SubSeq(words, 1, cr)
          /\ rptr' = SubSeq(words, cr + 1, Len(words))
  /\ UNCHANGED closed

(* A call that brings no CR puts its words over those that were kept.      *)
LogWordsBug(words, cr) == LogAfter(IF cr = 0 THEN <<>> ELSE rptr, words, cr)
LogWords(words, cr)    == LogAfter(rptr, words, cr)

(* What a step of the session says: new output, in one call, or a message. *)
NewOutput == logged' # logged
Said ==
  IF NewOutput THEN [i \in 1 .. logged' - logged |-> Output(logged + i)]
  ELSE IF epilogue' # epilogue THEN <<Message(epilogue')>> ELSE <<>>

(* Output has its line breaks anywhere.                                    *)
Tell(lines) ==
  \E cr \in IF NewOutput THEN 0 .. Len(Said)
            ELSE IF epilogue' \in lines THEN {Len(Said)} ELSE {0} :
    LogWords(Said, cr) /\ UNCHANGED rescueVars

(* The closing line of a session that ended by itself has no CR.           *)
TellWordsBug == Tell({"interrupted"})
TellWords    == Tell(Lines)

(* endlogging.  Users may have removed or replaced the file: endlogging    *)
(* says so, and recoverfile saves what it can.                             *)
Report(text) ==
  /\ pc = "close" /\ LogWords(<<Message(text)>>, 1)
  /\ UNCHANGED vars

Accuse ==
  /\ "file" \in Logs /\ recovery = "none"
  /\ recovery' = "open" /\ Report("accusation")
  /\ UNCHANGED tries

(* forceopen says why an attempt failed, except of the third and last.     *)
Retry ==
  /\ recovery = "open" /\ tries < 2
  /\ tries' = tries + 1 /\ Report("retry")
  /\ UNCHANGED recovery

Recover ==
  /\ recovery = "open" /\ recovery' = "over"
  /\ Report("recovered") \/ (tries = 2 /\ Report("lost"))
  /\ UNCHANGED tries

(* When it cannot write its line to the file, before it looks for users'   *)
(* doings, endlogging returns.                                             *)
FailToClose ==
  /\ "file" \in Logs /\ DiskMayFail /\ recovery = "none"
  /\ UNCHANGED logVars

CloseLogs(logs) ==
  /\ recovery # "open" /\ closed' = logs
  /\ syslog' = syslog \o rptr /\ rptr' = <<>>
  /\ UNCHANGED <<told, rescueVars>>

(* The flush is forgotten.  syslog is closed though the file could not be. *)
NoFlushBug ==
  \/ FailToClose
  \/ recovery # "open" /\ closed' = Logs /\ UNCHANGED <<told, syslog, rptr, rescueVars>>
GoOnBug    == (DiskMayFail /\ CloseLogs(Logs \ {"file"})) \/ CloseLogs(Logs)
EndLogging == FailToClose \/ CloseLogs(Logs)

Others == Setup \/ Relay \/ RestoreTerminal \/ Wait \/ User \/ Shell

LogInit == Init /\ InitLogs
LogNext ==
  \/ Others /\ TellWords
  \/ Accuse \/ Retry \/ Recover
  \/ EndSession /\ EndLogging
LogSpec == LogInit /\ [][LogNext]_allVars
-----------------------------------------------------------------------------
LogTypeOK ==
  /\ told \in Seq(Words) /\ syslog \in Seq(Words) /\ rptr \in Seq(Words)
  /\ closed \subseteq Logs
  /\ recovery \in {"none", "open", "over"} /\ tries \in 0 .. 2

(* When rootsh has ended, syslog has everything the session said, in its   *)
(* order, if there was a verdict on the child, if users' tampering was     *)
(* reported, however far its recovery got, or if syslog got its closing    *)
(* message: though endlogging skips the flush when the disk is full, the   *)
(* carriage return of the verdict has brought the rest out.                *)
SyslogComplete ==
  /\ pc = "exited" /\ "syslog" \in Logs
  /\ epilogue \in Lines \/ recovery # "none" \/ "syslog" \in closed
  => syslog = told

(* After an error exit syslog lacks what was said since the last carriage  *)
(* return, and always the reason: its text has no CR and nobody flushes.   *)
(* Nothing else is missing there, and neither log is closed.               *)
ReasonUnsent ==
  epilogue = "error" =>
    /\ closed = {}
    /\ "syslog" \in Logs =>
         syslog \o rptr = told /\ rptr # <<>> /\ rptr[Len(rptr)] = Message("error")

(* The last words are the verdict on the child, or the failure to get one; *)
(* or behind it an account of users' tampering that has come to its end:   *)
(* accusation, complaints of forceopen, outcome, and a log given up for    *)
(* lost only behind two complaints.                                        *)
Accounted ==
  LET last == Len(told) IN
  \/ told[last] = Message(epilogue)
  \/ \E n \in 1 .. last - 2 :
       /\ told[n] = Message(epilogue) /\ told[n + 1] = Message("accusation")
       /\ \A k \in n + 2 .. last - 1 : told[k] = Message("retry")
       /\ \/ told[last] = Message("recovered") /\ last - n <= 4
          \/ told[last] = Message("lost") /\ last - n = 4

(* The logs are closed together or not at all, only by finish, and only    *)
(* when the account is complete: not while the recovery is under way, also *)
(* if rootsh is killed in it.                                              *)
ClosedTogether == closed # {} => closed = Logs /\ LogClosed /\ Accounted
=============================================================================
