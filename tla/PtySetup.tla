------------------------------- MODULE PtySetup -------------------------------
(***************************************************************************)
(* forkpty as rootsh emulates it where the C library has none: the pair of *)
(* terminals is made by rootsh, and the child gives itself its terminal,   *)
(* its modes, its size and its descriptors while rootsh already goes on.   *)
(* Session knows one step for all of this.  Here it stays as what forkpty  *)
(* promises, and runs in step with what the child really does: a step of   *)
(* the child that Session does not know leaves Session's variables alone.  *)
(* Once no process has the pty's slave open rootsh may read a hangup from  *)
(* the master; Session lets it do so also before the slave was ever        *)
(* opened, where some systems block: this adds behaviours and hides none.  *)
(*                                                                         *)
(* A definition whose name ends in Bug is the definition after it with one *)
(* plausible mistake.                                                      *)
(***************************************************************************)
EXTENDS Session

CONSTANTS
  Logs,      \* the descriptors of logging: a subset of {"logFile", "syslog"}
  Streams    \* the build: the modules pushed on the slave, none for AIX

ASSUME PtyAssumption == Logs \subseteq {"logFile", "syslog"}

VARIABLES
  pty,       \* how far the pair of terminals is prepared
  cpc,       \* where the child is
  table,     \* the child's descriptors, and what they are open on
  ctty,      \* its controlling terminal
  pushed,    \* the modules on the slave
  modes,     \* the slave's modes: "default" or those of the caller
  copy,      \* the child's copy of winSize
  ptySize,   \* the size of the pty: none yet, or one
  late       \* history: the child has set a size older than the pty's

setupVars == <<ctty, pushed, modes>>
ptyVars   == <<pty, cpc, table, setupVars, copy, ptySize, late>>
wholeVars == <<vars, ptyVars>>

Std   == {"0", "1", "2"}
Fds   == Std \cup {"master", "logFile", "syslog", "slave"}
(* Between fork and exec; the steps that may fail; with the size set.      *)
Young == {"setsid", "open", "push", "modes", "size", "close", "dup", "exec"}
Risky == {"open", "push", "modes", "size", "exec"}
Sized == {"close", "dup", "exec", "shell"}

PtyInit ==
  /\ Init
  /\ pty = "none" /\ cpc = "none" /\ ctty = "user's" /\ pushed = {} /\ modes = "default"
  /\ table = [f \in Fds |-> "closed"]
  /\ copy = winSize /\ ptySize = {} /\ late = FALSE
-----------------------------------------------------------------------------
(* The parent, up to the return of forkpty.                                *)

(* open, grantpt, unlockpt; ForkPtyFails stands for the failure of each.   *)
Preparation == <<"none", "open", "granted", "unlocked">>
Prepare ==
  /\ pc = "fork"
  /\ \E i \in 1 .. 3 : pty = Preparation[i] /\ pty' = Preparation[i + 1]
  /\ UNCHANGED <<vars, cpc, table, setupVars, copy, ptySize, late>>

(* The child inherits rootsh's descriptors and a copy of its winSize.      *)
Fork ==
  /\ pty = "unlocked" /\ ForkPty
  /\ cpc' = "setsid" /\ copy' = winSize
  /\ table' = [f \in Fds |-> IF f \in Std THEN "user's"
                             ELSE IF f \in Logs \cup {"master"} THEN f ELSE "closed"]
  /\ UNCHANGED <<pty, setupVars, ptySize, late>>

(* TIOCSWINSZ on the master is noticed by the slave.                       *)
ForwardTo(sizes) ==
  /\ ForwardWinSize
  /\ ptySize' = sizes /\ late' = FALSE
  /\ UNCHANGED <<pty, cpc, table, setupVars, copy>>

(* The size is set on stdin instead of masterPty.                          *)
ForwardBug == ForwardTo(ptySize)
Forward    == ForwardTo({winSize})
-----------------------------------------------------------------------------
(* The child.                                                              *)

ChildGoes(from, to) ==
  /\ Live /\ child = "running" /\ cpc = from /\ cpc' = to
  /\ UNCHANGED <<vars, pty, copy>>

SetSid ==
  /\ ChildGoes("setsid", "open")
  /\ ctty' = "none"
  /\ UNCHANGED <<table, pushed, modes, ptySize, late>>

(* ptsname and open.  A leader of a session without a terminal gets it.    *)
OpenSlave ==
  /\ ChildGoes("open", "push")
  /\ table' = [table EXCEPT !["slave"] = "slave"]
  /\ ctty' = IF ctty = "none" THEN "slave" ELSE ctty
  /\ UNCHANGED <<pushed, modes, ptySize, late>>

PushStreams ==
  /\ ChildGoes("push", "modes")
  /\ pushed' = Streams
  /\ UNCHANGED <<table, ctty, modes, ptySize, late>>

CopyModes ==
  /\ ChildGoes("modes", "size")
  /\ modes' = "caller's"
  /\ UNCHANGED <<table, ctty, pushed, ptySize, late>>

(* TIOCSWINSZ on the slave, whatever rootsh has set in the meantime.       *)
CopyWinSize ==
  /\ ChildGoes("size", "close")
  /\ ptySize' = {copy} /\ late' = (ptySize \notin {{}, {copy}})
  /\ UNCHANGED <<table, setupVars>>

Close(fds) ==
  /\ ChildGoes("close", "dup")
  /\ table' = [f \in Fds |-> IF f \in fds THEN "closed" ELSE table[f]]
  /\ UNCHANGED <<setupVars, ptySize, late>>

(* The logs are left open for the shell.                                   *)
CloseOthersBug == Close({"master"})
CloseOthers    == Close(Logs \cup {"master"})

DupSlave ==
  /\ ChildGoes("dup", "exec")
  /\ table' = [f \in Fds |-> IF f \in Std THEN table["slave"]
                             ELSE IF f = "slave" THEN "closed" ELSE table[f]]
  /\ UNCHANGED <<setupVars, ptySize, late>>

ExecShell ==
  /\ ChildGoes("exec", "shell")
  /\ UNCHANGED <<table, setupVars, ptySize, late>>

(* forkpty returns -1 in the child too, and main exits; or exec fails.     *)
GiveUp(status) ==
  /\ cpc \in Risky /\ "fork" \in Faults /\ child = "running" /\ ChildExit(status)
  /\ cpc' = "failed"
  /\ UNCHANGED <<pty, table, setupVars, copy, ptySize, late>>

(* main runs to its end.                                                   *)
ChildFailsBug == GiveUp("ok")
ChildFails    == GiveUp("err")

ChildSetup == \/ SetSid \/ OpenSlave \/ PushStreams \/ CopyModes \/ CopyWinSize
              \/ CloseOthers \/ DupSlave \/ ExecShell \/ ChildFails
-----------------------------------------------------------------------------
(* Session's other steps.  Only a shell writes, reads, starts processes    *)
(* and exits as it likes; a signal may end or stop the child at any time.  *)
ShellOnly == \/ ChildWrite \/ ChildWritten \/ ChildRead \/ ChildSpawn
             \/ OtherWrite \/ OtherExit
             \/ \E status \in {"ok", "err"} : ChildExit(status)
Anytime   == \/ SaveTerminal \/ ForkPtyFails \/ SetRaw \/ InstallHandlers \/ ClearFlags
             \/ EnterSelect \/ Select \/ ReadStdin \/ WritePty \/ ReadPty
             \/ LogOutput \/ ShowOutput \/ ReadWinSize \/ WinchDone \/ CheckStop
             \/ Finish \/ User \/ ChildStop \/ ChildContinue \/ ChildExit("sig")

PtyNext ==
  \/ Prepare \/ Fork \/ Forward \/ ChildSetup
  \/ cpc = "shell" /\ ShellOnly /\ UNCHANGED ptyVars
  \/ Anytime /\ UNCHANGED ptyVars
PtySpec == PtyInit /\ [][PtyNext]_wholeVars
-----------------------------------------------------------------------------
(* When the shell starts it is the leader of a session on the slave, in    *)
(* the caller's modes, with the slave on its standard descriptors and      *)
(* nothing else open: neither the master, which would keep the pty from    *)
(* hanging up, nor rootsh's logs.                                          *)
ShellOnSlave ==
  cpc = "shell" =>
    /\ table = [f \in Fds |-> IF f \in Std THEN "slave" ELSE "closed"]
    /\ ctty = "slave" /\ pushed = Streams /\ modes = "caller's"

(* The child sees the size that Session claims it sees, and so that of the *)
(* terminal when no resize is pending or was missed, unless rootsh         *)
(* forwarded a newer size before the child had set the one it was born     *)
(* with; the next resize makes up for that.                                *)
ShellSeesSize ==
  cpc \in Sized /\ ~late =>
    /\ ptySize = {slaveSize}
    /\ pc \notin SetupPCs /\ ~missed /\ "WINCH" \notin flags => ptySize = {termSize}

(* rootsh does not report success of a session whose shell never ran,      *)
(* though its log says "session ended by user".                            *)
NoShellNoSuccess == exitStatus = "ok" => cpc = "shell"
=============================================================================
