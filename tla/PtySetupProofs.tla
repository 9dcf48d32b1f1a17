---------------------------- MODULE PtySetupProofs ----------------------------
(***************************************************************************)
(* What the emulated forkpty gives the shell, for every interleaving with  *)
(* the session, every bound and every build.                               *)
(***************************************************************************)
EXTENDS PtySetup, SessionProofs

(* How a step that is none of the child's own bears on the child: it leaves *)
(* the size alone, ends the child by a signal only, and neither enters nor *)
(* leaves the time before fork.                                            *)
Unforked == {"save", "fork"}
Moves ==
  /\ pc \in Unforked \cup {"exited"} => pc' \in Unforked \cup {"exited"}
  /\ pc' \in Unforked => pc \in Unforked
Aside ==
  /\ UNCHANGED slaveSize /\ Moves
  /\ childStatus' = "ok" => childStatus = "ok"
  /\ child # "none" => child' # "none"

LEMMA AnytimeStep == ASSUME TypeOK, Anytime PROVE Aside
<1> USE DEF Aside, Moves, Unforked, procVars, sizeVars, childVars, inVars, outVars, endVars
<1>1. CASE SaveTerminal \/ ForkPtyFails \/ SetRaw \/ InstallHandlers \/ ClearFlags
  BY <1>1 DEF SaveTerminal, ForkPtyFails, SetRaw, InstallHandlers, ClearFlags, Fail
<1>2. CASE EnterSelect \/ Select \/ ReadStdin \/ WritePty \/ ReadPty \/ LogOutput
  BY <1>2 DEF EnterSelect, Select, ReadStdin, WritePty, WriteToPty, ReadPty, ReadPtyWhen,
              LogOutput, LogUpTo, Fail
<1>3. CASE ShowOutput \/ ReadWinSize \/ WinchDone \/ CheckStop
  BY <1>3 DEF ShowOutput, ReadWinSize, ReadWinSizeAs, WinchDone, Forget, CheckStop,
              StopOn, Fail
<1>4. CASE Finish
  BY <1>4 DEF Finish, RestoreTerminal, RestoreTo, Wait, WaitAnd, EndSession
<1>5. CASE Type \/ CloseStdin \/ Kill
  BY <1>5 DEF Type, CloseStdin, Kill, Die, Live
<1>6. ASSUME NEW s, Deliver(s)
      PROVE  Moves
  BY <1>6, DeliverEffect DEF Undisturbed, Terminated, Diverted, DefaultPCs
<1>7. CASE Resize \/ ChildStop \/ ChildContinue \/ ChildExit("sig")
  BY <1>6, <1>7 DEF Resize, ChildStop, ChildContinue, ChildExit
<1>8. ASSUME NEW s \in Signals, Signal(s) PROVE Aside
  BY <1>6, <1>8 DEF Signal
<1> QED
  BY <1>1, <1>2, <1>3, <1>4, <1>5, <1>7, <1>8 DEF Anytime, User

LEMMA ShellOnlyStep ==
  ASSUME TypeOK, ShellOnly
  PROVE  UNCHANGED slaveSize /\ Moves /\ (child # "none" => child' # "none")
<1> USE DEF Moves, Unforked
<1>1. ASSUME NEW s, Deliver(s) PROVE Moves
  BY <1>1, DeliverEffect DEF Undisturbed, Terminated, Diverted, DefaultPCs
<1> QED
  BY <1>1 DEF ShellOnly, ChildWrite, ChildWritten, ChildRead, ChildSpawn, OtherWrite,
         OtherExit, ChildExit, sizeVars,
         procVars, childVars

LEMMA PtyStepIsStep == [PtyNext]_wholeVars => [Next]_vars
  BY DEF PtyNext, Prepare, Fork, Forward, ForwardTo, ChildSetup, SetSid, OpenSlave,
         PushStreams, CopyModes, CopyWinSize, CloseOthers, Close, DupSlave, ExecShell,
         ChildFails, GiveUp, ChildGoes, ShellOnly, Anytime, wholeVars,
         Next, Rootsh, Setup, Relay, User, Shell
-----------------------------------------------------------------------------
(* The child's descriptors, step by step.                                  *)
Inherited == [f \in Fds |-> IF f \in Std THEN "user's"
                            ELSE IF f \in Logs \cup {"master"} THEN f ELSE "closed"]
Opened    == [Inherited EXCEPT !["slave"] = "slave"]
SlaveOnly == [f \in Fds |-> IF f \in Std THEN "user's"
                            ELSE IF f = "slave" THEN "slave" ELSE "closed"]
Shells    == [f \in Fds |-> IF f \in Std THEN "slave" ELSE "closed"]

TableInv ==
  /\ cpc \in {"setsid", "open"} => table = Inherited
  /\ cpc \in {"push", "modes", "size", "close"} => table = Opened
  /\ cpc = "dup" => table = SlaveOnly
  /\ cpc \in {"exec", "shell"} => table = Shells

TerminalSetInv ==
  /\ cpc = "open" => ctty = "none"
  /\ cpc \in {"push", "modes", "size"} \cup Sized => ctty = "slave"
  /\ cpc \in {"modes", "size"} \cup Sized => pushed = Streams
  /\ cpc \in {"size"} \cup Sized => modes = "caller's"

(* A size is pending in copy, unless rootsh has forwarded one.             *)
PtySizeInv ==
  /\ cpc = "none" => ptySize = {} /\ pc \in Unforked \cup {"exited"}
  /\ cpc # "none" => pc \notin Unforked /\ child # "none"
  /\ cpc \in Young \ Sized =>
       \/ ptySize = {} /\ slaveSize = copy
       \/ ptySize = {slaveSize}
  /\ cpc \in Sized /\ ~late => ptySize = {slaveSize}

NoShellInv == childStatus = "ok" => cpc = "shell"

PtyInv == TableInv /\ TerminalSetInv /\ PtySizeInv /\ NoShellInv

LEMMA InitPty == PtyInit => PtyInv
  BY DEF PtyInit, Init, PtyInv, TableInv, TerminalSetInv, PtySizeInv, NoShellInv,
         Young, Sized, Unforked

LEMMA CloseTable == [f \in Fds |-> IF f \in Logs \cup {"master"} THEN "closed" ELSE Opened[f]]
                      = SlaveOnly
  BY PtyAssumption DEF Opened, Inherited, SlaveOnly, Fds, Std

LEMMA DupTable == [f \in Fds |-> IF f \in Std THEN SlaveOnly["slave"]
                             ELSE IF f = "slave" THEN "closed" ELSE SlaveOnly[f]]
                    = Shells
  BY DEF SlaveOnly, Shells, Fds, Std

LEMMA ChildSetupStep ==
  ASSUME TypeOK, PtyInv, ChildSetup PROVE PtyInv'
<1> USE DEF PtyInv, TableInv, TerminalSetInv, PtySizeInv, NoShellInv
<1> USE DEF Young, Sized, Unforked, Moves, ChildGoes, setupVars, vars, sizeVars, childVars
<1>1. CASE SetSid
  BY <1>1 DEF SetSid, procVars
<1>2. CASE OpenSlave
  BY <1>2 DEF OpenSlave, procVars, Opened
<1>3. CASE PushStreams \/ CopyModes
  BY <1>3 DEF PushStreams, CopyModes, procVars
<1>4. CASE CopyWinSize
  BY <1>4 DEF CopyWinSize, procVars
<1>5. CASE CloseOthers
  BY <1>5, CloseTable DEF CloseOthers, Close, procVars
<1>6. CASE DupSlave
  BY <1>6, DupTable DEF DupSlave, procVars
<1>7. CASE ExecShell
  BY <1>7 DEF ExecShell, procVars
<1>8. CASE ChildFails
  <2>1. Deliver("CHLD") /\ child' = "zombie"
    BY <1>8 DEF ChildFails, GiveUp, ChildExit
  <2>2. Moves
    BY <2>1, DeliverEffect DEF Undisturbed, Terminated, Diverted, DefaultPCs
  <2> QED
    BY <1>8, <2>1, <2>2 DEF ChildFails, GiveUp, ChildExit, Risky
<1> QED
  BY <1>1, <1>2, <1>3, <1>4, <1>5, <1>6, <1>7, <1>8 DEF ChildSetup

LEMMA PtyStep == ASSUME TypeOK, PtyInv, [PtyNext]_wholeVars PROVE PtyInv'
<1> USE DEF PtyInv, Unforked, Moves
<1>1. CASE Prepare
  BY <1>1 DEF Prepare, TableInv, TerminalSetInv, PtySizeInv, NoShellInv, setupVars,
              vars, procVars, sizeVars, childVars
<1>2. CASE Fork
  BY <1>2 DEF Fork, ForkPty, TableInv, TerminalSetInv, PtySizeInv, NoShellInv,
              Inherited, Young, Sized, procVars
<1>3. CASE Forward
  BY <1>3 DEF Forward, ForwardTo, ForwardWinSize, TableInv, TerminalSetInv, PtySizeInv,
              NoShellInv, setupVars, childVars, Young, Sized
<1>4. CASE ChildSetup
  BY <1>4, ChildSetupStep
<1>5. CASE cpc = "shell" /\ ShellOnly /\ UNCHANGED ptyVars
  BY <1>5, ShellOnlyStep DEF ptyVars, TableInv, TerminalSetInv, PtySizeInv, NoShellInv,
              setupVars, Young, Sized
<1>6. CASE Anytime /\ UNCHANGED ptyVars
  BY <1>6, AnytimeStep DEF Aside, ptyVars, TableInv, TerminalSetInv, PtySizeInv,
              NoShellInv, setupVars
<1>7. CASE UNCHANGED wholeVars
  BY <1>7 DEF wholeVars, vars, procVars, sizeVars, childVars, ptyVars, setupVars,
              TableInv, TerminalSetInv, PtySizeInv, NoShellInv
<1> QED
  BY <1>1, <1>2, <1>3, <1>4, <1>5, <1>6, <1>7 DEF PtyNext

THEOREM PtyInvHolds == PtySpec => [](SafetyInv /\ PtyInv)
<1>1. PtyInit => Init /\ PtyInv
  BY InitPty DEF PtyInit
<1>2. SafetyInv /\ PtyInv /\ [PtyNext]_wholeVars => PtyInv'
  BY PtyStep DEF SafetyInv
<1>3. PtySpec => Spec
  BY <1>1, PtyStepIsStep, PTL DEF PtySpec, Spec
<1> QED
  BY <1>1, <1>2, <1>3, SafetyInvHolds, PTL DEF PtySpec

(* The shell starts on the slave, with nothing of rootsh's left open.      *)
THEOREM ShellStartsOnSlave == PtySpec => []ShellOnSlave
<1>1. PtyInv => ShellOnSlave
  BY DEF PtyInv, TableInv, TerminalSetInv, Shells, Sized, ShellOnSlave
<1> QED
  BY <1>1, PtyInvHolds, PTL

(* The size promised by forkpty is the one the child sees, unless a newer  *)
(* one came first.                                                         *)
THEOREM SizeReachesShell == PtySpec => []ShellSeesSize
<1>1. SafetyInv /\ PtyInv => ShellSeesSize
  BY DEF SafetyInv, SizeInv, WinSizeInStep, PtyInv, PtySizeInv, ShellSeesSize
<1> QED
  BY <1>1, PtyInvHolds, PTL

(* Success is never reported of a shell that did not run.                  *)
THEOREM SuccessNeedsShell == PtySpec => []NoShellNoSuccess
<1>1. SafetyInv /\ PtyInv => NoShellNoSuccess
  BY DEF SafetyInv, VerdictInv, VerdictTruthful, PtyInv, NoShellInv, NoShellNoSuccess
<1> QED
  BY <1>1, PtyInvHolds, PTL
=============================================================================
