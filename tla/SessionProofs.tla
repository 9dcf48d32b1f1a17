--------------------------- MODULE SessionProofs ---------------------------
(***************************************************************************)
(* The safety properties of Session, proved for every bound, capacity, set *)
(* of window sizes and set of faults.                                      *)
(***************************************************************************)
EXTENDS Session, TLAPS

(* The Boolean variables, apart because their leaves need another prover.  *)
BoolOK == missed \in BOOLEAN /\ held \in BOOLEAN /\ writing \in BOOLEAN /\ eof \in BOOLEAN

(* The variables a signal may change.                                      *)
SignalOK ==
  /\ pc \in PCs
  /\ ready \subseteq {"stdin", "pty"}
  /\ buf \in Nat
  /\ flags \subseteq Signals
  /\ shown \in Nat
  /\ epilogue \in Closers \cup {"none", "error"}
  /\ exitStatus \in {"none", "ok", "err", "killed"}

LEMMA BoolStep == ASSUME TypeOK, [Next]_vars PROVE BoolOK'
<1> USE DEF BoolOK, TypeOK
<1> USE DEF vars, procVars, sizeVars, childVars, inVars, outVars, endVars
<1>1. CASE SaveTerminal
  BY Zenon, <1>1 DEF SaveTerminal
<1>2. CASE ForkPty
  BY Zenon, <1>2 DEF ForkPty
<1>3. CASE ForkPtyFails
  BY Zenon, <1>3 DEF ForkPtyFails
<1>4. CASE SetRaw
  BY Zenon, <1>4 DEF SetRaw
<1>5. CASE InstallHandlers
  BY Zenon, <1>5 DEF InstallHandlers
<1>6. CASE ClearFlags
  BY Zenon, <1>6 DEF ClearFlags
<1>7. CASE EnterSelect
  BY Zenon, <1>7 DEF EnterSelect
<1>8. CASE Select
  BY Zenon, <1>8 DEF Select
<1>9. CASE ReadStdin
  BY Zenon, <1>9 DEF ReadStdin
<1>10. CASE WritePty
  BY Zenon, <1>10 DEF WritePty, WriteToPty
<1>11. CASE ReadPty
  BY Zenon, <1>11 DEF ReadPty, ReadPtyWhen
<1>12. CASE LogOutput
  BY Zenon, <1>12 DEF LogOutput, LogUpTo
<1>13. CASE ShowOutput
  BY Zenon, <1>13 DEF ShowOutput
<1>14. CASE ReadWinSize
  BY Zenon, <1>14 DEF ReadWinSize, ReadWinSizeAs
<1>15. CASE ForwardWinSize
  BY Zenon, <1>15 DEF ForwardWinSize
<1>16. CASE WinchDone
  BY Zenon, <1>16 DEF WinchDone, Forget
<1>17. CASE CheckStop
  BY Zenon, <1>17 DEF CheckStop, StopOn
<1>18. CASE RestoreTerminal
  BY Zenon, <1>18 DEF RestoreTerminal, RestoreTo
<1>19. CASE Wait
  BY Zenon, <1>19 DEF Wait, WaitAnd
<1>20. CASE EndSession
  BY Zenon, <1>20 DEF EndSession
<1>21. CASE Type
  BY Zenon, <1>21 DEF Type
<1>22. CASE CloseStdin
  BY Zenon, <1>22 DEF CloseStdin
<1>23. CASE Resize
  BY Zenon, <1>23 DEF Resize
<1>24. CASE Kill
  BY Zenon, <1>24 DEF Kill
<1>25. CASE ChildWrite
  BY Zenon, <1>25 DEF ChildWrite
<1>26. CASE ChildWritten
  BY Zenon, <1>26 DEF ChildWritten
<1>27. CASE ChildRead
  BY Zenon, <1>27 DEF ChildRead
<1>28. CASE ChildSpawn
  BY Zenon, <1>28 DEF ChildSpawn
<1>29. CASE OtherWrite
  BY Zenon, <1>29 DEF OtherWrite
<1>30. CASE OtherExit
  BY Zenon, <1>30 DEF OtherExit
<1>31. CASE ChildStop
  BY Zenon, <1>31 DEF ChildStop
<1>32. CASE ChildContinue
  BY Zenon, <1>32 DEF ChildContinue
<1>33. ASSUME NEW s \in Signals, Signal(s) PROVE BoolOK'
  BY Zenon, <1>33 DEF Signal
<1>34. ASSUME NEW status \in {"ok", "err", "sig"}, ChildExit(status) PROVE BoolOK'
  BY Zenon, <1>34 DEF ChildExit
<1>35. CASE UNCHANGED vars
  BY Zenon, <1>35
<1> QED
  BY <1>1, <1>2, <1>3, <1>4, <1>5, <1>6, <1>7, <1>8, <1>9, <1>10, <1>11, <1>12, <1>13, <1>14, <1>15, <1>16, <1>17, <1>18, <1>19, <1>20, <1>21, <1>22, <1>23, <1>24, <1>25, <1>26, <1>27, <1>28, <1>29, <1>30, <1>31, <1>32, <1>33, <1>34, <1>35 DEF Next, Rootsh, Setup, Relay, Finish, User, Shell

LEMMA DeliverType ==
  ASSUME TypeOK, NEW s \in Signals, Deliver(s) PROVE SignalOK'
<1> USE DEF TypeOK, SignalOK, procVars, endVars
<1> USE DEF PCs, SetupPCs, DefaultPCs, LoopPCs, FinishPCs, Closers
<1>1. CASE Die /\ UNCHANGED <<ready, buf, flags, shown>>
  BY <1>1 DEF Die
<1>2. CASE UNCHANGED <<procVars, flags, shown, endVars>>
  BY <1>2
<1>3. CASE flags' = flags \cup {s} /\ Interrupt
  <2>1. flags' \subseteq Signals
    BY <1>3
  <2>2. CASE UNCHANGED <<procVars, shown, endVars>>
    BY <2>1, <2>2
  <2>3. CASE pc' = "winch" /\ ready' = {} /\ UNCHANGED <<buf, shown, endVars>>
    BY <2>1, <2>3
  <2>4. CASE Fail /\ UNCHANGED <<ready, buf, shown>>
    BY <2>1, <2>4 DEF Fail
  <2>5. CASE /\ \E k \in 1 .. buf - 1 : shown' = shown + k
             /\ pc' = "winch" /\ buf' = 0
             /\ UNCHANGED <<ready, endVars>>
    BY <2>1, <2>5
  <2>6. CASE /\ pc' = "close" /\ epilogue' = "waitError" /\ exitStatus' = "err"
             /\ UNCHANGED <<ready, buf, shown>>
    BY <2>1, <2>6
  <2> QED
    BY <1>3, <2>2, <2>3, <2>4, <2>5, <2>6 DEF Interrupt
<1> QED
  BY <1>1, <1>2, <1>3 DEF Deliver

LEMMA TypeStep == ASSUME TypeOK, [Next]_vars PROVE TypeOK'
<1> BoolOK' /\ TypeOK
  BY BoolStep
<1> USE BoundAssumption DEF BoolOK, TypeOK
<1> USE DEF vars, procVars, sizeVars, childVars, inVars, outVars, endVars
<1> USE DEF PCs, SetupPCs, DefaultPCs, LoopPCs, FinishPCs, Closers, Signals, StopSignals
<1>1. CASE SaveTerminal
  BY <1>1 DEF SaveTerminal
<1>2. CASE ForkPty
  BY <1>2 DEF ForkPty
<1>3. CASE ForkPtyFails
  BY <1>3 DEF ForkPtyFails
<1>4. CASE SetRaw
  BY <1>4 DEF SetRaw, Fail
<1>5. CASE InstallHandlers
  BY <1>5 DEF InstallHandlers
<1>6. CASE ClearFlags
  BY <1>6 DEF ClearFlags
<1>7. CASE EnterSelect
  BY <1>7 DEF EnterSelect
<1>8. CASE Select
  <2>1. Readable \subseteq {"stdin", "pty"}
    BY Zenon DEF Readable
  <2>2. UNCHANGED <<buf, flags, tty, sizeVars, childVars, inVars, outVars>>
    BY <1>8 DEF Select
  <2>3. CASE ready' = Readable /\ pc' = "stdin" /\ UNCHANGED endVars
    <3> HIDE DEF Readable
    <3> QED
      BY <2>1, <2>2, <2>3
  <2>4. CASE Fail /\ UNCHANGED ready
    BY <2>2, <2>4 DEF Fail
  <2> QED
    BY <1>8, <2>3, <2>4 DEF Select
<1>9. CASE ReadStdin
  BY <1>9 DEF ReadStdin, Fail, Min2
<1>10. CASE WritePty
  BY <1>10 DEF WritePty, WriteToPty, Fail
<1>11. CASE ReadPty
  BY <1>11 DEF ReadPty, ReadPtyWhen, Min2
<1>12. CASE LogOutput
  BY <1>12 DEF LogOutput, LogUpTo
<1>13. CASE ShowOutput
  BY <1>13 DEF ShowOutput, Fail
<1>14. CASE ReadWinSize
  BY <1>14 DEF ReadWinSize, ReadWinSizeAs
<1>15. CASE ForwardWinSize
  BY <1>15 DEF ForwardWinSize
<1>16. CASE WinchDone
  BY <1>16 DEF WinchDone, Forget
<1>17. CASE CheckStop
  BY <1>17 DEF CheckStop, StopOn
<1>18. CASE RestoreTerminal
  BY <1>18 DEF RestoreTerminal, RestoreTo
<1>19. CASE Wait
  BY <1>19 DEF Wait, WaitAnd, Verdict, ExitCode
<1>20. CASE EndSession
  BY <1>20 DEF EndSession
<1>21. CASE Type
  BY <1>21 DEF Type
<1>22. CASE CloseStdin
  BY <1>22 DEF CloseStdin
<1>23. CASE Resize
  BY DeliverType, <1>23 DEF Resize, SignalOK
<1>24. CASE Kill
  BY <1>24 DEF Kill, Die
<1>25. CASE ChildWrite
  BY <1>25 DEF ChildWrite
<1>26. CASE ChildWritten
  BY <1>26 DEF ChildWritten
<1>27. CASE ChildRead
  BY <1>27 DEF ChildRead
<1>28. CASE ChildSpawn
  BY <1>28 DEF ChildSpawn
<1>29. CASE OtherWrite
  BY <1>29 DEF OtherWrite
<1>30. CASE OtherExit
  BY <1>30 DEF OtherExit
<1>31. CASE ChildStop
  BY DeliverType, <1>31 DEF ChildStop, SignalOK
<1>32. CASE ChildContinue
  BY DeliverType, <1>32 DEF ChildContinue, SignalOK
<1>33. ASSUME NEW s \in Signals, Signal(s) PROVE TypeOK'
  BY DeliverType, <1>33 DEF Signal, SignalOK
<1>34. ASSUME NEW status \in {"ok", "err", "sig"}, ChildExit(status) PROVE TypeOK'
  BY DeliverType, <1>34 DEF ChildExit, SignalOK
<1>35. CASE UNCHANGED vars
  BY <1>35
<1> QED
  BY <1>1, <1>2, <1>3, <1>4, <1>5, <1>6, <1>7, <1>8, <1>9, <1>10, <1>11, <1>12, <1>13, <1>14, <1>15, <1>16, <1>17, <1>18, <1>19, <1>20, <1>21, <1>22, <1>23, <1>24, <1>25, <1>26, <1>27, <1>28, <1>29, <1>30, <1>31, <1>32, <1>33, <1>34, <1>35 DEF Next, Rootsh, Setup, Relay, Finish, User, Shell

LEMMA InitTypeOK == Init => TypeOK
<1>1. Init => BoolOK
  BY Zenon DEF Init, BoolOK
<1> QED
  BY <1>1 DEF Init, BoolOK, TypeOK, PCs, SetupPCs, DefaultPCs, Closers

(* Every variable keeps its type.                                          *)
THEOREM TypeCorrect == Spec => []TypeOK
  BY InitTypeOK, TypeStep, PTL DEF Spec
-----------------------------------------------------------------------------
(* What the arrival of a signal leaves alone: outside the blocking calls   *)
(* and the default actions rootsh stays where it is; the screen only gets  *)
(* chunks from the buffer.                                                 *)
Undisturbed == UNCHANGED <<pc, ready, buf, shown, epilogue, exitStatus>>
Terminated  ==
  /\ pc \in DefaultPCs \cup {"toPty", "show"} /\ pc' = "exited"
  /\ UNCHANGED <<buf, shown>>
  /\ epilogue' \in {epilogue, "error"} /\ exitStatus' \in {"killed", "err"}
Diverted    ==
  /\ pc \in {"select", "show", "wait"}
  /\ shown' \in shown .. shown + (IF pc = "show" THEN buf ELSE 0)
  /\ \/ pc # "wait" /\ pc' = "winch" /\ UNCHANGED <<epilogue, exitStatus>>
     \/ pc = "wait" /\ pc' = "close" /\ child' # "zombie"
        /\ epilogue' = "waitError" /\ exitStatus' = "err"

LEMMA DeliverEffect ==
  ASSUME TypeOK, NEW s, Deliver(s)
  PROVE  Undisturbed \/ Terminated \/ Diverted
<1> USE DEF TypeOK, procVars, endVars, Undisturbed, Terminated, Diverted, DefaultPCs
<1>1. CASE pc \in DefaultPCs /\ Die /\ UNCHANGED <<ready, buf, flags, shown>>
  BY <1>1 DEF Die
<1>2. CASE UNCHANGED <<procVars, flags, shown, endVars>>
  BY <1>2
<1>3. CASE Interrupt
  <2>1. CASE UNCHANGED <<procVars, shown, endVars>>
    BY <2>1
  <2>2. CASE pc = "select" /\ pc' = "winch" /\ UNCHANGED <<buf, shown, endVars>>
    BY <2>2
  <2>3. CASE pc \in {"toPty", "show"} /\ Fail /\ UNCHANGED <<ready, buf, shown>>
    BY <2>3 DEF Fail
  <2>4. CASE /\ pc = "show" /\ \E k \in 1 .. buf - 1 : shown' = shown + k
             /\ pc' = "winch" /\ UNCHANGED endVars
    BY <2>4
  <2>5. CASE /\ pc = "wait" /\ child' # "zombie"
             /\ pc' = "close" /\ epilogue' = "waitError" /\ exitStatus' = "err"
             /\ UNCHANGED <<ready, buf, shown>>
    BY <2>5
  <2> QED
    BY <1>3, <2>1, <2>2, <2>3, <2>4, <2>5 DEF Interrupt
<1> QED
  BY <1>1, <1>2, <1>3 DEF Deliver
-----------------------------------------------------------------------------
(* The verdict.  What makes it inductive: rootsh writes its closing words  *)
(* and chooses its exit status in finish only, once, and forkpty creates   *)
(* the only child there is.                                                *)
NoVerdictYet ==
  /\ pc \notin {"close", "exited"} => epilogue = "none" /\ exitStatus = "none"
  /\ exitStatus = "killed" => pc = "exited"
  /\ pc \in {"save", "fork"} => child = "none"
  /\ child \in {"zombie", "reaped"} => childStatus # "none"
VerdictInv == VerdictTruthful /\ NoVerdictYet

LEMMA VerdictStep ==
  ASSUME TypeOK, VerdictInv, [Next]_vars PROVE VerdictInv'
<1> USE DEF VerdictInv, VerdictTruthful, NoVerdictYet
<1> USE DEF vars, procVars, sizeVars, childVars, inVars, outVars, endVars
<1>1. CASE Setup
  BY <1>1 DEF Setup, SaveTerminal, ForkPty, ForkPtyFails, SetRaw, InstallHandlers,
              ClearFlags, Fail
<1>2. CASE EnterSelect \/ Select \/ ReadStdin \/ WritePty \/ ReadPty \/ LogOutput
  BY <1>2 DEF EnterSelect, Select, ReadStdin, WritePty, WriteToPty, ReadPty, ReadPtyWhen,
              LogOutput, LogUpTo, Fail
<1>3. CASE ShowOutput \/ ReadWinSize \/ ForwardWinSize \/ WinchDone \/ CheckStop
  BY <1>3 DEF ShowOutput, ReadWinSize, ReadWinSizeAs, ForwardWinSize, WinchDone, Forget,
              CheckStop, StopOn, Fail
<1>4. CASE RestoreTerminal \/ EndSession
  BY <1>4 DEF RestoreTerminal, RestoreTo, EndSession
<1>5. CASE Wait
  BY <1>5 DEF Wait, WaitAnd, Verdict, ExitCode, TypeOK
<1>6. CASE Type \/ CloseStdin \/ Kill
  BY <1>6 DEF Type, CloseStdin, Kill, Die, Live
<1>7. ASSUME Live, NEW s \in Signals, Deliver(s),
             \/ UNCHANGED <<child, childStatus>>
             \/ /\ child \in {"running", "stopped"}
                /\ \/ child' = "zombie" /\ childStatus' # "none"
                   \/ child' \in {"running", "stopped"}
      PROVE  VerdictInv'
  BY <1>7, DeliverEffect DEF Undisturbed, Terminated, Diverted, DefaultPCs, Live
<1>8. CASE \/ ChildWrite \/ ChildWritten \/ ChildRead \/ ChildSpawn
            \/ OtherWrite \/ OtherExit
  BY <1>8 DEF ChildWrite, ChildWritten, ChildRead, ChildSpawn, OtherWrite, OtherExit
<1>9. CASE Resize \/ ChildStop \/ ChildContinue
  BY <1>7, <1>9 DEF Resize, ChildStop, ChildContinue, Signals, StopSignals
<1>10. ASSUME NEW s \in Signals, Signal(s) PROVE VerdictInv'
  BY <1>7, <1>10 DEF Signal, Signals, StopSignals
<1>11. ASSUME NEW status \in {"ok", "err", "sig"}, ChildExit(status) PROVE VerdictInv'
  BY <1>7, <1>11 DEF ChildExit, Signals, StopSignals
<1>12. CASE UNCHANGED vars
  BY <1>12
<1> QED
  BY <1>1, <1>2, <1>3, <1>4, <1>5, <1>6, <1>8, <1>9, <1>10, <1>11, <1>12
     DEF Next, Rootsh, Relay, Finish, User, Shell

-----------------------------------------------------------------------------
(* Each chunk of output is in one place.                                   *)
LEMMA OutputStep ==
  ASSUME TypeOK, VerdictInv, OutputConserved, [Next]_vars PROVE OutputConserved'
<1> buf \in Nat /\ produced \in Nat /\ outPty \in Nat /\ logged \in Nat
  BY DEF TypeOK
<1> pc # "exited" => exitStatus # "killed"
  BY DEF VerdictInv, NoVerdictYet
<1> USE DEF OutputConserved
<1> USE DEF vars, procVars, sizeVars, childVars, inVars, outVars, endVars
<1>1. CASE Setup
  BY <1>1 DEF Setup, SaveTerminal, ForkPty, ForkPtyFails, SetRaw, InstallHandlers,
              ClearFlags, Fail
<1>2. CASE EnterSelect \/ Select \/ ReadStdin \/ WritePty
  BY <1>2 DEF EnterSelect, Select, ReadStdin, WritePty, WriteToPty, Fail
<1>3. CASE ReadPty
  BY <1>3, BoundAssumption DEF ReadPty, ReadPtyWhen, Min2
<1>4. CASE LogOutput
  BY <1>4 DEF LogOutput, LogUpTo
<1>5. CASE ShowOutput \/ ReadWinSize \/ ForwardWinSize \/ WinchDone \/ CheckStop
  BY <1>5 DEF ShowOutput, ReadWinSize, ReadWinSizeAs, ForwardWinSize, WinchDone, Forget,
              CheckStop, StopOn, Fail
<1>6. CASE Finish
  BY <1>6 DEF Finish, RestoreTerminal, RestoreTo, Wait, WaitAnd, EndSession
<1>7. CASE Type \/ CloseStdin \/ Kill
  BY <1>7 DEF Type, CloseStdin, Kill, Die
<1>8. CASE \E s \in Signals : Deliver(s) /\ UNCHANGED <<produced, outPty, logged>>
  BY <1>8, DeliverEffect DEF Undisturbed, Terminated, Diverted, DefaultPCs
<1>9. CASE ChildWrite \/ ChildRead \/ ChildSpawn \/ OtherExit
  BY <1>9 DEF ChildWrite, ChildRead, ChildSpawn, OtherExit
<1>10. CASE ChildWritten \/ OtherWrite
  BY <1>10 DEF ChildWritten, OtherWrite
<1>11. CASE UNCHANGED vars
  BY <1>11
<1> QED
  BY <1>1, <1>2, <1>3, <1>4, <1>5, <1>6, <1>7, <1>8, <1>9, <1>10, <1>11
     DEF Next, Rootsh, Relay, User, Shell, Resize, Signal, ChildExit, ChildStop,
         ChildContinue, Signals, StopSignals

(* Each chunk of input is in one place until rootsh ends.                  *)
LEMMA InputStep ==
  ASSUME TypeOK, InputConserved, [Next]_vars PROVE InputConserved'
<1> /\ buf \in Nat /\ entered \in Nat /\ typed \in Nat
    /\ inPty \in Nat /\ consumed \in Nat
  BY DEF TypeOK
<1> USE DEF InputConserved
<1> USE DEF vars, procVars, sizeVars, childVars, inVars, outVars, endVars
<1>1. CASE Setup
  BY <1>1 DEF Setup, SaveTerminal, ForkPty, ForkPtyFails, SetRaw, InstallHandlers,
              ClearFlags, Fail
<1>2. CASE EnterSelect \/ Select
  BY <1>2 DEF EnterSelect, Select, Fail
<1>3. CASE ReadStdin
  BY <1>3, BoundAssumption DEF ReadStdin, Min2, Fail
<1>4. CASE WritePty
  BY <1>4 DEF WritePty, WriteToPty, Fail
<1>5. CASE ReadPty \/ LogOutput \/ ShowOutput
  BY <1>5 DEF ReadPty, ReadPtyWhen, LogOutput, LogUpTo, ShowOutput, Fail
<1>6. CASE ReadWinSize \/ ForwardWinSize \/ WinchDone \/ CheckStop
  BY <1>6 DEF ReadWinSize, ReadWinSizeAs, ForwardWinSize, WinchDone, Forget, CheckStop, StopOn
<1>7. CASE Finish
  BY <1>7 DEF Finish, RestoreTerminal, RestoreTo, Wait, WaitAnd, EndSession
<1>8. CASE Type \/ CloseStdin \/ Kill
  BY <1>8 DEF Type, CloseStdin, Kill, Die
<1>9. CASE \E s \in Signals : Deliver(s) /\ UNCHANGED inVars
  <2>1. UNCHANGED <<entered, typed, inPty, consumed>>
    BY <1>9
  <2>2. \/ UNCHANGED <<pc, buf>>
        \/ pc' = "exited"
        \/ pc \in {"select", "show", "wait"} /\ pc' \in {"winch", "close"}
    BY <1>9, DeliverEffect DEF Undisturbed, Terminated, Diverted
  <2> QED
    BY <2>1, <2>2
<1>10. CASE ChildRead
  BY <1>10 DEF ChildRead
<1>11. CASE ChildWrite \/ ChildWritten \/ ChildSpawn \/ OtherWrite \/ OtherExit
  BY <1>11 DEF ChildWrite, ChildWritten, ChildSpawn, OtherWrite, OtherExit
<1>12. CASE UNCHANGED vars
  BY <1>12
<1> QED
  BY <1>1, <1>2, <1>3, <1>4, <1>5, <1>6, <1>7, <1>8, <1>9, <1>10, <1>11, <1>12
     DEF Next, Rootsh, Relay, User, Shell, Resize, Signal, ChildExit, ChildStop,
         ChildContinue, Signals, StopSignals

(* The screen stays behind the log: what Recorder must know of a step.     *)
ScreenBehind == shown + (IF pc = "show" THEN buf ELSE 0) <= logged

LEMMA ShownStep ==
  ASSUME TypeOK, ScreenBehind, [Next]_vars PROVE ScreenBehind'
<1> buf \in Nat /\ shown \in Nat /\ logged \in Nat
  BY DEF TypeOK
<1> USE DEF ScreenBehind
<1> USE DEF vars, procVars, sizeVars, childVars, inVars, outVars, endVars
<1>1. CASE Setup
  BY <1>1 DEF Setup, SaveTerminal, ForkPty, ForkPtyFails, SetRaw, InstallHandlers,
              ClearFlags, Fail
<1>2. CASE EnterSelect \/ Select \/ ReadStdin \/ WritePty
  BY <1>2 DEF EnterSelect, Select, ReadStdin, WritePty, WriteToPty, Fail
<1>3. CASE ReadPty \/ ReadWinSize \/ ForwardWinSize \/ WinchDone \/ CheckStop
  BY <1>3 DEF ReadPty, ReadPtyWhen, ReadWinSize, ReadWinSizeAs, ForwardWinSize, WinchDone,
              Forget, CheckStop, StopOn
<1>4. CASE LogOutput
  BY <1>4 DEF LogOutput, LogUpTo
<1>5. CASE ShowOutput
  BY <1>5 DEF ShowOutput, Fail
<1>6. CASE Finish
  BY <1>6 DEF Finish, RestoreTerminal, RestoreTo, Wait, WaitAnd, EndSession
<1>7. CASE Type \/ CloseStdin \/ Kill
  BY <1>7 DEF Type, CloseStdin, Kill, Die
<1>8. CASE \E s \in Signals : Deliver(s) /\ UNCHANGED logged
  BY <1>8, DeliverEffect DEF Undisturbed, Terminated, Diverted, DefaultPCs
<1>9. CASE \/ ChildWrite \/ ChildWritten \/ ChildRead \/ ChildSpawn
            \/ OtherWrite \/ OtherExit
  BY <1>9 DEF ChildWrite, ChildWritten, ChildRead, ChildSpawn, OtherWrite, OtherExit
<1>10. CASE UNCHANGED vars
  BY <1>10
<1> QED
  BY <1>1, <1>2, <1>3, <1>4, <1>5, <1>6, <1>7, <1>8, <1>9, <1>10
     DEF Next, Rootsh, Relay, User, Shell, Resize, Signal, ChildExit, ChildStop,
         ChildContinue, Signals, StopSignals

-----------------------------------------------------------------------------
(* Window sizes: where the terminal's size is known to be on its way from  *)
(* the user's terminal to the shell, as long as no resize was missed.      *)
SizeInv ==
  /\ pc \in {"forward", "winchDone"} => "WINCH" \in flags
  /\ ~missed /\ pc \in {"fork", "forward"} => winSize = termSize
  /\ ~missed /\ pc \in {"raw", "handlers", "clear", "winchDone"} => slaveSize = termSize
  /\ pc \in {"save", "fork"} => child = "none"
  /\ WinSizeInStep

LEMMA SizeStep ==
  ASSUME TypeOK, SizeInv, [Next]_vars PROVE SizeInv'
<1> USE DEF SizeInv, WinSizeInStep, SetupPCs, DefaultPCs
<1> USE DEF vars, procVars, sizeVars, childVars, inVars, outVars, endVars
<1>1. CASE Setup
  BY <1>1 DEF Setup, SaveTerminal, ForkPty, ForkPtyFails, SetRaw, InstallHandlers,
              ClearFlags, Fail
<1>2. CASE EnterSelect \/ Select \/ ReadStdin \/ WritePty \/ ReadPty \/ LogOutput
  BY <1>2 DEF EnterSelect, Select, ReadStdin, WritePty, WriteToPty, ReadPty, ReadPtyWhen,
              LogOutput, LogUpTo, Fail
<1>3. CASE ShowOutput \/ ForwardWinSize \/ WinchDone \/ CheckStop
  BY <1>3 DEF ShowOutput, ForwardWinSize, WinchDone, Forget, CheckStop, StopOn, Fail
<1>4. CASE ReadWinSize
  BY <1>4 DEF ReadWinSize, ReadWinSizeAs
<1>5. CASE Finish
  BY <1>5 DEF Finish, RestoreTerminal, RestoreTo, Wait, WaitAnd, EndSession
<1>6. CASE Type \/ CloseStdin \/ Kill
  BY <1>6 DEF Type, CloseStdin, Kill, Die
<1>7. ASSUME NEW s \in Signals, Deliver(s)
      PROVE  /\ flags' \in {flags, flags \cup {s}}
             /\ pc \notin DefaultPCs => flags' = flags \cup {s}
             /\ pc' = pc \/ pc' \in {"winch", "close", "exited"}
             /\ pc \in {"forward", "winchDone", "clear"} => pc' = pc
             /\ pc = "save" => pc' \in {"save", "exited"}
  <2>1. pc \notin DefaultPCs => flags' = flags \cup {s}
    BY <1>7 DEF Deliver
  <2>2. pc \in DefaultPCs => flags' = flags
    BY <1>7 DEF Deliver
  <2>3. pc = "save" => pc' \in {"save", "exited"}
    BY <1>7 DEF Deliver, Die
  <2> QED
    BY <1>7, <2>1, <2>2, <2>3, DeliverEffect DEF Undisturbed, Terminated, Diverted
<1>8. CASE Resize
  <2>1. Deliver("WINCH") /\ UNCHANGED <<winSize, slaveSize, child>>
    BY <1>8 DEF Resize
  <2>2. missed' <=> (missed \/ (termSize' # termSize /\ pc \in Unnoticed))
    BY <1>8, Zenon DEF Resize
  <2>3. CASE pc = "save"
    BY <1>7, <2>1, <2>2, <2>3 DEF Signals, Unnoticed
  <2>4. CASE pc \in {"fork", "raw", "handlers", "clear", "forward", "winchDone"}
    BY <1>7, <2>1, <2>2, <2>4 DEF Signals, Unnoticed
  <2>5. CASE pc \notin SetupPCs \cup {"forward", "winchDone"}
    BY <1>7, <2>1, <2>2, <2>5 DEF Signals, Unnoticed
  <2> QED
    BY <2>3, <2>4, <2>5
<1>9. ASSUME NEW s \in Signals, Deliver(s), UNCHANGED sizeVars,
             child' = child \/ child # "none"
      PROVE  SizeInv'
  BY <1>9, <1>7
<1>10. CASE ChildStop \/ ChildContinue
  BY <1>10, <1>9 DEF ChildStop, ChildContinue, Signals, StopSignals
<1>11. ASSUME NEW s \in Signals, Signal(s) PROVE SizeInv'
  BY <1>11, <1>9 DEF Signal
<1>12. ASSUME NEW status \in {"ok", "err", "sig"}, ChildExit(status) PROVE SizeInv'
  BY <1>12, <1>9 DEF ChildExit, Signals, StopSignals
<1>13. CASE \/ ChildWrite \/ ChildWritten \/ ChildRead \/ ChildSpawn
             \/ OtherWrite \/ OtherExit
  BY <1>13 DEF ChildWrite, ChildWritten, ChildRead, ChildSpawn, OtherWrite, OtherExit
<1>14. CASE UNCHANGED vars
  BY <1>14
<1> QED
  BY <1>1, <1>2, <1>3, <1>4, <1>5, <1>6, <1>8, <1>10, <1>11, <1>12, <1>13, <1>14
     DEF Next, Rootsh, Relay, User, Shell

-----------------------------------------------------------------------------
(* Everything that must be known together.                                 *)
SafetyInv ==
  TypeOK /\ VerdictInv /\ OutputConserved /\ InputConserved /\ ScreenBehind /\ SizeInv

THEOREM SafetyInvHolds == Spec => []SafetyInv
<1>1. Init => SafetyInv
  <2>1. Init => TypeOK
    BY InitTypeOK
  <2>2. Init => VerdictInv
    BY DEF Init, VerdictInv, VerdictTruthful, NoVerdictYet
  <2>3. Init => OutputConserved /\ InputConserved /\ ScreenBehind
    BY DEF Init, OutputConserved, InputConserved, ScreenBehind
  <2>4. Init => SizeInv
    BY DEF Init, SizeInv, WinSizeInStep, SetupPCs, DefaultPCs
  <2> QED
    BY <2>1, <2>2, <2>3, <2>4 DEF SafetyInv
<1>2. SafetyInv /\ [Next]_vars => SafetyInv'
  BY TypeStep, VerdictStep, OutputStep, InputStep, ShownStep, SizeStep DEF SafetyInv
<1> QED
  BY <1>1, <1>2, PTL DEF Spec

(* Each chunk of output is in the pty, on its way to dologging or logged.  *)
THEOREM OutputIsConserved == Spec => []OutputConserved
  BY SafetyInvHolds, PTL DEF SafetyInv

(* Each chunk of input is on stdin, in the buffer, in the pty or read.     *)
THEOREM InputIsConserved == Spec => []InputConserved
  BY SafetyInvHolds, PTL DEF SafetyInv

(* The closing line and the exit status tell how the child ended.          *)
THEOREM VerdictIsTruthful == Spec => []VerdictTruthful
  BY SafetyInvHolds, PTL DEF SafetyInv, VerdictInv

(* A resize that could be noticed has reached the shell or is pending.     *)
THEOREM WindowInStep == Spec => []WinSizeInStep
  BY SafetyInvHolds, PTL DEF SafetyInv, SizeInv

(* A recorded stop request stays recorded.                                 *)
THEOREM StopRequestIsKept == Spec => StopRequestKept
<1>1. [Next]_vars =>
        (pc \notin SetupPCs /\ flags \cap StopSignals # {}
           => flags \cap StopSignals \subseteq flags')
  <2> SUFFICES ASSUME [Next]_vars, pc \notin SetupPCs PROVE flags \cap StopSignals \subseteq flags'
    OBVIOUS
  <2> USE DEF SetupPCs, DefaultPCs, vars
  <2>1. CASE flags' = flags
    BY <2>1
  <2>2. CASE Setup
    BY <2>2 DEF Setup, SaveTerminal, ForkPty, ForkPtyFails, SetRaw, InstallHandlers, ClearFlags
  <2>3. CASE WinchDone
    BY <2>3 DEF WinchDone, Forget, StopSignals
  <2>4. CASE \E s \in Signals : Deliver(s)
    BY <2>4 DEF Deliver
  <2>5. CASE Relay /\ ~WinchDone
    BY <2>5 DEF Relay, EnterSelect, Select, ReadStdin, WritePty, WriteToPty, ReadPty,
                ReadPtyWhen, LogOutput, LogUpTo, ShowOutput, ReadWinSize, ReadWinSizeAs,
                ForwardWinSize, CheckStop, StopOn
  <2>6. CASE Finish
    BY <2>6 DEF Finish, RestoreTerminal, RestoreTo, Wait, WaitAnd, EndSession
  <2>7. CASE User /\ ~\E s \in Signals : Deliver(s)
    BY <2>7 DEF User, Type, CloseStdin, Resize, Kill, Signal, Signals, StopSignals
  <2>8. CASE Shell /\ ~\E s \in Signals : Deliver(s)
    BY <2>8 DEF Shell, ChildWrite, ChildWritten, ChildRead, ChildSpawn, OtherWrite, OtherExit,
                ChildStop, ChildContinue, ChildExit, Signals, StopSignals
  <2> QED
    BY <2>1, <2>2, <2>3, <2>4, <2>5, <2>6, <2>7, <2>8 DEF Next, Rootsh
<1> QED
  BY <1>1, PTL DEF Spec, StopRequestKept

(* The session implements Recorder: logged follows what the shell wrote,   *)
(* the screen follows the log, and nothing moves after the end.            *)
LEMMA PromiseStep ==
  ASSUME SafetyInv, [Next]_vars PROVE [Promise!Next]_(Promise!vars)
<1> USE DEF Promise!Next, Promise!vars
<1> /\ buf \in Nat /\ produced \in Nat /\ outPty \in Nat /\ logged \in Nat /\ shown \in Nat
    /\ pc # "exited" => produced = logged + (IF pc = "log" THEN buf ELSE 0) + outPty
    /\ shown + (IF pc = "show" THEN buf ELSE 0) <= logged
  BY DEF SafetyInv, TypeOK, VerdictInv, NoVerdictYet, OutputConserved, ScreenBehind
<1> USE DEF vars, procVars, sizeVars, childVars, inVars, outVars, endVars
<1>1. CASE LogOutput
  BY <1>1 DEF LogOutput, LogUpTo, Promise!Record
<1>2. CASE ShowOutput
  BY <1>2 DEF ShowOutput, Fail, Promise!Display, Promise!End
<1>3. CASE ChildWritten \/ OtherWrite
  BY <1>3 DEF ChildWritten, OtherWrite, Live, Promise!Write
<1>4. ASSUME pc # "exited" \/ pc' = "exited", UNCHANGED <<produced, logged, shown>>
      PROVE  [Promise!Next]_(Promise!vars)
  BY <1>4 DEF Promise!End
<1>5. CASE Setup
  BY <1>4, <1>5 DEF Setup, SaveTerminal, ForkPty, ForkPtyFails, SetRaw, InstallHandlers,
                    ClearFlags
<1>6. CASE EnterSelect \/ Select \/ ReadStdin \/ WritePty \/ ReadPty
  BY <1>4, <1>6 DEF EnterSelect, Select, ReadStdin, WritePty, WriteToPty, ReadPty, ReadPtyWhen
<1>7. CASE ReadWinSize \/ ForwardWinSize \/ WinchDone \/ CheckStop \/ Finish
  BY <1>4, <1>7 DEF ReadWinSize, ReadWinSizeAs, ForwardWinSize, WinchDone, Forget, CheckStop,
                    StopOn, Finish, RestoreTerminal, RestoreTo, Wait, WaitAnd, EndSession
<1>8. CASE Type \/ CloseStdin \/ Kill
  BY <1>4, <1>8 DEF Type, CloseStdin, Kill, Live
<1>9. CASE \E s \in Signals : Live /\ Deliver(s) /\ UNCHANGED <<produced, logged>>
  <2>1. SafetyInv => TypeOK
    BY DEF SafetyInv
  <2>2. CASE UNCHANGED shown
    BY <1>4, <1>9, <2>2 DEF Live
  <2>3. CASE shown' # shown
    <3>1. /\ pc = "show" /\ pc' = "winch"
          /\ shown' \in shown .. shown + buf
      BY <1>9, <2>1, <2>3, DeliverEffect DEF Undisturbed, Terminated, Diverted
    <3> QED
      BY <1>9, <2>3, <3>1 DEF Promise!Display
  <2> QED
    BY <2>2, <2>3
<1>10. CASE ChildWrite \/ ChildRead \/ ChildSpawn \/ OtherExit
  BY <1>4, <1>10 DEF ChildWrite, ChildRead, ChildSpawn, OtherExit, Live
<1>11. CASE UNCHANGED vars
  BY <1>11
<1> QED
  BY <1>1, <1>2, <1>3, <1>5, <1>6, <1>7, <1>8, <1>9, <1>10, <1>11
     DEF Next, Rootsh, Relay, User, Shell, Resize, Signal, ChildExit, ChildStop,
         ChildContinue, Signals, StopSignals

THEOREM SessionKeepsPromise == Spec => KeepsPromise
<1>1. Init => Promise!Init
  BY DEF Init, Promise!Init
<1>2. SafetyInv /\ [Next]_vars => [Promise!Next]_(Promise!vars)
  BY PromiseStep
<1> QED
  BY <1>1, <1>2, SafetyInvHolds, PTL DEF Spec, KeepsPromise, Promise!Spec

-----------------------------------------------------------------------------
(* The terminal: newTty is in force from SetRaw to finish, and finish puts *)
(* the saved modes back before it waits, provided tcsetattr works.         *)
TerminalInv ==
  /\ pc \in {"wait", "close"} => tty # "raw"
  /\ TerminalBack

LEMMA TerminalStep ==
  ASSUME "tcsetattr" \notin Faults, SafetyInv, TerminalInv, [Next]_vars PROVE TerminalInv'
<1> USE DEF TerminalInv, TerminalBack, LogClosed, Closers
<1> USE DEF vars, procVars, sizeVars, childVars, inVars, outVars, endVars
<1> TypeOK /\ NoVerdictYet
  BY DEF SafetyInv, VerdictInv
<1>1. CASE Setup
  BY <1>1 DEF Setup, SaveTerminal, ForkPty, ForkPtyFails, SetRaw, InstallHandlers,
              ClearFlags, Fail, NoVerdictYet
<1>2. CASE EnterSelect \/ Select \/ ReadStdin \/ WritePty \/ ReadPty \/ LogOutput
  BY <1>2 DEF EnterSelect, Select, ReadStdin, WritePty, WriteToPty, ReadPty, ReadPtyWhen,
              LogOutput, LogUpTo, Fail
<1>3. CASE ShowOutput \/ ReadWinSize \/ ForwardWinSize \/ WinchDone \/ CheckStop
  BY <1>3 DEF ShowOutput, ReadWinSize, ReadWinSizeAs, ForwardWinSize, WinchDone, Forget,
              CheckStop, StopOn, Fail
<1>4. CASE RestoreTerminal
  BY <1>4 DEF RestoreTerminal, RestoreTo
<1>5. CASE Wait \/ EndSession
  BY <1>5 DEF Wait, WaitAnd, EndSession
<1>6. CASE Type \/ CloseStdin \/ Kill
  BY <1>6 DEF Type, CloseStdin, Kill, Die, Live, NoVerdictYet
<1>7. CASE \E s \in Signals : Live /\ Deliver(s) /\ UNCHANGED tty
  BY <1>7, DeliverEffect DEF Undisturbed, Terminated, Diverted, DefaultPCs, Live, NoVerdictYet
<1>8. CASE \/ ChildWrite \/ ChildWritten \/ ChildRead \/ ChildSpawn
            \/ OtherWrite \/ OtherExit
  BY <1>8 DEF ChildWrite, ChildWritten, ChildRead, ChildSpawn, OtherWrite, OtherExit
<1>9. CASE UNCHANGED vars
  BY <1>9
<1> QED
  BY <1>1, <1>2, <1>3, <1>4, <1>5, <1>6, <1>7, <1>8, <1>9
     DEF Next, Rootsh, Relay, Finish, User, Shell, Resize, Signal, ChildExit, ChildStop,
         ChildContinue, Signals, StopSignals

(* A closed log means the user has his own terminal modes back.            *)
THEOREM TerminalIsBack ==
  ASSUME "tcsetattr" \notin Faults PROVE Spec => []TerminalBack
<1>1. Init => TerminalInv
  BY DEF Init, TerminalInv, TerminalBack, LogClosed
<1>2. SafetyInv /\ TerminalInv /\ [Next]_vars => TerminalInv'
  BY TerminalStep
<1> QED
  BY <1>1, <1>2, SafetyInvHolds, PTL DEF Spec, TerminalInv
=============================================================================
