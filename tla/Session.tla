------------------------------- MODULE Session -------------------------------
(***************************************************************************)
(* The running session of rootsh (src/src/rootsh.c): main from the moment  *)
(* the terminal is saved, logSession's event loop, the signal handler and  *)
(* finish, together with the environment they live in: the user's          *)
(* terminal, the pty pair, the child shell and the processes it starts.    *)
(*                                                                         *)
(* A definition whose name ends in Bug is the definition after it with one *)
(* plausible mistake; nothing uses it, it shows what a property can see.   *)
(*                                                                         *)
(* Data is abstracted to counts.  The user's input and the shell's output  *)
(* are streams of chunks; a chunk is known by its position in its stream   *)
(* (the kernel's queues are FIFO and rootsh holds one buffer), so each     *)
(* stage of a stream is the number of chunks that have reached it.         *)
(*                                                                         *)
(* A system call that may block is a step of its own, because a signal     *)
(* that arrives there makes it fail with EINTR: rootsh installs its        *)
(* handlers without SA_RESTART and never blocks a signal.                  *)
(***************************************************************************)
EXTENDS Naturals

CONSTANTS
  MaxIn,     \* bound: chunks the user types
  MaxOut,    \* bound: chunks the slave side of the pty writes
  InCap,     \* capacity of the pty towards the shell
  OutCap,    \* capacity of the pty towards rootsh
  ReadMax,   \* BUFSIZ: the most one read returns
  Sizes,     \* window sizes of the user's terminal
  Faults     \* which system calls may fail for reasons outside the model

FaultKinds == {"fork", "tcsetattr", "select", "read", "stdout", "kill"}

ASSUME BoundAssumption ==
  /\ MaxIn \in Nat /\ MaxOut \in Nat
  /\ InCap \in Nat \ {0} /\ OutCap \in Nat \ {0}
  /\ ReadMax \in 1 .. InCap
  /\ Sizes # {}
  /\ Faults \subseteq FaultKinds

VARIABLES
  pc,          \* where rootsh is
  ready,       \* readmask: the descriptors pselect reported
  buf,         \* chunks in logSession's buf
  flags,       \* the sig*Received variables that are 1
  tty,         \* modes of stdin: "cooked", "raw", or "none" (not a tty)
  termSize,    \* the terminal's window size
  winSize,     \* rootsh's winSize
  slaveSize,   \* the window size of the pty
  missed,      \* history: a resize came when rootsh could not notice it
  child,       \* the process forkpty created
  childStatus, \* how it terminated
  held,        \* another process of the session holds the slave open
  writing,     \* the shell is inside write(2) on the slave
  eof,         \* stdin has reached end of file
  entered, typed, inPty, consumed,  \* input: all / on stdin / in pty / read
  produced, outPty, logged, shown,  \* output: all / in pty / logged / on screen
  epilogue,    \* the last thing rootsh itself wrote to the log
  exitStatus   \* exit status of rootsh

procVars   == <<pc, ready, buf>>
sizeVars   == <<termSize, winSize, slaveSize, missed>>
childVars  == <<child, childStatus, held, writing>>
inVars     == <<eof, entered, typed, inPty, consumed>>
outVars    == <<produced, outPty, logged, shown>>
endVars    == <<epilogue, exitStatus>>
vars == <<procVars, flags, tty, sizeVars, childVars, inVars, outVars, endVars>>

(* Before HandlerPCs the default actions are in force, and until the flags *)
(* have been cleared once (SetupPCs) whatever a handler recorded is lost.  *)
DefaultPCs == {"save", "fork", "raw", "handlers"}
SetupPCs   == DefaultPCs \cup {"clear"}
LoopPCs    == {"loop", "select", "stdin", "toPty", "pty", "log", "show",
               "winch", "forward", "winchDone", "term"}
FinishPCs  == {"restore", "wait", "close"}
PCs        == SetupPCs \cup LoopPCs \cup FinishPCs \cup {"exited"}

StopSignals == {"INT", "QUIT", "CHLD"}
Signals     == StopSignals \cup {"WINCH"}

Min2(a, b) == IF a < b THEN a ELSE b

(* Somebody can still write to or read from the slave.                     *)
SlaveHeld  == child \in {"running", "stopped"} \/ held
(* Without that a read of the master fails at once (EIO on Linux, end of   *)
(* file elsewhere), so pselect reports the master readable.                *)
HungUp     == child # "none" /\ ~SlaveHeld
StdinReady == typed > 0 \/ eof
PtyReady   == outPty > 0 \/ HungUp
Readable   == (IF StdinReady THEN {"stdin"} ELSE {})
              \cup (IF PtyReady THEN {"pty"} ELSE {})
PtyHasRoom == inPty + buf <= InCap

(* The log was closed by endlogging: finish ran to its end.                *)
Closers   == {"ended", "interrupted", "waitError"}
LogClosed == pc = "exited" /\ epilogue \in Closers

Init ==
  /\ pc = "save" /\ ready = {} /\ buf = 0 /\ flags = {}
  /\ tty \in {"cooked", "none"}
  /\ termSize \in Sizes /\ winSize = termSize /\ slaveSize = termSize
  /\ missed = FALSE
  /\ child = "none" /\ childStatus = "none" /\ held = FALSE /\ writing = FALSE
  /\ eof = FALSE
  /\ entered = 0 /\ typed = 0 /\ inPty = 0 /\ consumed = 0
  /\ produced = 0 /\ outPty = 0 /\ logged = 0 /\ shown = 0
  /\ epilogue = "none" /\ exitStatus = "none"
-----------------------------------------------------------------------------
(* Signals.                                                                *)

(* rootsh is terminated by the default action of a signal.                 *)
Die == pc' = "exited" /\ exitStatus' = "killed" /\ UNCHANGED epilogue

(* logSession's error exits: one message to the log, then exit.            *)
Fail == pc' = "exited" /\ epilogue' = "error" /\ exitStatus' = "err"

(* What the arrival of a signal does to the system call in progress.  The  *)
(* first disjunct is a signal that finds no call blocked; pselect prefers  *)
(* a ready descriptor or EINTR as the system likes.  A child that has just *)
(* terminated satisfies wait instead of interrupting it.                   *)
Interrupt ==
  \/ /\ pc # "select" \/ Readable # {}
     /\ UNCHANGED <<procVars, shown, endVars>>
  \/ /\ pc = "select"
     /\ pc' = "winch" /\ ready' = {}
     /\ UNCHANGED <<buf, shown, endVars>>
  \/ /\ pc = "toPty" /\ SlaveHeld /\ ~PtyHasRoom
     /\ Fail
     /\ UNCHANGED <<ready, buf, shown>>
  \/ /\ pc = "show"
     /\ Fail
     /\ UNCHANGED <<ready, buf, shown>>
  \/ /\ pc = "show" /\ buf > 1
     /\ \E k \in 1 .. buf - 1 : shown' = shown + k
     /\ pc' = "winch" /\ buf' = 0
     /\ UNCHANGED <<ready, endVars>>
  \/ /\ pc = "wait" /\ child' # "zombie"
     /\ pc' = "close" /\ epilogue' = "waitError" /\ exitStatus' = "err"
     /\ UNCHANGED <<ready, buf, shown>>

(* signalHandler, or the default action while none is installed.  Every    *)
(* caller constrains child' first.                                         *)
Deliver(s) ==
  \/ /\ pc \in DefaultPCs /\ s \in {"INT", "QUIT"}
     /\ Die
     /\ UNCHANGED <<ready, buf, flags, shown>>
  \/ /\ pc \in DefaultPCs /\ s \in {"CHLD", "WINCH"}
     /\ UNCHANGED <<procVars, flags, shown, endVars>>
  \/ /\ pc \notin DefaultPCs
     /\ flags' = flags \cup {s}
     /\ Interrupt
-----------------------------------------------------------------------------
(* The environment.                                                        *)

Live == pc # "exited"

Type ==
  /\ Live /\ ~eof /\ entered < MaxIn
  /\ entered' = entered + 1 /\ typed' = typed + 1
  /\ UNCHANGED <<procVars, flags, tty, sizeVars, childVars, eof, inPty, consumed,
                 outVars, endVars>>

CloseStdin ==
  /\ Live /\ ~eof
  /\ eof' = TRUE
  /\ UNCHANGED <<procVars, flags, tty, sizeVars, childVars, entered, typed, inPty,
                 consumed, outVars, endVars>>

(* The user resizes the terminal, once or several times in a row, so that  *)
(* it may have its old size again when the signal comes.                   *)
Unnoticed == (SetupPCs \ {"save"}) \cup {"forward", "winchDone"}
Resize ==
  /\ Live
  /\ \E s \in Sizes : termSize' = s
  /\ missed' = (missed \/ (termSize' # termSize /\ pc \in Unnoticed))
  /\ UNCHANGED <<tty, winSize, slaveSize, childVars, inVars, produced, outPty, logged>>
  /\ Deliver("WINCH")

(* Somebody sends a signal to rootsh.  A SIGCHLD or SIGWINCH that nothing  *)
(* has caused is handled like any other.                                   *)
Signal(s) ==
  /\ Live
  /\ UNCHANGED <<tty, sizeVars, childVars, inVars, produced, outPty, logged>>
  /\ Deliver(s)

(* Any signal rootsh installs no handler for, SIGHUP for one.              *)
Kill ==
  /\ Live /\ "kill" \in Faults
  /\ Die
  /\ UNCHANGED <<ready, buf, flags, tty, sizeVars, childVars, inVars, outVars>>

(* The shell enters write(2) and leaves it once the pty has room.          *)
ChildWrite ==
  /\ Live /\ child = "running" /\ ~writing /\ produced < MaxOut
  /\ writing' = TRUE
  /\ UNCHANGED <<procVars, flags, tty, sizeVars, child, childStatus, held, inVars,
                 outVars, endVars>>

ChildWritten ==
  /\ Live /\ child = "running" /\ writing /\ outPty < OutCap
  /\ writing' = FALSE /\ produced' = produced + 1 /\ outPty' = outPty + 1
  /\ UNCHANGED <<procVars, flags, tty, sizeVars, child, childStatus, held, inVars,
                 logged, shown, endVars>>

ChildRead ==
  /\ Live /\ child = "running" /\ ~writing /\ inPty > 0
  /\ inPty' = inPty - 1 /\ consumed' = consumed + 1
  /\ UNCHANGED <<procVars, flags, tty, sizeVars, childVars, eof, entered, typed,
                 outVars, endVars>>

(* The shell leaves a process behind that keeps the slave open.            *)
ChildSpawn ==
  /\ Live /\ child = "running" /\ ~held
  /\ held' = TRUE
  /\ UNCHANGED <<procVars, flags, tty, sizeVars, child, childStatus, writing, inVars,
                 outVars, endVars>>

OtherWrite ==
  /\ Live /\ held /\ ~writing /\ produced < MaxOut /\ outPty < OutCap
  /\ produced' = produced + 1 /\ outPty' = outPty + 1
  /\ UNCHANGED <<procVars, flags, tty, sizeVars, childVars, inVars, logged, shown,
                 endVars>>

OtherExit ==
  /\ Live /\ held
  /\ held' = FALSE
  /\ UNCHANGED <<procVars, flags, tty, sizeVars, child, childStatus, writing, inVars,
                 outVars, endVars>>

(* The child exits by itself or is killed.                                 *)
ChildExit(status) ==
  /\ Live
  /\ \/ child = "running" /\ (writing => status = "sig")
     \/ child = "stopped" /\ status = "sig"
  /\ child' = "zombie" /\ childStatus' = status /\ writing' = FALSE
  /\ UNCHANGED <<tty, sizeVars, held, inVars, produced, outPty, logged>>
  /\ Deliver("CHLD")

(* Without SA_NOCLDSTOP a stop or a continue sends SIGCHLD as well.        *)
ChildStop ==
  /\ Live /\ child = "running"
  /\ child' = "stopped"
  /\ UNCHANGED <<tty, sizeVars, childStatus, held, writing, inVars, produced, outPty,
                 logged>>
  /\ Deliver("CHLD")

ChildContinue ==
  /\ Live /\ child = "stopped"
  /\ child' = "running"
  /\ UNCHANGED <<tty, sizeVars, childStatus, held, writing, inVars, produced, outPty,
                 logged>>
  /\ Deliver("CHLD")
-----------------------------------------------------------------------------
(* main and logSession up to the loop.                                     *)

SaveTerminal ==
  /\ pc = "save"
  /\ winSize' = termSize /\ pc' = "fork"
  /\ UNCHANGED <<ready, buf, flags, tty, termSize, slaveSize, missed, childVars,
                 inVars, outVars, endVars>>

ForkPty ==
  /\ pc = "fork"
  /\ child' = "running" /\ slaveSize' = winSize /\ pc' = "raw"
  /\ UNCHANGED <<ready, buf, flags, tty, termSize, winSize, missed, childStatus,
                 held, writing, inVars, outVars, endVars>>

(* perror, not dologging: nothing is added to the log.                     *)
ForkPtyFails ==
  /\ pc = "fork" /\ "fork" \in Faults
  /\ pc' = "exited" /\ exitStatus' = "err"
  /\ UNCHANGED <<ready, buf, flags, tty, sizeVars, childVars, inVars, outVars,
                 epilogue>>

SetRaw ==
  /\ pc = "raw"
  /\ \/ /\ tty' = IF tty = "none" THEN tty ELSE "raw"
        /\ pc' = "handlers"
        /\ UNCHANGED endVars
     \/ /\ tty # "none" /\ "tcsetattr" \in Faults
        /\ Fail
        /\ UNCHANGED tty
  /\ UNCHANGED <<ready, buf, flags, sizeVars, childVars, inVars, outVars>>

InstallHandlers ==
  /\ pc = "handlers" /\ pc' = "clear"
  /\ UNCHANGED <<ready, buf, flags, tty, sizeVars, childVars, inVars, outVars,
                 endVars>>

ClearFlags ==
  /\ pc = "clear" /\ pc' = "loop"
  /\ flags' = {}
  /\ UNCHANGED <<ready, buf, tty, sizeVars, childVars, inVars, outVars, endVars>>
-----------------------------------------------------------------------------
(* The event loop of logSession, in the order of its body.                 *)

EnterSelect ==
  /\ pc = "loop" /\ pc' = "select"
  /\ UNCHANGED <<ready, buf, flags, tty, sizeVars, childVars, inVars, outVars,
                 endVars>>

Select ==
  /\ pc = "select"
  /\ \/ /\ Readable # {}
        /\ ready' = Readable /\ pc' = "stdin"
        /\ UNCHANGED endVars
     \/ /\ "select" \in Faults
        /\ Fail
        /\ UNCHANGED ready
  /\ UNCHANGED <<buf, flags, tty, sizeVars, childVars, inVars, outVars>>

ReadStdin ==
  /\ pc = "stdin"
  /\ \/ /\ "stdin" \notin ready
        /\ pc' = "pty"
        /\ UNCHANGED <<buf, typed, endVars>>
     \/ /\ "stdin" \in ready
        /\ \E n \in 0 .. Min2(typed, ReadMax) :
              /\ n = 0 <=> typed = 0
              /\ buf' = n /\ typed' = typed - n
        /\ pc' = "toPty"
        /\ UNCHANGED endVars
     \/ /\ "stdin" \in ready /\ "read" \in Faults
        /\ Fail
        /\ UNCHANGED <<buf, typed>>
  /\ UNCHANGED <<ready, flags, tty, sizeVars, childVars, eof, entered, inPty,
                 consumed, outVars>>

(* A write to a pty whose slave is closed fails; whether that holds for no *)
(* bytes at all (end of file on stdin) is left open.  A write that places  *)
(* fewer than n chunks would be an error, so it places them all or fails.  *)
WriteToPty(n) ==
  /\ pc = "toPty"
  /\ \/ /\ SlaveHeld /\ PtyHasRoom
        /\ inPty' = inPty + n /\ buf' = 0 /\ pc' = "pty"
        /\ UNCHANGED endVars
     \/ /\ HungUp /\ buf = 0
        /\ pc' = "pty"
        /\ UNCHANGED <<buf, inPty, endVars>>
     \/ /\ HungUp
        /\ Fail
        /\ UNCHANGED <<buf, inPty>>
  /\ UNCHANGED <<ready, flags, tty, sizeVars, childVars, eof, entered, typed,
                 consumed, outVars>>

(* A short write taken for a complete one.                                 *)
WritePtyBug == WriteToPty(Min2(buf, 1))
WritePty == WriteToPty(buf)

ReadPtyWhen(set, next) ==
  /\ pc = "pty"
  /\ \/ /\ set /\ outPty > 0
        /\ \E n \in 1 .. Min2(outPty, ReadMax) :
              buf' = n /\ outPty' = outPty - n
        /\ pc' = next
     \/ /\ ~set \/ outPty = 0
        /\ pc' = "winch"
        /\ UNCHANGED <<buf, outPty>>
  /\ UNCHANGED <<ready, flags, tty, sizeVars, childVars, inVars, produced, logged,
                 shown, endVars>>

(* The screen is served before the log; the pty only if stdin is silent.   *)
ScreenFirstBug == ReadPtyWhen("pty" \in ready, "show")
ElseIfBug      == ReadPtyWhen(ready = {"pty"}, "log")
ReadPty        == ReadPtyWhen("pty" \in ready, "log")

LogUpTo(n) ==
  /\ pc = "log" /\ pc' = "show"
  /\ logged' = logged + n
  /\ UNCHANGED <<ready, buf, flags, tty, sizeVars, childVars, inVars, produced,
                 outPty, shown, endVars>>

(* Only part of the buffer is passed to dologging.                         *)
LogOutputBug == LogUpTo(Min2(buf, 1))
LogOutput    == LogUpTo(buf)

ShowOutput ==
  /\ pc = "show"
  /\ \/ /\ shown' = shown + buf
        /\ buf' = 0 /\ pc' = "winch"
        /\ UNCHANGED endVars
     \/ /\ "stdout" \in Faults
        /\ Fail
        /\ UNCHANGED <<buf, shown>>
  /\ UNCHANGED <<ready, flags, tty, sizeVars, childVars, inVars, produced, outPty,
                 logged>>

ReadWinSizeAs(size) ==
  /\ pc = "winch"
  /\ \/ /\ "WINCH" \in flags
        /\ winSize' = size /\ missed' = FALSE /\ pc' = "forward"
     \/ /\ "WINCH" \notin flags
        /\ pc' = "term"
        /\ UNCHANGED <<winSize, missed>>
  /\ UNCHANGED <<ready, buf, flags, tty, termSize, slaveSize, childVars, inVars,
                 outVars, endVars>>

(* The size saved at the start is forwarded.                               *)
ReadWinSizeBug == ReadWinSizeAs(winSize)
ReadWinSize    == ReadWinSizeAs(termSize)

ForwardWinSize ==
  /\ pc = "forward" /\ pc' = "winchDone"
  /\ slaveSize' = winSize
  /\ UNCHANGED <<ready, buf, flags, tty, termSize, winSize, missed, childVars, inVars,
                 outVars, endVars>>

Forget(signals) ==
  /\ pc = "winchDone" /\ pc' = "term"
  /\ flags' = flags \ signals
  /\ UNCHANGED <<ready, buf, tty, sizeVars, childVars, inVars, outVars, endVars>>

(* Every flag is cleared once signals have been handled.                   *)
WinchDoneBug == Forget(Signals)
WinchDone    == Forget({"WINCH"})

StopOn(signals) ==
  /\ pc = "term"
  /\ pc' = IF flags \cap signals # {} THEN "restore" ELSE "loop"
  /\ UNCHANGED <<ready, buf, flags, tty, sizeVars, childVars, inVars, outVars,
                 endVars>>

(* SIGINT is forgotten.                                                    *)
NoIntBug     == StopOn({"QUIT", "CHLD"})
(* The end of the child is left for the hangup to tell.                    *)
CheckStopBug == StopOn({"INT", "QUIT"})
CheckStop    == StopOn(StopSignals)
-----------------------------------------------------------------------------
(* finish.                                                                 *)

RestoreTo(modes) ==
  /\ pc = "restore" /\ pc' = "wait"
  /\ \/ tty' = IF tty = "raw" THEN modes ELSE tty
     \/ "tcsetattr" \in Faults /\ tty # "none" /\ UNCHANGED tty
  /\ UNCHANGED <<ready, buf, flags, sizeVars, childVars, inVars, outVars, endVars>>

(* newTty is set once more.                                                *)
RestoreTerminalBug == RestoreTo("raw")
RestoreTerminal    == RestoreTo("cooked")

(* WIFEXITED, WIFSIGNALED and WEXITSTATUS.                                 *)
Verdict  == IF childStatus = "sig" THEN "interrupted" ELSE "ended"
ExitCode == IF childStatus = "ok" THEN "ok" ELSE "err"

(* wait without WUNTRACED reports terminated children only.                *)
WaitAnd(text) ==
  /\ pc = "wait" /\ child = "zombie"
  /\ child' = "reaped" /\ pc' = "close"
  /\ epilogue' = text /\ exitStatus' = ExitCode
  /\ UNCHANGED <<ready, buf, flags, tty, sizeVars, childStatus, held, writing, inVars,
                 outVars>>

(* A signal is not looked for.                                             *)
NoSignalBug == WaitAnd("ended")
Wait        == WaitAnd(Verdict)

(* endlogging, close(masterPty) and exit.                                  *)
EndSession ==
  /\ pc = "close" /\ pc' = "exited"
  /\ UNCHANGED <<ready, buf, flags, tty, sizeVars, childVars, inVars, outVars,
                 endVars>>
-----------------------------------------------------------------------------
Setup  == \/ SaveTerminal \/ ForkPty \/ ForkPtyFails \/ SetRaw
          \/ InstallHandlers \/ ClearFlags
Relay  == \/ EnterSelect \/ Select \/ ReadStdin \/ WritePty \/ ReadPty
          \/ LogOutput \/ ShowOutput
          \/ ReadWinSize \/ ForwardWinSize \/ WinchDone \/ CheckStop
Finish == RestoreTerminal \/ Wait \/ EndSession
Rootsh == Setup \/ Relay \/ Finish

User  == Type \/ CloseStdin \/ Resize \/ Kill \/ \E s \in Signals : Signal(s)
Shell == \/ ChildWrite \/ ChildWritten \/ ChildRead \/ ChildSpawn
         \/ OtherWrite \/ OtherExit \/ ChildStop \/ ChildContinue
         \/ \E status \in {"ok", "err", "sig"} : ChildExit(status)

Next == Rootsh \/ User \/ Shell

Spec == Init /\ [][Next]_vars
(* rootsh is scheduled; user and shell may do nothing for ever.            *)
FairSpec == Spec /\ WF_vars(Rootsh)
-----------------------------------------------------------------------------
(* Every variable has its type; the stages of a stream never exceed it.    *)
TypeOK ==
  /\ pc \in PCs
  /\ ready \subseteq {"stdin", "pty"}
  /\ buf \in Nat
  /\ flags \subseteq Signals
  /\ tty \in {"cooked", "raw", "none"}
  /\ termSize \in Sizes /\ winSize \in Sizes /\ slaveSize \in Sizes
  /\ missed \in BOOLEAN
  /\ child \in {"none", "running", "stopped", "zombie", "reaped"}
  /\ childStatus \in {"none", "ok", "err", "sig"}
  /\ held \in BOOLEAN /\ writing \in BOOLEAN
  /\ eof \in BOOLEAN
  /\ entered \in Nat /\ typed \in Nat /\ inPty \in Nat /\ consumed \in Nat
  /\ produced \in Nat /\ outPty \in Nat /\ logged \in Nat /\ shown \in Nat
  /\ epilogue \in Closers \cup {"none", "error"}
  /\ exitStatus \in {"none", "ok", "err", "killed"}

(* Until rootsh ends, and also when it ends by itself, each chunk the      *)
(* slave wrote is in exactly one place: still in the pty, in the buffer on *)
(* its way to dologging, or logged.  No interleaving of the relay with     *)
(* signals, resizes and exits drops or logs a chunk twice.                 *)
OutputConserved ==
  exitStatus # "killed" =>
    produced = logged + (IF pc = "log" THEN buf ELSE 0) + outPty

(* While rootsh relays, each chunk the user typed is on stdin, in the      *)
(* buffer, in the pty or with the shell: input is neither lost nor sent    *)
(* twice when a pselect reports both descriptors.                          *)
InputConserved ==
  pc # "exited" => entered = typed + (IF pc = "toPty" THEN buf ELSE 0) + inPty + consumed

(* rootsh reports success only for a child it reaped and that succeeded,   *)
(* and the closing line of the log tells how that child really ended.      *)
VerdictTruthful ==
  /\ exitStatus = "ok" => child = "reaped" /\ childStatus = "ok" /\ epilogue = "ended"
  /\ epilogue = "ended" => child = "reaped" /\ childStatus \in {"ok", "err"}
  /\ epilogue = "interrupted" => child = "reaped" /\ childStatus = "sig"

(* When finish has closed the log the user has his own terminal back.      *)
(* (Unless tcsetattr failed: the run keeps that fault out.)                *)
TerminalBack == LogClosed => tty # "raw"

(* Outside setup, if no resize is waiting in sigWinchReceived and none     *)
(* came at a moment when rootsh cannot notice it (between reading the size *)
(* and clearing the flag, or before the handlers count), the shell sees    *)
(* the size the terminal has.                                              *)
WinSizeInStep ==
  /\ pc \notin SetupPCs /\ child # "none"
  /\ ~missed /\ "WINCH" \notin flags
  => slaveSize = termSize

(* Recorder is what the session promises about the shell's output.         *)
Promise == INSTANCE Recorder
  WITH written <- produced, recorded <- logged, displayed <- shown,
       ended <- (pc = "exited")
(* Each step of the session is one of its steps or changes none of its     *)
(* variables: what is logged and shown only grows, in this order, never    *)
(* beyond what the shell wrote, and nothing moves once rootsh has ended.   *)
KeepsPromise == Promise!Spec

(* A recorded request to stop is never forgotten: nothing the loop does,   *)
(* clearing sigWinchReceived included, turns it off again.                 *)
StopRequestKept ==
  [][pc \notin SetupPCs /\ flags \cap StopSignals # {}
       => flags \cap StopSignals \subseteq flags']_vars

(* Once the loop runs, the end of the child ends rootsh, provided nothing  *)
(* else holds the slave open: a SIGCHLD that pselect slept through is made *)
(* good by the hangup, no blocked write outlasts the shell, and finish is  *)
(* not left waiting for a child that a second signal hides.                *)
ChildEndEndsSession ==
  (child = "zombie" /\ "CHLD" \in flags /\ pc \in LoopPCs \cup FinishPCs /\ ~held)
    ~> (pc = "exited")

(* A request to stop that the handler recorded ends the relay, whatever    *)
(* the user and the shell do.  What may keep it waiting is a system call   *)
(* the request did not interrupt, because it came just before: pselect     *)
(* with nothing to report, or a write the shell does not take.             *)
StopEndsRelay ==
  (pc \in LoopPCs /\ flags \cap StopSignals # {})
    ~> \/ pc \in FinishPCs \cup {"exited"}
       \/ pc = "select" /\ Readable = {}
       \/ pc = "toPty" /\ ~PtyHasRoom

(* A chunk the shell wrote is logged, even if the user never stops typing  *)
(* or stdin is at end of file and always readable, unless a stop request   *)
(* reaches finish first, rootsh ends, or the shell reads no input any more *)
(* and rootsh waits in its write to the pty.  Where pselect prefers EINTR  *)
(* signals without end (SIGWINCH) keep it from reporting anything.         *)
InterruptedForEver == []<><<pc = "select" /\ pc' = "winch">>_vars
OutputReachesLog ==
  \/ InterruptedForEver
  \/ \A n \in 1 .. MaxOut :
       (produced >= n)
         ~> (logged >= n \/ pc \in FinishPCs \cup {"exited"} \/ (pc = "toPty" /\ ~PtyHasRoom))
=============================================================================
