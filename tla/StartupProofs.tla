---------------------------- MODULE StartupProofs ----------------------------
(***************************************************************************)
(* Proofs about Startup, for all users, shells and callers.  One invariant *)
(* per question, each saying at which step of main what is known; their    *)
(* steps are those of Next.                                                *)
(***************************************************************************)
EXTENDS Startup, TLAPS

USE DEF vars, confVars, optVars, fixed, outcome, rest, NoLog, NoExec, EnvNames, LogDirs

(* Every step keeps the types: setupusermode keeps a name in the buffer    *)
(* only if it was found, setupshell goes on with a shell only.             *)
LEMMA TypeStep == TypeOK /\ [Next]_vars => TypeOK'
<1> SUFFICES ASSUME TypeOK, [Next]_vars PROVE TypeOK'
  OBVIOUS
<1> USE StartupAssumption DEF TypeOK

<1>1. CASE ConfigLine
  BY <1>1 DEF ConfigLine
<1>2. CASE ConfigRead
  BY <1>2 DEF ConfigRead, Exit
<1>3. CASE Option
  <2> USE <1>3 DEF Option
  <2>1. env' = env /\ logdir' = logdir /\ defaultshell' = defaultshell /\ pc' = pc
    OBVIOUS
  <2>2. /\ logtofile' \in BOOLEAN /\ logtosyslog' \in BOOLEAN
        /\ runAsUser' \in Names \cup {"none"} /\ useLoginShell' \in BOOLEAN
    OBVIOUS
  <2>3. /\ userLogFileName' \in {"none", "absolute", "relative"}
        /\ userLogFileDir' \in {"none", "given"}
    OBVIOUS
  <2> QED
    BY <2>1, <2>2, <2>3
<1>4. CASE OptionsRead
  BY <1>4 DEF OptionsRead, Exit
<1>5. CASE SetSession
  BY <1>5 DEF SetSession
<1>6. CASE setupusername
  BY <1>6 DEF setupusername, userName, Crash
<1>7. CASE setupusermode
  BY <1>7 DEF setupusermode, UserMode, KeepTerm, Exit, Crash
<1>8. CASE setupshell
  <2>1. PICK sh \in Shells :
          /\ UserShell(sh)
          /\ \/ Exit /\ UNCHANGED <<env, shell, useLoginShell>>
             \/ Replace
             \/ pc' = "log" /\ shell' = sh /\ UNCHANGED <<env, useLoginShell>>
    BY <1>8 DEF setupshell, ShellFor
  <2>2. uidBuf' \in Users \cup {"none"}
    BY <2>1 DEF UserShell, userName
  <2>3. /\ pc' \in {"log", "exit", "crash"} /\ shell' \in Shells \cup {"none"}
        /\ env' \in [EnvNames -> Shells \cup Users \cup {"none", "set"}]
        /\ useLoginShell' \in BOOLEAN
    <3>1. CASE Exit /\ UNCHANGED <<env, shell, useLoginShell>>
      BY <3>1 DEF Exit
    <3>2. CASE Replace /\ defaultshell = "none"
      BY <3>2 DEF Replace, getDefaultshell, Crash
    <3>3. CASE Replace /\ defaultshell # "none"
      <4>1. /\ pc' = "log" /\ shell' = defaultshell /\ useLoginShell' = TRUE
            /\ env' = [env EXCEPT !["SHELL"] = defaultshell]
        BY <3>3 DEF Replace, getDefaultshell
      <4> QED
        BY <4>1
    <3>4. CASE pc' = "log" /\ shell' = sh /\ UNCHANGED <<env, useLoginShell>>
      BY <3>4
    <3> QED
      BY <2>1, <3>1, <3>2, <3>3, <3>4
  <2> QED
    BY <1>8, <2>2, <2>3 DEF setupshell, ShellFor
<1>9. CASE beginlogging
  BY <1>9 DEF beginlogging, LogNamedBy, LogDir, LogName, Exit, Crash
<1>10. CASE execShell
  BY <1>10 DEF execShell
<1>11. CASE UNCHANGED vars
  BY <1>11
<1> QED
  BY <1>1, <1>2, <1>3, <1>4, <1>5, <1>6, <1>7, <1>8, <1>9, <1>10, <1>11 DEF Next

(* The types are right, in every state, for every value of the constants.  *)
THEOREM TypeCorrect == Spec => []TypeOK
<1>1. ASSUME Init PROVE TypeOK
  <2>1. env \in [EnvNames -> Shells \cup Users \cup {"none", "set"}]
    <3>1. PICK s \in Users \cup {"none"}, t \in {"none", "set"},
          sh \in Shells \cup {"none"} :
            env = [v \in EnvNames |-> CASE v = "SUDO_USER" -> s [] v = "TERM" -> t
                                        [] v = "SHELL" -> sh [] OTHER -> "none"]
      BY <1>1 DEF Init
    <3> QED
      BY <3>1
  <2>2. uid \in Users \cup {"none"} /\ euid \in Users \cup {"none"}
    BY <1>1, StartupAssumption DEF Init
  <2> QED
    BY <1>1, <2>1, <2>2 DEF Init, TypeOK
<1> QED
  BY <1>1, TypeStep, PTL DEF Spec

(* The steps after the session id is set, after the shell is known, and    *)
(* after the log is opened.                                                *)
Named  == {"username", "usermode", "shell", "log", "exec", "running"}
Shelled == {"log", "exec", "running"}
Opened == {"exec", "running"}

-----------------------------------------------------------------------------
(* Until the session id is set SUDO_USER is as it was; from then on        *)
(* standalone remembers it, whatever becomes of the environment.           *)
SudoKnown ==
  /\ pc \in {"config", "options", "session"} => sudo = env["SUDO_USER"]
  /\ pc \in Named => (standalone <=> sudo = "none")
  /\ pc \in Opened /\ sudo # "none" /\ logtofile =>
       logFileName.dir = logdir /\ logFileName.name = "default"

(* It is kept by every step of main.                                       *)
LEMMA SudoKnownStep == TypeOK /\ SudoKnown /\ [Next]_vars => SudoKnown'
<1> SUFFICES ASSUME TypeOK, SudoKnown, [Next]_vars PROVE SudoKnown'
  OBVIOUS
<1> USE StartupAssumption DEF TypeOK, SudoKnown, Named, Opened
<1>1. CASE ConfigLine
  BY <1>1 DEF ConfigLine
<1>2. CASE ConfigRead
  BY <1>2 DEF ConfigRead, Exit
<1>3. CASE Option
  BY <1>3 DEF Option
<1>4. CASE OptionsRead
  BY <1>4 DEF OptionsRead, Exit
<1>5. CASE SetSession
  BY <1>5 DEF SetSession
<1>6. CASE setupusername
  BY <1>6 DEF setupusername, userName, Crash
<1>7. CASE setupusermode
  BY <1>7 DEF setupusermode, UserMode, KeepTerm, Exit, Crash
<1>8. CASE setupshell
  BY <1>8 DEF setupshell, ShellFor, UserShell, SelfAs, Replace, getDefaultshell,
          Allowed, Exit, Crash
<1>9. CASE beginlogging
  BY <1>9 DEF beginlogging, LogNamedBy, LogDir, LogName, Exit, Crash
<1>10. CASE execShell
  BY <1>10 DEF execShell
<1>11. CASE UNCHANGED vars
  BY <1>11
<1> QED
  BY <1>1, <1>2, <1>3, <1>4, <1>5, <1>6, <1>7, <1>8, <1>9, <1>10, <1>11 DEF Next

(* Through sudo the log is in logdir, under the default name.              *)
THEOREM SudoIsLoggedHome == Spec => []SudoLogsHome
<1>1. Init => SudoKnown
  BY StartupAssumption DEF Init, SudoKnown, Named, Opened
<1>2. TypeOK /\ SudoKnown => SudoLogsHome
  BY StartupAssumption DEF TypeOK, SudoKnown, SudoLogsHome, Running, Named, Opened
<1> QED
  BY <1>1, <1>2, TypeCorrect, SudoKnownStep, PTL DEF Spec

-----------------------------------------------------------------------------
(* Whose name is in the buffer of getpwuid, step by step.                  *)
BufferKnown ==
  /\ pc = "usermode" => uidBuf = euid
  /\ pc \in {"shell", "log"} /\ ~shared => uidBuf = euid
  /\ pc \in Opened /\ logtofile =>
       /\ logFileName.user = uidBuf
       /\ runAsUser = "none" => uidBuf = uid
       /\ runAsUser # "none" /\ ~shared => uidBuf = euid

(* It is kept by every step of main.                                       *)
LEMMA BufferKnownStep == TypeOK /\ BufferKnown /\ [Next]_vars => BufferKnown'
<1> SUFFICES ASSUME TypeOK, BufferKnown, [Next]_vars PROVE BufferKnown'
  OBVIOUS
<1> USE StartupAssumption DEF TypeOK, BufferKnown, Opened, userName
<1>1. CASE ConfigLine
  BY <1>1 DEF ConfigLine
<1>2. CASE ConfigRead
  BY <1>2 DEF ConfigRead, Exit
<1>3. CASE Option
  BY <1>3 DEF Option
<1>4. CASE OptionsRead
  BY <1>4 DEF OptionsRead, Exit
<1>5. CASE SetSession
  BY <1>5 DEF SetSession
<1>6. CASE setupusername
  BY <1>6 DEF setupusername, userName, Crash
<1>7. CASE setupusermode
  BY <1>7 DEF setupusermode, UserMode, KeepTerm, Exit, Crash
<1>8. CASE setupshell
  BY <1>8 DEF setupshell, ShellFor, UserShell, SelfAs, Replace, getDefaultshell,
          Allowed, Exit, Crash
<1>9. CASE beginlogging
  BY <1>9 DEF beginlogging, LogNamedBy, LogDir, LogName, Exit, Crash
<1>10. CASE execShell
  BY <1>10 DEF execShell
<1>11. CASE UNCHANGED vars
  BY <1>11
<1> QED
  BY <1>1, <1>2, <1>3, <1>4, <1>5, <1>6, <1>7, <1>8, <1>9, <1>10, <1>11 DEF Next

(* The log is named after the user it tells of: that of the process.       *)
THEOREM LogIsFiledUnderUid == Spec => []FiledUnderUid
<1>1. Init => BufferKnown
  BY StartupAssumption DEF Init, BufferKnown, Opened, userName
<1>2. TypeOK /\ BufferKnown => FiledUnderUid
  BY StartupAssumption DEF TypeOK, BufferKnown, FiledUnderUid, Running, Opened,
          userName
<1> QED
  BY <1>1, <1>2, TypeCorrect, BufferKnownStep, PTL DEF Spec

-----------------------------------------------------------------------------
(* What setupshell found, kept until the exec.                             *)
ShellKnown ==
  /\ pc \in Shelled =>
       /\ \/ shell \in Allowed
          \/ shell = defaultshell /\ "rootsh" \in Allowed /\ useLoginShell
       /\ shell = "rootsh" => progName = "other" \/ defaultshell = "rootsh"
  /\ pc = "running" =>
       /\ program.file = IF runAsUser # "none" THEN "su" ELSE shell
       /\ program.login = useLoginShell

(* It is kept by every step of main.                                       *)
LEMMA ShellKnownStep == TypeOK /\ ShellKnown /\ [Next]_vars => ShellKnown'
<1> SUFFICES ASSUME TypeOK, ShellKnown, [Next]_vars PROVE ShellKnown'
  OBVIOUS
<1> USE StartupAssumption DEF TypeOK, ShellKnown, Shelled, Allowed
<1>1. CASE ConfigLine
  BY <1>1 DEF ConfigLine
<1>2. CASE ConfigRead
  BY <1>2 DEF ConfigRead, Exit
<1>3. CASE Option
  BY <1>3 DEF Option
<1>4. CASE OptionsRead
  BY <1>4 DEF OptionsRead, Exit
<1>5. CASE SetSession
  BY <1>5 DEF SetSession
<1>6. CASE setupusername
  BY <1>6 DEF setupusername, userName, Crash
<1>7. CASE setupusermode
  BY <1>7 DEF setupusermode, UserMode, KeepTerm, Exit, Crash
<1>8. CASE setupshell
  BY <1>8 DEF setupshell, ShellFor, UserShell, SelfAs, Replace, getDefaultshell,
          Allowed, Exit, Crash
<1>9. CASE beginlogging
  BY <1>9 DEF beginlogging, LogNamedBy, LogDir, LogName, Exit, Crash
<1>10. CASE execShell
  BY <1>10 DEF execShell
<1>11. CASE UNCHANGED vars
  BY <1>11
<1> QED
  BY <1>1, <1>2, <1>3, <1>4, <1>5, <1>6, <1>7, <1>8, <1>9, <1>10, <1>11 DEF Next

(* A shell is known only once setupshell has looked at it.                 *)
LEMMA InitShellKnown == Init => ShellKnown
BY StartupAssumption DEF Init, ShellKnown, Shelled, Allowed

(* Only listed shells are run, or the default shell in place of rootsh.    *)
THEOREM OnlyAllowedShells == Spec => []AllowedShell
<1>1. TypeOK /\ ShellKnown => AllowedShell
  BY StartupAssumption DEF TypeOK, ShellKnown, AllowedShell, Running, Shelled, Allowed
<1> QED
  BY <1>1, InitShellKnown, TypeCorrect, ShellKnownStep, PTL DEF Spec

(* rootsh does not run itself.                                             *)
THEOREM NotStartedAgain == Spec => []NotItself
<1>1. TypeOK /\ ShellKnown => NotItself
  BY StartupAssumption DEF TypeOK, ShellKnown, NotItself, Running, Shelled, Allowed
<1> QED
  BY <1>1, InitShellKnown, TypeCorrect, ShellKnownStep, PTL DEF Spec

-----------------------------------------------------------------------------
(* What is left of the environment after -u.                               *)
EnvKnown ==
  /\ pc \in {"username", "usermode"} => env["ROOTSH_SESSIONID"] = "set"
  /\ pc \in {"shell"} \cup Shelled =>
       (env["ROOTSH_SESSIONID"] = "set" <=> runAsUser = "none")
  /\ pc = "shell" /\ runAsUser # "none" =>
       env["TERM"] # "none" /\ env["SUDO_USER"] = "none" /\ env["SHELL"] = "none"
  /\ pc \in Shelled /\ runAsUser # "none" =>
       /\ env["TERM"] # "none" /\ env["SUDO_USER"] = "none"
       /\ env["SHELL"] # "none" => useLoginShell /\ env["SHELL"] = defaultshell
  /\ pc \in Shelled /\ runAsUser = "none" => shell # "none" /\ shell # "su"
  /\ pc = "running" =>
       /\ program.file = IF runAsUser # "none" THEN "su" ELSE shell
       /\ program.login = useLoginShell

(* It is kept by every step of main.                                       *)
LEMMA EnvKnownStep == TypeOK /\ EnvKnown /\ [Next]_vars => EnvKnown'
<1> SUFFICES ASSUME TypeOK, EnvKnown, [Next]_vars PROVE EnvKnown'
  OBVIOUS
<1> USE StartupAssumption DEF TypeOK, EnvKnown, Shelled
<1>1. CASE ConfigLine
  BY <1>1 DEF ConfigLine
<1>2. CASE ConfigRead
  BY <1>2 DEF ConfigRead, Exit
<1>3. CASE Option
  BY <1>3 DEF Option
<1>4. CASE OptionsRead
  BY <1>4 DEF OptionsRead, Exit
<1>5. CASE SetSession
  BY <1>5 DEF SetSession
<1>6. CASE setupusername
  BY <1>6 DEF setupusername, userName, Crash
<1>7. CASE setupusermode
  BY <1>7 DEF setupusermode, UserMode, KeepTerm, Exit, Crash
<1>8. CASE setupshell
  BY <1>8 DEF setupshell, ShellFor, UserShell, SelfAs, Replace, getDefaultshell,
          Allowed, Exit, Crash
<1>9. CASE beginlogging
  BY <1>9 DEF beginlogging, LogNamedBy, LogDir, LogName, Exit, Crash
<1>10. CASE execShell
  BY <1>10 DEF execShell
<1>11. CASE UNCHANGED vars
  BY <1>11
<1> QED
  BY <1>1, <1>2, <1>3, <1>4, <1>5, <1>6, <1>7, <1>8, <1>9, <1>10, <1>11 DEF Next

(* su gets TERM, and SHELL only if rootsh set it.                          *)
THEOREM EnvironmentIsClean == Spec => []CleanEnvironment
<1>1. Init => EnvKnown
  BY StartupAssumption DEF Init, EnvKnown, Shelled
<1>2. TypeOK /\ EnvKnown => CleanEnvironment
  BY StartupAssumption DEF TypeOK, EnvKnown, CleanEnvironment, Running, Shelled
<1> QED
  BY <1>1, <1>2, TypeCorrect, EnvKnownStep, PTL DEF Spec

=============================================================================
