------------------------------- MODULE Startup -------------------------------
(***************************************************************************)
(* rootsh from the start of main to the exec of the shell: configuration   *)
(* file, options, session id, calling user, other user (-u), shell, and    *)
(* what beginlogging decides before it opens anything.  The order of the   *)
(* steps matters, for one clears the environment that others read, and     *)
(* names of users are kept in static buffers of the C library.             *)
(*                                                                         *)
(* A shell is known by its basename, rootsh itself as "rootsh".  Commands  *)
(* for the shell (-c) change nothing here and are left out.                *)
(* A definition whose name ends in Bug is the definition after it with one *)
(* plausible mistake.                                                      *)
(***************************************************************************)
CONSTANTS
  Users,         \* users with a passwd entry
  Callers,       \* real and effective users of rootsh, "none" without an entry
  Names,         \* what can be given with -u
  LongNames,     \* the names of more than 64 characters
  Shells,        \* shells, rootsh among them
  PwShell,       \* the shell of each user's passwd entry
  EtcShells,     \* the shells getusershell lists
  HasEtcShells,  \* the build looks at them
  HasClearenv    \* the C library has clearenv

ASSUME StartupAssumption ==
  /\ Callers \subseteq (Users \cup {"none"}) \X (Users \cup {"none"})
  /\ Users \subseteq Names /\ LongNames \subseteq Names
  /\ "rootsh" \in Shells /\ "su" \notin Shells
  /\ PwShell \in [Users -> Shells]
  /\ EtcShells \subseteq Shells
  /\ HasEtcShells \in BOOLEAN /\ HasClearenv \in BOOLEAN
  /\ "none" \notin Names \cup Shells

VARIABLES
  pc,           \* the next step of main
  progName,     \* "rootsh", "-rootsh" or another name of the executable
  uid, euid,    \* the users of the process
  shared,       \* getpwnam and getpwuid return the same static buffer
  sudo,         \* history: SUDO_USER at the start, who called sudo
  env,          \* the environment: what each variable says, or "none"
  logtofile, logtosyslog,
  logdir,       \* "built-in" or "configured"
  defaultshell,
  runAsUser, useLoginShell, userLogFileName, userLogFileDir,
  standalone,
  uidBuf,       \* pw_name in the buffer of getpwuid: userName points to it
  shell,
  logFileName,  \* directory, kind of name, and the user of the default name
  program       \* what the child executes, and whether as a login shell

confVars == <<logtofile, logtosyslog, logdir, defaultshell>>
optVars  == <<runAsUser, useLoginShell, userLogFileName, userLogFileDir>>
fixed    == <<progName, uid, euid, shared, sudo>>
outcome  == <<logFileName, program>>
rest     == <<standalone, uidBuf, shell, outcome>>
vars     == <<pc, fixed, env, confVars, optVars, rest>>

EnvNames == {"SUDO_USER", "SHELL", "TERM", "ROOTSH_SESSIONID"}
LogDirs  == {"built-in", "configured"}
userName == uidBuf
NoLog    == [dir |-> "none", name |-> "none", user |-> "none"]
NoExec   == [file |-> "none", login |-> FALSE]

Init ==
  /\ pc = "config"
  /\ progName \in {"rootsh", "-rootsh", "other"}
  /\ \E c \in Callers : uid = c[1] /\ euid = c[2]
  /\ shared \in BOOLEAN
  /\ \E s \in Users \cup {"none"}, t \in {"none", "set"}, sh \in Shells \cup {"none"} :
       env = [v \in EnvNames |-> CASE v = "SUDO_USER" -> s [] v = "TERM" -> t
                                   [] v = "SHELL" -> sh [] OTHER -> "none"]
  /\ sudo = env["SUDO_USER"]
  /\ logtofile \in BOOLEAN /\ logtosyslog \in BOOLEAN
  /\ logdir = "built-in" /\ defaultshell \in Shells \cup {"none"}
  /\ runAsUser = "none" /\ useLoginShell = FALSE
  /\ userLogFileName = "none" /\ userLogFileDir = "none"
  /\ standalone = FALSE /\ uidBuf = "none" /\ shell = "none"
  /\ logFileName = NoLog /\ program = NoExec

(* exit with a message, and what a null pointer makes of it.               *)
Exit  == pc' = "exit"
Crash == pc' = "crash"
-----------------------------------------------------------------------------
(* readConfigFile: lines in any order and number; an empty value switches  *)
(* the default shell off, any value but true switches a log off.           *)
ConfigLine ==
  /\ pc = "config"
  /\ \/ /\ logtofile' \in BOOLEAN
        /\ UNCHANGED <<logtosyslog, logdir, defaultshell>>
     \/ /\ logtosyslog' \in BOOLEAN
        /\ UNCHANGED <<logtofile, logdir, defaultshell>>
     \/ /\ logdir' = "configured"
        /\ UNCHANGED <<logtofile, logtosyslog, defaultshell>>
     \/ /\ defaultshell' \in Shells \cup {"none"}
        /\ UNCHANGED <<logtofile, logtosyslog, logdir>>
  /\ UNCHANGED <<pc, fixed, env, optVars, rest>>

(* The end of the file, or no file; a path that is too long ends rootsh.   *)
ConfigRead ==
  /\ pc = "config"
  /\ pc' = "options" \/ Exit
  /\ UNCHANGED <<fixed, env, confVars, optVars, rest>>

(* getopt_long, one option at a time.                                      *)
Option ==
  /\ pc = "options"
  /\ \/ /\ runAsUser' \in Names
        /\ UNCHANGED <<logtofile, logtosyslog, useLoginShell, userLogFileName,
                       userLogFileDir>>
     \/ /\ useLoginShell' = TRUE
        /\ UNCHANGED <<logtofile, logtosyslog, runAsUser, userLogFileName, userLogFileDir>>
     \/ /\ userLogFileName' \in {"absolute", "relative"}
        /\ UNCHANGED <<logtofile, logtosyslog, runAsUser, useLoginShell, userLogFileDir>>
     \/ /\ userLogFileDir' = "given"
        /\ UNCHANGED <<logtofile, logtosyslog, runAsUser, useLoginShell, userLogFileName>>
     \/ /\ logtofile' = FALSE
        /\ UNCHANGED <<logtosyslog, runAsUser, useLoginShell, userLogFileName,
                       userLogFileDir>>
     \/ /\ logtosyslog' = FALSE
        /\ UNCHANGED <<logtofile, runAsUser, useLoginShell, userLogFileName,
                       userLogFileDir>>
  /\ UNCHANGED <<pc, fixed, env, logdir, defaultshell, rest>>

(* No more options; -h, -V, -? and anything unknown end rootsh.            *)
OptionsRead ==
  /\ pc = "options"
  /\ pc' = "session" \/ Exit
  /\ UNCHANGED <<fixed, env, confVars, optVars, rest>>

(* The session id is exported, then sudo's variable looked for.            *)
SetSession ==
  /\ pc = "session" /\ pc' = "username"
  /\ env' = [env EXCEPT !["ROOTSH_SESSIONID"] = "set"]
  /\ standalone' = (env["SUDO_USER"] = "none")
  /\ UNCHANGED <<fixed, confVars, optVars, uidBuf, shell, outcome>>

(* The effective user, in the buffer of getpwuid.  No entry, no pw_name.   *)
setupusername ==
  /\ pc = "username"
  /\ IF euid = "none" THEN Crash /\ UNCHANGED uidBuf
                      ELSE pc' = "usermode" /\ uidBuf' = euid
  /\ UNCHANGED <<fixed, env, confVars, optVars, standalone, shell, outcome>>

(* saveenv("TERM"), clearenv, restoreenv; without TERM restoreenv reads a  *)
(* null pointer.  rootsh's own clearenv frees an environ it may not own    *)
(* and leaves the new one uninitialised, so that putenv may crash.         *)
KeepTerm(kept) ==
  \/ /\ env["TERM"] = "none" \/ ~HasClearenv
     /\ Crash /\ UNCHANGED env
  \/ /\ env["TERM"] # "none"
     /\ pc' = "shell"
     /\ env' = [v \in EnvNames |-> IF v \in kept THEN env[v] ELSE "none"]

UserMode(kept) ==
  /\ pc = "usermode"
  /\ \/ /\ runAsUser = "none" /\ pc' = "shell"
        /\ UNCHANGED <<env, uidBuf>>
     \/ /\ runAsUser \in LongNames \cup (Names \ Users) /\ Exit
        /\ UNCHANGED <<env, uidBuf>>
     \/ /\ runAsUser \in Users \ LongNames
        /\ KeepTerm(kept)
        /\ uidBuf' = IF shared THEN runAsUser ELSE uidBuf
  /\ UNCHANGED <<fixed, confVars, optVars, standalone, shell, outcome>>

(* Nothing is cleared.                                                     *)
NotClearedBug == UserMode(EnvNames)
setupusermode == UserMode({"TERM"})

(* SHELL or the user's entry.  getpwnam(userName) with a shared buffer     *)
(* searches for a name that it overwrites: any entry may be found.         *)
UserShell(sh) ==
  \/ /\ env["SHELL"] # "none" /\ sh = env["SHELL"]
     /\ UNCHANGED uidBuf
  \/ /\ env["SHELL"] = "none"
     /\ \E u \in IF shared THEN Users ELSE {userName} :
          sh = PwShell[u] /\ uidBuf' = u

Allowed == IF HasEtcShells THEN EtcShells ELSE Shells

(* argv[0] says rootsh and so does the shell.                              *)
SelfAs(sh, names) == sh = "rootsh" /\ progName \in names

(* A null pointer if the default is empty.                                 *)
getDefaultshell == defaultshell

Replace ==
  \/ /\ getDefaultshell = "none" /\ Crash
     /\ UNCHANGED <<env, shell, useLoginShell>>
  \/ /\ getDefaultshell # "none"
     /\ pc' = "log"
     /\ shell' = getDefaultshell
     /\ env' = [env EXCEPT !["SHELL"] = getDefaultshell]
     /\ useLoginShell' = TRUE

ShellFor(allowed, names) ==
  /\ pc = "shell"
  /\ \E sh \in Shells :
       /\ UserShell(sh)
       /\ \/ sh \notin allowed /\ Exit /\ UNCHANGED <<env, shell, useLoginShell>>
          \/ sh \in allowed /\ SelfAs(sh, names) /\ Replace
          \/ /\ sh \in allowed /\ ~SelfAs(sh, names)
             /\ pc' = "log" /\ shell' = sh
             /\ UNCHANGED <<env, useLoginShell>>
  /\ UNCHANGED <<fixed, confVars, runAsUser, userLogFileName, userLogFileDir, standalone,
                 outcome>>

AnyShellBug == ShellFor(Shells, {"rootsh", "-rootsh"})
NoDashBug   == ShellFor(Allowed, {"rootsh"})
setupshell  == ShellFor(Allowed, {"rootsh", "-rootsh"})

(* logdir, unless the user is alone, may have it otherwise and does.       *)
LogDir(alone) ==
  CASE ~alone -> logdir
    [] alone /\ userLogFileDir # "none" -> userLogFileDir
    [] alone /\ userLogFileDir = "none" /\ userLogFileName = "absolute" -> "own"
    [] alone /\ userLogFileDir = "none" /\ userLogFileName = "relative" -> "."
    [] OTHER -> logdir

LogName(alone) == IF alone /\ userLogFileName # "none" THEN "user's" ELSE "default"

(* beginlogging: the real user's entry, in the buffer that userName points *)
(* to, is read before the name of the file is made.  The file may not open.*)
LogNamedBy(name, alone) ==
  /\ pc = "log"
  /\ \/ /\ runAsUser = "none" /\ uid = "none" /\ Crash
        /\ UNCHANGED <<uidBuf, logFileName>>
     \/ /\ runAsUser = "none" => uid # "none"
        /\ uidBuf' = IF runAsUser = "none" THEN uid ELSE uidBuf
        /\ \/ /\ ~logtofile /\ ~logtosyslog /\ Exit
              /\ UNCHANGED logFileName
           \/ /\ logtofile
              /\ logFileName' = [dir |-> LogDir(alone), name |-> LogName(alone),
                                 user |-> name]
              /\ pc' = "exec" \/ Exit
           \/ /\ ~logtofile /\ logtosyslog /\ pc' = "exec"
              /\ UNCHANGED logFileName
  /\ UNCHANGED <<fixed, env, confVars, optVars, standalone, shell, program>>

EarlyNameBug      == LogNamedBy(uidBuf, standalone)
LateStandaloneBug == LogNamedBy(uidBuf', env["SUDO_USER"] = "none")
beginlogging      == LogNamedBy(uidBuf', standalone)

(* The child: su for another user, else the shell.  What its argv[0] is    *)
(* tells whether it is a login shell.                                      *)
execShell ==
  /\ pc = "exec" /\ pc' = "running"
  /\ program' = [file |-> IF runAsUser # "none" THEN "su" ELSE shell,
                 login |-> useLoginShell]
  /\ UNCHANGED <<fixed, env, confVars, optVars, standalone, uidBuf, shell, logFileName>>

Next ==
  \/ ConfigLine \/ ConfigRead \/ Option \/ OptionsRead \/ SetSession
  \/ setupusername \/ setupusermode \/ setupshell \/ beginlogging \/ execShell

Spec == Init /\ [][Next]_vars
-----------------------------------------------------------------------------
Running == pc = "running"

TypeOK ==
  /\ pc \in {"config", "options", "session", "username", "usermode", "shell", "log",
             "exec", "running", "exit", "crash"}
  /\ progName \in {"rootsh", "-rootsh", "other"}
  /\ uid \in Users \cup {"none"} /\ euid \in Users \cup {"none"}
  /\ shared \in BOOLEAN /\ sudo \in Users \cup {"none"}
  /\ env \in [EnvNames -> Shells \cup Users \cup {"none", "set"}]
  /\ logtofile \in BOOLEAN /\ logtosyslog \in BOOLEAN
  /\ logdir \in LogDirs /\ defaultshell \in Shells \cup {"none"}
  /\ runAsUser \in Names \cup {"none"} /\ useLoginShell \in BOOLEAN
  /\ userLogFileName \in {"none", "absolute", "relative"}
  /\ userLogFileDir \in {"none", "given"}
  /\ standalone \in BOOLEAN /\ uidBuf \in Users \cup {"none"}
  /\ shell \in Shells \cup {"none"}
  /\ logFileName \in [dir : LogDirs \cup {"none", "given", "own", "."},
                      name : {"none", "default", "user's"}, user : Users \cup {"none"}]
  /\ program \in [file : Shells \cup {"none", "su"}, login : BOOLEAN]

(* Whoever came through sudo is logged where the administrator wants it,   *)
(* under the default name, whatever -f, -d and -u say: -u clears the       *)
(* environment that tells of sudo.                                         *)
SudoLogsHome ==
  Running /\ sudo # "none" /\ logtofile => logFileName.dir = logdir /\ logFileName.name = "default"

(* The user in the name of the file is the one in the file: the real user  *)
(* of the process, with -u its effective user, as long as -u does not      *)
(* overwrite a shared buffer.  getpwuid is called twice and userName       *)
(* changes under the feet of its readers.  Through sudo this is root:      *)
(* nobody asks SUDO_USER, though src/README:103 names the file after the   *)
(* caller and shows usr1234 there.                                         *)
FiledUnderUid ==
  Running /\ logtofile =>
    /\ logFileName.user = userName
    /\ runAsUser = "none" => logFileName.user = uid
    /\ runAsUser # "none" /\ ~shared => logFileName.user = euid

(* A shell that is run for the caller is in /etc/shells, unless rootsh     *)
(* stood there in its place and it is the default shell.                   *)
AllowedShell ==
  Running /\ HasEtcShells /\ program.file \notin EtcShells =>
    \/ program.file = "su" /\ runAsUser # "none"
    \/ program.file = defaultshell /\ "rootsh" \in EtcShells /\ program.login

(* rootsh does not run itself, under its own name and with another default.*)
NotItself ==
  Running /\ program.file = "rootsh" => progName = "other" \/ defaultshell = "rootsh"

(* Of the caller's environment nothing but TERM gets to su; a SHELL there  *)
(* is the one rootsh chose.  The session's id, which rootsh exports before *)
(* it clears the environment, gets to every shell but su.                  *)
CleanEnvironment ==
  Running =>
    /\ program.file = "su" =>
         /\ env["TERM"] # "none"
         /\ env["SUDO_USER"] = "none"
         /\ env["SHELL"] # "none" => program.login /\ env["SHELL"] = defaultshell
    /\ env["ROOTSH_SESSIONID"] = "set" <=> program.file # "su"
=============================================================================
