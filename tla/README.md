# rootsh in TLA+

rootsh runs a shell on a pseudo terminal and writes a copy of everything that is
printed on it to a logfile and to syslog. This directory holds TLA+ models of
it, translated from `src/src/*.c`, the TLC configurations that check them on
small instances, and proofs, checked by TLAPS, that hold for every value of the
constants.

## The system

One process, one thread, one pselect. All state is in C globals and in
statics of functions; the signal handlers set four flags. The concurrency is
with everything around the process: signals, the shell and what it starts, the
user's terminal, the pty between them, users who change files, other rootsh
processes.

| Component | Source | State | Operations | Talks to | Hard behaviour | What makes it correct |
|---|---|---|---|---|---|---|
| Session: event loop and signals | `rootsh.c` 414-638, 733-782, 263-278, 445-476 | `sig*Received`, `masterPty`, `termParams`, `winSize`, `readmask`, `buf` | save terminal, forkpty, raw mode, relay of input and output, window size, stop, finish | signals, pty, child, `dologging`, `endlogging` | a signal at any point, EINTR, full ptys, a child that ends, stops or leaves processes behind | no output lost or shown unlogged, no stop request lost, the true verdict, the terminal given back |
| Logfiles | `rootsh.c` 791-1172 | `logFile`, `logFileName`, `logInode`, `logDev` | beginlogging, dologging, endlogging, recoverfile, forceopen | file system; called by the session | names that change between two system calls, sessions sharing a name, failing writes | the record survives, the verdict about manipulation is right, endlogging returns |
| Syslog writer | `write2syslog.c` 180-374 | `rptr`, `rptrLength`, `rflag`, `linecnt` | write2syslog | called by dologging and endlogging | lines cut anywhere into calls, static state between calls | nothing lost, a message per line, numbers that show gaps, an empty buffer at the end |
| Escape filter | `write2syslog.c` 78-177 | `vtstate` | stripesc | called by write2syslog | state that outlives a line | escape sequences removed |
| Startup and options | `rootsh.c` 280-412, 702-726 | option variables, `sessionId`, `standalone` | option parsing, putenv | everything below | order of options, environment and user set-up | at least one log, the right name |
| User, shell, environment | `rootsh.c` 640-695, 1179-1452 | `userName`, `runAsUser`, `environ` | setupusername, setupusermode, setupshell, saveenv, clearenv, restoreenv, execShell | passwd and shells databases | static buffers of getpw*, a cleared environment | only listed shells, only root logs in as others |
| Configuration file | `rootsh.c` 1739-1809, `configParser.c` | `logdir`, `defaultshell`, flags | readConfigFile, parseConfigLine, trimWhitespace | Startup | lines longer than the buffer, empty values | key and value as written, values that fit |
| forkpty replacement | `rootsh.c` 1463-1677 | descriptors, controlling terminal, size | forkpty | Session | the child sets itself up while rootsh goes on | the shell starts on the slave, with it alone, at the right size |
| basename, getusershell | `basename.c`, `getusershell.c` | `default_index`, `shellstream` | getusershell, setusershell, endusershell, basename | setupshell | state that outlives a call, slashes at both ends | each entry once; the last part of a path |

## Modules

| Module | What it is |
|---|---|
| `Recorder` | what a session recorder promises: record before display, in order |
| `Session` | the running session and its environment; implements `Recorder` |
| `SessionClaims` | what documents and comments say of it and TLC refutes |
| `SessionProofs` | proofs about `Session` |
| `LineLog` | what a line-buffered log promises |
| `StripEsc` | stripesc as tables and functions |
| `SyslogWriter` | write2syslog; implements `LineLog` |
| `SyslogClaims`, `SyslogProofs` | as above |
| `LastWords` | `Session` joined with dologging, the line buffer and endlogging, its account of a manipulated logfile included; extends `Session` |
| `LogFile` | the logfiles of several sessions and the users' doings |
| `Startup` | main up to the exec: options, user, environment, shell, name of the log |
| `PtySetup` | forkpty where rootsh emulates it, in step with `Session`; extends it |
| `ConfigFile` | readConfigFile and its parser |
| `UserShells`, `UserShellsClaims` | setupshell's search with the emulated getusershell and basename; what a comment says of it |
| `LastWordsProofs`, `LogFileProofs`, `StartupProofs`, `PtySetupProofs`, `ConfigFileProofs`, `UserShellsProofs` | proofs about these |
| `MC...` | constants for TLC, with one `.cfg` per run |

Definitions whose name ends in `Bug` are variants of the definition after them
with one plausible mistake. No specification uses them; each shows that some
property notices the mistake. `PROJECT.json` pairs them up under "mutants".

### Session

`pc` is where `logSession` is: one value for each place at which a system call
may block or a signal may make a difference. Between two such places the code is
one action, with all it does there. Data is counted, not stored: input and
output are streams of chunks, the kernel's queues are FIFO and the loop holds
one buffer, so how many chunks have reached a stage says which.

* *Signals.* `Deliver` is the default action before `setupSignalHandlers` and
  `signalHandler` after it. Handlers are installed without SA_RESTART and
  signals are never blocked, so `Interrupt` makes the call in progress fail or
  cuts it short: pselect and wait return EINTR, a blocked write to the pty fails,
  a write to stdout fails or is short. Every one of these has its branch of the
  code: skip the descriptors, exit, go on, "Error getting status".
* *Environment.* The user types, closes stdin, resizes, sends signals. The
  shell reads, blocks in writes, stops, continues, exits, is killed, and leaves
  a process behind that keeps the slave open. After the last holder is gone a
  read of the master fails at once.
* *Faults.* Calls that may fail for reasons outside the model, tcsetattr among
  them, are switched on by the constant `Faults`.

Left open because systems differ: whether pselect prefers a ready descriptor or
EINTR, and whether a write of no bytes to a hung-up pty fails.

### SyslogWriter and StripEsc

A call to write2syslog is taken apart at each line it sends. `Enter` is the
head of the function (the line feed that belongs to a carriage return of the
call before, the append), `SendLine` one turn of the loop, `KeepRest` the end.
The three branches that decide where the search goes on are `BehindCR`. The
buffer is a sequence of character codes; the counter wraps at the constant
`LineWrap`, 101 in the code and 3 in the runs. `Close` is endlogging's call.
`OutOfMemory` is the exit after a failing realloc. Line numbers are on
(`useLinecnt`); without them the text is the same.

`stripesc` is translated as it is: the filter works, and its result is copied
back with a length that the loop has counted down to 0.

A line goes to syslog as a C string, so a NUL ends it; `CString` cuts it there.
`LineLog` promises the rest of the line, and of that line only, to nobody, and
`Heard` in `SyslogWriter` says the same of the characters.

### LastWords

The composition that tells which of a session's words reach syslog. A word is
something given to dologging: a chunk of output, or a message of rootsh. Each
step of `Session` is joined with what it says (`Said`). The buffer keeps the
words behind the last carriage return; where output has its line breaks is left
open. The characters are the business of `SyslogWriter`, the file that of
`LogFile`.

endlogging is taken apart where rootsh can be killed in it. Its closing line
cannot be written to the file and it returns at once (`FailToClose`); or it finds
the file manipulated, which it may at any time, because users may act at any time.
Then it goes on talking *after* the verdict on the child: the accusation
(`Accuse`), up to two complaints of forceopen (`Retry`; `tries` counts the
failures, the third is silent), and the outcome, which is "cannot be recovered" only
behind two complaints (`Recover`). `CloseLogs` is the flush, the closing message and
the end.

What it shows: a verdict on the child ends with CR LF and so brings out all that
was kept, which is why a full disk loses nothing in syslog but the closing
message; so does each message about users, which is why syslog has them all, as
far as the recovery got, even if rootsh is killed in it. The message of an
error exit has no CR: it stays in the buffer.

### LogFile

A directory maps the three names each log may have (`log`, `log.closed`,
`log.tampered`) to inodes, to nothing or to directories. An inode holds the
lines written to it, each tagged with its session. A session is at one system
call at a time, so users (and other sessions) act between any two. `NameOf`
says which sessions share a name, as two standalone sessions with the same `-f`
do. `record` is what a session has logged, for comparison; `put` and
`pos` count what recoverfile has copied and read, so that a failing write in it
(fault `copy`) shows. `touched` and `late`
remember what users did, for the properties' premises.

Not modelled: links, fstat failing on an open descriptor, a log name that is
another log's name with a suffix, files that users open and write to.

### Startup

What setupshell asks getusershell and basename is one step here and spelt out in
`UserShells`; a line of the configuration is one step here and spelt out in
`ConfigFile`. One action for each step of `main`, in the order of the code, with the
environment as a function from the four variables that matter. Configuration
lines and options come one by one, in any order and number.

* *Buffers.* `userName` is a pointer into the static buffer of getpwuid, so in
  the model it *is* that buffer (`uidBuf`). `beginlogging` calls getpwuid for the
  real user before it makes the file's name. `shared` says whether getpwnam uses
  the same buffer, as it does in some C libraries; then -u, and a search for the
  shell by a name that lies in the buffer, change `userName`.
* *Environment.* -u clears it, after `standalone` was decided from it. A null
  pointer (no TERM, no passwd entry, no default shell) ends in `crash`. rootsh's
  own clearenv frees memory it may not own: crash or go on.
* *Shell.* `Allowed` is /etc/shells. A shell that is rootsh itself is replaced.

`sudo` remembers who called sudo, for the properties. The log is filed under the
user the process runs as, which under sudo is root (see below). Left out: the text of the
commands of -c, limits of lengths other than that of -u, HP-UX's missing
pw_name, failing execs.

### PtySetup

`Session` has one step for forkpty. Here the parent's preparation and the
child's eight steps between fork and exec are steps of their own, each joined
with Session or leaving its variables alone, so every behaviour is one of
`Session` (`PtyStepIsStep`). `table` is the child's descriptor table: `DupSlave`
and `CloseOthers` work on it as dup2 and close do. `Streams` are the modules that
the build pushes. Until exec the child can be ended or stopped by a signal but
neither reads nor writes. A step that fails makes forkpty return -1 in the child,
too, which then leaves through main (`ChildFails`).

The size: the child sets the one it was born with. If rootsh has forwarded a
newer one by then, the shell starts with the old one (`late`).

Session lets the master hang up as soon as nobody has the slave open, here also
before the child has opened it, where some systems block. This adds behaviours
and hides none.

### ConfigFile

A text is a sequence of characters, of which there are as many as the parser can
tell apart. The file is whatever fgets finds next in it: `Fgets` returns any
text that ends with its first line break, fills the buffer, or ends the file.
A piece of a longer line is parsed as a line, as in the code. `trimWhitespace`,
`isConfigLine` and the split are functions on texts; the property
`LinesTakeEffect` compares what the loop does with `Meaning`, the words of
configParser.h, on every line that is `Sound`: those that end with a line break and
do not begin with `=`, and the last one of a file if its value is neither empty nor
a single visible character at the very end. `SplitCrashes` is strcpy from the NULL that
trimWhitespace returns for a text without characters; on a sound line the property
does not allow it. Left out: failing mallocs, and the checks of lengths that no
line from the buffer can exceed.

### UserShells

A path is a sequence of characters. The shells file is a sequence of words and
line breaks. readname takes any white space for the end of an entry, so that
`FromFile` passes over line breaks and over single words that begin with `#`. What
the file *says* is defined apart from that: `Listed` are the words on lines that
are not comments, `Commented` those on comment lines. `RunsWhatIsListed` says
that a listed shell is run and one that is in neither set is not;
`CommentsIgnored`, in `UserShellsClaims`, is what the code's own comment promises of
the second set, and false. `default_index` and `shellstream` are
the statics of getusershell.c, and may come into use in any call. `basename` is
translated with its two habits: it does not look for a slash in the last
character before it has found another one, and does not look at the first
character when it goes backwards.

## Runs

| Run | Checks | Shows |
|---|---|---|
| `lastwords` | `OutputConserved VerdictTruthful KeepsPromise SyslogComplete ReasonUnsent ClosedTogether` | a chunk of output is in one place; the true verdict; `Session` implements `Recorder`; what syslog has after each way out; the logs are closed together, and only when the account of the session is complete |
| `live` | `InputConserved TerminalBack ChildEndEndsSession OutputReachesLog StopEndsRelay` | a chunk of input is in one place; the terminal is given back; the child's end ends rootsh, output reaches the log, a recorded stop request ends the relay unless pselect sleeps or a write blocks |
| `lines` | `NothingLost NoLineKept ClosedEmpty GapsShow KeepsLines CallsReturn` | syslog gets the output, line by line, however it was cut into calls; a NUL costs the rest of its line |
| `tamper` | `TypeOK RecordSurvives ClosedIsTheLog NoFalseAlarm EndLoggingReturns` | any two things a user does to the names, at any time, leave the verdict right, and the record in one piece if no write of the recovery fails |
| `shared` | `NothingOverwritten` | two sessions on one file do not overwrite each other |
| `startup` | `SudoLogsHome FiledUnderUid AllowedShell NotItself CleanEnvironment` | through sudo the log goes to logdir; it has the name of the process's user, real without -u and effective with it; the shell is allowed and not rootsh; su gets TERM and nothing else of the caller's, other programs get the session's number |
| `forkpty` | `ShellOnSlave ShellSeesSize NoShellNoSuccess WinSizeInStep StopRequestKept` | the shell starts on the slave with nothing else open, sees the size rootsh believes, and a child that failed is no success; the shell's size follows the window's, except in two windows of time; clearing one flag never clears another |
| `config` | `SettingsFit LinesTakeEffect` | a sound line means what configParser.h says and does not crash the parser; values fit |
| `shells` | `RunsWhatIsListed NeverItself SetupEnds` | a shell that is listed is run, one that the file does not name at all is not; rootsh does not run itself; the search ends |

The type invariants are not in the runs because they are proved (below), but for
that of `LogFile`: it bounds the attempts of forceopen.

These are expected to fail; each states a sentence of the repository
(`PROJECT.json`, "findings", quotes it):

| Run | Claim | What the code does |
|---|---|---|
| `everyOutput` | all output is logged | what the shell writes between the last read and SIGCHLD is left in the pty |
| `escape` | lines sent to syslog hold no escapes | strncpy copies 0 characters back |
| `comments` | getusershell ignores comment lines | it ignores the words that begin with `#`; a shell named behind `# ` is run |

Seen while modelling, without a run of their own:

Session: error exits of logSession, also those after EINTR in a write, leave the
terminal raw, though a comment (`rootsh.c:182`) has it restored at program end;
signals are never blocked, so one that arrives just before pselect (549) is slept
through, though the comment there (547) says it waits for input or a signal; a
SIGCHLD before the flags are reset (475) is forgotten, and as the loop looks at no
error of its read, rootsh then turns round and round on the hung-up pty; a
resize between reading the
size and clearing `sigWinchReceived` is lost (`missed` in `Session`); finish
waits for a child that is only stopped, or that blocks in a write to the pty
nobody reads any more, for as long as it stays so; the log of a session whose child
failed before the exec ends with "session ended by user".

Logs: `rflag` is set whenever a call contained a
CR, not only at its end; a NUL cuts a line short in syslog; forceopen does not
truncate; recoverfile ignores failing writes; a second session with the same
name replaces the first one's `.closed` file; the end of the first of two
sessions with one -f name makes the second write "USER TRIED TO DELETE THIS
FILE"; when the closing line cannot be written endlogging returns, without the
flush to syslog and the closing message.

Startup: under sudo the log is filed under root, as the process has that user for
real, though `src/README:83` and `103-104` show a session of usr1234 by sudo whose
file begins with `usr1234` (lines 117-120 speak of `root=root` without -u, which
is what the code does); an empty default shell (1283) and a missing TERM crash
rootsh; -x and -y switch logs off under sudo, too, though the usage text (1733)
says standalone only; with -u the shell has no
`ROOTSH_SESSIONID`; with shared buffers -u files the log under the other user's
name; the default shell is not looked up in /etc/shells and may be rootsh; the
caller's login shell being rootsh makes `-u` a login (`su -`).

Replacements and parser: the emulated forkpty would follow a null `winp` (1511),
which no caller passes; the check for values longer than MAXPATHLEN can never
fire; a value of one character is dropped if the file ends behind it; a line
`=x`, or a `key=` that ends the file or the buffer, crashes, though configParser.h
(45-47) has a failing split return false and `rootsh.c:1760` means to skip it;
`basename("/rootsh")` is `/rootsh`, so a rootsh in the root directory does not
recognise itself, and `basename("x/")` is `x/`.

### Bounds

* `lastwords`: two chunks of output, ptys that hold two and reads that return one or
  two: enough for a queue that is empty, partly and wholly full, for a short read
  and a short write, and for words that wait for their CR before a message, with
  the commands of -c before them or not. Every fault, a disk that may be full, a
  file that may have been manipulated; both logs (the proofs have one as well). No
  input: it is the business of `live`. `SessionProofs` lifts the bounds.
* `live`: three chunks of input, a pty that holds two and reads of one or two;
  one chunk of output on a pty that holds one: both directions can be full at
  once, and a chunk can follow another into the buffer. The session may fail to begin
  (fork) and rootsh may be killed; other faults, which end it too, are in `lastwords`.
* `lines`: up to six characters in calls of up to three, over a letter, NUL, LF
  and CR: every way a CR LF can be split over calls, lines before and after it,
  and four or more lines, so that the counter (modulo 3) wraps.
* `tamper`: one session, two actions of a user, four inodes, an old file under
  any of the names: two actions suffice for delete-and-recreate, for a directory
  in the way of `.tampered`, and for one before and one after the stat.
  forceopen may fail, and one of the writes of recoverfile (`MaxLost`).
* `shared`: two sessions on one name, no user; opens, writes and copies fail, up
  to two of the latter, and sessions are killed; inodes are symmetric.
* `startup`: root, a user whose shell is rootsh, a name nobody has; a shell that
  is allowed and one that is not; callers with equal and different users, root
  for both as by sudo, and with none; a library without clearenv, whose outcomes include those with it.
  No name is too long: a long name ends as an unknown one does.
* `forkpty`: two sizes, enough to be out of step, and a second resize; the fullest build, with three
  modules and both logs; a failing step at each place, and signals at any.
* `config`: every text of up to six characters over a letter, `=`, `#`, a blank
  and LF, in a buffer of seven: room for `aaa = x` in pieces, `aa=a` with its
  line break, white space on either side of key and value, an empty key or value
  at the beginning, the end of the line, of the buffer and of the file. One
  switch and one path, whose name begins the switch's.
* `shells`, `comments`: every path of up to four characters over `/`, `r` and `x` with
  rootsh called `r`; every file of up to four words and line breaks over three
  paths and `#`, every file of one path, and none.

`CHECK_DEADLOCK FALSE` is everywhere: a session may stay in pselect for ever,
rootsh may wait for a child that never ends, and every model ends in a state
with nothing to do.

### Fairness

Weak fairness of the program's own steps only: a process that can run is run by
the kernel. Nothing is assumed of users, the shell or signals. In `LogFile` a
session in `run` is at the mercy of its user, so only what follows the closing
line is fair. `UserShells` has no other process in it: its next step is weakly
fair. `LastWords`, `PtySetup`, `ConfigFile` and `Startup` check safety only.

`StopEndsRelay` gives the two places where a recorded stop request does not help:
pselect with nothing to read, and a blocked write, which a second signal ends.
`ChildEndEndsSession` needs that no other process holds the slave open, and
that the handler has recorded SIGCHLD: pselect may still sleep through it, and
the hangup of the pty wakes it. `OutputReachesLog` has one exception built in,
the write of input to a full pty whose reader is itself blocked, and one
premise: rootsh is not sent SIGWINCH for ever (`InterruptedForEver`), for a pselect
that prefers EINTR to a ready descriptor then never relays. `live` has one
size, but a SIGWINCH may come all the same, for a size that changes back and forth
or from anybody who may send signals, so the premise matters.

## Proofs

`SessionProofs`, for all bounds, capacities, sizes and faults:

* `TypeCorrect`. The stages of a stream are naturals because no action takes
  more than there is; the Boolean variables have a lemma of their own.
* `SafetyInvHolds`, the conjunction from which `OutputIsConserved`,
  `InputIsConserved`, `VerdictIsTruthful` and `WindowInStep` follow. What makes them inductive: `NoVerdictYet` (nothing is concluded
  before finish, and the only child is the one forkpty made) for the verdict,
  a relation between the three window sizes at each `pc` for the size, and the
  place of the buffer at each `pc` for the streams. `DeliverEffect` says once
  what a signal can do, so that no proof looks into `Interrupt` again.
* `StopRequestIsKept` and `SessionKeepsPromise` (refinement of `Recorder`), step
  by step, with the type and stream invariants and `ScreenBehind` (of what is shown
  at each `pc` no more than is logged).
* `TerminalIsBack`, assuming that tcsetattr does not fail.

`SyslogProofs`: `NoLineIsKept` and `ClosedIsEmpty`, for every alphabet and every
cutting of the output. `FlushTail` strengthens them: in endlogging's call the
buffer ends with the only CR in its last two characters. `TypeCorrect` and
`GapsDoShow` rest on `CountersHold`: the number of message i differs from i - 1 by a
multiple of LineWrap (`Numbered`). `StateAfterType` says that stripesc stays
in its states, whatever the text.

`LinesAreKept` is the refinement of `LineLog`: a call accepts characters,
`SendLine` emits a line, the rest stutters. `LineFound` cuts the buffer at the CR
that SendLine finds into what leaves, what a NUL takes from the line, the CR,
a line feed that may be skipped, and what stays; `NoLFConcat` carries the cut over
to the text without line feeds. `NothingIsLost` has the invariant `SameHeard`: what
is heard of all that was received is the lines sent followed by what is heard of
the buffer, *and* both are silent or not alike, for otherwise a NUL in the
buffer would make them differ one character later. `Alike` says that two such
texts may go on alike. `NoLF`, `Hearing`, `FlattenSeq` and `StateAfter` are
recursive functions of a place in a text; what is proved of them is that they have
a value at each place (`Machine`) and relations between two of them, by
induction over the places (`Induct`, from the well-foundedness of <).

`LogFileProofs`: `NoFalseAlarmHolds`, for any number of sessions, files and
lines, if no two sessions share a name. The invariant `Holds` says that until
the stat a name belongs to its file unless a user touched it; `OthersKept` says
that the steps of other sessions leave it alone. Two sessions with one -f name
need the assumption: the end of the first looks to the second like a user.

`ClosedLogIsTheLog`, with the same assumption: the invariant `Sealed` follows the
verdict "same" from the stat to the rename, and knows that a session that was
not accused has not logged an accusation. `TypeCorrect` bounds the attempts of
forceopen.

`NothingIsOverwritten`, for any sessions on any names and all that users do but
renaming files: by `Unwritten` no file has a line of a session that has written
none, by `Intact` the file of a running session has its lines, in order, and no
others of it. They need `NamesApart`, that no file has two names
and a recovery never writes into a file that a session has open. A rename by a user
breaks that: the log of one session moved to the `.tampered` name of another is
overwritten when the other recovers its own. That is why it is a hypothesis of the
theorem (the run `shared` has no users at all).

`RecordSurvivesUnmoved` and `RecordSurvivesAlone`: sessions with names of their own
and no renames, or one session and every kind of user. Both follow from
`SurvivesIfApart`, where `Apart` is what keeps other sessions' recoveries away:
`NamesApart` gives it in the first case, and in the second there are none. The
invariant `Survives` follows the record through endlogging: in the file that is
open until the stat, then there and in the name it is under, or copied up to
`pos` into the file under `.tampered`; `Course` tells which verdict, rescue and
descriptor go with which step. A session's lines in a file are counted as `Rank`,
the number of them up to a place, so that no filter of sequences is needed.

`StartupProofs`: all properties of the run `startup`, for any users, callers and
shells. Each has an invariant of its own that says what is known at which step:
`SudoKnown` (SUDO_USER until it is looked at, `standalone` from then on),
`BufferKnown` (whose name the buffer holds), `ShellKnown`, `InitShellKnown`
(whether the shell was the caller's or replaced) and `EnvKnown`.

`LastWordsProofs`: all invariants that `LastWords` adds, and its types. `LogInv`
says that what reached syslog and what is kept are together what was said, and
which word is the last of which: `LastTold` has the last word of all at each
`pc`, and `Accused` where the verdict stands once users are accused, with what is
said behind it. `LogStepIsStep` brings in what is proved of `Session`.

`PtySetupProofs`: all properties of the run `forkpty`, for every build. `PtyInv`
gives the descriptor table and the terminal at each step of the child, and says
that until the child sets its size either no size or the newest one is set.

`ConfigFileProofs`: all properties of the run `config`, for every alphabet, size
of the buffer, and settings with names of two characters or more. The invariant
`ConfigInv` is small; the work is in `Trimmed` and `Divided`, which compare
trimWhitespace and the split with their reference for every text and show that no
sound line leaves the split without a key or a value. That a set of
positions has a least and a greatest element comes from the well-foundedness of
< (`MinOf`, `MaxOf`), not from an induction.

`UserShellsProofs`: `ListedIsRun` and `NotRunItself`, for every file, list and path.
`SearchInv` says that, until it is found, the caller's shell is among what
getusershell has still to return, if it is an entry; `EntriesListed` relates its
entries to lines and comments; `BasenameIsPosix` compares
basename with its reference.

Assumptions are those on the constants (`BoundAssumption`, `WriterAssumption`,
`LogAssumption`, `StartupAssumption`, `LogsAssumption`, `PtyAssumption`,
`ConfigAssumption`, `ShellsAssumption`), which TLC evaluates in each run, and the
ones named in a theorem.

Only model-checked: liveness (`ChildEndEndsSession`, `OutputReachesLog`,
`StopEndsRelay`, `CallsReturn`, `EndLoggingReturns`, `SetupEnds`), which is out of the
prover's reach. Every safety property of the runs that pass is a theorem.

## Not modelled

* Version and usage print text; getopt is GNU's; tests, build files and packaging
  have no run-time state.
* Logfiles: links, fstat failing on an open descriptor, the limits of names'
  lengths, users who write to files.
* Startup: the text of -c, failing execs, HP-UX's missing pw_name.
* Failing mallocs, but for the one of write2syslog.

What could follow: `NothingIsOverwritten` for the users who rename files that are
not logs; that stripesc, were its result used, removes every escape sequence.
