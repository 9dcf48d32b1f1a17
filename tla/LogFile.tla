------------------------------- MODULE LogFile -------------------------------
(***************************************************************************)
(* The logfiles of rootsh sessions: beginlogging, the file half of         *)
(* dologging, endlogging with recoverfile and forceopen, on a directory    *)
(* that other sessions and users change between any two system calls.      *)
(*                                                                         *)
(* A session has one log name; its file is later called log.closed or      *)
(* log.tampered.  A file is an inode with the lines written to it, each    *)
(* line the session it is from and what it says; a descriptor stays valid  *)
(* when the names of its inode are gone.                                   *)
(*                                                                         *)
(* A definition whose name ends in Bug is the definition after it with one *)
(* plausible mistake.                                                      *)
(***************************************************************************)
EXTENDS Naturals, Sequences, FiniteSets

CONSTANTS
  Sessions,   \* the rootsh processes
  Names,      \* log names
  NameOf,     \* the name each session logs to: its own, or one given by -f
  Inodes,     \* bound: the files there can be
  MaxLines,   \* bound: lines of output of a session
  MaxLost,    \* bound: lines recoverfile fails to write
  MaxTamper,  \* bound: what users do to the files
  Tampering,  \* what users may do
  Faults,     \* which system calls may fail by themselves
  StaleLines  \* lines of a file that is already there

TamperKinds == {"remove", "move", "create", "mkdir"}
FaultKinds  == {"open", "write", "recover", "copy", "kill"}
Suffixes    == {"log", "closed", "tampered"}
Paths       == Names \X Suffixes

ASSUME LogAssumption ==
  /\ NameOf \in [Sessions -> Names]
  /\ MaxLines \in Nat /\ MaxLost \in Nat /\ MaxTamper \in Nat /\ StaleLines \in Nat
  /\ Tampering \subseteq TamperKinds
  /\ Faults \subseteq FaultKinds
  /\ Inodes \cap {"none", "dir", "full"} = {}
  /\ "stale" \notin Sessions

VARIABLES
  dir,       \* what a path names: an inode, nothing, a directory (full or not)
  content,   \* the lines of an inode
  pc,        \* where a session is
  inode,     \* the inode of logFile, remembered in logInode
  copy,      \* the inode recoverfile writes to
  pos,       \* the lines recoverfile has read
  put,       \* the lines it has written
  tries,     \* forceopen's failed attempts
  verdict,   \* what endlogging found: "same", "missing" or "replaced"
  rescued,   \* the outcome of recoverfile
  record,    \* history: the lines the session has logged
  tampers,   \* how much users have done
  touched,   \* history: sessions whose log name a user touched while they ran
  late       \* history: sessions whose names a user touched after the stat

sessionVars == <<pc, inode, copy, pos, put, tries, verdict, rescued, record>>
userVars    == <<tampers, touched, late>>
vars        == <<dir, content, sessionVars, userVars>>

Path(s, suffix) == <<NameOf[s], suffix>>
Log(s)          == Path(s, "log")
IsFile(p)       == dir[p] \in Inodes
IsDir(p)        == dir[p] \in {"dir", "full"}

BeforePCs == {"start"}
OpenPCs   == {"header", "run", "stat", "unlink", "announce", "force", "copy",
              "conclude", "rename"}
EndPCs    == {"done", "failed", "killed"}
PCs       == BeforePCs \cup OpenPCs \cup {"syslog"} \cup EndPCs

(* An inode is free when nothing names it and nobody has it open.          *)
InUse == {dir[p] : p \in Paths} \cup {inode[s] : s \in {t \in Sessions : pc[t] \in OpenPCs}}
         \cup {copy[s] : s \in {t \in Sessions : pc[t] = "copy"}}
Free  == Inodes \ InUse

Stale == [i \in 1 .. StaleLines |-> <<"stale", "out">>]

Init ==
  /\ \E old \in SUBSET Paths :
       /\ dir \in {d \in [Paths -> Inodes \cup {"none"}] :
                     /\ \A p \in Paths : d[p] = "none" <=> p \notin old
                     /\ \A p, q \in old : d[p] = d[q] => p = q}
       /\ content = [i \in Inodes |-> IF \E p \in old : dir[p] = i THEN Stale ELSE <<>>]
  /\ pc = [s \in Sessions |-> "start"]
  /\ inode = [s \in Sessions |-> "none"] /\ copy = [s \in Sessions |-> "none"]
  /\ pos = [s \in Sessions |-> 0] /\ put = [s \in Sessions |-> 0]
  /\ tries = [s \in Sessions |-> 0] /\ verdict = [s \in Sessions |-> "none"]
  /\ rescued = [s \in Sessions |-> "none"] /\ record = [s \in Sessions |-> <<>>]
  /\ tampers = 0 /\ touched = {} /\ late = {}

Goto(s, next) == pc' = [pc EXCEPT ![s] = next]
(* A line of a file written over the n-th line, or at the end.             *)
Overwrite(to, n, line) ==
  IF n <= Len(to) THEN [to EXCEPT ![n] = line] ELSE Append(to, line)

WriteLine(s, says, n) ==
  /\ content' = [content EXCEPT ![inode[s]] = Overwrite(@, n, <<s, says>>)]
  /\ record' = [record EXCEPT ![s] = Append(@, <<s, says>>)]

(* A line goes to the inode of logFile, where the session's last one ended *)
(* or at the end of the file: O_APPEND.                                    *)
AppendLineBug(s, says) == WriteLine(s, says, Len(record[s]) + 1)
AppendLine(s, says)    == WriteLine(s, says, Len(content[inode[s]]) + 1)

(* dologging: a failing write is reported on stderr, no more.              *)
dologging(s, says) ==
  \/ AppendLine(s, says)
  \/ "write" \in Faults /\ UNCHANGED <<content, record>>
-----------------------------------------------------------------------------
(* beginlogging.                                                           *)

(* open with O_CREAT and O_APPEND: an existing file is continued.          *)
Open(s) ==
  /\ pc[s] = "start"
  /\ \/ /\ IsFile(Log(s))
        /\ inode' = [inode EXCEPT ![s] = dir[Log(s)]]
        /\ Goto(s, "header")
        /\ UNCHANGED <<dir, content>>
     \/ /\ dir[Log(s)] = "none"
        /\ \E i \in Free :
             /\ inode' = [inode EXCEPT ![s] = i]
             /\ dir' = [dir EXCEPT ![Log(s)] = i]
             /\ content' = [content EXCEPT ![i] = <<>>]
        /\ Goto(s, "header")
     \/ /\ IsDir(Log(s)) \/ "open" \in Faults
        /\ Goto(s, "failed")
        /\ UNCHANGED <<dir, content, inode>>
  /\ UNCHANGED <<copy, pos, put, tries, verdict, rescued, record,
                 userVars>>

(* The introducing line; without it rootsh does not start.                 *)
WriteHeader(s) ==
  /\ pc[s] = "header"
  /\ \/ /\ AppendLine(s, "opened")
        /\ Goto(s, "run")
     \/ /\ "write" \in Faults
        /\ Goto(s, "failed")
        /\ UNCHANGED <<content, record>>
  /\ UNCHANGED <<dir, inode, copy, pos, put, tries, verdict, rescued, userVars>>
-----------------------------------------------------------------------------
(* The session prints a line.                                              *)
DoLogging(s) ==
  /\ pc[s] = "run" /\ Len(record[s]) <= MaxLines
  /\ dologging(s, "out")
  /\ UNCHANGED <<dir, pc, inode, copy, pos, put, tries, verdict, rescued, userVars>>
-----------------------------------------------------------------------------
(* endlogging.                                                             *)

(* The closing line; when it cannot be written endlogging returns.         *)
EndLogging(s) ==
  /\ pc[s] = "run"
  /\ \/ /\ AppendLine(s, "closed")
        /\ Goto(s, "stat")
     \/ /\ "write" \in Faults
        /\ Goto(s, "done")
        /\ UNCHANGED <<content, record>>
  /\ UNCHANGED <<dir, inode, copy, pos, put, tries, verdict, rescued, userVars>>

(* stat of the name, compared with the inode of the descriptor.            *)
StatAs(s, same) ==
  /\ pc[s] = "stat"
  /\ \/ /\ same
        /\ verdict' = [verdict EXCEPT ![s] = "same"] /\ Goto(s, "rename")
     \/ /\ ~same /\ dir[Log(s)] = "none"
        /\ verdict' = [verdict EXCEPT ![s] = "missing"] /\ Goto(s, "announce")
     \/ /\ ~same /\ dir[Log(s)] # "none"
        /\ verdict' = [verdict EXCEPT ![s] = "replaced"] /\ Goto(s, "unlink")
  /\ UNCHANGED <<dir, content, inode, copy, pos, put, tries, rescued, record,
                 userVars>>

(* The name the log will get is looked up.                                 *)
StatBug(s) == StatAs(s, dir[Path(s, "closed")] = inode[s])
Stat(s)    == StatAs(s, dir[Log(s)] = inode[s])

(* unlink, or else rmdir, of whatever has the name by now.                 *)
Unlink(s) ==
  /\ pc[s] = "unlink"
  /\ dir' = IF dir[Log(s)] = "full" THEN dir ELSE [dir EXCEPT ![Log(s)] = "none"]
  /\ Goto(s, "announce")
  /\ UNCHANGED <<content, inode, copy, pos, put, tries, verdict, rescued, record,
                 userVars>>

(* "USER TRIED TO DELETE THIS FILE" and the like, into the deleted file.   *)
Announce(s) ==
  /\ pc[s] = "announce"
  /\ dologging(s, "tampered")
  /\ Goto(s, "force")
  /\ UNCHANGED <<dir, inode, copy, pos, put, tries, verdict, rescued, userVars>>

(* forceopen: one attempt to open the .tampered file, which is neither     *)
(* truncated nor replaced when it exists.  After each of the first two     *)
(* failures a directory is removed and the failure logged.                 *)
TryOpen(s, last) ==
  LET p == Path(s, "tampered") IN
  /\ pc[s] = "force"
  /\ \/ /\ IsFile(p)
        /\ copy' = [copy EXCEPT ![s] = dir[p]]
        /\ Goto(s, "copy")
        /\ UNCHANGED <<dir, content, tries, rescued, record>>
     \/ /\ dir[p] = "none"
        /\ \E i \in Free :
             /\ copy' = [copy EXCEPT ![s] = i]
             /\ dir' = [dir EXCEPT ![p] = i]
             /\ content' = [content EXCEPT ![i] = <<>>]
        /\ Goto(s, "copy")
        /\ UNCHANGED <<tries, rescued, record>>
     \/ /\ IsDir(p) \/ "recover" \in Faults
        /\ tries[s] < last
        /\ tries' = [tries EXCEPT ![s] = @ + 1]
        /\ dir' = IF dir[p] = "dir" THEN [dir EXCEPT ![p] = "none"] ELSE dir
        /\ dologging(s, "retry")
        /\ UNCHANGED <<pc, copy, rescued>>
     \/ /\ IsDir(p) \/ "recover" \in Faults
        /\ tries[s] >= last
        /\ tries' = [tries EXCEPT ![s] = @ + 1]
        /\ rescued' = [rescued EXCEPT ![s] = "no"]
        /\ Goto(s, "conclude")
        /\ UNCHANGED <<dir, content, copy, record>>
  /\ UNCHANGED <<inode, pos, put, verdict, userVars>>

(* One attempt too many.                                                   *)
ForceOpenBug(s) == TryOpen(s, 3)
ForceOpen(s)    == TryOpen(s, 2)

(* recoverfile, a line at a time from where lseek has put the descriptor.  *)
(* A write that fails is reported on stderr, no more.                      *)
CopyFrom(s, first, step) ==
  LET from == first + pos[s] IN
  /\ pc[s] = "copy"
  /\ \/ /\ from < Len(content[inode[s]])
        /\ pos' = [pos EXCEPT ![s] = @ + step]
        /\ \/ /\ content' = [content EXCEPT ![copy[s]] =
                               Overwrite(@, put[s] + 1, content[inode[s]][from + 1])]
              /\ put' = [put EXCEPT ![s] = @ + step]
           \/ /\ "copy" \in Faults /\ pos[s] - put[s] < MaxLost
              /\ UNCHANGED <<content, put>>
        /\ UNCHANGED <<pc, rescued>>
     \/ /\ from >= Len(content[inode[s]])
        /\ rescued' = [rescued EXCEPT ![s] = "yes"]
        /\ Goto(s, "conclude")
        /\ UNCHANGED <<content, pos, put>>
  /\ UNCHANGED <<dir, inode, copy, tries, verdict, record, userVars>>

(* Without the lseek the copy begins where the last write ended; with one  *)
(* before each read it never ends.                                         *)
NoSeekBug(s)     == CopyFrom(s, Len(content[inode[s]]), 1)
SeekInLoopBug(s) == CopyFrom(s, 0, 0)
Copy(s)          == CopyFrom(s, 0, 1)

(* The outcome is logged, again into the deleted file, which is closed.    *)
Conclude(s) ==
  /\ pc[s] = "conclude"
  /\ dologging(s, "outcome")
  /\ Goto(s, "syslog")
  /\ UNCHANGED <<dir, inode, copy, pos, put, tries, verdict, rescued, userVars>>

(* rename, whose result nobody looks at.                                   *)
Renamable(p, q) ==
  \/ IsFile(p) /\ ~IsDir(q)
  \/ IsDir(p) /\ dir[q] \in {"none", "dir"}
Renamed(p, q) ==
  IF Renamable(p, q) THEN [dir EXCEPT ![q] = dir[p], ![p] = "none"] ELSE dir

RenameTo(s, suffix) ==
  /\ pc[s] = "rename"
  /\ dir' = Renamed(Log(s), Path(s, suffix))
  /\ Goto(s, "syslog")
  /\ UNCHANGED <<content, inode, copy, pos, put, tries, verdict, rescued, record,
                 userVars>>

(* The name made up in one branch is used in the other.                    *)
RenameBug(s) == RenameTo(s, "tampered")
Rename(s)    == RenameTo(s, "closed")

(* The last message to syslog, and closelog.                               *)
NoteEnd(s) ==
  /\ pc[s] = "syslog"
  /\ Goto(s, "done")
  /\ UNCHANGED <<dir, content, inode, copy, pos, put, tries, verdict, rescued, record,
                 userVars>>

(* A signal rootsh does not handle, or an error exit of logSession.        *)
Kill(s) ==
  /\ pc[s] \notin EndPCs /\ "kill" \in Faults
  /\ Goto(s, "killed")
  /\ UNCHANGED <<dir, content, inode, copy, pos, put, tries, verdict, rescued, record,
                 userVars>>
-----------------------------------------------------------------------------
(* Users with the rights of root.                                          *)

Touch(ps) ==
  /\ tampers < MaxTamper /\ tampers' = tampers + 1
  /\ touched' = touched \cup {s \in Sessions : Log(s) \in ps /\ pc[s] \in OpenPCs}
  /\ late' = late \cup {s \in Sessions :
                          /\ \E p \in ps : p[1] = NameOf[s]
                          /\ pc[s] \notin {"start", "header", "run", "stat"}}
  /\ UNCHANGED sessionVars

Remove(p) ==
  /\ "remove" \in Tampering /\ dir[p] # "none"
  /\ dir' = [dir EXCEPT ![p] = "none"]
  /\ Touch({p})
  /\ UNCHANGED content

Move(p, q) ==
  /\ "move" \in Tampering /\ p # q /\ Renamable(p, q)
  /\ dir' = Renamed(p, q)
  /\ Touch({p, q})
  /\ UNCHANGED content

Create(p) ==
  /\ "create" \in Tampering /\ dir[p] = "none"
  /\ \E i \in Free :
       /\ dir' = [dir EXCEPT ![p] = i]
       /\ content' = [content EXCEPT ![i] = <<>>]
  /\ Touch({p})

Mkdir(p) ==
  /\ "mkdir" \in Tampering /\ dir[p] = "none"
  /\ \E d \in {"dir", "full"} : dir' = [dir EXCEPT ![p] = d]
  /\ Touch({p})
  /\ UNCHANGED content
-----------------------------------------------------------------------------
Begin(s) == Open(s) \/ WriteHeader(s)
End(s)   == \/ EndLogging(s) \/ Stat(s) \/ Unlink(s) \/ Announce(s) \/ ForceOpen(s)
            \/ Copy(s) \/ Conclude(s) \/ Rename(s) \/ NoteEnd(s)
User     == \/ \E p \in Paths : Remove(p) \/ Create(p) \/ Mkdir(p)
            \/ \E p, q \in Paths : Move(p, q)

Next == User \/ \E s \in Sessions : Begin(s) \/ DoLogging(s) \/ End(s) \/ Kill(s)

Spec == Init /\ [][Next]_vars
(* A session that has come to its end is scheduled.                        *)
FairSpec == Spec /\ \A s \in Sessions : WF_vars(pc[s] # "run" /\ End(s))
-----------------------------------------------------------------------------
TypeOK ==
  /\ dir \in [Paths -> Inodes \cup {"none", "dir", "full"}]
  /\ \A i \in Inodes : Len(content[i]) \in Nat
  /\ pc \in [Sessions -> PCs]
  /\ inode \in [Sessions -> Inodes \cup {"none"}]
  /\ copy \in [Sessions -> Inodes \cup {"none"}]
  /\ pos \in [Sessions -> Nat] /\ put \in [Sessions -> Nat]
  /\ \A s \in Sessions : put[s] <= pos[s]
  /\ tries \in [Sessions -> 0 .. 3]
  /\ verdict \in [Sessions -> {"none", "same", "missing", "replaced"}]
  /\ rescued \in [Sessions -> {"none", "yes", "no"}]
  /\ touched \subseteq Sessions /\ late \subseteq Sessions

(* The lines of s in a text, by their places, and which of them one is.    *)
Places(s, text)  == {k \in 1 .. Len(text) : text[k][1] = s}
Rank(s, text, k) == Cardinality({j \in Places(s, text) : j <= k})

(* The lines of s in a text begin with these lines, in this order, or are  *)
(* these lines.                                                            *)
Contains(s, text, lines) ==
  /\ Cardinality(Places(s, text)) >= Len(lines)
  /\ \A k \in Places(s, text) :
       Rank(s, text, k) <= Len(lines) => text[k] = lines[Rank(s, text, k)]
Equals(s, text, lines) ==
  Cardinality(Places(s, text)) = Len(lines) /\ Contains(s, text, lines)

(* What a session has logged up to its closing line, and the announcement  *)
(* of a manipulation: all but the outcome, which comes last.               *)
Report(s) ==
  LET n == Len(record[s])
      last == IF n > 0 /\ record[s][n][2] = "outcome" THEN n - 1 ELSE n
  IN  SubSeq(record[s], 1, last)
Ended(s) == pc[s] = "done" /\ verdict[s] # "none"

(* Whatever users do to the names of a log while its session runs, after   *)
(* endlogging all that was logged is under one of its three names, the     *)
(* announcement included, unless the log itself says that it could not be  *)
(* recovered, a user came again after the stat, or a write of recoverfile  *)
(* failed: it is ignored, and the log said to be recovered.                *)
RecordSurvives ==
  \A s \in Sessions :
    Ended(s) /\ rescued[s] # "no" /\ put[s] = pos[s] /\ s \notin late =>
      \E suffix \in Suffixes :
        /\ IsFile(Path(s, suffix))
        /\ Contains(s, content[dir[Path(s, suffix)]], Report(s))

(* While a session runs its lines are in its file, in their order: neither *)
(* another session on the same file nor a recovery overwrites them.        *)
NothingOverwritten ==
  \A s \in Sessions :
    pc[s] \in OpenPCs \ {"header"} => Equals(s, content[inode[s]], record[s])

(* A log is found manipulated only if a user touched its name while the    *)
(* session ran.                                                            *)
NoFalseAlarm ==
  \A s \in Sessions : verdict[s] \in {"missing", "replaced"} => s \in touched

(* .closed names the very file that was logged to, complete and with no    *)
(* mark of manipulation, unless a user came after the stat or .closed was  *)
(* a directory.                                                            *)
ClosedIsTheLog ==
  \A s \in Sessions :
    Ended(s) /\ verdict[s] = "same" /\ s \notin late /\ ~IsDir(Path(s, "closed")) =>
      /\ dir[Path(s, "closed")] = inode[s]
      /\ dir[Log(s)] # inode[s]
      /\ \A k \in 1 .. Len(record[s]) : record[s][k][2] # "tampered"

(* endlogging comes to its end, forceopen and the copy included.           *)
EndLoggingReturns == \A s \in Sessions : pc[s] = "stat" ~> pc[s] \in EndPCs
=============================================================================
