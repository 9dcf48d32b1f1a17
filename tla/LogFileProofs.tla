---------------------------- MODULE LogFileProofs ----------------------------
(***************************************************************************)
(* What endlogging promises, for any numbers of sessions, files and lines. *)
(*                                                                         *)
(*  - With a log name for each session its check never accuses a user who  *)
(*    did nothing, whatever sessions run at the same time, and a log that  *)
(*    is found untouched is complete under its .closed name.  (Two         *)
(*    sessions under one -f name accuse the user when the first ends.)     *)
(*  - As long as no user renames files nothing overwrites the lines of a   *)
(*    running session, whatever names sessions share.                      *)
(*  - What was logged survives what users do to its names while the        *)
(*    session runs: also renaming them, for a session that is alone.  (A   *)
(*    user who renames the log of one session to the .tampered name of     *)
(*    another has it overwritten by the recovery of the other's.)          *)
(***************************************************************************)
EXTENDS LogFile, FiniteSetTheorems, SequenceTheorems, TLAPS

(* No two sessions log to the same name, as with the names rootsh makes up *)
(* from user, time and process id.                                         *)
OwnNames == \A s, t \in Sessions : NameOf[s] = NameOf[t] => s = t

ChecksName == {"header", "run", "stat"}

(* Until the stat of endlogging the name of a log belongs to the file that *)
(* was opened, unless a user touched it.                                   *)
Holds(s) == pc[s] \in ChecksName /\ s \notin touched => dir[Log(s)] = inode[s]

AlarmTypes ==
  /\ dir \in [Paths -> Inodes \cup {"none", "dir", "full"}]
  /\ pc \in [Sessions -> PCs]
  /\ inode \in [Sessions -> Inodes \cup {"none"}]
  /\ verdict \in [Sessions -> {"none", "same", "missing", "replaced"}]
  /\ touched \subseteq Sessions

AlarmInv ==
  /\ AlarmTypes
  /\ \A s \in Sessions : Holds(s)
  /\ NoFalseAlarm

(* The three names of a session, and none of another's, are paths of it.   *)
LEMMA PathFacts ==
  ASSUME OwnNames
  PROVE  /\ \A s \in Sessions : \A x \in Suffixes : Path(s, x) \in Paths
         /\ \A s, t \in Sessions : \A x, y \in Suffixes : Path(t, x) = Path(s, y) =>
              s = t /\ x = y
<1>1. \A s \in Sessions : NameOf[s] \in Names
  BY LogAssumption
<1> QED
  BY <1>1 DEF OwnNames, Path, Paths, Log, Suffixes

(* What a session does to names: nothing to those of another one.          *)
LEMMA OthersNamesKept ==
  ASSUME OwnNames, AlarmTypes, NEW t \in Sessions, NEW s \in Sessions, s # t,
         Open(t) \/ Unlink(t) \/ ForceOpen(t) \/ Rename(t)
  PROVE  \A y \in Suffixes : dir'[Path(s, y)] = dir[Path(s, y)]
<1> SUFFICES ASSUME NEW y \in Suffixes PROVE dir'[Path(s, y)] = dir[Path(s, y)]
  OBVIOUS
<1>1. /\ Path(s, y) \in Paths
      /\ \A x \in Suffixes : Path(t, x) \in Paths /\ Path(t, x) # Path(s, y)
  BY PathFacts
<1>2. Log(t) = Path(t, "log") /\ Log(t) # Path(s, y) /\ Log(t) \in Paths
  BY <1>1 DEF Log, Suffixes
<1>3. CASE Open(t)
  BY <1>1, <1>2, <1>3 DEF Open, AlarmTypes
<1>4. CASE Unlink(t)
  BY <1>1, <1>2, <1>4 DEF Unlink, AlarmTypes
<1>5. CASE ForceOpen(t)
  BY <1>1, <1>5 DEF ForceOpen, TryOpen, AlarmTypes, Suffixes
<1>6. CASE Rename(t)
  BY <1>1, <1>2, <1>6 DEF Rename, RenameTo, Renamed, AlarmTypes, Suffixes
<1> QED
  BY <1>3, <1>4, <1>5, <1>6

(* A step of a session does to the variables of the other sessions, and    *)
(* to their names, nothing.                                                *)
LEMMA OthersKept ==
  ASSUME OwnNames, AlarmTypes, NEW t \in Sessions, NEW s \in Sessions, s # t,
         Begin(t) \/ DoLogging(t) \/ End(t) \/ Kill(t)
  PROVE  /\ pc'[s] = pc[s] /\ inode'[s] = inode[s] /\ verdict'[s] = verdict[s]
         /\ touched' = touched /\ late' = late
         /\ \A y \in Suffixes : dir'[Path(s, y)] = dir[Path(s, y)]
<1> USE DEF AlarmTypes, Goto, userVars
<1>1. CASE Open(t)
  BY <1>1, OthersNamesKept DEF Open
<1>2. CASE WriteHeader(t)
  BY <1>2 DEF WriteHeader
<1>3. CASE DoLogging(t)
  BY <1>3 DEF DoLogging
<1>4. CASE EndLogging(t)
  BY <1>4 DEF EndLogging
<1>5. CASE Stat(t)
  BY <1>5 DEF Stat, StatAs
<1>6. CASE Unlink(t)
  BY <1>6, OthersNamesKept DEF Unlink
<1>7. CASE Announce(t)
  BY <1>7 DEF Announce
<1>8. CASE ForceOpen(t)
  BY <1>8, OthersNamesKept DEF ForceOpen, TryOpen
<1>9. CASE Copy(t)
  BY <1>9 DEF Copy, CopyFrom
<1>10. CASE Conclude(t)
  BY <1>10 DEF Conclude
<1>11. CASE Rename(t)
  BY <1>11, OthersNamesKept DEF Rename, RenameTo
<1>12. CASE NoteEnd(t)
  BY <1>12 DEF NoteEnd
<1>13. CASE Kill(t)
  BY <1>13 DEF Kill
<1> QED
  BY <1>1, <1>2, <1>3, <1>4, <1>5, <1>6, <1>7, <1>8, <1>9, <1>10, <1>11, <1>12, <1>13
     DEF Begin, End

(* A session's own step keeps what is said of it: the name is checked only *)
(* where nothing but a user can have changed it.                           *)
LEMMA OwnKept ==
  ASSUME OwnNames, AlarmTypes, NEW s \in Sessions, Holds(s),
         verdict[s] \in {"missing", "replaced"} => s \in touched,
         Begin(s) \/ DoLogging(s) \/ End(s) \/ Kill(s)
  PROVE  /\ AlarmTypes' /\ Holds(s)'
         /\ verdict'[s] \in {"missing", "replaced"} => s \in touched'
<1> USE DEF Holds, ChecksName, Goto, userVars
<1>0. Log(s) \in Paths /\ \A x \in Suffixes : Path(s, x) \in Paths
  BY PathFacts DEF Log, Suffixes
<1> USE DEF AlarmTypes, PCs, BeforePCs, OpenPCs, EndPCs
<1>1. CASE Open(s)
  BY <1>0, <1>1 DEF Open, IsFile, Free
<1>2. CASE WriteHeader(s)
  BY <1>2 DEF WriteHeader, Log
<1>3. CASE DoLogging(s)
  BY <1>3 DEF DoLogging, Log
<1>4. CASE EndLogging(s)
  BY <1>4 DEF EndLogging, Log
<1>5. CASE Stat(s)
  BY <1>5 DEF Stat, StatAs
<1>6. CASE Unlink(s)
  BY <1>0, <1>6 DEF Unlink
<1>7. CASE Announce(s)
  BY <1>7 DEF Announce
<1>8. CASE ForceOpen(s)
  BY <1>0, <1>8 DEF ForceOpen, TryOpen, Free, Suffixes
<1>9. CASE Copy(s)
  BY <1>9 DEF Copy, CopyFrom
<1>10. CASE Conclude(s)
  BY <1>10 DEF Conclude
<1>11. CASE Rename(s)
  BY <1>0, <1>11 DEF Rename, RenameTo, Renamed, Suffixes
<1>12. CASE NoteEnd(s)
  BY <1>12 DEF NoteEnd
<1>13. CASE Kill(s)
  BY <1>13 DEF Kill
<1> QED
  BY <1>1, <1>2, <1>3, <1>4, <1>5, <1>6, <1>7, <1>8, <1>9, <1>10, <1>11, <1>12, <1>13
     DEF Begin, End

(* A user who changes the name of a log while its session runs has touched *)
(* it.                                                                     *)
LEMMA UserKept ==
  ASSUME OwnNames, AlarmInv, User
  PROVE  AlarmInv'
<1>1. /\ AlarmTypes'
      /\ touched \subseteq touched' /\ pc' = pc /\ inode' = inode /\ verdict' = verdict
      /\ \A s \in Sessions : pc[s] \in ChecksName /\ s \notin touched' =>
           dir'[Log(s)] = dir[Log(s)]
  <2> USE DEF Touch, AlarmInv, AlarmTypes, ChecksName, OpenPCs, sessionVars
  <2>0. \A s \in Sessions : Log(s) \in Paths
    BY PathFacts DEF Log, Suffixes
  <2>1. CASE \E p \in Paths : Remove(p)
    BY <2>0, <2>1 DEF Remove
  <2>2. CASE \E p \in Paths : Create(p)
    BY <2>0, <2>2 DEF Create, Free
  <2>3. CASE \E p \in Paths : Mkdir(p)
    BY <2>0, <2>3 DEF Mkdir
  <2>4. CASE \E p, q \in Paths : Move(p, q)
    BY <2>0, <2>4 DEF Move, Renamed
  <2> QED
    BY <2>1, <2>2, <2>3, <2>4 DEF User
<1> QED
  BY <1>1 DEF AlarmInv, Holds, NoFalseAlarm, ChecksName

LEMMA AlarmStep ==
  ASSUME OwnNames, AlarmInv, [Next]_vars
  PROVE  AlarmInv'
<1>1. CASE User
  BY <1>1, UserKept
<1>2. CASE \E t \in Sessions : Begin(t) \/ DoLogging(t) \/ End(t) \/ Kill(t)
  <2> PICK t \in Sessions : Begin(t) \/ DoLogging(t) \/ End(t) \/ Kill(t)
    BY <1>2
  <2>1. /\ AlarmTypes' /\ Holds(t)'
        /\ verdict'[t] \in {"missing", "replaced"} => t \in touched'
    BY OwnKept DEF AlarmInv, NoFalseAlarm
  <2>2. ASSUME NEW s \in Sessions, s # t
        PROVE  /\ Holds(s)'
               /\ verdict'[s] \in {"missing", "replaced"} => s \in touched'
    BY <2>2, OthersKept DEF AlarmInv, NoFalseAlarm, Holds, Log, Suffixes
  <2> QED
    BY <2>1, <2>2 DEF AlarmInv, NoFalseAlarm
<1>3. CASE UNCHANGED vars
  BY <1>3 DEF vars, sessionVars, userVars, AlarmInv, AlarmTypes, NoFalseAlarm, Holds, Log,
              Path
<1> QED
  BY <1>1, <1>2, <1>3 DEF Next

(* A log is found manipulated only if a user touched its name while the    *)
(* session ran, whatever the other sessions do, if they have other names.  *)
THEOREM NoFalseAlarmHolds ==
  ASSUME OwnNames PROVE Spec => []NoFalseAlarm
<1>1. Init => AlarmInv
  BY DEF Init, AlarmInv, AlarmTypes, Holds, ChecksName, NoFalseAlarm, PCs, BeforePCs
<1>2. AlarmInv /\ [Next]_vars => AlarmInv'
  BY AlarmStep
<1>3. AlarmInv => NoFalseAlarm
  BY DEF AlarmInv
<1> QED
  BY <1>1, <1>2, <1>3, PTL DEF Spec
-----------------------------------------------------------------------------
(* Types, with what a session holds at which step: a file from the open    *)
(* on, and attempts left until forceopen gives up.                         *)
Says == {"opened", "out", "closed", "tampered", "retry", "outcome"}
Line == (Sessions \cup {"stale"}) \X Says

BeforeForce == {"start", "header", "run", "stat", "unlink", "announce", "force"}

DataTypes ==
  /\ content \in [Inodes -> Seq(Line)] /\ record \in [Sessions -> Seq(Line)]
  /\ copy \in [Sessions -> Inodes \cup {"none"}]
  /\ pos \in [Sessions -> Nat] /\ put \in [Sessions -> Nat]
  /\ tries \in [Sessions -> 0 .. 3]
  /\ rescued \in [Sessions -> {"none", "yes", "no"}]
  /\ late \subseteq Sessions

Holdings ==
  \A s \in Sessions :
    /\ put[s] <= pos[s]
    /\ pc[s] \in OpenPCs => inode[s] \in Inodes
    /\ pc[s] = "copy" => copy[s] \in Inodes
    /\ pc[s] \in BeforeForce => tries[s] <= 2

FileTypes == AlarmTypes /\ DataTypes /\ Holdings

LEMMA OverwriteType ==
  ASSUME NEW S, NEW to \in Seq(S), NEW n \in Nat, n > 0, NEW line \in S
  PROVE  Overwrite(to, n, line) \in Seq(S)
<1>1. CASE n <= Len(to)
  BY <1>1, ExceptSeq, LenProperties DEF Overwrite
<1>2. CASE ~(n <= Len(to))
  BY <1>2, AppendProperties DEF Overwrite
<1> QED
  BY <1>1, <1>2

LEMMA AppendLineType ==
  ASSUME FileTypes, NEW s \in Sessions, pc[s] \in OpenPCs, NEW says \in Says,
         AppendLine(s, says)
  PROVE  /\ content' \in [Inodes -> Seq(Line)] /\ record' \in [Sessions -> Seq(Line)]
         /\ record'[s] = Append(record[s], <<s, says>>)
         /\ \A t \in Sessions \ {s} : record'[t] = record[t]
<1>1. inode[s] \in Inodes /\ content[inode[s]] \in Seq(Line) /\ record[s] \in Seq(Line)
  BY DEF FileTypes, DataTypes, Holdings, AlarmTypes
<1>2. Len(content[inode[s]]) + 1 \in Nat /\ Len(content[inode[s]]) + 1 > 0
  BY <1>1, LenProperties
<1>3. <<s, says>> \in Line
  BY DEF Line
<1>4. Overwrite(content[inode[s]], Len(content[inode[s]]) + 1, <<s, says>>) \in Seq(Line)
  BY <1>1, <1>2, <1>3, OverwriteType
<1>5. Append(record[s], <<s, says>>) \in Seq(Line)
  BY <1>1, <1>3, AppendProperties
<1> QED
  BY <1>1, <1>4, <1>5 DEF AppendLine, WriteLine, FileTypes, DataTypes

(* What dologging does, for the steps that use it.                         *)
LEMMA DologgingType ==
  ASSUME FileTypes, NEW s \in Sessions, pc[s] \in OpenPCs, NEW says \in Says,
         dologging(s, says)
  PROVE  /\ content' \in [Inodes -> Seq(Line)] /\ record' \in [Sessions -> Seq(Line)]
         /\ record'[s] \in {record[s], Append(record[s], <<s, says>>)}
         /\ \A t \in Sessions \ {s} : record'[t] = record[t]
<1>1. CASE AppendLine(s, says)
  BY <1>1, AppendLineType
<1>2. CASE UNCHANGED <<content, record>>
  BY <1>2 DEF FileTypes, DataTypes
<1> QED
  BY <1>1, <1>2 DEF dologging

LEMMA OwnPaths ==
  ASSUME NEW s \in Sessions
  PROVE  Log(s) \in Paths /\ \A x \in Suffixes : Path(s, x) \in Paths
<1>1. NameOf[s] \in Names
  BY LogAssumption
<1> QED
  BY <1>1 DEF Log, Path, Paths, Suffixes

LEMMA UserTypes == ASSUME FileTypes, User PROVE FileTypes'
<1> USE DEF Touch, sessionVars
<1>0. <<>> \in Seq(Line)
  OBVIOUS
<1>1. /\ AlarmTypes' /\ UNCHANGED sessionVars
      /\ content' \in [Inodes -> Seq(Line)] /\ late' \subseteq Sessions
  <2> USE DEF FileTypes, AlarmTypes, DataTypes
  <2>1. CASE \E p \in Paths : Remove(p)
    BY <2>1 DEF Remove
  <2>2. CASE \E p \in Paths : Create(p)
    <3>1. PICK p \in Paths, i \in Inodes :
            /\ dir' = [dir EXCEPT ![p] = i] /\ content' = [content EXCEPT ![i] = <<>>]
            /\ Touch({p})
      BY <2>2 DEF Create, Free
    <3> QED
      BY <1>0, <3>1
  <2>3. CASE \E p \in Paths : Mkdir(p)
    BY <2>3 DEF Mkdir
  <2>4. CASE \E p, q \in Paths : Move(p, q)
    <3>1. PICK p \in Paths, q \in Paths : Move(p, q)
      BY <2>4
    <3>2. dir' \in [Paths -> Inodes \cup {"none", "dir", "full"}]
      BY <3>1 DEF Move, Renamed
    <3> QED
      BY <3>1, <3>2 DEF Move
  <2> QED
    BY <2>1, <2>2, <2>3, <2>4 DEF User
<1> QED
  BY <1>1 DEF FileTypes, DataTypes, Holdings

LEMMA OwnTypes ==
  ASSUME FileTypes, NEW s \in Sessions, Begin(s) \/ DoLogging(s) \/ End(s) \/ Kill(s)
  PROVE  FileTypes'
<1> USE DEF FileTypes, Goto, userVars
<1>0. Log(s) \in Paths /\ (\A x \in Suffixes : Path(s, x) \in Paths) /\ <<>> \in Seq(Line)
  BY OwnPaths
<1> USE DEF PCs, BeforePCs, OpenPCs, EndPCs, BeforeForce
<1>1. CASE Open(s)
  <2> USE DEF Open, IsFile, Free
  <2>1. AlarmTypes'
    BY <1>0, <1>1 DEF AlarmTypes
  <2>2. DataTypes'
    BY <1>0, <1>1 DEF DataTypes
  <2>3. Holdings'
    BY <1>0, <1>1 DEF Holdings, AlarmTypes
  <2> QED
    BY <2>1, <2>2, <2>3
<1>2. CASE WriteHeader(s) \/ EndLogging(s) \/ DoLogging(s) \/ Announce(s) \/ Conclude(s)
  <2> USE DEF WriteHeader, EndLogging, DoLogging, Announce, Conclude
  <2>1. AlarmTypes'
    BY <1>2 DEF AlarmTypes
  <2>2. content' \in [Inodes -> Seq(Line)] /\ record' \in [Sessions -> Seq(Line)]
    <3>1. CASE \E says \in Says : AppendLine(s, says)
      BY <1>2, <3>1, AppendLineType
    <3>2. CASE \E says \in Says : dologging(s, says)
      BY <1>2, <3>2, DologgingType
    <3>3. CASE UNCHANGED <<content, record>>
      BY <3>3 DEF DataTypes
    <3> QED
      BY <1>2, <3>1, <3>2, <3>3 DEF Says
  <2>3. DataTypes'
    BY <1>2, <2>2 DEF DataTypes
  <2>4. Holdings'
    BY <1>2 DEF Holdings, AlarmTypes
  <2> QED
    BY <2>1, <2>3, <2>4
<1>3. CASE Stat(s)
  <2>1. AlarmTypes'
    BY <1>3 DEF AlarmTypes, Stat, StatAs
  <2>2. DataTypes' /\ Holdings'
    BY <1>3 DEF DataTypes, Holdings, AlarmTypes, Stat, StatAs
  <2> QED
    BY <2>1, <2>2
<1>4. CASE Unlink(s)
  BY <1>0, <1>4 DEF Unlink, AlarmTypes, DataTypes, Holdings
<1>5. CASE ForceOpen(s)
  <2> USE DEF ForceOpen, TryOpen, IsFile, Free, Suffixes
  <2>1. AlarmTypes'
    BY <1>0, <1>5 DEF AlarmTypes
  <2>2. content' \in [Inodes -> Seq(Line)] /\ record' \in [Sessions -> Seq(Line)]
    <3>1. CASE dologging(s, "retry")
      BY <1>5, <3>1, DologgingType DEF Says
    <3>2. CASE UNCHANGED <<content, record>>
      BY <3>2 DEF DataTypes
    <3>3. CASE record' = record /\ \E i \in Inodes : content' = [content EXCEPT ![i] = <<>>]
      BY <1>0, <3>3 DEF DataTypes
    <3> QED
      BY <1>5, <3>1, <3>2, <3>3
  <2>3. tries' \in [Sessions -> 0 .. 3]
    <3>1. tries[s] \in 0 .. 2
      BY <1>5 DEF DataTypes, Holdings
    <3>2. tries[s] + 1 \in 0 .. 3
      BY <3>1
    <3>3. tries' = tries \/ tries' = [tries EXCEPT ![s] = tries[s] + 1]
      BY <1>5
    <3> QED
      BY <3>2, <3>3 DEF DataTypes
  <2>4. copy' \in [Sessions -> Inodes \cup {"none"}] /\ rescued' \in [Sessions -> {"none", "yes", "no"}]
    <3>1. copy' = copy \/ \E i \in Inodes : copy' = [copy EXCEPT ![s] = i]
      BY Zenon, <1>5
    <3>2. rescued' = rescued \/ rescued' = [rescued EXCEPT ![s] = "no"]
      BY Zenon, <1>5
    <3> QED
      BY ONLY <3>1, <3>2, FileTypes DEF FileTypes, DataTypes
  <2>5. DataTypes'
    BY <1>5, <2>2, <2>3, <2>4 DEF DataTypes
  <2>6. Holdings'
    <3>1. UNCHANGED <<put, pos, inode>> /\ pc[s] = "force"
      BY <1>5
    <3>2. CASE /\ pc' = [pc EXCEPT ![s] = "copy"] /\ tries' = tries
               /\ \E i \in Inodes : copy' = [copy EXCEPT ![s] = i]
      BY <3>1, <3>2 DEF Holdings, AlarmTypes, DataTypes
    <3>3. CASE /\ pc' = pc /\ copy' = copy /\ tries[s] < 2
               /\ tries' = [tries EXCEPT ![s] = tries[s] + 1]
      <4>0. tries[s] \in 0 .. 3
        BY DEF DataTypes
      <4>1. tries[s] + 1 \in 0 .. 2
        BY <3>3, <4>0
      <4> QED
        BY <3>1, <3>3, <4>1 DEF Holdings, AlarmTypes, DataTypes
    <3>4. CASE /\ pc' = [pc EXCEPT ![s] = "conclude"] /\ copy' = copy
               /\ tries' = [tries EXCEPT ![s] = tries[s] + 1]
      BY <3>1, <3>4 DEF Holdings, AlarmTypes, DataTypes
    <3> QED
      BY <1>5, <3>2, <3>3, <3>4
  <2> QED
    BY <2>1, <2>5, <2>6
<1>6. CASE Copy(s)
  <2> DEFINE from == 0 + pos[s]
             text == Overwrite(content[copy[s]], put[s] + 1, content[inode[s]][from + 1])
  <2>1. pc[s] = "copy" /\ copy[s] \in Inodes /\ inode[s] \in Inodes
    BY <1>6 DEF Copy, CopyFrom, Holdings
  <2>2. from < Len(content[inode[s]]) => text \in Seq(Line)
    <3>1. content[inode[s]] \in Seq(Line) /\ content[copy[s]] \in Seq(Line) /\ pos[s] \in Nat
          /\ put[s] \in Nat
      BY <2>1 DEF DataTypes
    <3> HAVE from < Len(content[inode[s]])
    <3>2. from + 1 \in 1 .. Len(content[inode[s]])
      BY <3>1, LenProperties
    <3>3. content[inode[s]][from + 1] \in Line
      BY <3>1, <3>2, ElementOfSeq
    <3>4. put[s] + 1 \in Nat /\ put[s] + 1 > 0
      BY <3>1
    <3> QED
      BY <3>1, <3>3, <3>4, OverwriteType
  <2>3. \/ /\ from < Len(content[inode[s]]) /\ content' = [content EXCEPT ![copy[s]] = text]
        \/ content' = content
    BY <1>6 DEF Copy, CopyFrom
  <2> HIDE DEF text, from
  <2>4. content' \in [Inodes -> Seq(Line)]
    BY <2>1, <2>2, <2>3 DEF DataTypes
  <2>5. AlarmTypes'
    BY <1>6 DEF AlarmTypes, Copy, CopyFrom
  <2> DEFINE onePos == [pos EXCEPT ![s] = pos[s] + 1]
             onePut == [put EXCEPT ![s] = put[s] + 1]
  <2>6. /\ \/ pos' = onePos /\ put' = onePut /\ UNCHANGED <<pc, rescued>>
           \/ pos' = onePos /\ UNCHANGED <<pc, put, rescued>>
           \/ /\ pc' = [pc EXCEPT ![s] = "conclude"]
              /\ rescued' = [rescued EXCEPT ![s] = "yes"]
              /\ UNCHANGED <<pos, put>>
        /\ UNCHANGED <<dir, inode, copy, tries, verdict, record, tampers, touched, late>>
    BY <1>6 DEF Copy, CopyFrom
  <2>7. pos' \in [Sessions -> Nat] /\ put' \in [Sessions -> Nat]
    <3>1. pos[s] + 1 \in Nat /\ put[s] + 1 \in Nat
      BY DEF DataTypes
    <3>2. onePos \in [Sessions -> Nat] /\ onePut \in [Sessions -> Nat]
      BY <3>1 DEF DataTypes
    <3> HIDE DEF onePos, onePut
    <3> QED
      BY <2>6, <3>2 DEF DataTypes
  <2>8. \A t \in Sessions : put[t] <= pos[t] => put'[t] <= pos'[t]
    <3> SUFFICES ASSUME NEW t \in Sessions, put[t] <= pos[t] PROVE put'[t] <= pos'[t]
      OBVIOUS
    <3>1. put[t] \in Nat /\ pos[t] \in Nat /\ put[s] \in Nat /\ pos[s] \in Nat
          /\ DOMAIN put = Sessions /\ DOMAIN pos = Sessions
      BY DEF DataTypes
    <3> QED
      BY <2>6, <3>1
  <2>9. DataTypes'
    BY <2>4, <2>6, <2>7 DEF DataTypes
  <2>10. Holdings'
    BY <2>1, <2>6, <2>8 DEF Holdings, AlarmTypes
  <2> QED
    BY <2>5, <2>9, <2>10
<1>7. CASE Rename(s)
  <2>1. AlarmTypes'
    BY <1>0, <1>7 DEF Rename, RenameTo, Renamed, Suffixes, AlarmTypes
  <2>2. DataTypes' /\ Holdings'
    BY <1>7 DEF Rename, RenameTo, AlarmTypes, DataTypes, Holdings
  <2> QED
    BY <2>1, <2>2
<1>8. CASE NoteEnd(s) \/ Kill(s)
  <2>1. \E x \in EndPCs : pc' = [pc EXCEPT ![s] = x]
    BY <1>8 DEF NoteEnd, Kill
  <2>2. UNCHANGED <<dir, content, inode, copy, pos, put, tries, verdict, rescued, record,
                    userVars>>
    BY <1>8 DEF NoteEnd, Kill
  <2>3. AlarmTypes'
    BY <2>1, <2>2 DEF AlarmTypes
  <2> QED
    BY <2>1, <2>2, <2>3 DEF AlarmTypes, DataTypes, Holdings
<1> QED
  BY <1>1, <1>2, <1>3, <1>4, <1>5, <1>6, <1>7, <1>8 DEF Begin, End

LEMMA TypesStep == ASSUME FileTypes, [Next]_vars PROVE FileTypes'
<1>1. CASE UNCHANGED vars
  BY <1>1 DEF vars, sessionVars, userVars, FileTypes, AlarmTypes, DataTypes, Holdings
<1> QED
  BY <1>1, UserTypes, OwnTypes DEF Next

THEOREM TypesHold == Spec => []FileTypes
<1>1. Init => FileTypes
  <2> SUFFICES ASSUME Init PROVE FileTypes
    OBVIOUS
  <2>1. Stale \in Seq(Line) /\ <<>> \in Seq(Line)
    <3>0. StaleLines \in Nat
      BY LogAssumption
    <3>1. StaleLines \in Nat /\ <<"stale", "out">> \in Line
      BY <3>0 DEF Line, Says
    <3>2. Stale \in [1 .. StaleLines -> Line]
      BY <3>1 DEF Stale
    <3> QED
      BY <3>1, <3>2, SeqDef
  <2> QED
    BY <2>1 DEF Init, FileTypes, AlarmTypes, DataTypes, Holdings, PCs, BeforePCs, OpenPCs, BeforeForce
<1> QED
  BY <1>1, TypesStep, PTL DEF Spec

(* The type invariant: forceopen's attempts are bounded.                   *)
THEOREM TypeCorrect == Spec => []TypeOK
<1>1. FileTypes => TypeOK
  BY LenProperties DEF FileTypes, AlarmTypes, DataTypes, Holdings, TypeOK
<1> QED
  BY <1>1, TypesHold, PTL
-----------------------------------------------------------------------------
(* The file that is closed under its name is the one that was logged to.   *)

Unmarked(s) == \A k \in 1 .. Len(record[s]) : record[s][k][2] # "tampered"

Sealed(s) ==
  /\ pc[s] \in {"start", "header", "run", "stat"} => verdict[s] = "none" /\ Unmarked(s)
  /\ verdict[s] = "same" => pc[s] \in {"rename"} \cup {"syslog"} \cup EndPCs /\ Unmarked(s)
  /\ pc[s] = "rename" /\ s \notin late => dir[Log(s)] = inode[s]
  /\ pc[s] \in {"syslog", "done"} /\ verdict[s] = "same" /\ s \notin late
     /\ ~IsDir(Path(s, "closed")) =>
       dir[Path(s, "closed")] = inode[s] /\ dir[Log(s)] # inode[s]

(* Other sessions do not write a session's record.                         *)
LEMMA OthersRecordKept ==
  ASSUME FileTypes, NEW t \in Sessions, NEW s \in Sessions, s # t,
         Begin(t) \/ DoLogging(t) \/ End(t) \/ Kill(t)
  PROVE  record'[s] = record[s]
<1>1. record \in [Sessions -> Seq(Line)]
  BY DEF FileTypes, DataTypes
<1>2. ASSUME NEW says, dologging(t, says) PROVE record'[s] = record[s]
  BY <1>1, <1>2 DEF dologging, AppendLine, WriteLine
<1>3. ASSUME NEW says, AppendLine(t, says) PROVE record'[s] = record[s]
  BY <1>2, <1>3 DEF dologging
<1>4. CASE Open(t) \/ Stat(t) \/ Unlink(t) \/ Copy(t) \/ Rename(t) \/ NoteEnd(t) \/ Kill(t)
  BY <1>4 DEF Open, Stat, StatAs, Unlink, Copy, CopyFrom, Rename, RenameTo, NoteEnd, Kill
<1>5. CASE WriteHeader(t) \/ EndLogging(t)
  BY <1>3, <1>5 DEF WriteHeader, EndLogging
<1>6. CASE DoLogging(t) \/ Announce(t) \/ Conclude(t)
  BY <1>2, <1>6 DEF DoLogging, Announce, Conclude
<1>7. CASE ForceOpen(t)
  BY <1>2, <1>7 DEF ForceOpen, TryOpen
<1> QED
  BY <1>4, <1>5, <1>6, <1>7 DEF Begin, End

(* A line that does not speak of manipulation leaves a record unmarked.    *)
LEMMA StillUnmarked ==
  ASSUME NEW old \in Seq(Line), NEW line \in Line, line[2] # "tampered",
         \A k \in 1 .. Len(old) : old[k][2] # "tampered"
  PROVE  \A k \in 1 .. Len(Append(old, line)) : Append(old, line)[k][2] # "tampered"
  BY AppendProperties, LenProperties

LEMMA OwnSealed ==
  ASSUME OwnNames, FileTypes, NEW s \in Sessions, Sealed(s),
         Begin(s) \/ DoLogging(s) \/ End(s) \/ Kill(s)
  PROVE  Sealed(s)'
<1> USE DEF Sealed, Goto, userVars
<1>0. /\ Log(s) \in Paths /\ \A x \in Suffixes : Path(s, x) \in Paths
      /\ Path(s, "closed") # Log(s) /\ Path(s, "closed") \in Paths
      /\ Log(s)' = Log(s) /\ Path(s, "closed")' = Path(s, "closed")
  BY PathFacts DEF Log, Path, Suffixes
<1>1. /\ pc \in [Sessions -> PCs] /\ verdict \in [Sessions -> {"none", "same", "missing", "replaced"}]
      /\ record[s] \in Seq(Line)
  BY DEF FileTypes, AlarmTypes, DataTypes
<1>2. CASE Open(s)
  BY <1>0, <1>1, <1>2 DEF Open, Unmarked, EndPCs
<1>3. CASE WriteHeader(s) \/ DoLogging(s) \/ EndLogging(s)
  <2>1. /\ pc[s] \in {"header", "run"} /\ pc'[s] \in {"header", "run", "stat", "done", "failed"}
        /\ verdict' = verdict /\ pc[s] \in OpenPCs
    BY <1>1, <1>3 DEF WriteHeader, DoLogging, EndLogging, OpenPCs
  <2>2. \E says \in Says \ {"tampered"} :
          record'[s] \in {record[s], Append(record[s], <<s, says>>)}
    <3>1. CASE DoLogging(s)
      BY <2>1, <3>1, DologgingType DEF DoLogging, Says
    <3>2. CASE AppendLine(s, "opened") \/ AppendLine(s, "closed")
      BY <2>1, <3>2, AppendLineType DEF Says
    <3>3. CASE record' = record
      BY <3>3 DEF Says
    <3> QED
      BY <1>3, <3>1, <3>2, <3>3 DEF WriteHeader, EndLogging
  <2>3. PICK says \in Says \ {"tampered"} :
          record'[s] \in {record[s], Append(record[s], <<s, says>>)}
    BY <2>2
  <2>4. <<s, says>> \in Line /\ <<s, says>>[2] # "tampered"
    BY <2>3 DEF Line
  <2>5. Unmarked(s)'
    BY <1>1, <2>1, <2>3, <2>4, StillUnmarked DEF Unmarked
  <2> QED
    BY <2>1, <2>5
<1>4. CASE Stat(s)
  BY <1>0, <1>1, <1>4 DEF Stat, StatAs, Unmarked, EndPCs
<1>5. CASE Unlink(s) \/ Announce(s) \/ ForceOpen(s) \/ Copy(s) \/ Conclude(s)
  <2>1. /\ pc[s] \in {"unlink", "announce", "force", "copy", "conclude"}
        /\ pc'[s] \in {"announce", "force", "copy", "conclude", "syslog"}
        /\ verdict' = verdict
    BY <1>1, <1>5 DEF Unlink, Announce, ForceOpen, TryOpen, Copy, CopyFrom, Conclude
  <2> QED
    BY <2>1 DEF EndPCs
<1>6. CASE Rename(s)
  <2>1. /\ pc[s] = "rename" /\ pc'[s] = "syslog" /\ verdict' = verdict /\ record' = record
        /\ late' = late /\ inode' = inode /\ dir' = Renamed(Log(s), Path(s, "closed"))
    BY <1>1, <1>6 DEF Rename, RenameTo
  <2>2. inode[s] \in Inodes /\ inode[s] \notin {"none", "dir", "full"}
    BY <2>1, LogAssumption DEF FileTypes, Holdings, OpenPCs
  <2>3. ASSUME s \notin late, ~IsDir(Path(s, "closed"))'
        PROVE  dir'[Path(s, "closed")] = inode[s] /\ dir'[Log(s)] # inode[s]
    <3>1. dir[Log(s)] = inode[s] /\ IsFile(Log(s))
      BY <2>1, <2>2, <2>3 DEF IsFile
    <3>2. dir \in [Paths -> Inodes \cup {"none", "dir", "full"}]
      BY DEF FileTypes, AlarmTypes
    <3> QED
      BY <1>0, <2>1, <2>2, <2>3, <3>1, <3>2 DEF Renamed, Renamable, IsDir, IsFile
  <2> QED
    BY <2>1, <2>3 DEF Unmarked, EndPCs
<1>7. CASE NoteEnd(s) \/ Kill(s)
  <2>1. /\ (pc[s] = "syslog" /\ pc'[s] = "done") \/ pc'[s] = "killed"
        /\ UNCHANGED <<dir, inode, verdict, record, late>>
    BY <1>1, <1>7 DEF NoteEnd, Kill
  <2> QED
    BY <1>0, <2>1 DEF Unmarked, EndPCs, IsDir
<1> QED
  BY <1>2, <1>3, <1>4, <1>5, <1>6, <1>7 DEF Begin, End

(* What users do to the names of a session after its stat is late.         *)
LEMMA UserNames ==
  ASSUME FileTypes, User, NEW s \in Sessions
  PROVE  /\ UNCHANGED sessionVars /\ late \subseteq late'
         /\ \/ s \in late' \/ pc[s] \in {"start", "header", "run", "stat"}
            \/ \A x \in Suffixes : dir'[Path(s, x)] = dir[Path(s, x)]
<1>1. \A x \in Suffixes : Path(s, x) \in Paths /\ Path(s, x)[1] = NameOf[s]
  BY OwnPaths DEF Path
<1> DEFINE Kept == /\ UNCHANGED sessionVars /\ late \subseteq late'
                   /\ \/ s \in late' \/ pc[s] \in {"start", "header", "run", "stat"}
                      \/ \A x \in Suffixes : dir'[Path(s, x)] = dir[Path(s, x)]
<1> USE DEF Touch, FileTypes, AlarmTypes
<1>2. ASSUME NEW p \in Paths, Remove(p) \/ Create(p) \/ Mkdir(p) PROVE Kept
  BY <1>1, <1>2 DEF Remove, Create, Mkdir
<1>3. ASSUME NEW p \in Paths, NEW q \in Paths, Move(p, q) PROVE Kept
  BY <1>1, <1>3 DEF Move, Renamed
<1> QED
  BY <1>2, <1>3 DEF User

(* A user who comes after the stat is late.                                *)
LEMMA UserSealed ==
  ASSUME FileTypes, User, NEW s \in Sessions, Sealed(s)
  PROVE  Sealed(s)'
<1>1. Log(s) = Path(s, "log") /\ "log" \in Suffixes /\ "closed" \in Suffixes
  BY DEF Log, Path, Suffixes
<1> QED
  BY <1>1, UserNames DEF Sealed, Unmarked, IsDir, EndPCs, sessionVars

LEMMA SealedHolds ==
  ASSUME OwnNames PROVE Spec => [](\A s \in Sessions : Sealed(s))
<1> DEFINE SealInv == \A s \in Sessions : Sealed(s)
<1>1. Init => SealInv
  BY DEF Init, Sealed, Unmarked
<1>2. FileTypes /\ SealInv /\ [Next]_vars => SealInv'
  <2> SUFFICES ASSUME FileTypes, SealInv, [Next]_vars, NEW s \in Sessions PROVE Sealed(s)'
    OBVIOUS
  <2>1. CASE User
    BY <2>1, UserSealed
  <2>2. ASSUME NEW t \in Sessions, Begin(t) \/ DoLogging(t) \/ End(t) \/ Kill(t)
        PROVE  Sealed(s)'
    <3>1. CASE s = t
      BY <2>2, <3>1, OwnSealed
    <3>2. CASE s # t
      <4>1. /\ pc'[s] = pc[s] /\ inode'[s] = inode[s] /\ verdict'[s] = verdict[s]
            /\ late' = late /\ record'[s] = record[s]
            /\ dir'[Log(s)] = dir[Log(s)] /\ dir'[Path(s, "closed")] = dir[Path(s, "closed")]
        BY <2>2, <3>2, OthersKept, OthersRecordKept DEF FileTypes, Log, Suffixes
      <4> QED
        BY <4>1 DEF Sealed, Unmarked, IsDir
    <3> QED
      BY <3>1, <3>2
  <2>3. CASE UNCHANGED vars
    BY <2>3 DEF vars, sessionVars, userVars, Sealed, Unmarked, IsDir, Log, Path
  <2> QED
    BY <2>1, <2>2, <2>3 DEF Next
<1> QED
  BY <1>1, <1>2, TypesHold, PTL DEF Spec

(* With names of their own, sessions that find their log untouched leave   *)
(* it, complete and unmarked, under the .closed name.                      *)
THEOREM ClosedLogIsTheLog ==
  ASSUME OwnNames PROVE Spec => []ClosedIsTheLog
<1>1. (\A s \in Sessions : Sealed(s)) => ClosedIsTheLog
  BY DEF Sealed, Unmarked, ClosedIsTheLog, Ended
<1> QED
  BY <1>1, SealedHolds, PTL
-----------------------------------------------------------------------------
(* The places of a session's lines in a text are finitely many, and        *)
(* counted.                                                                *)
LEMMA PlacesCounted ==
  ASSUME NEW s, NEW text \in Seq(Line)
  PROVE  /\ Places(s, text) \subseteq 1 .. Len(text) /\ IsFiniteSet(Places(s, text))
         /\ Cardinality(Places(s, text)) \in Nat
         /\ \A k : /\ IsFiniteSet({j \in Places(s, text) : j <= k})
                   /\ Rank(s, text, k) \in Nat
                   /\ Rank(s, text, k) <= Cardinality(Places(s, text))
         /\ \A k \in Places(s, text) : Rank(s, text, k) >= 1
<1> DEFINE P == Places(s, text)
<1>1. Len(text) \in Nat
  BY LenProperties
<1>2. P \subseteq 1 .. Len(text)
  BY DEF Places
<1> HIDE DEF P
<1>3. IsFiniteSet(P)
  <2>1. IsFiniteSet(1 .. Len(text)) /\ P \in SUBSET (1 .. Len(text))
    BY <1>1, <1>2, FS_Interval
  <2> QED
    BY ONLY <2>1, FS_Subset
<1>4. Cardinality(P) \in Nat
  BY <1>3, FS_CardinalityType
<1>5. ASSUME NEW k
      PROVE  /\ IsFiniteSet({j \in P : j <= k})
             /\ Cardinality({j \in P : j <= k}) \in Nat
             /\ Cardinality({j \in P : j <= k}) <= Cardinality(P)
             /\ k \in P => Cardinality({j \in P : j <= k}) >= 1
  <2> DEFINE Q == {j \in P : j <= k}
  <2>1. Q \in SUBSET P /\ (k \in P => k \in Q)
    <3>1. k \in P => k \in Nat
      BY <1>1, <1>2
    <3> QED
      BY <3>1
  <2> HIDE DEF Q
  <2>2. IsFiniteSet(Q) /\ Cardinality(Q) <= Cardinality(P)
    BY <1>3, <2>1, FS_Subset
  <2>3. Cardinality(Q) \in Nat
    BY <2>2, FS_CardinalityType
  <2>4. k \in P => Cardinality(Q) # 0
    BY <2>1, <2>2, FS_EmptySet
  <2>5. /\ IsFiniteSet(Q) /\ Cardinality(Q) \in Nat /\ Cardinality(Q) <= Cardinality(P)
        /\ k \in P => Cardinality(Q) >= 1
    BY <1>4, <2>2, <2>3, <2>4
  <2> QED
    BY <2>5 DEF Q
<1> QED
  BY <1>2, <1>3, <1>4, <1>5 DEF P, Rank

(* What a text contains its continuations contain.                         *)
LEMMA StillContains ==
  ASSUME NEW s, NEW text \in Seq(Line), NEW more \in Seq(Line), NEW lines \in Seq(Line),
         Contains(s, text, lines),
         Len(text) <= Len(more), \A k \in 1 .. Len(text) : more[k] = text[k]
  PROVE  Contains(s, more, lines)
<1> DEFINE P == Places(s, text)
           Q == Places(s, more)
<1>1. /\ P \subseteq 1 .. Len(text) /\ IsFiniteSet(P) /\ Cardinality(P) \in Nat
      /\ Q \subseteq 1 .. Len(more) /\ IsFiniteSet(Q) /\ Cardinality(Q) \in Nat
  BY PlacesCounted
<1>2. Len(text) \in Nat /\ Len(more) \in Nat /\ Len(lines) \in Nat
  BY LenProperties
<1>3. P \subseteq Q /\ \A k \in Q : k <= Len(text) => k \in P
  BY <1>2 DEF Places
<1>4. Cardinality(P) >= Len(lines)
  BY DEF Contains
<1>5. Cardinality(Q) >= Len(lines)
  <2> HIDE DEF P, Q
  <2>1. Cardinality(P) <= Cardinality(Q)
    BY <1>1, <1>3, FS_Subset
  <2> QED
    BY <1>1, <1>2, <1>4, <2>1
<1>6. ASSUME NEW k \in Q, k <= Len(text), Rank(s, more, k) <= Len(lines)
      PROVE  more[k] = lines[Rank(s, more, k)]
  <2>1. k \in P
    BY <1>3, <1>6
  <2>2. {j \in Q : j <= k} = {j \in P : j <= k}
    <3> HIDE DEF P, Q
    <3>1. \A j \in Q : j \in Nat /\ (j <= k => j <= Len(text))
      BY <1>1, <1>2, <1>6
    <3> QED
      BY <1>3, <3>1
  <2>3. Rank(s, more, k) = Rank(s, text, k)
    BY <2>2 DEF Rank
  <2>4. more[k] = text[k]
    BY <1>1, <2>1
  <2> QED
    BY <1>6, <2>1, <2>3, <2>4 DEF Contains
<1>7. ASSUME NEW k \in Q, ~(k <= Len(text)) PROVE ~(Rank(s, more, k) <= Len(lines))
  <2> DEFINE R == {j \in Q : j <= k}
  <2>1. IsFiniteSet(R) /\ Rank(s, more, k) = Cardinality(R) /\ Cardinality(R) \in Nat
    BY PlacesCounted, FS_CardinalityType DEF Rank
  <2> HIDE DEF P, Q
  <2>2. P \cup {k} \in SUBSET R /\ k \notin P
    BY <1>1, <1>2, <1>3, <1>7
  <2> HIDE DEF R
  <2>3. IsFiniteSet(P \cup {k}) /\ Cardinality(P \cup {k}) = Cardinality(P) + 1
    BY <1>1, <2>2, FS_AddElement
  <2>4. Cardinality(P \cup {k}) <= Cardinality(R)
    BY <2>1, <2>2, FS_Subset
  <2> QED
    BY <1>1, <1>2, <1>4, <2>1, <2>3, <2>4
<1> QED
  BY <1>5, <1>6, <1>7 DEF Contains

(* A line of the session comes behind its others.                          *)
LEMMA OwnLineAppended ==
  ASSUME NEW s, NEW text \in Seq(Line), NEW lines \in Seq(Line), NEW line \in Line,
         line[1] = s, Equals(s, text, lines)
  PROVE  Equals(s, Append(text, line), Append(lines, line))
<1> DEFINE n == Len(text)
           more == Append(text, line)
           P == Places(s, text)
           Q == Places(s, more)
<1>1. /\ n \in Nat /\ Len(lines) \in Nat
      /\ more \in Seq(Line) /\ Len(more) = n + 1 /\ more[n + 1] = line
      /\ \A k \in 1 .. n : more[k] = text[k]
  BY LenProperties, AppendProperties
<1>2. /\ Len(Append(lines, line)) = Len(lines) + 1
      /\ \A r \in 1 .. Len(lines) : Append(lines, line)[r] = lines[r]
      /\ Append(lines, line)[Len(lines) + 1] = line
  BY AppendProperties
<1>3. P \subseteq 1 .. n /\ IsFiniteSet(P) /\ Cardinality(P) = Len(lines)
  BY PlacesCounted DEF Equals
<1>4. Q = P \cup {n + 1}
  <2> HIDE DEF n, more
  <2>1. \A k : k \in 1 .. Len(more) <=> k \in 1 .. n \/ k = n + 1
    BY <1>1
  <2>2. Len(text) = n
    BY DEF n
  <2> QED
    BY <1>1, <2>1, <2>2 DEF Places
<1>5. Cardinality(Q) = Len(lines) + 1
  <2> HIDE DEF P, Q, n
  <2>1. n + 1 \notin P
    BY <1>1, <1>3
  <2> QED
    BY <1>3, <1>4, <2>1, FS_AddElement
<1>6. ASSUME NEW k \in P PROVE more[k] = Append(lines, line)[Rank(s, more, k)]
  <2>1. {j \in Q : j <= k} = {j \in P : j <= k}
    <3> HIDE DEF P, Q, n
    <3>1. ~(n + 1 <= k)
      BY <1>1, <1>3
    <3> QED
      BY <1>4, <3>1
  <2>2. Rank(s, more, k) = Rank(s, text, k)
    BY <2>1 DEF Rank
  <2>3. Rank(s, text, k) \in 1 .. Len(lines)
    <3>1. Rank(s, text, k) \in Nat /\ Rank(s, text, k) >= 1
      BY PlacesCounted
    <3>2. Rank(s, text, k) <= Cardinality(P)
      BY PlacesCounted
    <3> QED
      BY ONLY <1>1, <1>3, <3>1, <3>2
  <2>4. text[k] = lines[Rank(s, text, k)]
    BY <1>1, <2>3 DEF Equals, Contains
  <2> HIDE DEF more
  <2> QED
    BY <1>1, <1>2, <1>3, <2>2, <2>3, <2>4
<1>7. more[n + 1] = Append(lines, line)[Rank(s, more, n + 1)]
  <2>1. {j \in Q : j <= n + 1} = Q
    <3> HIDE DEF P, Q, n
    <3>1. \A j \in Q : j <= n + 1
      BY <1>1, <1>3, <1>4
    <3> QED
      BY <3>1
  <2>2. Rank(s, more, n + 1) = Len(lines) + 1
    BY <1>5, <2>1 DEF Rank
  <2> QED
    BY <1>1, <1>2, <2>2
<1>8. \A k \in Q : more[k] = Append(lines, line)[Rank(s, more, k)]
  <2> HIDE DEF P, Q, more, n
  <2> QED
    BY ONLY <1>4, <1>6, <1>7
<1>9. Cardinality(Q) = Len(Append(lines, line))
  BY <1>2, <1>5
<1>10. Cardinality(Q) >= Len(Append(lines, line))
  BY <1>1, <1>2, <1>5
<1> QED
  BY <1>8, <1>9, <1>10 DEF Equals, Contains

(* A line of another session makes no difference.                          *)
LEMMA OthersLineAppended ==
  ASSUME NEW s, NEW text \in Seq(Line), NEW lines \in Seq(Line), NEW line \in Line,
         line[1] # s, Equals(s, text, lines)
  PROVE  Equals(s, Append(text, line), lines)
<1>1. /\ Len(text) \in Nat /\ Append(text, line) \in Seq(Line)
      /\ Len(Append(text, line)) = Len(text) + 1
      /\ Append(text, line)[Len(text) + 1] = line
      /\ \A k \in 1 .. Len(text) : Append(text, line)[k] = text[k]
  BY LenProperties, AppendProperties
<1>2. Places(s, Append(text, line)) = Places(s, text)
  <2> DEFINE n == Len(text)
             more == Append(text, line)
  <2>1. \A k : k \in 1 .. Len(more) <=> k \in 1 .. n \/ k = n + 1
    BY <1>1
  <2> HIDE DEF n, more
  <2> QED
    BY <1>1, <2>1 DEF Places, n, more
<1>3. Contains(s, Append(text, line), lines)
  <2>1. Contains(s, text, lines) /\ Len(text) <= Len(Append(text, line))
    BY <1>1 DEF Equals
  <2> QED
    BY <1>1, <2>1, StillContains
<1> QED
  BY <1>2, <1>3 DEF Equals

(* The first lines of what a text contains it contains too.                *)
LEMMA ContainsFirst ==
  ASSUME NEW s, NEW text \in Seq(Line), NEW lines \in Seq(Line), Contains(s, text, lines),
         NEW n \in 0 .. Len(lines)
  PROVE  Contains(s, text, SubSeq(lines, 1, n))
<1>1. Len(lines) \in Nat /\ \A i \in 1 .. n : lines[i] \in Line
  BY LenProperties, ElementOfSeq
<1>2. Len(SubSeq(lines, 1, n)) = n /\ \A i \in 1 .. n : SubSeq(lines, 1, n)[i] = lines[i]
  BY <1>1, SubSeqProperties
<1>3. \A k \in Places(s, text) : Rank(s, text, k) \in Nat /\ Rank(s, text, k) >= 1
  BY PlacesCounted
<1>4. Cardinality(Places(s, text)) \in Nat
  BY PlacesCounted
<1> DEFINE first == SubSeq(lines, 1, n)
<1>5. Cardinality(Places(s, text)) >= Len(first)
  BY <1>1, <1>2, <1>4 DEF Contains
<1>6. ASSUME NEW k \in Places(s, text), Rank(s, text, k) <= Len(first)
      PROVE  text[k] = first[Rank(s, text, k)]
  <2>1. Rank(s, text, k) \in 1 .. n /\ Rank(s, text, k) <= Len(lines)
    BY <1>1, <1>2, <1>3, <1>6
  <2> HIDE DEF first
  <2> QED
    BY <1>2, <2>1 DEF Contains, first
<1> QED
  BY <1>5, <1>6 DEF Contains
-----------------------------------------------------------------------------
(* What a step does to the lines of files and to what has been logged.     *)
Appended(t, says) ==
  /\ pc[t] \in OpenPCs /\ inode[t] \in Inodes
  /\ content' = [content EXCEPT ![inode[t]] = Append(@, <<t, says>>)]
  /\ record' = [record EXCEPT ![t] = Append(@, <<t, says>>)]

Created == \E i \in Free : content' = [content EXCEPT ![i] = <<>>]

Copied(t) ==
  /\ pc[t] = "copy" /\ pos[t] < Len(content[inode[t]])
  /\ content' = [content EXCEPT ![copy[t]] =
                   Overwrite(@, put[t] + 1, content[inode[t]][pos[t] + 1])]

LEMMA AppendLineEffect ==
  ASSUME FileTypes, NEW t \in Sessions, pc[t] \in OpenPCs, NEW says, AppendLine(t, says)
  PROVE  Appended(t, says)
<1>1. inode[t] \in Inodes /\ content[inode[t]] \in Seq(Line)
  BY DEF FileTypes, DataTypes, Holdings
<1> DEFINE text == content[inode[t]]
<1>2. Overwrite(text, Len(text) + 1, <<t, says>>) = Append(text, <<t, says>>)
  <2>1. Len(text) \in Nat
    BY <1>1, LenProperties
  <2>2. ~(Len(text) + 1 <= Len(text))
    BY <2>1
  <2> QED
    BY ONLY <2>2 DEF Overwrite
<1> HIDE DEF text
<1>3. content' = [content EXCEPT ![inode[t]] = Overwrite(text, Len(text) + 1, <<t, says>>)]
  BY DEF AppendLine, WriteLine, text
<1> QED
  BY <1>1, <1>2, <1>3 DEF AppendLine, WriteLine, Appended, text

LEMMA DologgingEffect ==
  ASSUME FileTypes, NEW t \in Sessions, pc[t] \in OpenPCs, NEW says \in Says,
         dologging(t, says)
  PROVE  UNCHANGED <<content, record>> \/ \E x \in Says : Appended(t, x)
  BY AppendLineEffect DEF dologging

LEMMA OwnEffect ==
  ASSUME FileTypes, NEW t \in Sessions, Begin(t) \/ DoLogging(t) \/ End(t) \/ Kill(t)
  PROVE  \/ UNCHANGED <<content, record>>
         \/ \E x \in Says : Appended(t, x)
         \/ record' = record /\ Created
         \/ record' = record /\ Copied(t)
<1>1. CASE Open(t)
  BY <1>1 DEF Open, Created
<1>2. CASE WriteHeader(t) \/ EndLogging(t)
  BY <1>2, AppendLineEffect DEF WriteHeader, EndLogging, Says, OpenPCs
<1>3. CASE DoLogging(t) \/ Announce(t) \/ Conclude(t)
  BY <1>3, DologgingEffect DEF DoLogging, Announce, Conclude, Says, OpenPCs
<1>4. CASE ForceOpen(t)
  <2>1. CASE dologging(t, "retry")
    BY <1>4, <2>1, DologgingEffect DEF ForceOpen, TryOpen, Says, OpenPCs
  <2>2. CASE ~dologging(t, "retry")
    BY <1>4, <2>2 DEF ForceOpen, TryOpen, Created
  <2> QED
    BY <2>1, <2>2
<1>5. CASE Copy(t)
  <2>1. pos[t] \in Nat /\ 0 + pos[t] = pos[t]
    BY DEF FileTypes, DataTypes
  <2>2. record' = record /\ (content' = content \/ Copied(t))
    BY <1>5, <2>1 DEF Copy, CopyFrom, Copied
  <2> QED
    BY <2>2
<1>6. CASE Stat(t) \/ Unlink(t) \/ Rename(t) \/ NoteEnd(t) \/ Kill(t)
  BY <1>6 DEF Stat, StatAs, Unlink, Rename, RenameTo, NoteEnd, Kill
<1> QED
  BY <1>1, <1>2, <1>3, <1>4, <1>5, <1>6 DEF Begin, End

LEMMA UserEffect ==
  ASSUME User
  PROVE  /\ UNCHANGED sessionVars
         /\ content' = content \/ Created
<1>1. CASE \E p \in Paths : Remove(p) \/ Mkdir(p)
  BY <1>1 DEF Remove, Mkdir, Touch
<1>2. CASE \E p \in Paths : Create(p)
  BY <1>2 DEF Create, Touch, Created
<1>3. CASE \E p, q \in Paths : Move(p, q)
  BY <1>3 DEF Move, Touch
<1> QED
  BY <1>1, <1>2, <1>3 DEF User

Copying(s) == pc[s] = "copy"
IsOpen(s)  == pc[s] \in OpenPCs

(* A file has one name; the log of a running session is not called         *)
(* .tampered; a file that a recovery writes to has no other name.          *)
NamesApart ==
  /\ \A p, q \in Paths : dir[p] \in Inodes /\ dir[p] = dir[q] => p = q
  /\ \A s \in Sessions, p \in Paths : IsOpen(s) /\ dir[p] = inode[s] => p[2] # "tampered"
  /\ \A s \in Sessions, p \in Paths :
       Copying(s) /\ dir[p] = copy[s] => p = Path(s, "tampered")
  /\ \A s, t \in Sessions : IsOpen(s) /\ Copying(t) => copy[t] # inode[s]

(* A free file is nobody's.                                                *)
LEMMA FreeFacts ==
  ASSUME NEW i \in Free
  PROVE  /\ i \in Inodes /\ \A p \in Paths : dir[p] # i
         /\ \A s \in Sessions : (IsOpen(s) => inode[s] # i) /\ (Copying(s) => copy[s] # i)
  BY DEF Free, InUse, IsOpen, Copying

(* A step that names no file, and after which nobody holds one he did not  *)
(* hold before.                                                            *)
Quiet ==
  /\ \A p \in Paths : dir'[p] \in Inodes => dir'[p] = dir[p]
  /\ \A s \in Sessions :
       /\ IsOpen(s)' => IsOpen(s) /\ inode'[s] = inode[s]
       /\ Copying(s)' => Copying(s) /\ copy'[s] = copy[s]

LEMMA QuietStep ==
  ASSUME FileTypes, FileTypes', NamesApart, Quiet PROVE NamesApart'
<1>1. \A s \in Sessions : Path(s, "tampered")' = Path(s, "tampered")
  BY DEF Path
<1>2. \A s \in Sessions : (IsOpen(s) => inode[s] \in Inodes) /\ (Copying(s) => copy[s] \in Inodes)
  BY DEF IsOpen, Copying, FileTypes, Holdings
<1> QED
  BY <1>1, <1>2 DEF NamesApart, Quiet

(* A step that gives a new file to a name.                                 *)
LEMMA CreateStep ==
  ASSUME FileTypes, NamesApart, NEW p \in Paths, NEW i \in Free,
         dir' = [dir EXCEPT ![p] = i],
         UNCHANGED <<pc, inode, copy>>
  PROVE  NamesApart'
<1>1. \A s \in Sessions : Path(s, "tampered")' = Path(s, "tampered")
  BY DEF Path
<1> QED
  BY <1>1, FreeFacts DEF NamesApart, FileTypes, AlarmTypes, IsOpen, Copying

LEMMA OpenStep ==
  ASSUME FileTypes, NamesApart, NEW t \in Sessions, Open(t)
  PROVE  NamesApart'
<1> USE DEF FileTypes, AlarmTypes, IsOpen, Copying
<1>0. /\ \A s \in Sessions : Path(s, "tampered")' = Path(s, "tampered")
      /\ Log(t) \in Paths /\ Log(t)[2] = "log"
      /\ \A s \in Sessions : Path(s, "tampered") # Log(t)
  BY OwnPaths DEF Path, Log
<1>1. copy' = copy
  BY DEF Open
<1>2. CASE /\ IsFile(Log(t)) /\ inode' = [inode EXCEPT ![t] = dir[Log(t)]]
           /\ dir' = dir /\ pc' = [pc EXCEPT ![t] = "header"]
  BY <1>0, <1>1, <1>2 DEF NamesApart, IsFile
<1>3. CASE \E i \in Free : /\ inode' = [inode EXCEPT ![t] = i]
                           /\ dir' = [dir EXCEPT ![Log(t)] = i]
                           /\ pc' = [pc EXCEPT ![t] = "header"]
  BY <1>0, <1>1, <1>3, FreeFacts DEF NamesApart
<1>4. CASE UNCHANGED <<dir, inode>> /\ pc' = [pc EXCEPT ![t] = "failed"]
  BY <1>0, <1>1, <1>4 DEF NamesApart, OpenPCs
<1> QED
  BY <1>2, <1>3, <1>4 DEF Open, Goto

LEMMA ForceStep ==
  ASSUME FileTypes, FileTypes', NamesApart, NEW t \in Sessions, ForceOpen(t)
  PROVE  NamesApart'
<1>0. /\ \A s \in Sessions : Path(s, "tampered")' = Path(s, "tampered")
      /\ Path(t, "tampered") \in Paths /\ Path(t, "tampered")[2] = "tampered"
  BY OwnPaths DEF Path, Suffixes
<1>1. /\ inode' = inode /\ pc[t] = "force" /\ pc \in [Sessions -> PCs]
      /\ dir \in [Paths -> Inodes \cup {"none", "dir", "full"}]
      /\ copy \in [Sessions -> Inodes \cup {"none"}]
  BY DEF ForceOpen, TryOpen, FileTypes, AlarmTypes, DataTypes
<1>2. CASE /\ copy' = copy /\ pc' \in {pc, [pc EXCEPT ![t] = "conclude"]}
           /\ \A p \in Paths : dir'[p] = dir[p] \/ dir'[p] = "none"
  <2>1. \A s \in Sessions : (IsOpen(s)' => IsOpen(s)) /\ (Copying(s)' => Copying(s))
    BY <1>1, <1>2 DEF IsOpen, Copying, OpenPCs
  <2>2. \A p \in Paths : dir'[p] \in Inodes => dir'[p] = dir[p]
    BY <1>2, LogAssumption
  <2>3. \A s \in Sessions : inode'[s] = inode[s] /\ copy'[s] = copy[s]
    BY <1>1, <1>2
  <2>4. Quiet
    BY <2>1, <2>2, <2>3 DEF Quiet
  <2> QED
    BY <2>4, QuietStep
<1>3. CASE /\ IsFile(Path(t, "tampered")) /\ copy' = [copy EXCEPT ![t] = dir[Path(t, "tampered")]]
           /\ dir' = dir /\ pc' = [pc EXCEPT ![t] = "copy"]
  <2>1. \A s \in Sessions :
          /\ IsOpen(s)' <=> IsOpen(s)
          /\ IF s = t THEN copy'[s] = dir[Path(t, "tampered")]
             ELSE (Copying(s)' <=> Copying(s)) /\ copy'[s] = copy[s]
    BY <1>1, <1>3 DEF IsOpen, Copying, OpenPCs
  <2> QED
    BY <1>0, <1>1, <1>3, <2>1 DEF NamesApart, IsFile
<1>4. ASSUME NEW i \in Free, copy' = [copy EXCEPT ![t] = i],
             dir' = [dir EXCEPT ![Path(t, "tampered")] = i],
             pc' = [pc EXCEPT ![t] = "copy"]
      PROVE  NamesApart'
  <2>1. \A s \in Sessions :
          /\ IsOpen(s)' <=> IsOpen(s)
          /\ IF s = t THEN copy'[s] = i
             ELSE (Copying(s)' <=> Copying(s)) /\ copy'[s] = copy[s]
    BY <1>1, <1>4 DEF IsOpen, Copying, OpenPCs
  <2>2. \A p \in Paths : dir'[p] = IF p = Path(t, "tampered") THEN i ELSE dir[p]
    BY <1>0, <1>1, <1>4
  <2> QED
    BY <1>0, <1>1, <2>1, <2>2, FreeFacts DEF NamesApart
<1>5. DOMAIN dir = Paths
  BY <1>1
<1> QED
  BY <1>1, <1>2, <1>3, <1>4, <1>5 DEF ForceOpen, TryOpen, Goto

(* The log gets its second name instead of its first.                      *)
LEMMA RenameStep ==
  ASSUME FileTypes, FileTypes', NamesApart, NEW t \in Sessions, Rename(t)
  PROVE  NamesApart'
<1>0. /\ \A s \in Sessions : Path(s, "tampered")' = Path(s, "tampered")
      /\ Log(t) \in Paths /\ Path(t, "closed") \in Paths /\ Path(t, "closed")[2] = "closed"
      /\ Log(t)[2] = "log"
      /\ \A s \in Sessions : Path(s, "tampered") # Log(t) /\ Path(s, "tampered") # Path(t, "closed")
  BY OwnPaths DEF Path, Log, Suffixes
<1>1. UNCHANGED <<inode, copy>> /\ pc' = [pc EXCEPT ![t] = "syslog"] /\ pc[t] = "rename"
  BY DEF Rename, RenameTo, Goto
<1>2. CASE dir' = dir
  BY <1>1, <1>2, QuietStep DEF Quiet, FileTypes, AlarmTypes, IsOpen, Copying, OpenPCs
<1>3. CASE dir' = [dir EXCEPT ![Path(t, "closed")] = dir[Log(t)], ![Log(t)] = "none"]
  <2>1. \A p \in Paths : \/ dir'[p] = dir[p] /\ p # Log(t)
                         \/ p = Log(t) /\ dir'[p] = "none"
                         \/ p = Path(t, "closed") /\ dir'[p] = dir[Log(t)]
    BY <1>0, <1>3 DEF FileTypes, AlarmTypes
  <2>2. "none" \notin Inodes
    BY LogAssumption
  <2>3. \A s \in Sessions :
          /\ IsOpen(s)' => IsOpen(s) /\ inode[s] \in Inodes
          /\ Copying(s)' => Copying(s) /\ copy[s] \in Inodes
    BY <1>1 DEF FileTypes, AlarmTypes, IsOpen, Copying, OpenPCs, Holdings
  <2>4. \A p, q \in Paths : dir'[p] \in Inodes /\ dir'[p] = dir'[q] => p = q
    BY <1>0, <2>1, <2>2 DEF NamesApart
  <2>5. ASSUME NEW s \in Sessions, NEW p \in Paths, dir'[p] \in Inodes
        PROVE  /\ IsOpen(s) /\ dir'[p] = inode[s] => p[2] # "tampered"
               /\ Copying(s) /\ dir'[p] = copy[s] => p = Path(s, "tampered")
    <3>1. CASE dir'[p] = dir[p]
      BY <3>1 DEF NamesApart
    <3>2. CASE p = Path(t, "closed") /\ dir'[p] = dir[Log(t)]
      <4>1. Copying(s) => dir[Log(t)] # copy[s]
        BY <1>0 DEF NamesApart
      <4> QED
        BY <1>0, <3>2, <4>1
    <3> QED
      BY <2>1, <2>2, <2>5, <3>1, <3>2
  <2>6. \A s, u \in Sessions : IsOpen(s) /\ Copying(u) => copy[u] # inode[s]
    BY DEF NamesApart
  <2>7. /\ \A s \in Sessions, p \in Paths : IsOpen(s)' /\ dir'[p] = inode'[s] => p[2] # "tampered"
        /\ \A s \in Sessions, p \in Paths :
             Copying(s)' /\ dir'[p] = copy'[s] => p = Path(s, "tampered")'
    BY <1>0, <1>1, <2>3, <2>5
  <2>8. \A s, u \in Sessions : IsOpen(s)' /\ Copying(u)' => copy'[u] # inode'[s]
    BY <1>1, <2>3, <2>6
  <2> QED
    BY <2>4, <2>7, <2>8 DEF NamesApart
<1> QED
  BY <1>2, <1>3 DEF Rename, RenameTo, Renamed

(* Without users who rename files, names stay apart.                       *)
LEMMA NamesStep ==
  ASSUME "move" \notin Tampering, FileTypes, FileTypes', NamesApart, [Next]_vars
  PROVE  NamesApart'
<1> USE DEF FileTypes, AlarmTypes, DataTypes
<1>1. CASE \E p \in Paths : Create(p)
  <2>1. PICK p \in Paths, i \in Free : dir' = [dir EXCEPT ![p] = i]
    BY <1>1 DEF Create
  <2>2. UNCHANGED <<pc, inode, copy>>
    BY <1>1 DEF Create, Touch, sessionVars
  <2> QED
    BY <2>1, <2>2, CreateStep
<1>2. CASE \E p \in Paths : Remove(p) \/ Mkdir(p)
  <2>1. Quiet
    <3>1. UNCHANGED <<pc, inode, copy>>
      BY <1>2 DEF Remove, Mkdir, Touch, sessionVars
    <3>2. \A p \in Paths : dir'[p] = dir[p] \/ dir'[p] \in {"none", "dir", "full"}
      BY <1>2 DEF Remove, Mkdir
    <3> QED
      BY <3>1, <3>2, LogAssumption DEF Quiet, IsOpen, Copying
  <2> QED
    BY <2>1, QuietStep
<1>3. ASSUME NEW t \in Sessions,
             \/ WriteHeader(t) \/ DoLogging(t) \/ EndLogging(t) \/ Stat(t) \/ Announce(t)
             \/ Copy(t) \/ Conclude(t) \/ NoteEnd(t) \/ Kill(t)
      PROVE  NamesApart'
  <2>1. UNCHANGED <<dir, inode, copy>>
    BY <1>3 DEF WriteHeader, DoLogging, EndLogging, Stat, StatAs, Announce, Copy, CopyFrom,
                Conclude, NoteEnd, Kill
  <2>2. \/ pc' = pc
        \/ IsOpen(t) /\ \E x \in PCs \ {"copy"} : pc' = [pc EXCEPT ![t] = x]
        \/ \E x \in EndPCs : pc' = [pc EXCEPT ![t] = x]
    BY <1>3 DEF WriteHeader, DoLogging, EndLogging, Stat, StatAs, Announce, Copy, CopyFrom,
                Conclude, NoteEnd, Kill, Goto, IsOpen, PCs, OpenPCs, BeforePCs, EndPCs
  <2>3. \A s \in Sessions : (IsOpen(s)' => IsOpen(s)) /\ (Copying(s)' => Copying(s))
    <3>1. pc \in [Sessions -> PCs]
      OBVIOUS
    <3> QED
      BY ONLY <2>2, <3>1 DEF IsOpen, Copying, OpenPCs, EndPCs
  <2>4. Quiet
    BY <2>1, <2>3 DEF Quiet
  <2> QED
    BY <2>4, QuietStep
<1>4. ASSUME NEW t \in Sessions, Unlink(t) PROVE NamesApart'
  <2>1. UNCHANGED <<inode, copy>> /\ pc' = [pc EXCEPT ![t] = "announce"] /\ pc[t] = "unlink"
    BY <1>4 DEF Unlink, Goto
  <2>2. \A p \in Paths : dir'[p] = dir[p] \/ dir'[p] = "none"
    BY <1>4 DEF Unlink
  <2>3. Quiet
    BY <2>1, <2>2, LogAssumption DEF Quiet, IsOpen, Copying, OpenPCs
  <2> QED
    BY <2>3, QuietStep
<1>5. CASE UNCHANGED vars
  BY <1>5, QuietStep DEF vars, sessionVars, Quiet, IsOpen, Copying
<1> QED
  <2>1. ~\E p, q \in Paths : Move(p, q)
    BY DEF Move
  <2> QED
    BY <1>1, <1>2, <1>3, <1>4, <1>5, <2>1, OpenStep, ForceStep, RenameStep
       DEF Next, User, Begin, End
-----------------------------------------------------------------------------
(* Nobody has a line of a session that has written none.                   *)
Unwritten(s) ==
  pc[s] \in {"start", "header"} =>
    /\ record[s] = <<>>
    /\ \A i \in Inodes : \A k \in 1 .. Len(content[i]) : content[i][k][1] # s

(* The file of a running session has its lines and no others of it.        *)
Intact(s) == IsOpen(s) => Equals(s, content[inode[s]], record[s])

LEMMA NothingYet ==
  ASSUME NEW s, NEW text \in Seq(Line), \A k \in 1 .. Len(text) : text[k][1] # s
  PROVE  Equals(s, text, <<>>)
<1>1. Places(s, text) = {}
  BY DEF Places
<1>2. Cardinality(Places(s, text)) = 0 /\ Len(<<>>) = 0
  BY <1>1, FS_EmptySet
<1> QED
  BY <1>1, <1>2 DEF Equals, Contains

(* A line of another session written anywhere into a text.                 *)
LEMMA NoneComes ==
  ASSUME NEW s, NEW to \in Seq(Line), NEW n \in Nat, n > 0, NEW line \in Line, line[1] # s,
         \A k \in 1 .. Len(to) : to[k][1] # s
  PROVE  \A k \in 1 .. Len(Overwrite(to, n, line)) : Overwrite(to, n, line)[k][1] # s
<1>1. Len(to) \in Nat
  BY LenProperties
<1>2. CASE n <= Len(to)
  BY <1>1, <1>2, ExceptSeq DEF Overwrite
<1>3. CASE ~(n <= Len(to))
  BY <1>1, <1>3, AppendProperties DEF Overwrite
<1> QED
  BY <1>2, <1>3

LEMMA OthersUnwritten ==
  ASSUME FileTypes, NEW s \in Sessions, Unwritten(s), pc[s] \in {"start", "header"},
         \/ content' = content
         \/ Created
         \/ \E t \in Sessions \ {s} : \E x \in Says : Appended(t, x)
         \/ \E t \in Sessions : Copied(t)
  PROVE  \A i \in Inodes : \A k \in 1 .. Len(content'[i]) : content'[i][k][1] # s
<1> DEFINE Clean(text) == \A k \in 1 .. Len(text) : text[k][1] # s
<1> SUFFICES ASSUME NEW i \in Inodes PROVE Clean(content'[i])
  OBVIOUS
<1>1. content \in [Inodes -> Seq(Line)] /\ \A j \in Inodes : Clean(content[j])
  BY DEF FileTypes, DataTypes, Unwritten
<1>2. \A j \in Inodes : Len(content[j]) \in Nat
  BY <1>1, LenProperties
<1>3. CASE content' = content
  BY <1>1, <1>3
<1>4. CASE Created
  <2>1. Clean(<<>>)
    OBVIOUS
  <2>2. content'[i] = content[i] \/ content'[i] = <<>>
    BY <1>1, <1>4 DEF Created
  <2> HIDE DEF Clean
  <2> QED
    BY <1>1, <2>1, <2>2
<1>5. ASSUME NEW t \in Sessions \ {s}, NEW x \in Says, Appended(t, x)
      PROVE  Clean(content'[i])
  <2>1. inode[t] \in Inodes /\ <<t, x>> \in Line /\ <<t, x>>[1] # s
    BY <1>5 DEF Appended, Line
  <2>2. content'[i] = content[i] \/ content'[i] = Append(content[i], <<t, x>>)
    BY <1>1, <1>5 DEF Appended
  <2>3. Clean(Append(content[i], <<t, x>>))
    BY <1>1, <1>2, <2>1, AppendProperties
  <2> HIDE DEF Clean
  <2> QED
    BY <1>1, <2>2, <2>3
<1>6. ASSUME NEW t \in Sessions, Copied(t) PROVE Clean(content'[i])
  <2>1. /\ inode[t] \in Inodes /\ copy[t] \in Inodes /\ pos[t] \in Nat /\ put[t] \in Nat
        /\ pos[t] < Len(content[inode[t]])
    BY <1>6 DEF Copied, FileTypes, DataTypes, Holdings, OpenPCs
  <2> DEFINE line == content[inode[t]][pos[t] + 1]
  <2>2. pos[t] + 1 \in 1 .. Len(content[inode[t]]) /\ put[t] + 1 \in Nat /\ put[t] + 1 > 0
    BY <1>2, <2>1
  <2>3. line \in Line /\ line[1] # s
    BY <1>1, <2>1, <2>2, ElementOfSeq
  <2>4. content'[i] = content[i] \/ content'[i] = Overwrite(content[i], put[t] + 1, line)
    BY <1>1, <1>6, <2>1 DEF Copied
  <2> HIDE DEF line
  <2>5. Clean(Overwrite(content[i], put[t] + 1, line))
    BY <1>1, <2>2, <2>3, NoneComes
  <2> HIDE DEF Clean
  <2> QED
    BY <1>1, <2>4, <2>5
<1> QED
  BY <1>3, <1>4, <1>5, <1>6

(* What of a session another one leaves alone.                             *)
LEMMA OthersRunOn ==
  ASSUME FileTypes, NEW t \in Sessions, NEW s \in Sessions, s # t,
         Begin(t) \/ DoLogging(t) \/ End(t) \/ Kill(t)
  PROVE  /\ pc'[s] = pc[s] /\ inode'[s] = inode[s] /\ verdict'[s] = verdict[s]
         /\ copy'[s] = copy[s] /\ pos'[s] = pos[s] /\ put'[s] = put[s]
         /\ rescued'[s] = rescued[s] /\ record'[s] = record[s] /\ late' = late
<1> USE DEF FileTypes, AlarmTypes, DataTypes, Goto, userVars
<1>0. record'[s] = record[s]
  BY OthersRecordKept
<1>1. CASE Open(t) \/ WriteHeader(t) \/ DoLogging(t) \/ EndLogging(t)
  BY <1>0, <1>1 DEF Open, WriteHeader, DoLogging, EndLogging
<1>2. CASE Stat(t) \/ Unlink(t) \/ Announce(t) \/ Conclude(t)
  BY <1>0, <1>2 DEF Stat, StatAs, Unlink, Announce, Conclude
<1>3. CASE ForceOpen(t)
  BY <1>0, <1>3 DEF ForceOpen, TryOpen
<1>4. CASE Copy(t)
  BY <1>0, <1>4 DEF Copy, CopyFrom
<1>5. CASE Rename(t) \/ NoteEnd(t) \/ Kill(t)
  BY <1>0, <1>5 DEF Rename, RenameTo, NoteEnd, Kill
<1> QED
  BY <1>1, <1>2, <1>3, <1>4, <1>5 DEF Begin, End

(* A session that has its file open had it open before or opens it.        *)
LEMMA StaysOpen ==
  ASSUME FileTypes, NEW s \in Sessions, Begin(s) \/ DoLogging(s) \/ End(s) \/ Kill(s)
  PROVE  \/ Open(s)
         \/ ~IsOpen(s)' /\ pc'[s] # "start"
         \/ IsOpen(s) /\ inode'[s] = inode[s] /\ pc'[s] \notin {"start", "header"}
<1> USE DEF FileTypes, AlarmTypes, Goto, IsOpen, OpenPCs, PCs
<1>1. CASE WriteHeader(s) \/ DoLogging(s) \/ EndLogging(s)
  BY <1>1 DEF WriteHeader, DoLogging, EndLogging
<1>2. CASE Stat(s) \/ Unlink(s) \/ Announce(s) \/ Conclude(s)
  BY <1>2 DEF Stat, StatAs, Unlink, Announce, Conclude
<1>3. CASE ForceOpen(s) \/ Copy(s)
  BY <1>3 DEF ForceOpen, TryOpen, Copy, CopyFrom
<1>4. CASE Rename(s) \/ NoteEnd(s) \/ Kill(s)
  BY <1>4 DEF Rename, RenameTo, NoteEnd, Kill, EndPCs
<1> QED
  BY <1>1, <1>2, <1>3, <1>4 DEF Begin, End

(* Appended lines: its own is behind the others in its record, too.        *)
LEMMA AppendedIntact ==
  ASSUME FileTypes, NEW s \in Sessions, IsOpen(s), Intact(s),
         NEW t \in Sessions, NEW x \in Says, Appended(t, x)
  PROVE  Equals(s, content'[inode[s]], record'[s])
<1>1. /\ content \in [Inodes -> Seq(Line)] /\ record \in [Sessions -> Seq(Line)]
      /\ inode[s] \in Inodes /\ Equals(s, content[inode[s]], record[s])
  BY DEF FileTypes, DataTypes, Holdings, IsOpen, Intact
<1>2. <<t, x>> \in Line /\ <<t, x>>[1] = t
  BY DEF Line
<1>3. CASE s = t
  <2>1. /\ content'[inode[s]] = Append(content[inode[s]], <<t, x>>)
        /\ record'[s] = Append(record[s], <<t, x>>)
    BY <1>1, <1>3 DEF Appended
  <2> QED
    BY <1>1, <1>2, <1>3, <2>1, OwnLineAppended
<1>4. CASE s # t
  <2>1. record'[s] = record[s]
    BY <1>1, <1>4 DEF Appended
  <2>2. \/ content'[inode[s]] = content[inode[s]]
        \/ content'[inode[s]] = Append(content[inode[s]], <<t, x>>)
    BY <1>1 DEF Appended
  <2>3. Equals(s, Append(content[inode[s]], <<t, x>>), record[s])
    BY <1>1, <1>2, <1>4, OthersLineAppended
  <2> QED
    BY <1>1, <2>1, <2>2, <2>3
<1> QED
  BY <1>3, <1>4

(* Only a session itself writes the first of its lines.                    *)
LEMMA UnwrittenStep ==
  ASSUME FileTypes, NEW s \in Sessions, Unwritten(s),
         NEW t \in Sessions, Begin(t) \/ DoLogging(t) \/ End(t) \/ Kill(t)
  PROVE  Unwritten(s)'
<1> SUFFICES ASSUME pc'[s] \in {"start", "header"} PROVE Unwritten(s)'
  BY DEF Unwritten
<1>1. CASE s = t
  <2>1. Open(s)
    <3>1. IsOpen(s)' \/ pc'[s] = "start"
      BY DEF IsOpen, OpenPCs
    <3> QED
      BY <1>1, <3>1, StaysOpen
  <2>2. record'[s] = <<>> /\ pc[s] = "start" /\ (content' = content \/ Created)
    BY <2>1 DEF Open, Created, Unwritten
  <2> QED
    BY <2>2, OthersUnwritten DEF Unwritten
<1>2. CASE s # t
  <2>1. pc'[s] = pc[s] /\ record'[s] = record[s]
    BY <1>2, OthersRunOn
  <2>2. \A i \in Inodes : \A k \in 1 .. Len(content'[i]) : content'[i][k][1] # s
    BY <1>2, <2>1, OwnEffect, OthersUnwritten
  <2> QED
    BY <2>1, <2>2 DEF Unwritten
<1> QED
  BY <1>1, <1>2

(* A session keeps its lines if no recovery writes to its file.            *)
LEMMA IntactStep ==
  ASSUME FileTypes, FileTypes', NEW s \in Sessions, Unwritten(s), Intact(s),
         NEW t \in Sessions, Begin(t) \/ DoLogging(t) \/ End(t) \/ Kill(t),
         IsOpen(s) /\ Copied(t) => content'[inode[s]] = content[inode[s]]
  PROVE  Intact(s)'
<1>1. CASE s = t /\ Open(s)
  <2>1. record'[s] = <<>> /\ pc[s] = "start" /\ (content' = content \/ Created)
    BY <1>1 DEF Open, Created, Unwritten
  <2>2. \A i \in Inodes : \A k \in 1 .. Len(content'[i]) : content'[i][k][1] # s
    BY <2>1, OthersUnwritten
  <2>3. IsOpen(s)' => inode'[s] \in Inodes /\ content'[inode'[s]] \in Seq(Line)
    BY DEF FileTypes, DataTypes, Holdings, IsOpen
  <2> QED
    BY <2>1, <2>2, <2>3, NothingYet DEF Intact
<1>2. CASE IsOpen(s) /\ inode'[s] = inode[s]
  <2>1. \/ record' = record /\ (content' = content \/ Created \/ Copied(t))
        \/ \E x \in Says : Appended(t, x)
    BY OwnEffect
  <2>2. ASSUME NEW x \in Says, Appended(t, x)
        PROVE  Equals(s, content'[inode[s]], record'[s])
    BY <1>2, <2>2, AppendedIntact
  <2>3. Created => content'[inode[s]] = content[inode[s]]
    BY <1>2, FreeFacts DEF Created, FileTypes, DataTypes, Holdings, IsOpen
  <2> QED
    BY <1>2, <2>1, <2>2, <2>3 DEF Intact
<1>3. \/ s = t /\ Open(s)
      \/ ~IsOpen(s)'
      \/ IsOpen(s) /\ inode'[s] = inode[s]
  <2>1. s # t => (IsOpen(s)' <=> IsOpen(s)) /\ inode'[s] = inode[s]
    BY OthersRunOn DEF IsOpen
  <2> QED
    BY <2>1, StaysOpen
<1> QED
  BY <1>1, <1>2, <1>3 DEF Intact

LEMMA UserIntact ==
  ASSUME FileTypes, FileTypes', User, NEW s \in Sessions, Unwritten(s)
  PROVE  Unwritten(s)' /\ (Intact(s) => Intact(s)')
<1>1. UNCHANGED <<pc, inode, record>> /\ (content' = content \/ Created)
  BY UserEffect DEF sessionVars
<1>2. Unwritten(s)'
  BY <1>1, OthersUnwritten DEF Unwritten
<1>3. IsOpen(s) => content'[inode[s]] = content[inode[s]]
  BY <1>1, FreeFacts DEF Created, FileTypes, DataTypes, Holdings, IsOpen
<1> QED
  BY <1>1, <1>2, <1>3 DEF Intact, IsOpen

(* No file of a session that has not begun has lines of it.                *)
LEMMA UnwrittenAtFirst ==
  ASSUME Init, NEW s \in Sessions PROVE Unwritten(s) /\ Intact(s)
<1>1. ~IsOpen(s) /\ record[s] = <<>>
  BY DEF Init, IsOpen, OpenPCs
<1>2. \A k \in 1 .. Len(Stale) : Stale[k][1] # s
  BY LogAssumption DEF Stale
<1>3. \A i \in Inodes : content[i] = Stale \/ content[i] = <<>>
  BY DEF Init
<1>4. Len(<<>>) = 0
  OBVIOUS
<1>5. \A i \in Inodes : \A k \in 1 .. Len(content[i]) : content[i][k][1] # s
  BY <1>2, <1>3, <1>4
<1> QED
  BY <1>1, <1>5 DEF Unwritten, Intact

LEMMA NamesStayApart ==
  ASSUME "move" \notin Tampering PROVE Spec => []NamesApart
<1>1. Init => NamesApart
  <2> SUFFICES ASSUME Init PROVE NamesApart
    OBVIOUS
  <2>1. \A s \in Sessions : ~IsOpen(s) /\ ~Copying(s)
    BY DEF Init, IsOpen, Copying, OpenPCs
  <2>2. \A p, q \in Paths : dir[p] \in Inodes /\ dir[p] = dir[q] => p = q
    BY LogAssumption DEF Init
  <2> QED
    BY <2>1, <2>2 DEF NamesApart
<1>2. FileTypes /\ FileTypes' /\ NamesApart /\ [Next]_vars => NamesApart'
  BY NamesStep
<1> QED
  BY <1>1, <1>2, TypesHold, PTL DEF Spec

(* While a session runs its file has its lines in their order, whatever    *)
(* sessions log to the same name, recoveries and users do at the same      *)
(* time, if no user renames files.                                         *)
THEOREM NothingIsOverwritten ==
  ASSUME "move" \notin Tampering PROVE Spec => []NothingOverwritten
<1> DEFINE Kept == \A s \in Sessions : Unwritten(s) /\ Intact(s)
<1>1. Init => Kept
  BY UnwrittenAtFirst
<1>2. FileTypes /\ FileTypes' /\ NamesApart /\ Kept /\ [Next]_vars => Kept'
  <2> SUFFICES ASSUME FileTypes, FileTypes', NamesApart, Kept, [Next]_vars,
                      NEW s \in Sessions
               PROVE  (Unwritten(s) /\ Intact(s))'
    OBVIOUS
  <2>1. CASE User
    BY <2>1, UserIntact
  <2>2. ASSUME NEW t \in Sessions, Begin(t) \/ DoLogging(t) \/ End(t) \/ Kill(t)
        PROVE  (Unwritten(s) /\ Intact(s))'
    <3>1. IsOpen(s) /\ Copied(t) => content'[inode[s]] = content[inode[s]]
      <4>1. IsOpen(s) /\ Copying(t) => copy[t] # inode[s]
        BY DEF NamesApart
      <4> QED
        BY <4>1 DEF Copied, Copying, FileTypes, DataTypes, Holdings, IsOpen
    <3> QED
      BY <2>2, <3>1, UnwrittenStep, IntactStep
  <2>3. CASE UNCHANGED vars
    BY <2>3 DEF vars, sessionVars, Unwritten, Intact, IsOpen
  <2> QED
    BY <2>1, <2>2, <2>3 DEF Next
<1>3. Kept => NothingOverwritten
  BY DEF Intact, IsOpen, NothingOverwritten
<1> QED
  BY <1>1, <1>2, <1>3, TypesHold, NamesStayApart, PTL DEF Spec
-----------------------------------------------------------------------------
(* Where a session is in endlogging, and what it has found and done there. *)
Found     == {"missing", "replaced"}
Course(s) ==
  /\ pc[s] \in {"start", "header", "run", "stat"} => verdict[s] = "none"
  /\ pc[s] = "rename" => verdict[s] = "same"
  /\ pc[s] \in {"unlink", "announce", "force", "copy", "conclude"} => verdict[s] \in Found
  /\ pc[s] \in OpenPCs \ {"copy", "conclude"} => put[s] = 0 /\ pos[s] = 0
  /\ pc[s] \in {"start"} => put[s] = 0 /\ pos[s] = 0
  /\ pc[s] \in {"conclude", "syslog", "done"} /\ verdict[s] \in Found => rescued[s] # "none"

LEMMA OwnCourse ==
  ASSUME FileTypes, NEW s \in Sessions, Course(s),
         Begin(s) \/ DoLogging(s) \/ End(s) \/ Kill(s)
  PROVE  Course(s)'
<1> USE DEF Course, Goto, Found, OpenPCs
<1>1. /\ pc \in [Sessions -> PCs] /\ verdict \in [Sessions -> {"none", "same", "missing", "replaced"}]
      /\ rescued \in [Sessions -> {"none", "yes", "no"}]
  BY DEF FileTypes, AlarmTypes, DataTypes
<1>2. CASE Open(s) \/ WriteHeader(s) \/ DoLogging(s) \/ EndLogging(s)
  BY <1>1, <1>2 DEF Open, WriteHeader, DoLogging, EndLogging
<1>3. CASE Stat(s)
  BY <1>1, <1>3 DEF Stat, StatAs
<1>4. CASE Unlink(s) \/ Announce(s) \/ Conclude(s)
  BY <1>1, <1>4 DEF Unlink, Announce, Conclude
<1>5. CASE ForceOpen(s)
  BY <1>1, <1>5 DEF ForceOpen, TryOpen
<1>6. CASE Copy(s)
  BY <1>1, <1>6 DEF Copy, CopyFrom
<1>7. CASE Rename(s) \/ NoteEnd(s) \/ Kill(s)
  BY <1>1, <1>7 DEF Rename, RenameTo, NoteEnd, Kill
<1> QED
  BY <1>2, <1>3, <1>4, <1>5, <1>6, <1>7 DEF Begin, End

LEMMA CourseHolds == Spec => [](\A s \in Sessions : Course(s))
<1> DEFINE All == \A s \in Sessions : Course(s)
<1>1. Init => All
  BY DEF Init, Course, OpenPCs
<1>2. FileTypes /\ All /\ [Next]_vars => All'
  <2> SUFFICES ASSUME FileTypes, All, [Next]_vars, NEW s \in Sessions PROVE Course(s)'
    OBVIOUS
  <2>1. CASE User \/ UNCHANGED vars
    <3>1. UNCHANGED <<pc, verdict, pos, put, rescued>>
      BY <2>1, UserEffect DEF vars, sessionVars
    <3> QED
      BY <3>1 DEF Course
  <2>2. ASSUME NEW t \in Sessions, Begin(t) \/ DoLogging(t) \/ End(t) \/ Kill(t)
        PROVE  Course(s)'
    <3>1. CASE s = t
      BY <2>2, <3>1, OwnCourse
    <3>2. CASE s # t
      BY <2>2, <3>2, OthersRunOn DEF Course
    <3> QED
      BY <3>1, <3>2
  <2> QED
    BY <2>1, <2>2 DEF Next
<1> QED
  BY <1>1, <1>2, TypesHold, PTL DEF Spec

(* The lines of a file that only grows stay where they are.                *)
Grows(i) ==
  \/ content'[i] = content[i]
  \/ \E line \in Line : content'[i] = Append(content[i], line)

LEMMA GrownFacts ==
  ASSUME FileTypes, NEW i \in Inodes, Grows(i)
  PROVE  /\ content[i] \in Seq(Line) /\ content'[i] \in Seq(Line)
         /\ Len(content[i]) \in Nat /\ Len(content'[i]) \in Nat
         /\ Len(content[i]) <= Len(content'[i])
         /\ \A k \in 1 .. Len(content[i]) : content'[i][k] = content[i][k]
<1>1. content[i] \in Seq(Line) /\ Len(content[i]) \in Nat
  BY LenProperties DEF FileTypes, DataTypes
<1>2. CASE content'[i] = content[i]
  BY <1>1, <1>2
<1>3. ASSUME NEW line \in Line, content'[i] = Append(content[i], line)
      PROVE  /\ content'[i] \in Seq(Line) /\ Len(content'[i]) = Len(content[i]) + 1
             /\ \A k \in 1 .. Len(content[i]) : content'[i][k] = content[i][k]
  BY <1>1, <1>3, AppendProperties
<1> QED
  BY <1>1, <1>2, <1>3 DEF Grows

LEMMA GrownContains ==
  ASSUME FileTypes, NEW i \in Inodes, Grows(i), NEW s \in Sessions, NEW lines \in Seq(Line),
         Contains(s, content[i], lines)
  PROVE  Contains(s, content'[i], lines)
  BY GrownFacts, StillContains

(* A file in use grows if no recovery writes to it.                        *)
LEMMA OwnGrows ==
  ASSUME FileTypes, NEW i \in Inodes, i \notin Free,
         NEW t \in Sessions, Begin(t) \/ DoLogging(t) \/ End(t) \/ Kill(t),
         Copied(t) => copy[t] # i
  PROVE  Grows(i)
<1>1. content \in [Inodes -> Seq(Line)]
  BY DEF FileTypes, DataTypes
<1>2. CASE UNCHANGED <<content, record>> \/ Created
  BY <1>1, <1>2 DEF Created, Grows
<1>3. ASSUME NEW x \in Says, Appended(t, x) PROVE Grows(i)
  <2>1. <<t, x>> \in Line
    BY DEF Line
  <2>2. content'[i] = content[i] \/ content'[i] = Append(content[i], <<t, x>>)
    BY <1>1, <1>3 DEF Appended
  <2> QED
    BY <2>1, <2>2 DEF Grows
<1>4. CASE Copied(t)
  <2>1. content'[i] = content[i]
    BY <1>1, <1>4 DEF Copied, FileTypes, DataTypes, Holdings
  <2> QED
    BY <2>1 DEF Grows
<1> QED
  BY <1>2, <1>3, <1>4, OwnEffect

LEMMA UserGrows ==
  ASSUME FileTypes, User, NEW i \in Inodes, i \notin Free PROVE Grows(i)
  BY UserEffect DEF Created, Grows, FileTypes, DataTypes

(* Another session's recovery writes neither to the file of a session nor  *)
(* to one that has a name of it.                                           *)
Apart ==
  \A s, t \in Sessions : s # t /\ Copying(t) =>
    /\ IsOpen(s) => copy[t] # inode[s]
    /\ \A x \in Suffixes : dir[Path(s, x)] # copy[t]

(* The copy has the first lines of the file, as far as they were read.     *)
Agrees(s) ==
  /\ pos[s] <= Len(content[inode[s]]) /\ pos[s] <= Len(content[copy[s]])
  /\ \A k \in 1 .. pos[s] : content[copy[s]][k] = content[inode[s]][k]

InCopy(s, lines) ==
  /\ copy[s] \in Inodes /\ dir[Path(s, "tampered")] = copy[s]
  /\ Contains(s, content[copy[s]], lines)

InLog(s) ==
  /\ inode[s] \in Inodes
  /\ dir[Path(s, "closed")] = inode[s] \/ dir[Log(s)] = inode[s]
  /\ Contains(s, content[inode[s]], record[s])

(* What has been logged is on its way into the .tampered file, then there; *)
(* or in the log, which still has a name.                                  *)
Rescue(s) ==
  /\ pc[s] = "copy" => dir[Path(s, "tampered")] = copy[s] /\ Agrees(s)
  /\ pc[s] = "conclude" /\ rescued[s] = "yes" => InCopy(s, record[s])
  /\ pc[s] \in {"syslog", "done"} /\ verdict[s] \in Found /\ rescued[s] = "yes" =>
       InCopy(s, Report(s))
  /\ pc[s] \in {"syslog", "done"} /\ verdict[s] = "same" => InLog(s)

(* All the lines that were read were written.                              *)
Sound(s) == put[s] = pos[s]

Survives(s) ==
  /\ Unwritten(s)
  /\ Sound(s) => Intact(s)
  /\ Sound(s) /\ s \notin late => Rescue(s)

LEMMA ReportFacts ==
  ASSUME FileTypes, NEW s \in Sessions
  PROVE  /\ record[s] \in Seq(Line) /\ Report(s) \in Seq(Line)
         /\ \E n \in 0 .. Len(record[s]) : Report(s) = SubSeq(record[s], 1, n)
<1>1. record[s] \in Seq(Line) /\ Len(record[s]) \in Nat
  BY LenProperties DEF FileTypes, DataTypes
<1> DEFINE n == Len(record[s])
<1>2. PICK m \in 0 .. n : Report(s) = SubSeq(record[s], 1, m)
  <2> DEFINE last == IF n > 0 /\ record[s][n][2] = "outcome" THEN n - 1 ELSE n
  <2>1. last \in 0 .. n
    BY <1>1
  <2>2. Report(s) = SubSeq(record[s], 1, last)
    BY DEF Report
  <2> HIDE DEF last
  <2> QED
    BY <2>1, <2>2
<1>3. SubSeq(record[s], 1, m) \in Seq(Line)
  BY <1>1, SubSeqProperties, ElementOfSeq
<1> QED
  BY <1>1, <1>2, <1>3

LEMMA OutcomeReported ==
  ASSUME FileTypes, NEW s \in Sessions, record'[s] = Append(record[s], <<s, "outcome">>)
  PROVE  Report(s)' = record[s]
<1> DEFINE old == record[s]
           new == Append(old, <<s, "outcome">>)
           n   == Len(old)
<1>1. old \in Seq(Line) /\ n \in Nat /\ <<s, "outcome">> \in Line
  BY LenProperties DEF FileTypes, DataTypes, Line, Says
<1>2. /\ new \in Seq(Line) /\ Len(new) = n + 1 /\ new[n + 1] = <<s, "outcome">>
      /\ \A k \in 1 .. n : new[k] = old[k]
  BY <1>1, AppendProperties
<1> HIDE DEF new, old
<1>3. Report(s)' = SubSeq(new, 1, n)
  <2>1. Report(s)' = SubSeq(new, 1, IF Len(new) > 0 /\ new[Len(new)][2] = "outcome"
                                    THEN Len(new) - 1 ELSE Len(new))
    BY DEF Report, new, old
  <2>2. (IF Len(new) > 0 /\ new[Len(new)][2] = "outcome" THEN Len(new) - 1 ELSE Len(new)) = n
    BY <1>1, <1>2
  <2> QED
    BY <2>1, <2>2
<1>4. SubSeq(new, 1, n) = old
  <2>1. \A k \in 1 .. n : new[k] \in Line
    BY <1>1, <1>2, ElementOfSeq
  <2>2. /\ SubSeq(new, 1, n) \in Seq(Line) /\ Len(SubSeq(new, 1, n)) = n
        /\ \A k \in 1 .. n : SubSeq(new, 1, n)[k] = new[k]
    BY <1>1, <2>1, SubSeqProperties
  <2> QED
    BY <1>1, <1>2, <2>2, SeqEqual
<1> QED
  BY <1>3, <1>4 DEF old

(* The same of the lines that recoverfile has copied.                      *)
LEMMA GrownAgrees ==
  ASSUME FileTypes, NEW s \in Sessions, inode[s] \in Inodes, copy[s] \in Inodes,
         Agrees(s), Grows(inode[s]), Grows(copy[s]),
         inode'[s] = inode[s], copy'[s] = copy[s], pos'[s] = pos[s]
  PROVE  Agrees(s)'
<1> DEFINE a == content[inode[s]]  a2 == content'[inode[s]]
           b == content[copy[s]]   b2 == content'[copy[s]]
           n == pos[s]
<1>1. /\ Len(a) \in Nat /\ Len(a2) \in Nat /\ Len(a) <= Len(a2)
      /\ \A k \in 1 .. Len(a) : a2[k] = a[k]
  BY GrownFacts
<1>2. /\ Len(b) \in Nat /\ Len(b2) \in Nat /\ Len(b) <= Len(b2)
      /\ \A k \in 1 .. Len(b) : b2[k] = b[k]
  BY GrownFacts
<1>3. n \in Nat /\ n <= Len(a) /\ n <= Len(b) /\ \A k \in 1 .. n : b[k] = a[k]
  BY DEF Agrees, FileTypes, DataTypes
<1> HIDE DEF a, b, a2, b2, n
<1>4. n <= Len(a2) /\ n <= Len(b2) /\ \A k \in 1 .. n : b2[k] = a2[k]
  <2>1. n <= Len(a2) /\ n <= Len(b2)
    BY <1>1, <1>2, <1>3
  <2>2. ASSUME NEW k \in 1 .. n PROVE b2[k] = a2[k]
    <3>1. k \in 1 .. Len(a) /\ k \in 1 .. Len(b)
      BY <1>1, <1>2, <1>3
    <3> QED
      BY <1>1, <1>2, <1>3, <3>1
  <2> QED
    BY <2>1, <2>2
<1> QED
  BY <1>4 DEF Agrees, a2, b2, n

(* What a session has is kept by a step that leaves it alone, does not     *)
(* write into what has a name of it, and does not take that name away.     *)
LEMMA RescueKept ==
  ASSUME FileTypes, NEW s \in Sessions, Rescue(s),
         pc'[s] = pc[s], inode'[s] = inode[s], verdict'[s] = verdict[s],
         copy'[s] = copy[s], pos'[s] = pos[s],
         rescued'[s] = rescued[s], record'[s] = record[s],
         pc[s] \in {"copy", "conclude", "syslog", "done"} =>
           \A x \in Suffixes : dir'[Path(s, x)] = dir[Path(s, x)],
         \A x \in Suffixes : dir[Path(s, x)] \in Inodes => Grows(dir[Path(s, x)]),
         IsOpen(s) => Grows(inode[s])
  PROVE  Rescue(s)'
<1>1. /\ Report(s)' = Report(s) /\ Log(s)' = Log(s) /\ Log(s) = Path(s, "log")
      /\ \A x \in Suffixes : Path(s, x)' = Path(s, x)
      /\ "closed" \in Suffixes /\ "tampered" \in Suffixes /\ "log" \in Suffixes
  BY DEF Report, Log, Path, Suffixes
<1>2. record[s] \in Seq(Line) /\ Report(s) \in Seq(Line)
  BY ReportFacts
<1>3. CASE pc[s] = "copy"
  <2>1. /\ inode[s] \in Inodes /\ copy[s] \in Inodes /\ Grows(inode[s])
        /\ dir[Path(s, "tampered")] = copy[s] /\ Agrees(s)
    BY <1>3 DEF FileTypes, Holdings, OpenPCs, IsOpen, Rescue
  <2>2. dir'[Path(s, "tampered")] = copy'[s] /\ Grows(copy[s])
    BY <1>1, <1>3, <2>1
  <2>3. Agrees(s)'
    BY <2>1, <2>2, GrownAgrees
  <2> QED
    BY <1>1, <1>3, <2>2, <2>3 DEF Rescue
<1>4. CASE pc[s] \in {"conclude", "syslog", "done"}
  <2>1. ASSUME NEW lines \in Seq(Line), InCopy(s, lines) PROVE InCopy(s, lines)'
    <3>1. Grows(copy[s])
      BY <1>1, <2>1 DEF InCopy
    <3> QED
      BY <1>1, <1>4, <2>1, <3>1, GrownContains DEF InCopy
  <2>2. ASSUME InLog(s) PROVE InLog(s)'
    <3>1. Grows(inode[s])
      BY <1>1, <2>2 DEF InLog
    <3>2. Contains(s, content'[inode[s]], record[s])
      BY <1>2, <2>2, <3>1, GrownContains DEF InLog
    <3> QED
      BY <1>1, <1>4, <2>2, <3>2 DEF InLog
  <2>3. pc[s] = "conclude" /\ rescued[s] = "yes" => InCopy(s, record[s])'
    BY <1>2, <2>1 DEF Rescue, InCopy
  <2>4. pc[s] \in {"syslog", "done"} /\ verdict[s] \in Found /\ rescued[s] = "yes" =>
          InCopy(s, Report(s))'
    BY <1>1, <1>2, <2>1 DEF Rescue, InCopy
  <2> QED
    BY <1>4, <2>2, <2>3, <2>4 DEF Rescue
<1> QED
  BY <1>3, <1>4 DEF Rescue

LEMMA OthersSurvive ==
  ASSUME OwnNames, FileTypes, FileTypes', Apart, NEW s \in Sessions, Survives(s),
         NEW t \in Sessions, s # t, Begin(t) \/ DoLogging(t) \/ End(t) \/ Kill(t)
  PROVE  Survives(s)'
<1>1. /\ pc'[s] = pc[s] /\ inode'[s] = inode[s] /\ verdict'[s] = verdict[s]
      /\ copy'[s] = copy[s] /\ pos'[s] = pos[s] /\ put'[s] = put[s]
      /\ rescued'[s] = rescued[s] /\ record'[s] = record[s] /\ late' = late
  BY OthersRunOn
<1>2. \A x \in Suffixes : dir'[Path(s, x)] = dir[Path(s, x)]
  BY OthersKept DEF FileTypes
<1>3. /\ IsOpen(s) /\ Copied(t) => copy[t] # inode[s]
      /\ Copied(t) => \A x \in Suffixes : dir[Path(s, x)] # copy[t]
  BY DEF Apart, Copied, Copying
<1>4. IsOpen(s) => inode[s] \in Inodes /\ Grows(inode[s])
  BY <1>3, OwnGrows, FreeFacts DEF IsOpen, FileTypes, Holdings
<1>5. ASSUME NEW x \in Suffixes, dir[Path(s, x)] \in Inodes PROVE Grows(dir[Path(s, x)])
  BY <1>3, <1>5, OwnGrows, FreeFacts, OwnPaths
<1>6. IsOpen(s) /\ Copied(t) => content'[inode[s]] = content[inode[s]]
  BY <1>3, <1>4 DEF Copied, FileTypes, DataTypes, Holdings
<1>7. Unwritten(s)' /\ (Sound(s)' => Intact(s)')
  BY <1>1, <1>6, UnwrittenStep, IntactStep DEF Survives, Sound
<1>8. Rescue(s) => Rescue(s)'
  BY <1>1, <1>2, <1>4, <1>5, RescueKept
<1> QED
  BY <1>1, <1>7, <1>8 DEF Survives, Sound

LEMMA UserSurvives ==
  ASSUME FileTypes, FileTypes', NEW s \in Sessions, Survives(s), User
  PROVE  Survives(s)'
<1>1. /\ UNCHANGED <<pc, inode, copy, pos, put, verdict, rescued, record>>
      /\ late \subseteq late'
      /\ \/ s \in late' \/ pc[s] \in {"start", "header", "run", "stat"}
         \/ \A x \in Suffixes : dir'[Path(s, x)] = dir[Path(s, x)]
  BY UserNames DEF sessionVars
<1>2. Unwritten(s)' /\ (Sound(s)' => Intact(s)')
  BY <1>1, UserIntact DEF Survives, Sound
<1>3. IsOpen(s) => Grows(inode[s])
  BY UserGrows, FreeFacts DEF IsOpen, FileTypes, Holdings
<1>4. ASSUME NEW x \in Suffixes, dir[Path(s, x)] \in Inodes PROVE Grows(dir[Path(s, x)])
  BY <1>4, UserGrows, FreeFacts, OwnPaths
<1>5. s \notin late' /\ Rescue(s) => Rescue(s)'
  BY <1>1, <1>3, <1>4, RescueKept
<1> QED
  BY <1>1, <1>2, <1>5 DEF Survives, Sound

(* A line written over itself.                                             *)
LEMMA OverItself ==
  ASSUME NEW text \in Seq(Line), NEW n \in 1 .. Len(text)
  PROVE  Overwrite(text, n, text[n]) = text
<1>1. n <= Len(text) /\ Len(text) \in Nat
  BY LenProperties
<1>2. Overwrite(text, n, text[n]) = [text EXCEPT ![n] = text[n]]
  BY <1>1 DEF Overwrite
<1>3. text = [k \in 1 .. Len(text) |-> text[k]]
  BY LenProperties, SeqDef
<1> QED
  BY <1>2, <1>3

(* The step of recoverfile that writes a line.                             *)
LEMMA CopyAgrees ==
  ASSUME FileTypes, NEW s \in Sessions, Copied(s), Sound(s)
  PROVE  /\ content'[inode[s]] = content[inode[s]]
         /\ Agrees(s) /\ UNCHANGED <<inode, copy>> /\ pos'[s] = pos[s] + 1 => Agrees(s)'
<1> DEFINE a == content[inode[s]]
           b == content[copy[s]]
           n == pos[s]
<1>1. /\ inode[s] \in Inodes /\ copy[s] \in Inodes /\ a \in Seq(Line) /\ b \in Seq(Line)
      /\ n \in Nat /\ n < Len(a) /\ put[s] = n
  BY DEF Copied, Sound, FileTypes, DataTypes, Holdings, OpenPCs
<1>2. Len(a) \in Nat /\ Len(b) \in Nat /\ n + 1 \in 1 .. Len(a)
  BY <1>1, LenProperties
<1>3. content' = [content EXCEPT ![copy[s]] = Overwrite(b, n + 1, a[n + 1])]
  BY <1>1 DEF Copied
<1>4. content \in [Inodes -> Seq(Line)]
  BY DEF FileTypes, DataTypes
<1>5. CASE copy[s] = inode[s]
  <2>1. Overwrite(b, n + 1, a[n + 1]) = b
    BY <1>1, <1>2, <1>5, OverItself
  <2>2. content'[inode[s]] = a /\ content'[copy[s]] = a
    BY <1>1, <1>3, <1>4, <1>5, <2>1
  <2> QED
    BY <1>2, <2>2 DEF Agrees
<1>6. CASE copy[s] # inode[s]
  <2> DEFINE c == Overwrite(b, n + 1, a[n + 1])
  <2>1. content'[inode[s]] = a /\ content'[copy[s]] = c
    BY <1>1, <1>3, <1>4, <1>6
  <2>2. ASSUME Agrees(s)
        PROVE  n + 1 <= Len(c) /\ \A k \in 1 .. n + 1 : c[k] = a[k]
    <3>1. n <= Len(b) /\ \A k \in 1 .. n : b[k] = a[k]
      BY <2>2 DEF Agrees
    <3>2. CASE n + 1 <= Len(b)
      <4>1. c = [b EXCEPT ![n + 1] = a[n + 1]]
        BY <3>2 DEF Overwrite
      <4>2. a[n + 1] \in Line /\ n + 1 \in 1 .. Len(b)
        BY <1>1, <1>2, <3>2, ElementOfSeq
      <4>3. Len(c) = Len(b) /\ c[n + 1] = a[n + 1] /\ \A k \in 1 .. n : c[k] = b[k]
        <5> HIDE DEF a, b, c, n
        <5> QED
          BY <1>1, <1>2, <4>1, <4>2, ExceptSeq
      <4> HIDE DEF a, b, c, n
      <4> QED
        BY <1>1, <1>2, <3>1, <3>2, <4>3
    <3>3. CASE ~(n + 1 <= Len(b))
      <4>1. c = Append(b, a[n + 1])
        BY <3>3 DEF Overwrite
      <4>2. a[n + 1] \in Line /\ Len(b) = n
        BY <1>1, <1>2, <3>1, <3>3, ElementOfSeq
      <4>3. Len(c) = n + 1 /\ c[n + 1] = a[n + 1] /\ \A k \in 1 .. n : c[k] = b[k]
        <5> HIDE DEF a, b, c, n
        <5> QED
          BY <1>1, <1>2, <4>1, <4>2, AppendProperties
      <4> HIDE DEF a, b, c, n
      <4>4. \A k \in 1 .. n + 1 : k \in 1 .. n \/ k = n + 1
        BY <1>1
      <4> QED
        BY <1>1, <3>1, <4>3, <4>4
    <3> QED
      BY <3>2, <3>3
  <2>3. ASSUME Agrees(s), inode' = inode, copy' = copy, pos'[s] = n + 1 PROVE Agrees(s)'
    <3>1. /\ content'[inode'[s]] = a /\ content'[copy'[s]] = c
          /\ n + 1 <= Len(a) /\ n + 1 <= Len(c) /\ \A k \in 1 .. n + 1 : c[k] = a[k]
      BY <1>2, <2>1, <2>2, <2>3
    <3> HIDE DEF a, c, n
    <3> QED
      BY <2>3, <3>1 DEF Agrees
  <2> QED
    BY <2>1, <2>3
<1> QED
  BY <1>5, <1>6

(* A recovery that has lost a line does not find it again.                 *)
LEMMA SoundBefore ==
  ASSUME FileTypes, NEW s \in Sessions, Begin(s) \/ DoLogging(s) \/ End(s) \/ Kill(s)
  PROVE  /\ Sound(s)' => Sound(s)
         /\ late' = late
<1>1. CASE Copy(s)
  <2>1. pos[s] \in Nat /\ put[s] \in Nat /\ put[s] <= pos[s]
    BY DEF FileTypes, DataTypes, Holdings
  <2>2. \/ pos'[s] = pos[s] + 1 /\ put'[s] = put[s] + 1
        \/ pos'[s] = pos[s] + 1 /\ put'[s] = put[s]
        \/ pos'[s] = pos[s] /\ put'[s] = put[s]
    BY <1>1 DEF Copy, CopyFrom, FileTypes, DataTypes
  <2>3. late' = late
    BY <1>1 DEF Copy, CopyFrom, userVars
  <2> QED
    BY <2>1, <2>2, <2>3 DEF Sound
<1>2. CASE ~Copy(s)
  <2>1. UNCHANGED <<pos, put, late>>
    <3>1. CASE Open(s) \/ WriteHeader(s) \/ DoLogging(s) \/ EndLogging(s)
      BY <3>1 DEF Open, WriteHeader, DoLogging, EndLogging, userVars
    <3>2. CASE Stat(s) \/ Unlink(s) \/ Announce(s) \/ Conclude(s) \/ ForceOpen(s)
      BY <3>2 DEF Stat, StatAs, Unlink, Announce, Conclude, ForceOpen, TryOpen, userVars
    <3>3. CASE Rename(s) \/ NoteEnd(s) \/ Kill(s)
      BY <3>3 DEF Rename, RenameTo, NoteEnd, Kill, userVars
    <3> QED
      BY <1>2, <3>1, <3>2, <3>3 DEF Begin, End
  <2> QED
    BY <2>1 DEF Sound
<1> QED
  BY <1>1, <1>2

(* The copy of all that was read contains the record.                      *)
LEMMA CopyComplete ==
  ASSUME FileTypes, NEW s \in Sessions, pc[s] = "copy", Intact(s), Agrees(s),
         pos[s] >= Len(content[inode[s]])
  PROVE  Contains(s, content[copy[s]], record[s])
<1> DEFINE a == content[inode[s]]
           b == content[copy[s]]
<1>1. /\ inode[s] \in Inodes /\ copy[s] \in Inodes /\ a \in Seq(Line) /\ b \in Seq(Line)
      /\ record[s] \in Seq(Line) /\ pos[s] \in Nat
  BY DEF FileTypes, DataTypes, Holdings, OpenPCs
<1>2. Len(a) \in Nat /\ Len(b) \in Nat
  BY <1>1, LenProperties
<1>3. pos[s] = Len(a) /\ Len(a) <= Len(b)
  BY <1>1, <1>2 DEF Agrees
<1>4. \A k \in 1 .. Len(a) : b[k] = a[k]
  BY <1>3 DEF Agrees
<1>5. Contains(s, a, record[s])
  BY DEF Intact, IsOpen, OpenPCs, Equals
<1> HIDE DEF a, b
<1>6. Contains(s, b, record[s])
  BY <1>1, <1>3, <1>4, <1>5, StillContains
<1> QED
  BY <1>6 DEF b

LEMMA CopyRescue ==
  ASSUME FileTypes, NEW s \in Sessions, Intact(s), Rescue(s), Sound(s), Copy(s)
  PROVE  Sound(s)' => Rescue(s)'
<1>0. /\ Path(s, "tampered")' = Path(s, "tampered") /\ pc[s] = "copy"
      /\ UNCHANGED <<dir, inode, copy, record>> /\ 0 + pos[s] = pos[s]
      /\ copy[s] \in Inodes /\ pc \in [Sessions -> PCs] /\ pos[s] \in Nat /\ put[s] \in Nat
      /\ pos \in [Sessions -> Nat] /\ put \in [Sessions -> Nat]
  BY DEF Path, Copy, CopyFrom, FileTypes, AlarmTypes, DataTypes, Holdings
<1>1. dir[Path(s, "tampered")] = copy[s] /\ Agrees(s)
  BY <1>0 DEF Rescue
<1>2. CASE /\ pos[s] < Len(content[inode[s]]) /\ pc' = pc
           /\ pos' = [pos EXCEPT ![s] = @ + 1] /\ put' = [put EXCEPT ![s] = @ + 1]
           /\ content' = [content EXCEPT ![copy[s]] =
                            Overwrite(@, put[s] + 1, content[inode[s]][pos[s] + 1])]
  <2>1. Copied(s) /\ pos'[s] = pos[s] + 1
    BY <1>0, <1>2 DEF Copied
  <2>2. Agrees(s)'
    BY <1>0, <1>1, <2>1, CopyAgrees
  <2> QED
    BY <1>0, <1>1, <1>2, <2>2 DEF Rescue
<1>3. CASE pos' = [pos EXCEPT ![s] = @ + 1] /\ put' = put
  BY <1>0, <1>3 DEF Sound
<1>4. CASE /\ pos[s] >= Len(content[inode[s]]) /\ content' = content
           /\ pc' = [pc EXCEPT ![s] = "conclude"]
  <2>1. Contains(s, content[copy[s]], record[s])
    BY <1>0, <1>1, <1>4, CopyComplete
  <2>2. InCopy(s, record[s])'
    BY <1>0, <1>1, <1>4, <2>1 DEF InCopy
  <2>3. pc'[s] = "conclude"
    BY <1>0, <1>4
  <2> QED
    BY <2>2, <2>3 DEF Rescue
<1> QED
  BY <1>0, <1>2, <1>3, <1>4 DEF Copy, CopyFrom, Goto

LEMMA ForceRescue ==
  ASSUME FileTypes, FileTypes', NEW s \in Sessions, Course(s), ForceOpen(s)
  PROVE  Rescue(s)'
<1>0. /\ Path(s, "tampered")' = Path(s, "tampered") /\ Path(s, "tampered") \in Paths
      /\ pc[s] = "force" /\ UNCHANGED <<pos, verdict>> /\ pos[s] = 0 /\ inode' = inode
  BY OwnPaths DEF Path, ForceOpen, TryOpen, Course, OpenPCs, Suffixes
<1> USE DEF FileTypes, AlarmTypes, DataTypes
<1>1. \/ pc'[s] = "force"
      \/ pc'[s] = "conclude" /\ rescued'[s] = "no"
      \/ pc'[s] = "copy" /\ dir'[Path(s, "tampered")] = copy'[s]
  BY <1>0 DEF ForceOpen, TryOpen, Goto
<1>2. CASE pc'[s] = "copy" /\ dir'[Path(s, "tampered")] = copy'[s]
  <2>1. inode'[s] \in Inodes /\ copy'[s] \in Inodes
    BY <1>2 DEF Holdings, OpenPCs
  <2>2. Len(content'[inode'[s]]) \in Nat /\ Len(content'[copy'[s]]) \in Nat
    BY <2>1, LenProperties
  <2>3. Agrees(s)'
    BY <1>0, <2>2 DEF Agrees
  <2> QED
    BY <1>0, <1>2, <2>3 DEF Rescue
<1>3. CASE pc'[s] = "force" \/ (pc'[s] = "conclude" /\ rescued'[s] = "no")
  BY <1>3 DEF Rescue
<1> QED
  BY <1>1, <1>2, <1>3

LEMMA ConcludeRescue ==
  ASSUME FileTypes, FileTypes', NEW s \in Sessions, Course(s), Rescue(s), Conclude(s)
  PROVE  Rescue(s)'
<1>0. /\ Path(s, "tampered")' = Path(s, "tampered") /\ pc[s] = "conclude" /\ pc'[s] = "syslog"
      /\ UNCHANGED <<dir, copy, verdict, rescued>> /\ verdict[s] \in Found
  BY DEF Path, Conclude, Goto, Course, FileTypes, AlarmTypes
<1> SUFFICES ASSUME rescued[s] = "yes" PROVE InCopy(s, Report(s))'
  BY <1>0 DEF Rescue, Found
<1>1. InCopy(s, record[s]) /\ record[s] \in Seq(Line)
  BY <1>0 DEF Rescue, FileTypes, DataTypes
<1>2. CASE UNCHANGED <<content, record>>
  <2>1. Report(s)' = Report(s) /\ \E n \in 0 .. Len(record[s]) : Report(s) = SubSeq(record[s], 1, n)
    BY <1>2, ReportFacts DEF Report
  <2>2. Contains(s, content[copy[s]], Report(s))
    BY <1>1, <2>1, ContainsFirst DEF InCopy, FileTypes, DataTypes
  <2> QED
    BY <1>0, <1>1, <1>2, <2>1, <2>2 DEF InCopy
<1>3. CASE AppendLine(s, "outcome")
  <2>1. Appended(s, "outcome") /\ "outcome" \in Says
    BY <1>0, <1>3, AppendLineEffect DEF OpenPCs, Says
  <2>2. record'[s] = Append(record[s], <<s, "outcome">>)
    BY <2>1 DEF Appended, FileTypes, DataTypes
  <2>3. Report(s)' = record[s]
    BY <2>2, OutcomeReported
  <2>4. Grows(copy[s])
    <3>1. <<s, "outcome">> \in Line
      BY <2>1 DEF Line
    <3> QED
      BY <1>1, <2>1, <3>1 DEF Grows, InCopy, Appended, FileTypes, DataTypes
  <2>5. Contains(s, content'[copy[s]], record[s])
    BY <1>1, <2>4, GrownContains DEF InCopy
  <2> QED
    BY <1>0, <1>1, <2>3, <2>5 DEF InCopy
<1> QED
  BY <1>2, <1>3 DEF Conclude, dologging

LEMMA RenameRescue ==
  ASSUME FileTypes, NEW s \in Sessions, Course(s), Intact(s), Rename(s),
         dir[Log(s)] = inode[s]
  PROVE  Rescue(s)'
<1>0. /\ Path(s, "closed")' = Path(s, "closed") /\ Log(s)' = Log(s)
      /\ Path(s, "closed") \in Paths /\ Log(s) \in Paths /\ Path(s, "closed") # Log(s)
      /\ pc[s] = "rename" /\ pc'[s] = "syslog" /\ verdict'[s] = "same"
      /\ UNCHANGED <<content, inode, record>>
  BY OwnPaths DEF Path, Log, Rename, RenameTo, Goto, Course, FileTypes, AlarmTypes, Suffixes
<1>1. inode[s] \in Inodes /\ Contains(s, content[inode[s]], record[s])
  BY <1>0 DEF FileTypes, Holdings, Intact, IsOpen, OpenPCs, Equals
<1>2. dir'[Path(s, "closed")] = inode[s] \/ dir'[Log(s)] = inode[s]
  BY <1>0 DEF Rename, RenameTo, Renamed, FileTypes, AlarmTypes
<1>3. InLog(s)'
  BY <1>0, <1>1, <1>2 DEF InLog
<1> QED
  BY <1>0, <1>3 DEF Rescue, Found

LEMMA OwnSurvives ==
  ASSUME FileTypes, FileTypes', NEW s \in Sessions, Course(s), Sealed(s), Survives(s),
         Begin(s) \/ DoLogging(s) \/ End(s) \/ Kill(s)
  PROVE  Survives(s)'
<1>1. Unwritten(s)'
  BY UnwrittenStep DEF Survives
<1>2. (Sound(s)' => Sound(s)) /\ late' = late
  BY SoundBefore
<1>3. Sound(s)' => Intact(s)'
  <2> SUFFICES ASSUME Sound(s) PROVE Intact(s)'
    BY <1>2
  <2>1. Copied(s) => content'[inode[s]] = content[inode[s]]
    BY CopyAgrees
  <2> QED
    BY <2>1, IntactStep DEF Survives
<1>4. ASSUME Sound(s)', Sound(s), s \notin late PROVE Rescue(s)'
  <2>0. Intact(s) /\ Rescue(s)
    BY <1>4 DEF Survives
  <2> USE DEF FileTypes, AlarmTypes, Goto, Rescue
  <2>1. CASE Open(s) \/ WriteHeader(s) \/ DoLogging(s)
    BY <2>1 DEF Open, WriteHeader, DoLogging
  <2>2. CASE EndLogging(s)
    BY <2>2 DEF EndLogging, Course, Found
  <2>3. CASE Stat(s)
    BY <2>3 DEF Stat, StatAs
  <2>4. CASE Unlink(s) \/ Announce(s) \/ Kill(s)
    BY <2>4 DEF Unlink, Announce, Kill
  <2>5. CASE ForceOpen(s)
    BY <2>5, ForceRescue
  <2>6. CASE Copy(s)
    BY <1>4, <2>0, <2>6, CopyRescue
  <2>7. CASE Conclude(s)
    BY <2>0, <2>7, ConcludeRescue
  <2>8. CASE Rename(s)
    BY <1>4, <2>0, <2>8, RenameRescue DEF Sealed, Rename, RenameTo
  <2>9. CASE NoteEnd(s)
    <3>1. /\ pc[s] = "syslog" /\ pc'[s] = "done"
          /\ UNCHANGED <<dir, content, inode, copy, verdict, rescued, record>>
      BY <2>9 DEF NoteEnd
    <3> QED
      BY <2>0, <3>1 DEF InCopy, InLog, Report, Log, Path
  <2> QED
    BY <2>1, <2>2, <2>3, <2>4, <2>5, <2>6, <2>7, <2>8, <2>9 DEF Begin, End
<1> QED
  BY <1>1, <1>2, <1>3, <1>4 DEF Survives

LEMMA SurvivesStep ==
  ASSUME OwnNames, FileTypes, FileTypes', Apart, [Next]_vars, NEW s \in Sessions,
         Course(s), Sealed(s), Survives(s)
  PROVE  Survives(s)'
<1>1. CASE User
  BY <1>1, UserSurvives
<1>2. ASSUME NEW t \in Sessions, Begin(t) \/ DoLogging(t) \/ End(t) \/ Kill(t)
      PROVE  Survives(s)'
  BY <1>2, OwnSurvives, OthersSurvive
<1>3. CASE UNCHANGED vars
  <2>1. /\ Unwritten(s)' = Unwritten(s) /\ Sound(s)' = Sound(s) /\ Intact(s)' = Intact(s)
        /\ late' = late
    BY <1>3 DEF vars, sessionVars, userVars, Unwritten, Sound, Intact, IsOpen
  <2>2. Rescue(s)' = Rescue(s)
    BY <1>3 DEF vars, sessionVars, Rescue, InCopy, InLog, Agrees, Report, Log, Path
  <2> QED
    BY <2>1, <2>2 DEF Survives
<1> QED
  BY <1>1, <1>2, <1>3 DEF Next

(* What survives is under one of the names.                                *)
LEMMA SurvivesIsFound ==
  ASSUME FileTypes, \A s \in Sessions : Course(s) /\ Survives(s)
  PROVE  RecordSurvives
<1> SUFFICES ASSUME NEW s \in Sessions, Ended(s), rescued[s] # "no", put[s] = pos[s],
                    s \notin late
             PROVE  \E x \in Suffixes : /\ IsFile(Path(s, x))
                                        /\ Contains(s, content[dir[Path(s, x)]], Report(s))
  BY DEF RecordSurvives
<1>1. /\ pc[s] = "done" /\ Rescue(s) /\ verdict[s] \in Found \cup {"same"}
      /\ rescued[s] \in {"none", "yes", "no"}
      /\ "closed" \in Suffixes /\ "tampered" \in Suffixes /\ "log" \in Suffixes
  BY DEF Ended, Survives, Sound, FileTypes, AlarmTypes, DataTypes, Found, Suffixes
<1>2. CASE verdict[s] \in Found
  <2>1. InCopy(s, Report(s))
    BY <1>1, <1>2 DEF Course, Rescue
  <2> QED
    BY <1>1, <2>1 DEF InCopy, IsFile
<1>3. CASE verdict[s] = "same"
  <2>1. InLog(s)
    BY <1>1, <1>3 DEF Rescue
  <2>2. Contains(s, content[inode[s]], Report(s))
    <3>1. content[inode[s]] \in Seq(Line) /\ Contains(s, content[inode[s]], record[s])
      BY <2>1 DEF InLog, FileTypes, DataTypes
    <3>2. PICK n \in 0 .. Len(record[s]) : Report(s) = SubSeq(record[s], 1, n)
      BY ReportFacts
    <3>3. Contains(s, content[inode[s]], SubSeq(record[s], 1, n))
      BY <3>1, ReportFacts, ContainsFirst
    <3> QED
      BY <3>2, <3>3
  <2> QED
    BY <1>1, <2>1, <2>2 DEF InLog, IsFile, Log
<1> QED
  BY <1>1, <1>2, <1>3

(* What a session has logged survives as long as no recovery writes to     *)
(* another session's file.                                                 *)
LEMMA SurvivesIfApart ==
  ASSUME OwnNames PROVE Spec /\ []Apart => []RecordSurvives
<1> DEFINE All    == \A s \in Sessions : Survives(s)
           Course_ == \A s \in Sessions : Course(s)
           Sealed_ == \A s \in Sessions : Sealed(s)
<1>1. Init => All
  BY UnwrittenAtFirst DEF Init, Survives, Rescue
<1>2. FileTypes /\ FileTypes' /\ Apart /\ Course_ /\ Sealed_ /\ All /\ [Next]_vars => All'
  BY SurvivesStep
<1>3. FileTypes /\ Course_ /\ All => RecordSurvives
  BY SurvivesIsFound
<1> QED
  BY <1>1, <1>2, <1>3, TypesHold, CourseHolds, SealedHolds, PTL DEF Spec

(* Without users who rename files, whatever else they do to the names of   *)
(* a log, what a session with names of its own has logged survives.        *)
THEOREM RecordSurvivesUnmoved ==
  ASSUME OwnNames, "move" \notin Tampering PROVE Spec => []RecordSurvives
<1>1. NamesApart => Apart
  BY PathFacts DEF NamesApart, Apart, Suffixes
<1> QED
  BY <1>1, NamesStayApart, SurvivesIfApart, PTL

(* With users who also rename files, what a session logs that has the      *)
(* directory to itself survives.                                           *)
THEOREM RecordSurvivesAlone ==
  ASSUME \A s, t \in Sessions : s = t PROVE Spec => []RecordSurvives
<1>1. OwnNames
  BY DEF OwnNames
<1>2. Apart
  BY DEF Apart
<1> QED
  BY <1>1, <1>2, SurvivesIfApart, PTL
=============================================================================
