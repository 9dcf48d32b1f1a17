------------------------------ MODULE UserShells ------------------------------
(***************************************************************************)
(* setupshell with the emulated getusershell and basename: is the caller's *)
(* shell in the list of shells, and is it rootsh itself?  A path is a      *)
(* sequence of characters, because basename looks at each of them.  The    *)
(* shells file is a sequence of words and line breaks.                     *)
(*                                                                         *)
(* A definition whose name ends in Bug is the definition after it with one *)
(* plausible mistake.                                                      *)
(***************************************************************************)
EXTENDS Naturals, FiniteSetsExt, SequencesExt

CONSTANTS
  Callers,         \* paths: the values of SHELL and the words of the file
  Files,           \* contents of the shells file
  Hash,            \* a word that begins with "#"
  LF,              \* a line break
  default_shells,  \* the list if there is no shells file
  defaultshell,    \* the shell to run in rootsh's place
  progName         \* the basename of argv[0], without the dash of a login shell

ASSUME ShellsAssumption ==
  /\ \A path \in Callers : path \in Seq(STRING)
  /\ default_shells \in Seq(Callers) /\ default_shells # <<>>
  /\ Files \subseteq Seq(Callers \cup {Hash, LF})
  /\ Hash \notin Callers /\ LF \notin Callers

VARIABLES
  pc,             \* "set", "get", "compare", "end", "check" or "done"
  file,           \* the shells file: none, or one
  default_index,  \* the next entry of default_shells, or 0: not in use
  shellstream,    \* what is still to be read: none if it is closed
  validshell,     \* what getusershell returned: nothing, or a path
  isvalid,
  shell,          \* the caller's shell, and then the one to run: none if refused
  caller          \* history: the caller's shell

vars == <<pc, file, default_index, shellstream, validshell, isvalid, shell, caller>>

Init ==
  /\ pc = "set" /\ file \in {{}} \cup {{f} : f \in Files}
  /\ default_index = 0 /\ shellstream = {} /\ validshell = {} /\ isvalid = FALSE
  /\ caller \in Callers /\ shell = {caller}
-----------------------------------------------------------------------------
setusershell ==
  /\ pc = "set" /\ pc' = "get"
  /\ default_index' = 0
  /\ shellstream' = IF shellstream = {} THEN {} ELSE file
  /\ UNCHANGED <<file, validshell, isvalid, shell, caller>>

(* From the default list, once it is in use.                               *)
NextDefault ==
  /\ default_index > 0
  /\ IF default_index < Len(default_shells)
     THEN /\ validshell' = {default_shells[default_index + 1]}
          /\ default_index' = default_index + 1
     ELSE validshell' = {} /\ UNCHANGED default_index
  /\ UNCHANGED shellstream

(* No shells file.                                                         *)
FirstDefault ==
  /\ default_index = 0 /\ shellstream = {} /\ file = {}
  /\ validshell' = {default_shells[1]} /\ default_index' = 1
  /\ UNCHANGED shellstream

(* The file is opened by the first call.  readname takes a line break for  *)
(* white space like any other; getusershell passes over a word that begins *)
(* with "#", not over its line.                                            *)
FromFile(words) ==
  LET good == {i \in DOMAIN words : words[i] \notin {Hash, LF}}
  IN  IF good = {} THEN validshell' = {} /\ shellstream' = {<<>>}
      ELSE /\ validshell' = {words[Min(good)]}
           /\ shellstream' = {SubSeq(words, Min(good) + 1, Len(words))}

NextFromFile ==
  /\ default_index = 0
  /\ \/ \E words \in shellstream : FromFile(words)
     \/ shellstream = {} /\ \E f \in file : FromFile(f)
  /\ UNCHANGED default_index

Get(entry) ==
  /\ pc = "get" /\ pc' = "compare"
  /\ entry
  /\ UNCHANGED <<file, isvalid, shell, caller>>

(* The stream is opened again by each call.                                *)
ReopenBug ==
  /\ default_index = 0 /\ \E f \in file : FromFile(f)
  /\ UNCHANGED default_index
getusershellBug == Get(NextDefault \/ FirstDefault \/ ReopenBug)
getusershell    == Get(NextDefault \/ FirstDefault \/ NextFromFile)

(* The body of setupshell's loop and its condition.                        *)
CompareWhile(searching) ==
  /\ pc = "compare"
  /\ IF validshell # {} /\ searching
     THEN isvalid' = (shell = validshell) /\ pc' = "get"
     ELSE pc' = "end" /\ UNCHANGED isvalid
  /\ UNCHANGED <<file, default_index, shellstream, validshell, shell, caller>>

(* The search goes on behind the shell.                                    *)
CompareBug == CompareWhile(TRUE)
Compare    == CompareWhile(~isvalid)

endusershell ==
  /\ pc = "end" /\ pc' = "check"
  /\ shellstream' = {}
  /\ UNCHANGED <<file, default_index, validshell, isvalid, shell, caller>>

(* basename does not look at the first character once it has found a slash *)
(* anywhere, nor for a slash in the last one.                              *)
Slashes(path, from, to) == {i \in from .. to : path[i] = "/"}
LastSolid(path) == Max({i \in DOMAIN path : path[i] # "/"} \cup {1})

BasenameTo(path, end) ==
  IF path = <<>> THEN <<".">>
  ELSE IF Slashes(path, 1, Len(path) - 1) = {} THEN path
  ELSE SubSeq(path, Max(Slashes(path, 2, end) \cup {0}) + 1, end)

(* The slashes at the end are counted as part of the path.                 *)
basenameBug(path) == BasenameTo(path, Len(path))
basename(path)    == BasenameTo(path, LastSolid(path))

(* The rest of setupshell: SHELL is rootsh, so another one is run.         *)
Check ==
  /\ pc = "check" /\ pc' = "done"
  /\ shell' = IF ~isvalid THEN {}
              ELSE IF basename(caller) = progName THEN {defaultshell} ELSE shell
  /\ UNCHANGED <<file, default_index, shellstream, validshell, isvalid, caller>>

Next == setusershell \/ getusershell \/ Compare \/ endusershell \/ Check
Spec == Init /\ [][Next]_vars
FairSpec == Spec /\ WF_vars(Next)
-----------------------------------------------------------------------------
(* The shells that are listed, and the words of comments: those of a line  *)
(* that begins with "#".                                                   *)
LineBegin(f, i) == Max({j \in 1 .. i : f[j] = LF} \cup {0}) + 1
OnComment(f, i) == f[LineBegin(f, i)] = Hash
Shells(f)   == {i \in DOMAIN f : f[i] \notin {Hash, LF}}
Commented   == UNION {{f[i] : i \in {j \in Shells(f) : OnComment(f, j)}} : f \in file}
Listed ==
  IF file = {} THEN ToSet(default_shells)
  ELSE UNION {{f[i] : i \in {j \in Shells(f) : ~OnComment(f, j)}} : f \in file}

(* A shell that is listed is run, wherever it stands in the list and       *)
(* whatever is behind it; one that is not is refused, if its name does not *)
(* stand in a comment, whose words getusershell takes for entries.         *)
RunsWhatIsListed ==
  pc = "done" =>
    /\ caller \in Listed => shell # {}
    /\ shell # {} => caller \in Listed \cup Commented

(* The loop of calls ends, however long the list is.                       *)
SetupEnds == <>(pc = "done")

(* POSIX: the text behind the last slash that is not at the end.           *)
PosixBasename(path) ==
  LET end == Max({i \in DOMAIN path : path[i] # "/"} \cup {0})
  IN  IF path = <<>> THEN <<".">> ELSE IF end = 0 THEN <<"/">>
      ELSE SubSeq(path, Max(Slashes(path, 1, end) \cup {0}) + 1, end)

(* rootsh does not run itself, by whatever path it is called, unless it    *)
(* lies in the root directory: basename keeps the slash of such a path.    *)
(* (A relative path with slashes at its end, and no others, is no shell    *)
(* that could be run.)                                                     *)
InRoot(path) == path[1] = "/" /\ Slashes(path, 2, LastSolid(path)) = {}
NeverItself ==
  pc = "done" =>
    \A s \in shell : /\ PosixBasename(s) = progName /\ s # defaultshell
                     /\ s[1] = "/"
                     => InRoot(s)
=============================================================================
