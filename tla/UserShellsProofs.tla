--------------------------- MODULE UserShellsProofs ---------------------------
(***************************************************************************)
(* Which shells are run, and that basename recognises rootsh, for every    *)
(* list, every path and every name.                                        *)
(***************************************************************************)
EXTENDS UserShells, SequenceTheorems, WellFoundedInduction, TLAPS

(* The least and the greatest of some positions.                           *)
Less == {ss \in Nat \X Nat : ss[1] < ss[2]}
LEMMA LessWF == IsWellFoundedOn(Less, Nat)
  BY NatLessThanWellFounded DEF OpToRel, Less
LEMMA MinOf ==
  ASSUME NEW S, S \subseteq Nat, S # {}
  PROVE  Min(S) \in S /\ \A y \in S : Min(S) <= y
<1>1. PICK x \in S : \A y \in S : <<y, x>> \notin Less
  BY LessWF, WFMin
<1>2. \A y \in S : x <= y
  <2> SUFFICES ASSUME NEW y \in S PROVE x <= y
    OBVIOUS
  <2>1. x \in Nat /\ y \in Nat /\ ~(y < x)
    BY <1>1 DEF Less
  <2> QED
    BY <2>1
<1> QED
  BY <1>2 DEF Min
LEMMA MaxOf ==
  ASSUME NEW S, NEW n \in Nat, S \subseteq 0 .. n, S # {}
  PROVE  Max(S) \in S /\ \A y \in S : Max(S) >= y
<1> DEFINE T == {n - i : i \in S}
<1>1. T \subseteq Nat /\ T # {}
  <2>1. \A i \in S : n - i \in Nat
    OBVIOUS
  <2>2. \E i \in S : n - i \in T
    OBVIOUS
  <2> QED
    BY <2>1, <2>2
<1>2. Min(T) \in T /\ \A y \in T : Min(T) <= y
  BY <1>1, MinOf
<1>3. PICK x \in S : Min(T) = n - x
  BY <1>2
<1>4. \A y \in S : x >= y
  <2> SUFFICES ASSUME NEW y \in S PROVE x >= y
    OBVIOUS
  <2>1. n - x <= n - y
    BY <1>2, <1>3
  <2> QED
    BY <2>1
<1> QED
  BY <1>4 DEF Max
-----------------------------------------------------------------------------
(* The entries getusershell has still to return.                           *)
Marks       == {Hash, LF}
Good(words) == {words[i] : i \in DOMAIN words} \ Marks
Entries     == IF file = {} THEN ToSet(default_shells) ELSE UNION {Good(f) : f \in file}
Rest ==
  IF default_index > 0
  THEN {default_shells[i] : i \in default_index + 1 .. Len(default_shells)}
  ELSE IF shellstream # {} THEN (UNION {Good(w) : w \in shellstream})
  ELSE Entries

Word == Callers \cup Marks

ShellsType ==
  /\ caller \in Callers
  /\ file = {} \/ \E f \in Seq(Word) : file = {f}
  /\ default_index \in 0 .. Len(default_shells)
  /\ shellstream = {} \/ \E w \in Seq(Word) : shellstream = {w}
  /\ isvalid \in BOOLEAN
  /\ default_index > 0 => file = {}
  /\ shellstream # {} => file # {}

(* While the search goes on, the caller's shell is not behind it.          *)
SearchInv ==
  /\ pc = "set" => shellstream = {} /\ default_index = 0 /\ ~isvalid
  /\ pc # "done" => shell = {caller}
  /\ isvalid => caller \in Entries
  /\ pc \in {"get", "compare"} => Rest \subseteq Entries
  /\ pc = "get" /\ ~isvalid /\ caller \in Entries => caller \in Rest
  /\ pc = "compare" =>
       /\ validshell \subseteq Entries
       /\ validshell = {} \/ \E s : validshell = {s}
       /\ ~isvalid /\ caller \in Entries => caller \in Rest \cup validshell
       /\ validshell = {} => Rest = {}
  /\ pc \in {"end", "check"} /\ ~isvalid => caller \notin Entries
  /\ pc = "done" =>
       /\ shell # {} <=> caller \in Entries
       /\ \A s \in shell : s = defaultshell \/ (s = caller /\ basename(s) # progName)

ShellsInv == ShellsType /\ SearchInv

LEMMA EntriesAre ==
  /\ file = {} => Entries = {default_shells[i] : i \in 1 .. Len(default_shells)}
  /\ \A f : file = {f} => Entries = Good(f)
<1>1. DOMAIN default_shells = 1 .. Len(default_shells)
  BY ShellsAssumption, LenProperties
<1>2. ASSUME NEW f, file = {f} PROVE Entries = Good(f)
  BY <1>2 DEF Entries
<1> QED
  BY <1>1, <1>2 DEF Entries, ToSet

(* readname passes over the marked words only.                             *)
LEMMA ReadOn ==
  ASSUME NEW words \in Seq(Word), FromFile(words)
  PROVE  /\ \E w \in Seq(Word) : shellstream' = {w} /\ Good(words) = Good(w) \cup validshell'
         /\ validshell' \subseteq Good(words)
         /\ validshell' = {} \/ \E s : validshell' = {s}
         /\ validshell' = {} => Good(words) = {}
<1> DEFINE good == {i \in DOMAIN words : words[i] \notin Marks}
<1>1. Len(words) \in Nat /\ DOMAIN words = 1 .. Len(words)
  BY LenProperties
<1>2. \A s : s \in Good(words) <=> \E i \in good : s = words[i]
  BY DEF Good
<1>3. CASE good = {}
  <2>1. validshell' = {} /\ shellstream' = {<<>>}
    BY <1>3 DEF FromFile, Marks
  <2>2. Good(words) = {} /\ Good(<<>>) = {}
    BY <1>2, <1>3 DEF Good
  <2>3. <<>> \in Seq(Word)
    OBVIOUS
  <2> QED
    BY <2>1, <2>2, <2>3
<1>4. CASE good # {}
  <2> DEFINE m == Min(good)
             w == SubSeq(words, m + 1, Len(words))
  <2>1. m \in good /\ \A y \in good : m <= y
    <3>1. good \subseteq Nat
      BY <1>1
    <3> HIDE DEF good
    <3> QED
      BY ONLY <1>4, <3>1, MinOf
  <2>2. m \in 1 .. Len(words) /\ words[m] \notin Marks
    BY <1>1, <2>1
  <2>3. validshell' = {words[m]} /\ shellstream' = {w}
    BY <1>4 DEF FromFile, Marks
  <2>4. \A i \in 1 .. Len(words) : words[i] \in Word
    BY ElementOfSeq
  <2> HIDE DEF m
  <2>5. /\ w \in Seq(Word) /\ Len(w) = Len(words) - m
        /\ \A i \in 1 .. Len(words) - m : w[i] = words[m + i]
    <3>1. m + 1 \in 1 .. Len(words) + 1 /\ Len(words) \in (m + 1) - 1 .. Len(words)
      BY <1>1, <2>2
    <3>2. /\ w \in Seq(Word) /\ Len(w) = Len(words) - (m + 1) + 1
          /\ \A i \in 1 .. Len(words) - (m + 1) + 1 : w[i] = words[(m + 1) + i - 1]
      BY <1>1, <2>4, <3>1, SubSeqProperties
    <3> HIDE DEF w
    <3> QED
      BY <1>1, <2>2, <3>2
  <2>6. DOMAIN w = 1 .. Len(words) - m
    BY <1>1, <2>2, <2>5, LenProperties
  <2> HIDE DEF w
  <2>7. \A s \in Good(w) : s \in Good(words)
    <3> SUFFICES ASSUME NEW i \in 1 .. Len(words) - m, w[i] \notin Marks
                 PROVE  w[i] \in Good(words)
      BY <2>6 DEF Good
    <3>1. m + i \in 1 .. Len(words) /\ words[m + i] = w[i]
      BY <1>1, <2>2, <2>5
    <3> QED
      BY <1>1, <3>1 DEF Good
  <2>8. \A s \in Good(words) : s \in Good(w) \cup {words[m]}
    <3> SUFFICES ASSUME NEW i \in good, i # m PROVE words[i] \in Good(w)
      BY <1>2
    <3>1. i \in 1 .. Len(words) /\ m <= i /\ words[i] \notin Marks
      BY <1>1, <2>1
    <3>2. i - m \in 1 .. Len(words) - m /\ m + (i - m) = i
      BY <1>1, <2>2, <3>1
    <3>3. w[i - m] = words[i]
      BY <2>5, <3>2
    <3> QED
      BY <2>6, <3>1, <3>2, <3>3 DEF Good
  <2>9. words[m] \in Good(words)
    BY <1>1, <2>2 DEF Good
  <2>10. Good(words) = Good(w) \cup {words[m]}
    BY <2>7, <2>8, <2>9
  <2> QED
    BY <2>3, <2>5, <2>9, <2>10
<1> QED
  BY <1>3, <1>4

LEMMA GetStep ==
  ASSUME ShellsType, UNCHANGED <<file, isvalid, caller>>,
         NextDefault \/ FirstDefault \/ NextFromFile
  PROVE  /\ ShellsType' /\ Entries' = Entries
         /\ Rest = Rest' \cup validshell'
         /\ validshell' = {} \/ \E s : validshell' = {s}
         /\ validshell' = {} => Rest' = {}
<1> DEFINE n == Len(default_shells)
           From(k) == {default_shells[i] : i \in k + 1 .. n}
<1>1. n \in Nat /\ n > 0
  BY ShellsAssumption, LenProperties, EmptySeq
<1>2. Entries' = Entries
  BY DEF Entries
<1>3. \A k \in 0 .. n - 1 : From(k) = From(k + 1) \cup {default_shells[k + 1]}
  BY <1>1
<1>4. From(n) = {}
  BY <1>1
<1>5. CASE NextDefault
  <2>1. default_index \in 1 .. n /\ file = {} /\ shellstream = {} /\ Rest = From(default_index)
    BY <1>1, <1>5 DEF NextDefault, ShellsType, Rest
  <2>2. CASE default_index < n
    <3>1. validshell' = {default_shells[default_index + 1]} /\ default_index' = default_index + 1
          /\ shellstream' = {}
      BY <1>5, <2>1, <2>2 DEF NextDefault
    <3>2. Rest' = From(default_index + 1)
      BY <2>1, <3>1 DEF Rest
    <3>3. From(default_index) = From(default_index + 1) \cup {default_shells[default_index + 1]}
      BY <1>1, <1>3, <2>1, <2>2
    <3>4. ShellsType'
      BY <1>1, <2>1, <2>2, <3>1 DEF ShellsType
    <3> QED
      BY <1>2, <2>1, <3>1, <3>2, <3>3, <3>4
  <2>3. CASE ~(default_index < n)
    <3>1. validshell' = {} /\ default_index' = n /\ default_index = n /\ shellstream' = {}
      BY <1>1, <1>5, <2>1, <2>3 DEF NextDefault
    <3>2. Rest' = {} /\ Rest = {}
      BY <1>1, <1>4, <2>1, <3>1 DEF Rest
    <3>3. ShellsType'
      BY <1>1, <2>1, <3>1 DEF ShellsType
    <3> QED
      BY <1>2, <3>1, <3>2, <3>3
  <2> QED
    BY <2>2, <2>3
<1>6. CASE FirstDefault
  <2>1. /\ default_index = 0 /\ file = {} /\ shellstream = {} /\ shellstream' = {}
        /\ validshell' = {default_shells[1]} /\ default_index' = 1
    BY <1>6 DEF FirstDefault
  <2>2. Rest = From(0)
    BY <2>1, EntriesAre DEF Rest
  <2>3. Rest' = From(1)
    BY <2>1 DEF Rest
  <2>4. From(0) = From(1) \cup {default_shells[1]}
    BY <1>1, <1>3
  <2>5. ShellsType'
    BY <1>1, <2>1 DEF ShellsType
  <2> QED
    BY <1>2, <2>1, <2>2, <2>3, <2>4, <2>5
<1>7. CASE NextFromFile
  <2>1. default_index = 0 /\ default_index' = 0
    BY <1>7 DEF NextFromFile
  <2>2. PICK words \in Seq(Word) : FromFile(words) /\ Rest = Good(words) /\ file # {}
    <3>1. CASE \E words \in shellstream : FromFile(words)
      <4>1. PICK words \in shellstream : FromFile(words)
        BY <3>1
      <4>2. shellstream = {words} /\ words \in Seq(Word) /\ file # {}
        BY <4>1 DEF ShellsType
      <4> QED
        BY <2>1, <4>1, <4>2 DEF Rest
    <3>2. CASE shellstream = {} /\ \E f \in file : FromFile(f)
      <4>1. PICK f \in file : FromFile(f)
        BY <3>2
      <4>2. file = {f} /\ f \in Seq(Word)
        BY <4>1 DEF ShellsType
      <4>3. Rest = Good(f)
        BY <2>1, <3>2, <4>2, EntriesAre DEF Rest
      <4> QED
        BY <4>1, <4>2, <4>3
    <3> QED
      BY <1>7, <3>1, <3>2 DEF NextFromFile
  <2>3. PICK w \in Seq(Word) : shellstream' = {w} /\ Good(words) = Good(w) \cup validshell'
    BY <2>2, ReadOn
  <2>4. /\ validshell' = {} \/ \E s : validshell' = {s}
        /\ validshell' = {} => Good(words) = {}
    BY <2>2, ReadOn
  <2>5. Rest' = Good(w)
    BY <2>1, <2>3 DEF Rest
  <2>6. ShellsType'
    BY <1>1, <2>1, <2>2, <2>3 DEF ShellsType
  <2> QED
    BY <1>2, <2>2, <2>3, <2>4, <2>5, <2>6
<1> QED
  BY <1>5, <1>6, <1>7

LEMMA SearchStep == ASSUME ShellsInv, [Next]_vars PROVE ShellsInv'
<1> USE DEF ShellsInv, SearchInv
<1>1. CASE setusershell
  <2>1. shellstream' = {} /\ default_index' = 0 /\ Entries' = Entries /\ Rest' = Entries
    BY <1>1 DEF setusershell, Rest, Entries
  <2> QED
    BY <1>1, <2>1 DEF setusershell, ShellsType
<1>2. CASE getusershell
  <2>1. /\ pc = "get" /\ pc' = "compare" /\ UNCHANGED <<file, isvalid, shell, caller>>
        /\ NextDefault \/ FirstDefault \/ NextFromFile
    BY <1>2 DEF getusershell, Get
  <2>2. /\ ShellsType' /\ Entries' = Entries
        /\ Rest = Rest' \cup validshell'
        /\ validshell' = {} \/ \E s : validshell' = {s}
        /\ validshell' = {} => Rest' = {}
    BY <2>1, GetStep
  <2> QED
    BY <2>1, <2>2
<1>3. CASE Compare
  <2>1. Entries' = Entries /\ Rest' = Rest
    BY <1>3 DEF Compare, CompareWhile, Entries, Rest
  <2> QED
    BY <1>3, <2>1 DEF Compare, CompareWhile, ShellsType
<1>4. CASE endusershell
  <2>1. Entries' = Entries
    BY <1>4 DEF endusershell, Entries
  <2> QED
    BY <1>4, <2>1 DEF endusershell, ShellsType
<1>5. CASE Check
  <2>1. Entries' = Entries
    BY <1>5 DEF Check, Entries
  <2> QED
    BY <1>5, <2>1 DEF Check, ShellsType
<1>6. CASE UNCHANGED vars
  BY <1>6 DEF vars, ShellsType, Entries, Rest
<1> QED
  BY <1>1, <1>2, <1>3, <1>4, <1>5, <1>6 DEF Next

THEOREM ShellsInvHolds == Spec => []ShellsInv
<1>1. Init => ShellsInv
  <2> SUFFICES ASSUME Init PROVE ShellsInv
    OBVIOUS
  <2>1. Len(default_shells) \in Nat
    BY ShellsAssumption, LenProperties
  <2>2. \A f \in Files : f \in Seq(Word)
    BY ShellsAssumption DEF Word, Marks
  <2>3. file = {} \/ \E f \in Seq(Word) : file = {f}
    BY <2>2 DEF Init
  <2>4. ShellsType
    <3>1. default_index \in 0 .. Len(default_shells)
      BY <2>1 DEF Init
    <3>2. isvalid = FALSE
      BY DEF Init
    <3>3. isvalid \in BOOLEAN
      BY ONLY <3>2
    <3>4. shellstream = {} /\ caller \in Callers /\ default_index = 0
      BY DEF Init
    <3>5. ~(default_index > 0)
      BY ONLY <3>4
    <3> QED
      BY ONLY <2>3, <3>1, <3>3, <3>4, <3>5 DEF ShellsType
  <2>5. SearchInv
    BY DEF Init, SearchInv
  <2> QED
    BY <2>4, <2>5 DEF ShellsInv
<1> QED
  BY <1>1, SearchStep, PTL DEF Spec

(* The entries are the shells listed, and the words of comments.           *)
LEMMA EntriesListed ==
  Listed \subseteq Entries /\ Entries \subseteq Listed \cup Commented
<1>1. CASE file = {}
  BY <1>1 DEF Listed, Entries
<1>2. CASE file # {}
  <2>1. Listed \subseteq Entries
    BY <1>2 DEF Listed, Entries, Good, Shells, Marks
  <2>2. ASSUME NEW f \in file, NEW i \in DOMAIN f, f[i] \notin Marks
        PROVE  f[i] \in Listed \cup Commented
    <3>1. i \in Shells(f)
      BY <2>2 DEF Shells, Marks
    <3>2. CASE OnComment(f, i)
      BY <2>2, <3>1, <3>2 DEF Commented
    <3>3. CASE ~OnComment(f, i)
      BY <1>2, <2>2, <3>1, <3>3 DEF Listed
    <3> QED
      BY <3>2, <3>3
  <2> QED
    BY <1>2, <2>1, <2>2 DEF Entries, Good
<1> QED
  BY <1>1, <1>2

(* A listed shell is run; one that is run is listed, or named in a comment.*)
THEOREM ListedIsRun == Spec => []RunsWhatIsListed
<1>1. ShellsInv => RunsWhatIsListed
  BY EntriesListed DEF ShellsInv, SearchInv, RunsWhatIsListed
<1> QED
  BY <1>1, ShellsInvHolds, PTL
-----------------------------------------------------------------------------
(* Outside the root directory basename is that of POSIX.                   *)
LEMMA BasenameIsPosix ==
  ASSUME NEW p \in Seq(STRING), p # <<>>, p[1] = "/", ~InRoot(p)
  PROVE  basename(p) = PosixBasename(p)
<1> DEFINE n == Len(p)
           solid == {i \in DOMAIN p : p[i] # "/"}
           E == solid \cup {1}
           Z == solid \cup {0}
           end == LastSolid(p)
<1>1. n \in Nat /\ n > 0 /\ DOMAIN p = 1 .. n
  BY LenProperties, EmptySeq
<1>2. Slashes(p, 2, end) # {}
  BY DEF InRoot
<1>3. E \subseteq 0 .. n /\ E # {} /\ Z \subseteq 0 .. n /\ Z # {}
  BY <1>1
<1>4. \A i : /\ i \in solid <=> i \in 1 .. n /\ p[i] # "/"
             /\ i \in E <=> i \in solid \/ i = 1
             /\ i \in Z <=> i \in solid \/ i = 0
  BY <1>1
<1>5. end = Max(E)
  BY DEF LastSolid
<1>6. PosixBasename(p) =
        IF Max(Z) = 0 THEN <<"/">>
        ELSE SubSeq(p, Max(Slashes(p, 1, Max(Z)) \cup {0}) + 1, Max(Z))
  BY DEF PosixBasename
<1> HIDE DEF n, solid, E, Z, end
<1>7. end \in E /\ (\A y \in E : end >= y) /\ Max(Z) \in Z /\ (\A y \in Z : Max(Z) >= y)
  BY ONLY <1>1, <1>3, <1>5, MaxOf
<1>8. PICK k \in 2 .. end : p[k] = "/"
  BY <1>2 DEF Slashes
<1>9. end \in 2 .. n /\ p[end] # "/" /\ end \in solid
  <2>1. end \in 0 .. n
    BY <1>3, <1>7
  <2>2. end # 1
    BY <1>1, <1>8, <2>1
  <2>3. end \in solid
    BY <1>4, <1>7, <2>2
  <2> QED
    BY <1>1, <1>4, <1>8, <2>1, <2>3
<1>10. Max(Z) = end
  <2>1. Max(Z) >= end
    BY <1>4, <1>7, <1>9
  <2>2. Max(Z) \in 0 .. n
    BY <1>3, <1>7
  <2>3. Max(Z) \in E
    BY <1>1, <1>4, <1>7, <1>9, <2>1, <2>2
  <2>4. end >= Max(Z)
    BY <1>7, <2>3
  <2> QED
    BY <1>1, <1>9, <2>1, <2>2, <2>4
<1> DEFINE A == Slashes(p, 1, end) \cup {0}
           C == Slashes(p, 2, end) \cup {0}
<1>11. /\ A \subseteq 0 .. n /\ A # {} /\ C \subseteq 0 .. n /\ C # {}
       /\ k \in C
       /\ \A i : (i \in A <=> i \in C \/ i = 1) 
  BY <1>1, <1>8, <1>9, p[1] = "/" DEF Slashes
<1>12. basename(p) = SubSeq(p, Max(C) + 1, end)
  <2>1. k \in Slashes(p, 1, n - 1)
    BY <1>1, <1>8, <1>9 DEF Slashes
  <2>2. basename(p) = BasenameTo(p, end)
    BY DEF basename, end
  <2>3. Slashes(p, 1, Len(p) - 1) # {}
    BY <2>1 DEF n
  <2> QED
    BY <2>2, <2>3 DEF BasenameTo
<1>13. PosixBasename(p) = SubSeq(p, Max(A) + 1, end)
  <2>1. Max(Z) # 0
    BY <1>1, <1>9, <1>10
  <2>2. PosixBasename(p) = SubSeq(p, Max(Slashes(p, 1, Max(Z)) \cup {0}) + 1, Max(Z))
    BY <1>6, <2>1
  <2> QED
    BY ONLY <1>10, <2>2
<1> HIDE DEF A, C
<1>14. Max(A) \in A /\ (\A y \in A : Max(A) >= y) /\ Max(C) \in C /\ (\A y \in C : Max(C) >= y)
  BY ONLY <1>1, <1>11, MaxOf
<1>15. Max(A) = Max(C)
  <2>1. Max(C) >= k /\ Max(C) \in A
    BY <1>11, <1>14
  <2>2. Max(A) >= Max(C)
    BY <1>14, <2>1
  <2>3. Max(A) \in 0 .. n /\ Max(C) \in 0 .. n /\ k \in 2 .. n
    <3>1. Max(A) \in A /\ Max(C) \in C /\ A \subseteq 0 .. n /\ C \subseteq 0 .. n
      BY <1>11, <1>14
    <3>2. Max(A) \in 0 .. n /\ Max(C) \in 0 .. n
      BY ONLY <3>1
    <3>3. k \in 2 .. n
      BY <1>1, <1>8, <1>9
    <3> QED
      BY <3>2, <3>3
  <2>4. Max(A) # 1
    BY <1>1, <2>1, <2>2, <2>3
  <2>5. Max(A) \in C
    BY <1>11, <1>14, <2>4
  <2>6. Max(C) >= Max(A)
    BY <1>14, <2>5
  <2> QED
    BY <1>1, <2>2, <2>3, <2>6
<1> QED
  BY <1>12, <1>13, <1>15

(* rootsh does not run itself from outside the root directory.             *)
THEOREM NotRunItself == Spec => []NeverItself
<1>1. ShellsInv => NeverItself
  <2> SUFFICES ASSUME ShellsInv, pc = "done", NEW s \in shell, s # defaultshell,
                      PosixBasename(s) = progName, s[1] = "/", ~InRoot(s)
               PROVE  FALSE
    BY DEF NeverItself
  <2>1. s = caller /\ caller \in Callers /\ basename(s) # progName
    BY DEF ShellsInv, ShellsType, SearchInv
  <2>2. s \in Seq(STRING)
    BY <2>1, ShellsAssumption
  <2>3. s # <<>>
    <3>1. PosixBasename(<<>>) = <<".">> /\ basename(<<>>) = <<".">>
      BY DEF PosixBasename, basename, BasenameTo
    <3> QED
      BY <2>1, <3>1
  <2> QED
    BY <2>1, <2>2, <2>3, BasenameIsPosix
<1> QED
  BY <1>1, ShellsInvHolds, PTL
=============================================================================
