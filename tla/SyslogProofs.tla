---------------------------- MODULE SyslogProofs ----------------------------
(***************************************************************************)
(* write2syslog, for every set of characters, every cutting of the output  *)
(* into calls and every length of it.                                      *)
(*   BufferInv: what the buffer holds between calls and in endlogging's.   *)
(*   CountersOK, Numbered: the numbers of the lines, the types.            *)
(*   The lines sent are those of LineLog (LinesAreKept), by how NoLF reads *)
(*   a text: NoLFConcat, and LineFound, what SendLine takes away.          *)
(*   SameHeard: nothing is lost (NothingIsLost), by how Hearing reads a    *)
(*   text: Alike, and FlattenAppend.                                       *)
(* A recursive function is reasoned about with Machine, that it has a      *)
(* value at every place, and Induct.                                       *)
(***************************************************************************)
EXTENDS SyslogWriter, SequenceTheorems, WellFoundedInduction, TLAPS

Alphabet == Chars \cup {CR, LF}

BufferOK ==
  /\ pc \in {"idle", "scan", "closed", "exited"}
  /\ rptr \in Seq(Alphabet)
  /\ tptr \in 0 .. Len(rptr)
  /\ closing \in BOOLEAN

(* In endlogging's call the buffer ends with its CR and LF, and holds no   *)
(* other CR; tptr is at the beginning or just behind the CR.               *)
FlushTail ==
  /\ Len(rptr) >= 2 /\ tptr \in {0, Len(rptr) - 1}
  /\ rptr[Len(rptr) - 1] = CR /\ rptr[Len(rptr)] = LF

BufferInv ==
  /\ BufferOK
  /\ NoLineKept
  /\ pc = "idle" => tptr = 0 /\ ~closing
  /\ pc = "scan" /\ closing => FlushTail
  /\ pc = "scan" /\ closing => \A i \in 1 .. Len(rptr) - 2 : rptr[i] # CR
  /\ ClosedEmpty

LEMMA EnterStep ==
  ASSUME BufferInv, NEW chunk \in Seq(Alphabet), chunk # <<>>, Enter(chunk),
         \/ UNCHANGED closing
         \/ closing' = TRUE /\ chunk = <<CR, LF>>
  PROVE  BufferInv'
<1> USE DEF BufferInv, BufferOK
<1> DEFINE taken == IF rflag /\ chunk[1] = LF THEN Tail(chunk) ELSE chunk
<1>1. taken \in Seq(Alphabet)
  BY HeadTailProperties
<1>2. rptr' = rptr \o taken /\ tptr' = 0 /\ pc' = "scan" /\ pc = "idle" /\ ~closing
  BY DEF Enter
<1> HIDE DEF taken
<1>3. /\ rptr' \in Seq(Alphabet) /\ Len(rptr') = Len(rptr) + Len(taken)
      /\ \A i \in 1 .. Len(rptr) + Len(taken) :
           rptr'[i] = IF i <= Len(rptr) THEN rptr[i] ELSE taken[i - Len(rptr)]
  BY <1>1, <1>2, ConcatProperties
<1>4. Len(rptr) \in Nat /\ Len(taken) \in Nat
  BY <1>1, LenProperties
<1>5. BufferOK' /\ NoLineKept' /\ ClosedEmpty'
  <2>1. closing' \in BOOLEAN
    BY Zenon DEF BufferOK
  <2> QED
    BY <1>2, <1>3, <1>4, <2>1 DEF NoLineKept, ClosedEmpty
<1>6. CASE closing'
  <2>1. chunk = <<CR, LF>>
    BY <1>2, <1>6
  <2>2. taken = <<CR, LF>>
    BY <2>1 DEF taken, CR, LF
  <2>3. Len(taken) = 2 /\ taken[1] = CR /\ taken[2] = LF
    BY <2>2
  <2>4. FlushTail'
    BY <1>2, <1>3, <1>4, <2>3 DEF FlushTail
  <2>5. \A i \in 1 .. Len(rptr) : rptr[i] # CR
    BY <1>2 DEF NoLineKept, NoCR
  <2>6. \A i \in 1 .. Len(rptr') - 2 : rptr'[i] # CR
    BY <1>3, <1>4, <2>3, <2>5
  <2> QED
    BY <1>2, <1>5, <2>4, <2>6
<1> QED
  BY <1>2, <1>5, <1>6

LEMMA SendStep == ASSUME BufferInv, SendLine PROVE BufferInv'
<1> USE DEF BufferInv, BufferOK
<1>1. pc = "scan" /\ UNCHANGED <<pc, rptr, closing>>
  BY DEF SendLine, Send
<1>2. PICK lptr \in tptr + 1 .. Len(rptr) : FoundCR(lptr) /\ tptr' = BehindCR[lptr]
  BY DEF SendLine, Send
<1>3. Len(rptr) \in Nat
  BY LenProperties
<1>4. lptr \in 1 .. Len(rptr)
  BY <1>2, <1>3
<1>5. tptr' = IF lptr + 1 < Len(rptr) /\ rptr[lptr + 1] = LF THEN lptr + 1 ELSE lptr
  BY <1>2, <1>4 DEF BehindCR
<1>6. tptr' \in 0 .. Len(rptr)
  BY <1>3, <1>4, <1>5
<1>7. CASE closing
  <2>1. rptr[lptr] = CR
    BY <1>2 DEF FoundCR
  <2>2. lptr = Len(rptr) - 1
    BY <1>1, <1>3, <1>4, <1>7, <2>1 DEF FlushTail, CR, LF
  <2>3. tptr' = Len(rptr) - 1
    BY <1>3, <1>5, <2>2
  <2> QED
    BY <1>1, <1>6, <2>3 DEF FlushTail, NoLineKept, ClosedEmpty
<1> QED
  BY <1>1, <1>6, <1>7 DEF NoLineKept, ClosedEmpty

LEMMA KeepStep == ASSUME BufferInv, KeepRest PROVE BufferInv'
<1> USE DEF BufferInv, BufferOK
<1>1. /\ pc = "scan" /\ NoCR /\ tptr' = 0 /\ closing' = closing
      /\ pc' = IF closing THEN "closed" ELSE "idle"
  BY DEF KeepRest, Keep
<1>2. PICK k \in tptr .. Len(rptr) :
        /\ k < Len(rptr) => rptr[k + 1] # LF
        /\ rptr' = SubSeq(rptr, k + 1, Len(rptr))
  BY DEF KeepRest, Keep
<1>3. Len(rptr) \in Nat /\ k \in Nat /\ k <= Len(rptr) /\ tptr <= k
  BY <1>2, LenProperties
<1>4. \A i \in k + 1 .. Len(rptr) : rptr[i] \in Alphabet
  BY <1>3, ElementOfSeq
<1>5. /\ rptr' \in Seq(Alphabet)
      /\ Len(rptr') = IF k + 1 <= Len(rptr) THEN Len(rptr) - (k + 1) + 1 ELSE 0
      /\ \A i \in 1 .. Len(rptr) - (k + 1) + 1 : rptr'[i] = rptr[k + 1 + i - 1]
  BY <1>2, <1>3, <1>4, SubSeqProperties
<1>6. BufferOK'
  BY <1>1, <1>3, <1>5
<1>7. \A i \in 1 .. Len(rptr') : rptr'[i] # CR
  BY <1>1, <1>3, <1>5 DEF NoCR
<1>8. CASE closing
  <2>1. tptr = Len(rptr) - 1 /\ rptr[Len(rptr)] = LF
    BY <1>1, <1>3, <1>8 DEF FlushTail, NoCR
  <2>2. k = Len(rptr)
    BY <1>2, <1>3, <2>1
  <2>3. rptr' = <<>>
    BY <1>2, <1>3, <2>2, SubSeqEmpty
  <2> QED
    BY <1>1, <1>6, <1>8, <2>3 DEF NoLineKept, ClosedEmpty
<1> QED
  BY <1>1, <1>6, <1>7, <1>8 DEF NoLineKept, NoCR, ClosedEmpty

(* A chunk of output is a sequence that is not empty.                      *)
LEMMA ChunkIsSeq ==
  ASSUME NEW n, NEW chunk \in Chunks(n)
  PROVE  chunk \in Seq(Alphabet) /\ chunk # <<>>
<1>1. PICK k \in 1 .. n : chunk \in [1 .. k -> Chars]
  BY DEF Chunks
<1>2. k \in Nat /\ k >= 1
  BY <1>1
<1>3. chunk \in Seq(Alphabet)
  BY <1>1, <1>2, SeqDef DEF Alphabet
<1> QED
  BY <1>1, <1>2, <1>3

THEOREM BufferInvHolds == Spec => []BufferInv
<1>1. Init => BufferInv
  <2>1. Init => closing \in BOOLEAN
    BY Zenon DEF Init
  <2> QED
    BY <2>1, EmptySeq DEF Init, BufferInv, BufferOK, NoLineKept, NoCR, ClosedEmpty
<1>2. BufferInv /\ [Next]_vars => BufferInv'
  <2> SUFFICES ASSUME BufferInv, [Next]_vars PROVE BufferInv'
    OBVIOUS
  <2>1. CASE Write
    <3> DEFINE n == IF Room < MaxChunk THEN Room ELSE MaxChunk
    <3>1. PICK chunk \in Chunks(n) : Enter(chunk) /\ UNCHANGED closing
      BY <2>1 DEF Write
    <3> QED
      BY <3>1, ChunkIsSeq, EnterStep
  <2>2. CASE Close
    <3>1. Enter(<<CR, LF>>) /\ closing' = TRUE
      BY <2>2 DEF Close, FlushWith
    <3>2. <<CR, LF>> \in Seq(Alphabet) /\ <<CR, LF>> # <<>>
      BY DEF Alphabet
    <3> QED
      BY <3>1, <3>2, EnterStep
  <2>3. CASE SendLine
    BY <2>3, SendStep
  <2>4. CASE KeepRest
    BY <2>4, KeepStep
  <2>5. CASE OutOfMemory
    BY <2>5 DEF OutOfMemory, BufferInv, BufferOK, NoLineKept, ClosedEmpty
  <2>6. CASE UNCHANGED vars
    BY <2>6 DEF vars, BufferInv, BufferOK, NoLineKept, NoCR, FlushTail, ClosedEmpty
  <2> QED
    BY <2>1, <2>2, <2>3, <2>4, <2>5, <2>6 DEF Next
<1> QED
  BY <1>1, <1>2, PTL DEF Spec

(* Between calls no complete line waits in the buffer.                     *)
THEOREM NoLineIsKept == Spec => []NoLineKept
  BY BufferInvHolds, PTL DEF BufferInv

(* After endlogging's call the buffer is empty.                            *)
THEOREM ClosedIsEmpty == Spec => []ClosedEmpty
  BY BufferInvHolds, PTL DEF BufferInv
-----------------------------------------------------------------------------
(* The numbers of the lines.                                               *)

LEMMA Small ==
  ASSUME NEW w \in Nat, w > 0, NEW d \in Int, NEW e \in Int, d * w = e, -w < e, e < w
  PROVE  d = 0
<1>1. ASSUME d >= 1 PROVE FALSE
  <2>1. PICK f \in Nat : d = f + 1
    BY <1>1
  <2>2. f * w \in Nat /\ d * w = f * w + w
    BY <2>1
  <2> QED
    BY <2>2
<1>2. ASSUME d <= -1 PROVE FALSE
  <2>1. PICK f \in Nat : d = -1 - f
    BY <1>2
  <2>2. f * w \in Nat /\ d * w = -w - f * w
    BY <2>1
  <2> QED
    BY <2>2
<1> QED
  BY <1>1, <1>2

LEMMA Wrapped ==
  ASSUME NEW w \in Nat, w > 0, NEW x \in Int, NEW k \in Int
  PROVE  (x + k * w) % w = x % w
<1>1. PICK q \in Int : x = q * w + (x % w) /\ x % w \in 0 .. w - 1
  OBVIOUS
<1>2. PICK p \in Int : x + k * w = p * w + ((x + k * w) % w) /\ (x + k * w) % w \in 0 .. w - 1
  OBVIOUS
<1> DEFINE r == x % w
           u == (x + k * w) % w
<1>3. r \in 0 .. w - 1 /\ u \in 0 .. w - 1 /\ (p - k - q) * w = r - u
  BY <1>1, <1>2
<1> HIDE DEF r, u
<1>4. r - u \in Int /\ -w < r - u /\ r - u < w
  BY <1>3
<1>5. p - k - q = 0
  BY <1>3, <1>4, Small
<1>6. r - u = 0
  BY <1>3, <1>5
<1> QED
  BY <1>3, <1>6 DEF r, u

LEMMA SwitchType == ASSUME NEW vt \in VtStates, NEW c \in Int PROVE Switch(vt, c) \in VtStates
  BY DEF Switch, VtStates

LEMMA NextStateType ==
  ASSUME NEW vt \in VtStates, NEW c \in 0 .. 255
  PROVE  NextState[vt][c] \in VtStates
<1>1. Switch(vt, c) \in VtStates /\ Switch("Normal", c + 64) \in VtStates
  BY SwitchType DEF VtStates
<1> QED
  BY <1>1 DEF NextState, VtStates

(* The least of some naturals.                                             *)
Less == {ss \in Nat \X Nat : ss[1] < ss[2]}
LEMMA LeastOf ==
  ASSUME NEW S, S \subseteq Nat, S # {}
  PROVE  \E x \in S : \A y \in S : x <= y
<1>1. IsWellFoundedOn(Less, Nat)
  BY NatLessThanWellFounded DEF OpToRel, Less
<1>2. PICK x \in S : \A y \in S : <<y, x>> \notin Less
  BY <1>1, WFMin
<1>3. \A y \in S : x <= y
  <2> SUFFICES ASSUME NEW y \in S PROVE x <= y
    OBVIOUS
  <2>1. x \in Nat /\ y \in Nat /\ ~(y < x)
    BY <1>2 DEF Less
  <2> QED
    BY <2>1
<1> QED
  BY <1>3

(* Induction up to n, for a property given as a set.                       *)
LEMMA Induct ==
  ASSUME NEW n \in Nat, NEW P, 0 \in P, \A i \in 1 .. n : i - 1 \in P => i \in P
  PROVE  \A i \in 0 .. n : i \in P
<1> DEFINE Bad == {i \in 0 .. n : i \notin P}
<1> SUFFICES ASSUME Bad # {} PROVE FALSE
  OBVIOUS
<1>1. Bad \subseteq Nat
  OBVIOUS
<1>2. PICK k \in Bad : \A y \in Bad : k <= y
  <2> HIDE DEF Bad
  <2> QED
    BY <1>1, LeastOf
<1>3. k \in 1 .. n
  BY <1>2
<1>4. k - 1 \notin Bad
  <2>1. ~(k <= k - 1)
    BY <1>3
  <2> HIDE DEF Bad
  <2> QED
    BY <1>2, <2>1
<1>5. k - 1 \in P
  BY <1>3, <1>4
<1> QED
  BY <1>2, <1>3, <1>5

(* A machine that reads a sequence has a state after each of its elements. *)
Reads(s, X, x0, step, g) ==
  /\ g \in [0 .. Len(s) -> X]
  /\ g[0] = x0
  /\ \A i \in 1 .. Len(s) : g[i] = step[s[i]][g[i - 1]]

LEMMA Machine ==
  ASSUME NEW C, NEW s \in Seq(C), NEW X, NEW x0 \in X, NEW step \in [C -> [X -> X]]
  PROVE  \E g : Reads(s, X, x0, step, g)
<1> DEFINE n == Len(s)
           Runs(g, k) == /\ g \in [0 .. k -> X] /\ g[0] = x0
                         /\ \A i \in 1 .. k : g[i] = step[s[i]][g[i - 1]]
           P == {k \in 0 .. n : \E g : Runs(g, k)}
<1>1. n \in Nat /\ \A i \in 1 .. n : s[i] \in C
  BY LenProperties, ElementOfSeq
<1>2. 0 \in P
  <2> DEFINE one == [i \in 0 .. 0 |-> x0]
  <2>1. Runs(one, 0)
    OBVIOUS
  <2>2. 0 \in 0 .. n
    BY <1>1
  <2> HIDE DEF one, Runs, n
  <2> QED
    BY <2>1, <2>2
<1>3. ASSUME NEW k \in 1 .. n, k - 1 \in P PROVE k \in P
  <2>1. PICK g : Runs(g, k - 1)
    BY <1>3
  <2>2. k \in Nat /\ k - 1 \in Nat /\ k - 1 \in 0 .. k - 1
    BY <1>1, <1>3
  <2> DEFINE new == step[s[k]][g[k - 1]]
             h == [i \in 0 .. k |-> IF i = k THEN new ELSE g[i]]
  <2>3. g \in [0 .. k - 1 -> X] /\ g[0] = x0 /\ g[k - 1] \in X
    BY <2>1, <2>2
  <2>4. new \in X
    BY <1>1, <1>3, <2>3
  <2>5. \A i \in 1 .. k - 1 : g[i] = step[s[i]][g[i - 1]]
    BY <2>1
  <2> HIDE DEF Runs, P, n
  <2>6. \A i \in 0 .. k : h[i] \in X
    <3> HIDE DEF new
    <3> QED
      BY <2>2, <2>3, <2>4
  <2>7. h \in [0 .. k -> X] /\ h[0] = x0
    <3> HIDE DEF new
    <3> QED
      BY <2>2, <2>3, <2>4
  <2>8. ASSUME NEW i \in 1 .. k PROVE h[i] = step[s[i]][h[i - 1]]
    <3>1. i - 1 \in 0 .. k /\ i - 1 # k /\ h[i - 1] = g[i - 1]
      BY <2>2
    <3>2. CASE i = k
      BY <3>1, <3>2
    <3>3. CASE i # k
      <4>1. i \in 1 .. k - 1 /\ h[i] = g[i]
        BY <2>2, <3>3
      <4> QED
        BY <2>5, <3>1, <4>1
    <3> QED
      BY <3>2, <3>3
  <2> HIDE DEF h
  <2>9. Runs(h, k)
    BY <2>7, <2>8 DEF Runs
  <2>10. k \in 0 .. n
    BY <1>1, <1>3
  <2> QED
    BY <2>9, <2>10 DEF P
<1>4. n \in P
  <2> HIDE DEF P, n
  <2>1. \A i \in 0 .. n : i \in P
    BY <1>1, <1>2, <1>3, Induct
  <2> QED
    BY <1>1, <2>1
<1>5. PICK g : Runs(g, n)
  BY <1>4
<1>6. Reads(s, X, x0, step, g)
  BY <1>5 DEF Reads
<1> QED
  BY ONLY <1>6

(* stripesc has a state after each character of a line.                    *)
LEMMA StateAfterType ==
  ASSUME NEW vt \in VtStates, NEW line \in Seq(0 .. 255)
  PROVE  StateAfter(vt, line)[Len(line)] \in VtStates
<1> DEFINE n == Len(line)
           Byte == 0 .. 255
           step == [c \in Byte |-> [v \in VtStates |-> NextState[v][c]]]
<1>1. n \in Nat /\ \A i \in 1 .. n : line[i] \in Byte
  BY LenProperties, ElementOfSeq
<1>2. step \in [Byte -> [VtStates -> VtStates]]
  BY NextStateType
<1>3. PICK g \in [0 .. n -> VtStates] :
        g[0] = vt /\ \A i \in 1 .. n : g[i] = step[line[i]][g[i - 1]]
  <2>1. line \in Seq(Byte) /\ vt \in VtStates
    OBVIOUS
  <2> HIDE DEF step, Byte
  <2>2. \E g : Reads(line, VtStates, vt, step, g)
    BY ONLY <1>2, <2>1, Machine
  <2> QED
    BY <2>2 DEF Reads
<1>4. \A i \in 1 .. n : g[i] = NextState[g[i - 1]][line[i]]
  <2> SUFFICES ASSUME NEW i \in 1 .. n PROVE g[i] = NextState[g[i - 1]][line[i]]
    OBVIOUS
  <2>1. i - 1 \in 0 .. n
    BY <1>1
  <2>2. g[i - 1] \in VtStates /\ line[i] \in Byte
    BY ONLY <1>1, <1>3, <2>1
  <2> QED
    BY <1>3, <2>2
<1>5. g = [i \in 0 .. n |-> IF i = 0 THEN vt ELSE NextState[g[i - 1]][line[i]]]
  BY <1>1, <1>3, <1>4
<1> DEFINE st == StateAfter(vt, line)
<1>6. st = [i \in 0 .. n |-> IF i = 0 THEN vt ELSE NextState[st[i - 1]][line[i]]]
  BY <1>5 DEF StateAfter
<1> HIDE DEF st
<1> DEFINE P == {i \in 0 .. n : st[i] \in VtStates}
<1>7. 0 \in P
  BY <1>1, <1>6
<1>8. ASSUME NEW i \in 1 .. n, i - 1 \in P PROVE i \in P
  <2>1. st[i] = NextState[st[i - 1]][line[i]] /\ i \in 0 .. n
    BY <1>1, <1>6
  <2> QED
    BY <1>1, <1>8, <2>1, NextStateType
<1>9. n \in P
  <2> HIDE DEF P, n
  <2>1. \A i \in 0 .. n : i \in P
    BY <1>1, <1>7, <1>8, Induct
  <2> QED
    BY <1>1, <2>1
<1> QED
  BY <1>9 DEF st

(* A sequence cut in two.                                                  *)
LEMMA TwoParts ==
  ASSUME NEW T, NEW s \in Seq(T), NEW k \in 0 .. Len(s)
  PROVE  /\ SubSeq(s, 1, k) \in Seq(T) /\ SubSeq(s, k + 1, Len(s)) \in Seq(T)
         /\ Len(SubSeq(s, 1, k)) = k /\ Len(SubSeq(s, k + 1, Len(s))) = Len(s) - k
         /\ \A i \in 1 .. k : SubSeq(s, 1, k)[i] = s[i]
         /\ \A i \in 1 .. Len(s) - k : SubSeq(s, k + 1, Len(s))[i] = s[k + i]
         /\ s = SubSeq(s, 1, k) \o SubSeq(s, k + 1, Len(s))
<1> DEFINE n == Len(s)
           a == SubSeq(s, 1, k)
           b == SubSeq(s, k + 1, n)
<1>1. n \in Nat /\ k \in Nat /\ k <= n /\ \A i \in 1 .. n : s[i] \in T
  BY LenProperties, ElementOfSeq
<1> HIDE DEF n
<1>2. a \in Seq(T) /\ Len(a) = k /\ \A i \in 1 .. k : a[i] = s[i]
  <2>1. \A i \in 1 .. k : s[i] \in T
    BY <1>1
  <2>2. /\ a \in Seq(T) /\ Len(a) = IF 1 <= k THEN k - 1 + 1 ELSE 0
        /\ \A i \in 1 .. k - 1 + 1 : a[i] = s[1 + i - 1]
    BY <1>1, <2>1, SubSeqProperties
  <2> HIDE DEF a
  <2> QED
    BY <1>1, <2>2
<1>3. b \in Seq(T) /\ Len(b) = n - k /\ \A i \in 1 .. n - k : b[i] = s[k + i]
  <2>1. \A i \in k + 1 .. n : s[i] \in T
    BY <1>1
  <2>2. /\ b \in Seq(T) /\ Len(b) = IF k + 1 <= n THEN n - (k + 1) + 1 ELSE 0
        /\ \A i \in 1 .. n - (k + 1) + 1 : b[i] = s[(k + 1) + i - 1]
    BY <1>1, <2>1, SubSeqProperties
  <2> HIDE DEF b
  <2> QED
    BY <1>1, <2>2
<1> HIDE DEF a, b
<1>4. /\ a \o b \in Seq(T) /\ Len(a \o b) = n
      /\ \A i \in 1 .. n : (a \o b)[i] = IF i <= k THEN a[i] ELSE b[i - k]
  <2>1. /\ a \o b \in Seq(T) /\ Len(a \o b) = Len(a) + Len(b)
        /\ \A i \in 1 .. Len(a) + Len(b) :
             (a \o b)[i] = IF i <= Len(a) THEN a[i] ELSE b[i - Len(a)]
    BY ONLY <1>2, <1>3, ConcatProperties
  <2>2. Len(a) + Len(b) = n
    BY <1>1, <1>2, <1>3
  <2> QED
    BY ONLY <1>2, <2>1, <2>2
<1>5. ASSUME NEW i \in 1 .. n PROVE (a \o b)[i] = s[i]
  <2>1. CASE i <= k
    BY <1>1, <1>2, <1>4, <2>1
  <2>2. CASE ~(i <= k)
    <3>1. i - k \in 1 .. n - k /\ k + (i - k) = i
      BY <1>1, <2>2
    <3> QED
      BY <1>3, <1>4, <2>2, <3>1
  <2> QED
    BY <2>1, <2>2
<1>6. s = a \o b
  BY <1>4, <1>5, SeqEqual DEF n
<1> QED
  BY <1>2, <1>3, <1>6 DEF a, b, n

(* The part of a text that a C string has, and the rest.                   *)
LEMMA CStringIsPart ==
  ASSUME NEW C, NEW text \in Seq(C)
  PROVE  \E d \in Seq(C) :
           /\ text = CString(text) \o d
           /\ CString(text) \in Seq(C \ {NUL})
           /\ d = <<>> \/ d[1] = NUL
<1> DEFINE n == Len(text)
           Ends == {k \in 0 .. n : k < n => text[k + 1] = NUL}
<1>1. n \in Nat /\ n \in Ends /\ Ends \subseteq Nat /\ \A i \in 1 .. n : text[i] \in C
  BY LenProperties, ElementOfSeq
<1>2. PICK k \in Ends : \A y \in Ends : k <= y
  <2> HIDE DEF Ends
  <2> QED
    BY <1>1, LeastOf
<1>3. \A i \in 1 .. k : text[i] # NUL
  <2> SUFFICES ASSUME NEW i \in 1 .. k, text[i] = NUL PROVE FALSE
    OBVIOUS
  <2>1. i - 1 \in Ends /\ ~(k <= i - 1)
    BY <1>1, <1>2
  <2> QED
    BY <1>2, <2>1
<1>4. k \in 0 .. n /\ EndsAt(text, k)
  BY <1>2, <1>3 DEF EndsAt
<1>5. PICK m \in 0 .. n : EndsAt(text, m) /\ CString(text) = SubSeq(text, 1, m)
  BY <1>4 DEF CString
<1> DEFINE c == CString(text)
           d == SubSeq(text, m + 1, n)
<1>6. /\ text = c \o d /\ d \in Seq(C) /\ Len(d) = n - m
      /\ \A i \in 1 .. n - m : d[i] = text[m + i]
  BY <1>5, TwoParts
<1>7. c \in Seq(C \ {NUL})
  <2>1. \A i \in 1 .. m : text[i] \in C \ {NUL}
    BY <1>1, <1>5 DEF EndsAt
  <2> QED
    BY <1>1, <1>5, <2>1, SubSeqProperties
<1>8. d = <<>> \/ d[1] = NUL
  <2>1. CASE m = n
    BY <1>1, <1>6, <2>1, EmptySeq
  <2>2. CASE m < n
    <3>1. 1 \in 1 .. n - m
      BY <1>1, <1>5, <2>2
    <3> QED
      BY <1>5, <1>6, <2>2, <3>1 DEF EndsAt
  <2> QED
    BY <1>1, <1>5, <2>1, <2>2
<1> HIDE DEF c, d
<1> QED
  BY <1>6, <1>7, <1>8 DEF c

LEMMA CStringIsSeq ==
  ASSUME NEW C, NEW text \in Seq(C)
  PROVE  CString(text) \in Seq(C)
<1>1. CString(text) \in Seq(C \ {NUL})
  BY CStringIsPart
<1>2. C \ {NUL} \subseteq C
  OBVIOUS
<1> QED
  BY <1>1, <1>2, SeqMonotonic

(* What the type invariant says beyond BufferOK, and how the numbers of    *)
(* the messages come about.                                                *)
CountersOK ==
  /\ rflag \in BOOLEAN
  /\ linecnt \in 0 .. LineWrap - 1
  /\ vtstate \in VtStates
  /\ received \in Seq(Alphabet)

Numbered ==
  /\ \E S : sent \in Seq(S)
  /\ \E q \in Nat : Len(sent) = q * LineWrap + linecnt
  /\ \A i \in 1 .. Len(sent) :
       /\ sent[i].num \in 0 .. LineWrap - 1
       /\ \E q \in Nat : i - 1 = q * LineWrap + sent[i].num

LEMMA EnterCounts ==
  ASSUME CountersOK, Numbered, NEW chunk \in Seq(Alphabet), Enter(chunk)
  PROVE  CountersOK' /\ Numbered'
<1>1. rflag' = FALSE
  BY DEF Enter
<1>2. rflag' \in BOOLEAN
  BY ONLY <1>1
<1>3. received' \in Seq(Alphabet)
  BY ConcatProperties DEF Enter, CountersOK
<1> QED
  BY <1>2, <1>3 DEF Enter, CountersOK, Numbered

LEMMA SendCounts ==
  ASSUME BufferInv, CountersOK, Numbered, SendLine
  PROVE  CountersOK' /\ Numbered'
<1> USE WriterAssumption
<1>1. PICK lptr \in tptr + 1 .. Len(rptr) :
        LET r == stripesc(vtstate, CString(SubSeq(rptr, tptr + 1, lptr - 1)))
        IN sent' = Append(sent, [num |-> linecnt, text |-> r.line]) /\ vtstate' = r.vt
  BY DEF SendLine, Send
<1> DEFINE line == CString(SubSeq(rptr, tptr + 1, lptr - 1))
           msg == [num |-> linecnt, text |-> stripesc(vtstate, line).line]
<1>2. rptr \in Seq(0 .. 255) /\ Len(rptr) \in Nat /\ tptr \in 0 .. Len(rptr)
  <2>1. Alphabet \subseteq 0 .. 255
    BY DEF Alphabet, CR, LF
  <2>2. rptr \in Seq(Alphabet) /\ tptr \in 0 .. Len(rptr)
    BY DEF BufferInv, BufferOK
  <2>3. rptr \in Seq(0 .. 255)
    <3> DEFINE Byte == 0 .. 255
    <3>1. Alphabet \subseteq Byte
      BY <2>1
    <3> HIDE DEF Byte
    <3>2. rptr \in Seq(Byte)
      BY ONLY <2>2, <3>1, SeqMonotonic
    <3> QED
      BY <3>2 DEF Byte
  <2> QED
    BY <2>2, <2>3, LenProperties
<1>3. line \in Seq(0 .. 255)
  <2>0. \A i \in 1 .. Len(rptr) : rptr[i] \in 0 .. 255
    BY <1>2, ElementOfSeq
  <2>1. \A i \in tptr + 1 .. lptr - 1 : rptr[i] \in 0 .. 255
    BY <1>2, <2>0
  <2>2. SubSeq(rptr, tptr + 1, lptr - 1) \in Seq(0 .. 255)
    BY <1>2, <2>1, SubSeqProperties
  <2> QED
    BY <2>2, CStringIsSeq
<1>4. vtstate' = StateAfter(vtstate, line)[Len(line)] /\ sent' = Append(sent, msg)
  BY <1>1 DEF stripesc
<1> HIDE DEF line
<1>5. vtstate' \in VtStates
  BY <1>3, <1>4, StateAfterType DEF CountersOK
<1>6. /\ linecnt' = IF linecnt + 1 = LineWrap THEN 0 ELSE linecnt + 1
      /\ rflag' = TRUE /\ received' = received
  BY DEF SendLine, Send
<1>7. CountersOK'
  <2>1. rflag' \in BOOLEAN
    BY ONLY <1>6
  <2>2. linecnt' \in 0 .. LineWrap - 1
    BY <1>6 DEF CountersOK
  <2> QED
    BY <1>5, <1>6, <2>1, <2>2 DEF CountersOK
<1> DEFINE n == Len(sent)
<1>8. msg.num = linecnt
  OBVIOUS
<1> HIDE DEF msg
<1>9. PICK S : sent \in Seq(S)
  BY DEF Numbered
<1>10. /\ sent' \in Seq(S \cup {msg}) /\ n \in Nat /\ Len(sent') = n + 1
       /\ \A i \in 1 .. n : sent'[i] = sent[i]
       /\ sent'[n + 1] = msg
  <2>1. sent \in Seq(S \cup {msg})
    BY <1>9, SeqMonotonic
  <2> QED
    BY <1>4, <2>1, AppendProperties, LenProperties
<1>11. PICK q \in Nat : n = q * LineWrap + linecnt
  BY DEF Numbered
<1>12. \E p \in Nat : n + 1 = p * LineWrap + linecnt'
  <2>1. CASE linecnt + 1 = LineWrap
    <3>1. n + 1 = (q + 1) * LineWrap + linecnt'
      BY <1>6, <1>11, <2>1 DEF CountersOK
    <3> WITNESS q + 1 \in Nat
    <3> QED
      BY <3>1
  <2>2. CASE linecnt + 1 # LineWrap
    BY <1>6, <1>11, <2>2 DEF CountersOK
  <2> QED
    BY <2>1, <2>2
<1>13. ASSUME NEW i \in 1 .. n + 1
       PROVE  /\ sent'[i].num \in 0 .. LineWrap - 1
              /\ \E p \in Nat : i - 1 = p * LineWrap + sent'[i].num
  <2>1. CASE i \in 1 .. n
    BY <1>10, <2>1 DEF Numbered
  <2>2. CASE i = n + 1
    BY <1>8, <1>10, <1>11, <2>2 DEF CountersOK
  <2> QED
    BY <1>10, <2>1, <2>2
<1> QED
  BY <1>7, <1>10, <1>12, <1>13 DEF Numbered

THEOREM CountersHold == Spec => [](CountersOK /\ Numbered)
<1>1. Init => CountersOK /\ Numbered
  <2> SUFFICES ASSUME Init PROVE CountersOK /\ Numbered
    OBVIOUS
  <2>1. rflag \in BOOLEAN
    BY Zenon DEF Init
  <2>2. CountersOK
    BY <2>1, EmptySeq, WriterAssumption DEF Init, CountersOK, VtStates
  <2>3. sent = <<>> /\ linecnt = 0 /\ Len(sent) = 0
    BY DEF Init
  <2>4. sent \in Seq({})
    BY <2>3, EmptySeq
  <2>5. 0 = 0 * LineWrap + 0
    BY WriterAssumption
  <2> QED
    BY <2>2, <2>3, <2>4, <2>5 DEF Numbered
<1>2. BufferInv /\ CountersOK /\ Numbered /\ [Next]_vars => CountersOK' /\ Numbered'
  <2> SUFFICES ASSUME BufferInv, CountersOK, Numbered, [Next]_vars
               PROVE  CountersOK' /\ Numbered'
    OBVIOUS
  <2>1. CASE Write
    <3>1. PICK n \in {MaxChunk, Room} : \E chunk \in Chunks(n) : Enter(chunk)
      BY <2>1 DEF Write
    <3> QED
      BY <3>1, ChunkIsSeq, EnterCounts
  <2>2. CASE Close
    <3>1. <<CR, LF>> \in Seq(Alphabet)
      BY DEF Alphabet
    <3> QED
      BY <2>2, <3>1, EnterCounts DEF Close, FlushWith
  <2>3. CASE SendLine
    BY <2>3, SendCounts
  <2>4. CASE KeepRest \/ OutOfMemory \/ UNCHANGED vars
    BY <2>4 DEF KeepRest, Keep, OutOfMemory, vars, CountersOK, Numbered
  <2> QED
    BY <2>1, <2>2, <2>3, <2>4 DEF Next
<1> QED
  BY <1>1, <1>2, BufferInvHolds, PTL DEF Spec

(* The type invariant, with stripesc's state after any line.               *)
THEOREM TypeCorrect == Spec => []TypeOK
<1>1. BufferInv /\ CountersOK /\ Numbered => TypeOK
  <2>1. Numbered => Len(sent) \in Nat
    BY LenProperties DEF Numbered
  <2> QED
    BY <2>1 DEF BufferInv, BufferOK, CountersOK, TypeOK, Alphabet
<1> QED
  BY <1>1, BufferInvHolds, CountersHold, PTL

(* From the numbers of two messages follows how many there were between.   *)
THEOREM GapsDoShow == Spec => []GapsShow
<1>1. ASSUME Numbered, CountersOK PROVE GapsShow
  <2> SUFFICES ASSUME NEW i \in 1 .. Len(sent), NEW j \in 1 .. Len(sent), i < j
               PROVE  (sent[j].num - sent[i].num) % LineWrap = (j - i) % LineWrap
    BY DEF GapsShow
  <2>0. Len(sent) \in Nat /\ LineWrap \in Nat /\ LineWrap > 0
    BY LenProperties, WriterAssumption DEF Numbered
  <2> DEFINE a == sent[i].num
             b == sent[j].num
  <2>1. /\ a \in 0 .. LineWrap - 1 /\ \E p \in Nat : i - 1 = p * LineWrap + a
        /\ b \in 0 .. LineWrap - 1 /\ \E q \in Nat : j - 1 = q * LineWrap + b
    BY <1>1, Zenon DEF Numbered
  <2>2. PICK p \in Nat, q \in Nat :
          i - 1 = p * LineWrap + a /\ j - 1 = q * LineWrap + b
    BY <2>1
  <2>3. a \in Int /\ b \in Int
    BY <2>0, <2>1
  <2> HIDE DEF a, b
  <2>4. j - i = (b - a) + (q - p) * LineWrap
    BY <2>0, <2>2, <2>3
  <2>5. ((b - a) + (q - p) * LineWrap) % LineWrap = (b - a) % LineWrap
    <3>1. b - a \in Int /\ q - p \in Int
      BY <2>2, <2>3
    <3> QED
      BY <2>0, <3>1, Wrapped
  <2> QED
    BY <2>4, <2>5 DEF a, b
<1> QED
  BY <1>1, CountersHold, PTL
-----------------------------------------------------------------------------
(* Texts without their line feeds.                                         *)

Regroups(p, q, r) == (p \o q) \o r = p \o (q \o r)

LEMMA Regroup ==
  ASSUME NEW T, NEW p \in Seq(T), NEW q \in Seq(T), NEW r \in Seq(T)
  PROVE  Regroups(p, q, r)
BY ConcatAssociative DEF Regroups

(* kept is how NoLF computes, character by character.                      *)
Strips(C, text, kept) ==
  /\ kept \in [0 .. Len(text) -> Seq(C \ {LF})]
  /\ kept[0] = <<>>
  /\ \A i \in 1 .. Len(text) :
       kept[i] = IF text[i] = LF THEN kept[i - 1] ELSE Append(kept[i - 1], text[i])
  /\ NoLF(text) = kept[Len(text)]

LEMMA NoLFStrips ==
  ASSUME NEW C, NEW text \in Seq(C)
  PROVE  \E kept : Strips(C, text, kept)
<1> DEFINE n == Len(text)
           X == Seq(C \ {LF})
           step == [c \in C |-> [x \in X |-> IF c = LF THEN x ELSE Append(x, c)]]
<1>1. n \in Nat /\ \A i \in 1 .. n : text[i] \in C
  BY LenProperties, ElementOfSeq
<1>2. ASSUME NEW c \in C, NEW x \in X
      PROVE  (IF c = LF THEN x ELSE Append(x, c)) \in X
  <2>1. CASE c = LF
    BY <2>1
  <2>2. CASE c # LF
    <3>1. c \in C \ {LF}
      BY <2>2
    <3> QED
      BY <2>2, <3>1, AppendProperties
  <2> QED
    BY <2>1, <2>2
<1>3. step \in [C -> [X -> X]]
  <2> HIDE DEF X
  <2> QED
    BY <1>2
<1>4. <<>> \in X
  BY EmptySeq
<1>5. PICK g \in [0 .. n -> X] :
        g[0] = <<>> /\ \A i \in 1 .. n : g[i] = step[text[i]][g[i - 1]]
  <2> DEFINE none == <<>>
  <2>1. none \in X /\ text \in Seq(C)
    BY <1>4
  <2> HIDE DEF step, X, none
  <2>2. \E g : Reads(text, X, none, step, g)
    BY ONLY <1>3, <2>1, Machine
  <2> QED
    BY <2>2 DEF none, Reads
<1> HIDE DEF X
<1>6. \A i \in 1 .. n : g[i] = IF text[i] = LF THEN g[i - 1] ELSE Append(g[i - 1], text[i])
  <2> SUFFICES ASSUME NEW i \in 1 .. n
               PROVE  g[i] = IF text[i] = LF THEN g[i - 1] ELSE Append(g[i - 1], text[i])
    OBVIOUS
  <2>1. g[i - 1] \in X /\ text[i] \in C
    BY <1>1, <1>5
  <2> QED
    BY <1>5, <2>1
<1>7. g = [i \in 0 .. n |-> IF i = 0 THEN <<>>
             ELSE IF text[i] = LF THEN g[i - 1] ELSE Append(g[i - 1], text[i])]
  <2>1. \A i \in 0 .. n : i = 0 \/ i \in 1 .. n
    BY <1>1
  <2>2. g = [i \in 0 .. n |-> g[i]] /\ g[0] = <<>>
    BY <1>5
  <2> QED
    BY ONLY <1>6, <2>1, <2>2
<1> DEFINE k == CHOOSE k : k = [i \in 0 .. n |-> IF i = 0 THEN <<>>
                  ELSE IF text[i] = LF THEN k[i - 1] ELSE Append(k[i - 1], text[i])]
<1>8. k = [i \in 0 .. n |-> IF i = 0 THEN <<>>
             ELSE IF text[i] = LF THEN k[i - 1] ELSE Append(k[i - 1], text[i])]
  BY <1>7
<1>9. NoLF(text) = k[n]
  BY DEF NoLF
<1> HIDE DEF k
<1>10. /\ k[0] = <<>>
       /\ \A i \in 1 .. n :
            k[i] = IF text[i] = LF THEN k[i - 1] ELSE Append(k[i - 1], text[i])
  <2>1. 0 \in 0 .. n /\ \A i \in 1 .. n : i \in 0 .. n /\ i # 0
    BY <1>1
  <2> HIDE DEF n
  <2> QED
    BY ONLY <1>8, <2>1
<1>11. \A i \in 0 .. n : k[i] \in X
  <2> DEFINE P == {i \in 0 .. n : k[i] \in X}
  <2>1. 0 \in P
    BY <1>1, <1>4, <1>10
  <2>2. ASSUME NEW i \in 1 .. n, i - 1 \in P PROVE i \in P
    <3>1. k[i - 1] \in X /\ text[i] \in C /\ i \in 0 .. n
      BY <1>1, <2>2
    <3> QED
      BY <1>2, <1>10, <3>1
  <2>3. \A i \in 0 .. n : i \in P
    <3> HIDE DEF P, n
    <3> QED
      BY <1>1, <2>1, <2>2, Induct
  <2> QED
    BY <2>3
<1>12. k \in [0 .. n -> X]
  BY <1>8, <1>11
<1> QED
  BY <1>9, <1>10, <1>12 DEF Strips, X

LEMMA NoLFType ==
  ASSUME NEW C, NEW text \in Seq(C)
  PROVE  NoLF(text) \in Seq(C \ {LF})
<1>1. PICK kept : Strips(C, text, kept)
  BY NoLFStrips
<1>2. Len(text) \in 0 .. Len(text)
  BY LenProperties
<1> QED
  BY <1>1, <1>2 DEF Strips

LEMMA NoLFConcat ==
  ASSUME NEW C, NEW s \in Seq(C), NEW t \in Seq(C)
  PROVE  NoLF(s \o t) = NoLF(s) \o NoLF(t)
<1> DEFINE m == Len(s)
           n == Len(t)
           u == s \o t
           D == C \ {LF}
<1>1. m \in Nat /\ n \in Nat /\ u \in Seq(C) /\ Len(u) = m + n
  BY LenProperties, ConcatProperties
<1>2. \A i \in 1 .. m : u[i] = s[i]
  BY <1>1, ConcatProperties
<1>3. ASSUME NEW i \in 1 .. n PROVE u[m + i] = t[i] /\ m + i \in 1 .. Len(u) /\ t[i] \in C
  <2>1. m + i \in 1 .. m + n /\ ~(m + i <= m) /\ m + i - m = i
    BY <1>1
  <2> QED
    BY <1>1, <2>1, ConcatProperties, ElementOfSeq
<1>4. PICK a : Strips(C, s, a)
  BY NoLFStrips
<1>5. PICK b : Strips(C, t, b)
  BY NoLFStrips
<1>6. PICK c : Strips(C, u, c)
  BY <1>1, NoLFStrips
<1> HIDE DEF u, m, n
<1>7. \A i \in 0 .. m : c[i] = a[i]
  <2> DEFINE P == {i \in 0 .. m : c[i] = a[i]}
  <2>1. 0 \in P
    BY <1>1, <1>4, <1>6 DEF Strips
  <2>2. ASSUME NEW i \in 1 .. m, i - 1 \in P PROVE i \in P
    <3>1. i \in 1 .. Len(u) /\ i \in 0 .. m /\ c[i - 1] = a[i - 1] /\ u[i] = s[i]
      BY <1>1, <1>2, <2>2
    <3>2. c[i] = IF u[i] = LF THEN c[i - 1] ELSE Append(c[i - 1], u[i])
      BY <1>6, <3>1 DEF Strips
    <3>3. a[i] = IF s[i] = LF THEN a[i - 1] ELSE Append(a[i - 1], s[i])
      BY <1>4 DEF Strips, m
    <3> QED
      BY <3>1, <3>2, <3>3
  <2>3. \A i \in 0 .. m : i \in P
    <3> HIDE DEF P
    <3> QED
      BY <1>1, <2>1, <2>2, Induct
  <2> QED
    BY <2>3
<1> HIDE DEF D
<1>8. a[m] \in Seq(D) /\ c[m] = a[m]
  <2>1. m \in 0 .. m
    BY <1>1
  <2>2. a \in [0 .. m -> Seq(D)]
    BY <1>4 DEF Strips, m, D
  <2> QED
    BY ONLY <1>7, <2>1, <2>2
<1>9. \A i \in 0 .. n : b[i] \in Seq(D)
  <2>1. b \in [0 .. n -> Seq(D)]
    BY <1>5 DEF Strips, n, D
  <2> QED
    BY ONLY <2>1
<1>10. \A i \in 0 .. n : c[m + i] = a[m] \o b[i]
  <2> DEFINE P == {i \in 0 .. n : c[m + i] = a[m] \o b[i]}
  <2>1. 0 \in P
    <3>1. m + 0 = m /\ 0 \in 0 .. n
      BY <1>1
    <3>2. b[0] = <<>>
      BY <1>5 DEF Strips
    <3> QED
      BY <1>8, <3>1, <3>2, ConcatEmptySeq
  <2>2. ASSUME NEW i \in 1 .. n, i - 1 \in P PROVE i \in P
    <3>1. i \in 0 .. n /\ i - 1 \in 0 .. n /\ m + (i - 1) = m + i - 1
      BY <1>1
    <3>2. c[m + i - 1] = a[m] \o b[i - 1]
      BY <2>2, <3>1
    <3>3. c[m + i] = IF t[i] = LF THEN c[m + i - 1] ELSE Append(c[m + i - 1], t[i])
      <4> DEFINE j == m + i
      <4>1. u[j] = t[i] /\ j \in 1 .. Len(u) /\ j - 1 = m + i - 1
        BY <1>1, <1>3
      <4> HIDE DEF j
      <4>2. \A l \in 1 .. Len(u) :
              c[l] = IF u[l] = LF THEN c[l - 1] ELSE Append(c[l - 1], u[l])
        BY <1>6 DEF Strips
      <4>3. c[j] = IF t[i] = LF THEN c[j - 1] ELSE Append(c[j - 1], t[i])
        BY <4>1, <4>2, Zenon
      <4> QED
        BY <4>1, <4>3 DEF j
    <3>4. b[i] = IF t[i] = LF THEN b[i - 1] ELSE Append(b[i - 1], t[i])
      BY <1>5 DEF Strips, n
    <3>5. CASE t[i] = LF
      BY <3>1, <3>2, <3>3, <3>4, <3>5
    <3>6. CASE t[i] # LF
      <4>1. t[i] \in D /\ b[i - 1] \in Seq(D) /\ a[m] \o b[i - 1] \in Seq(D)
        BY <1>3, <1>8, <1>9, <3>1, <3>6, ConcatProperties DEF D
      <4>2. Append(a[m] \o b[i - 1], t[i]) = a[m] \o Append(b[i - 1], t[i])
        <5>1. <<t[i]>> \in Seq(D)
          BY <4>1
        <5>2. Append(b[i - 1], t[i]) = b[i - 1] \o <<t[i]>>
          BY <4>1, AppendIsConcat
        <5>3. Append(a[m] \o b[i - 1], t[i]) = (a[m] \o b[i - 1]) \o <<t[i]>>
          BY <4>1, AppendIsConcat
        <5>4. (a[m] \o b[i - 1]) \o <<t[i]>> = a[m] \o (b[i - 1] \o <<t[i]>>)
          <6> DEFINE p == a[m]
                     q == b[i - 1]
                     r == <<t[i]>>
          <6>1. p \in Seq(D) /\ q \in Seq(D) /\ r \in Seq(D)
            BY <1>8, <4>1, <5>1
          <6> HIDE DEF p, q, r
          <6>2. Regroups(p, q, r)
            BY ONLY <6>1, Regroup
          <6> QED
            BY <6>2 DEF p, q, r, Regroups
        <5> QED
          BY ONLY <5>2, <5>3, <5>4
      <4> QED
        BY <3>1, <3>2, <3>3, <3>4, <3>6, <4>2
    <3> QED
      BY <3>5, <3>6
  <2>3. \A i \in 0 .. n : i \in P
    <3> HIDE DEF P
    <3> QED
      BY <1>1, <2>1, <2>2, Induct
  <2> QED
    BY <2>3
<1>11. c[m + n] = a[m] \o b[n]
  <2>1. n \in 0 .. n
    BY <1>1
  <2> QED
    BY ONLY <1>10, <2>1
<1> QED
  BY <1>1, <1>4, <1>5, <1>6, <1>11 DEF Strips, m, n, u

(* A text of line feeds only leaves nothing, one without any is kept.      *)
LEMMA NoLFOfLF ==
  ASSUME NEW C, NEW text \in Seq(C), \A i \in 1 .. Len(text) : text[i] = LF
  PROVE  NoLF(text) = <<>>
<1> DEFINE n == Len(text)
<1>1. n \in Nat
  BY LenProperties
<1>2. PICK kept : Strips(C, text, kept)
  BY NoLFStrips
<1> DEFINE P == {i \in 0 .. n : kept[i] = <<>>}
<1>3. 0 \in P
  BY <1>1, <1>2 DEF Strips
<1>4. ASSUME NEW i \in 1 .. n, i - 1 \in P PROVE i \in P
  BY <1>1, <1>2, <1>4 DEF Strips
<1>5. n \in P
  <2> HIDE DEF P, n
  <2>1. \A i \in 0 .. n : i \in P
    BY <1>1, <1>3, <1>4, Induct
  <2> QED
    BY <1>1, <2>1
<1> QED
  BY <1>2, <1>5 DEF Strips

LEMMA NoLFOfOne ==
  ASSUME NEW c
  PROVE  NoLF(<<c>>) = IF c = LF THEN <<>> ELSE <<c>>
<1> DEFINE s == <<c>>
<1>1. s \in Seq({c}) /\ Len(s) = 1 /\ s[1] = c
  OBVIOUS
<1> HIDE DEF s
<1>2. PICK kept : Strips({c}, s, kept)
  BY <1>1, NoLFStrips
<1>3. 1 \in 1 .. 1 /\ 1 - 1 = 0
  OBVIOUS
<1>4. NoLF(s) = IF c = LF THEN <<>> ELSE Append(<<>>, c)
  BY <1>1, <1>2, <1>3 DEF Strips
<1>5. Append(<<>>, c) = <<c>>
  OBVIOUS
<1> QED
  BY <1>4, <1>5 DEF s

LEMMA NoLFOfNone == NoLF(<<>>) = <<>>
<1>1. <<>> \in Seq({}) /\ Len(<<>>) = 0
  BY EmptySeq
<1>2. \A i \in 1 .. Len(<<>>) : <<>>[i] = LF
  BY <1>1
<1> DEFINE none == <<>>
<1> HIDE DEF none
<1>3. none \in Seq({}) /\ \A i \in 1 .. Len(none) : none[i] = LF
  BY <1>1, <1>2 DEF none
<1>4. NoLF(none) = <<>>
  BY ONLY <1>3, NoLFOfLF
<1> QED
  BY <1>4 DEF none

-----------------------------------------------------------------------------
(* The lines that leave are those of LineLog.                              *)

(* The filter gives the line back as it was.                               *)
LEMMA LineComesBack ==
  ASSUME NEW C, NEW vt, NEW line \in Seq(C)
  PROVE  stripesc(vt, line).line = line
<1>1. Len(line) \in Nat /\ line \in [1 .. Len(line) -> C]
  BY LenProperties
<1>2. stripesc(vt, line).line = StrNCpy(line, Cleaned(vt, line), 0)
  <2>1. Len(line) - Len(line) = 0
    BY <1>1
  <2> QED
    BY <2>1 DEF stripesc
<1>3. StrNCpy(line, Cleaned(vt, line), 0) = [i \in 1 .. Len(line) |-> line[i]]
  <2> DEFINE from == Cleaned(vt, line)
  <2> HIDE DEF from
  <2>1. \A i \in 1 .. Len(line) : i > 0
    OBVIOUS
  <2>2. StrNCpy(line, from, 0) = [i \in 1 .. Len(line) |-> line[i]]
    BY <2>1 DEF StrNCpy
  <2> QED
    BY <2>2 DEF from
<1> QED
  BY <1>1, <1>2, <1>3

(* Both parts of a concatenation can be cut out of it again.               *)
LEMMA CutOut ==
  ASSUME NEW T, NEW a \in Seq(T), NEW b \in Seq(T)
  PROVE  /\ SubSeq(a \o b, 1, Len(a)) = a
         /\ SubSeq(a \o b, Len(a) + 1, Len(a \o b)) = b
<1> DEFINE s == a \o b
           m == Len(a)
           n == Len(b)
<1>1. /\ m \in Nat /\ n \in Nat /\ s \in Seq(T) /\ Len(s) = m + n
      /\ \A i \in 1 .. m + n : s[i] = IF i <= m THEN a[i] ELSE b[i - m]
  BY LenProperties, ConcatProperties
<1> HIDE DEF s
<1>2. m \in 0 .. Len(s)
  BY <1>1
<1> DEFINE p == SubSeq(s, 1, m)
           q == SubSeq(s, m + 1, Len(s))
<1>3. /\ p \in Seq(T) /\ q \in Seq(T) /\ Len(p) = m /\ Len(q) = Len(s) - m
      /\ \A i \in 1 .. m : p[i] = s[i]
      /\ \A i \in 1 .. Len(s) - m : q[i] = s[m + i]
  BY <1>1, <1>2, TwoParts
<1> HIDE DEF p, q
<1>4. p = a
  <2>1. \A i \in 1 .. m : p[i] = a[i]
    BY <1>1, <1>3
  <2> QED
    BY <1>1, <1>3, <2>1, SeqEqual
<1>5. q = b
  <2>1. Len(q) = n
    BY <1>1, <1>3
  <2>2. ASSUME NEW i \in 1 .. n PROVE q[i] = b[i]
    <3>1. i \in 1 .. Len(s) - m /\ m + i \in 1 .. m + n /\ ~(m + i <= m) /\ m + i - m = i
      BY <1>1
    <3> QED
      BY <1>1, <1>3, <3>1
  <2> QED
    BY <1>3, <2>1, <2>2, SeqEqual
<1> QED
  BY <1>4, <1>5 DEF p, q, s

(* NoLF of a text that ends early leaves one that ends early.              *)
LEMMA EndsEarly ==
  ASSUME NEW C, NEW d \in Seq(C), d = <<>> \/ d[1] = NUL
  PROVE  NoLF(d) = <<>> \/ NoLF(d)[1] = NUL
<1>1. CASE d = <<>>
  BY <1>1, NoLFOfNone
<1>2. CASE d # <<>>
  <2> DEFINE e == SubSeq(d, 2, Len(d))
  <2>1. Len(d) \in Nat /\ Len(d) >= 1 /\ d[1] = NUL /\ NUL \in C
    BY <1>2, EmptySeq, ElementOfSeq
  <2>2. 1 \in 0 .. Len(d)
    BY <2>1
  <2>3. d = SubSeq(d, 1, 1) \o e /\ e \in Seq(C)
    BY <2>2, TwoParts
  <2>4. SubSeq(d, 1, 1) = <<NUL>>
    <3> DEFINE f == SubSeq(d, 1, 1)
    <3>1. f \in Seq(C) /\ Len(f) = 1 /\ \A i \in 1 .. 1 : f[i] = d[i]
      BY <2>2, TwoParts
    <3>2. <<NUL>> \in Seq(C) /\ Len(<<NUL>>) = 1 /\ <<NUL>>[1] = NUL
      BY <2>1
    <3> HIDE DEF f
    <3>3. \A i \in 1 .. Len(f) : f[i] = <<NUL>>[i]
      BY <2>1, <3>1, <3>2
    <3>4. f = <<NUL>>
      BY <3>1, <3>2, <3>3, SeqEqual
    <3> QED
      BY <3>4 DEF f
  <2>5. <<NUL>> \in Seq(C)
    BY <2>1
  <2> HIDE DEF e
  <2>6. NoLF(d) = NoLF(<<NUL>>) \o NoLF(e)
    BY <2>3, <2>4, <2>5, NoLFConcat
  <2>7. NoLF(<<NUL>>) = <<NUL>>
    BY NoLFOfOne DEF NUL, LF
  <2>8. NoLF(d) = <<NUL>> \o NoLF(e) /\ NoLF(e) \in Seq(C)
    <3>1. NoLF(e) \in Seq(C \ {LF})
      BY <2>3, NoLFType
    <3> QED
      BY <2>6, <2>7, <3>1, SeqMonotonic
  <2>9. NoLF(d)[1] = <<NUL>>[1]
    <3>1. Len(<<NUL>>) = 1 /\ 1 \in 1 .. 1 + Len(NoLF(e))
      BY <2>8, LenProperties
    <3> QED
      BY <2>5, <2>8, <3>1, ConcatProperties
  <2> QED
    BY <2>9
<1> QED
  BY <1>1, <1>2

(* The first line of t is x, and z follows it.                             *)
FirstLine(t, x, z) ==
  \E k \in 1 .. Len(t) :
    /\ t[k] = CR /\ \A i \in 1 .. k - 1 : t[i] # CR
    /\ \E n \in 0 .. k - 1 :
         /\ \A i \in 1 .. n : t[i] # NUL
         /\ t[n + 1] \in {NUL, CR}
         /\ x = SubSeq(t, 1, n)
    /\ z = SubSeq(t, k + 1, Len(t))

LEMMA EmitForm ==
  ASSUME NEW T, CR \in T, NEW x \in Seq(T), NEW y \in Seq(T), NEW z \in Seq(T),
         \A i \in 1 .. Len(x) : x[i] # NUL /\ x[i] # CR,
         \A i \in 1 .. Len(y) : y[i] # CR,
         y = <<>> \/ y[1] = NUL
  PROVE  FirstLine((x \o y) \o (<<CR>> \o z), x, z)
<1> DEFINE a == x \o y
           n == Len(x)
           k == Len(a) + 1
           t == (x \o y) \o (<<CR>> \o z)
           w == <<CR>> \o z
           r == y \o w
           j == Len(y)
<1>1. /\ a \in Seq(T) /\ Len(a) = n + j /\ n \in Nat /\ j \in Nat
      /\ \A i \in 1 .. n + j : a[i] = IF i <= n THEN x[i] ELSE y[i - n]
  BY ConcatProperties, LenProperties
<1>2. /\ w \in Seq(T) /\ Len(w) = Len(z) + 1 /\ Len(w) >= 1 /\ w[1] = CR /\ Len(z) \in Nat
  <2>1. <<CR>> \in Seq(T) /\ Len(<<CR>>) = 1 /\ <<CR>>[1] = CR
    OBVIOUS
  <2> HIDE DEF w
  <2>2. /\ w \in Seq(T) /\ Len(w) = 1 + Len(z) /\ Len(z) \in Nat
        /\ \A i \in 1 .. 1 + Len(z) : w[i] = IF i <= 1 THEN <<CR>>[i] ELSE z[i - 1]
    BY <2>1, ConcatProperties, LenProperties DEF w
  <2>3. 1 \in 1 .. 1 + Len(z)
    BY <2>2
  <2> QED
    BY <2>1, <2>2, <2>3
<1> HIDE DEF w
<1>3. t = a \o w
  BY DEF w, t
<1> HIDE DEF a, t
<1>4. /\ t \in Seq(T) /\ Len(t) = n + j + Len(w)
      /\ \A i \in 1 .. n + j + Len(w) : t[i] = IF i <= n + j THEN a[i] ELSE w[i - (n + j)]
  <2>0. a \in Seq(T) /\ w \in Seq(T)
    BY <1>1, <1>2
  <2>1. /\ t \in Seq(T) /\ Len(t) = Len(a) + Len(w)
        /\ \A i \in 1 .. Len(a) + Len(w) :
             t[i] = IF i <= Len(a) THEN a[i] ELSE w[i - Len(a)]
    BY ONLY <1>3, <2>0, ConcatProperties
  <2> QED
    BY ONLY <1>1, <2>1
<1>5. k = n + j + 1 /\ k \in 1 .. Len(t) /\ n \in 0 .. k - 1
  BY <1>1, <1>2, <1>4 DEF a
<1>6. t[k] = CR
  <2>1. k \in 1 .. n + j + Len(w) /\ ~(k <= n + j) /\ k - (n + j) = 1
    BY <1>1, <1>2, <1>5
  <2> QED
    BY <1>2, <1>4, <2>1
<1>7. \A i \in 1 .. n : t[i] = x[i]
  BY <1>1, <1>2, <1>4
<1>8. ASSUME NEW i \in 1 .. k - 1 PROVE t[i] # CR
  <2>1. CASE i <= n
    BY <1>1, <1>5, <1>7, <2>1
  <2>2. CASE ~(i <= n)
    <3>1. i \in 1 .. n + j /\ i \in 1 .. n + j + Len(w) /\ i - n \in 1 .. j
      BY <1>1, <1>2, <1>5, <2>2
    <3>2. t[i] = y[i - n]
      BY <1>1, <1>4, <2>2, <3>1
    <3> QED
      BY <3>1, <3>2
  <2> QED
    BY <2>1, <2>2
<1>9. t[n + 1] \in {NUL, CR}
  <2>1. CASE j = 0
    BY <1>1, <1>5, <1>6, <2>1
  <2>2. CASE j # 0
    <3>1. y[1] = NUL
      BY <2>2, EmptySeq
    <3>2. /\ n + 1 \in 1 .. n + j /\ n + 1 \in 1 .. n + j + Len(w)
          /\ ~(n + 1 <= n) /\ (n + 1) - n = 1 /\ n + 1 <= n + j
      BY <1>1, <1>2, <2>2
    <3> QED
      BY <1>1, <1>4, <3>1, <3>2
  <2> QED
    BY <2>1, <2>2
<1>10. SubSeq(t, 1, n) = x
  <2>1. r \in Seq(T)
    BY <1>2, ConcatProperties
  <2>2. t = x \o r
    <3>0. w \in Seq(T)
      BY <1>2
    <3>1. Regroups(x, y, w)
      BY <3>0, Regroup
    <3> QED
      BY ONLY <1>3, <3>1 DEF a, r, Regroups
  <2> HIDE DEF r
  <2> QED
    BY <2>1, <2>2, CutOut
<1>11. SubSeq(t, k + 1, Len(t)) = z
  <2> DEFINE b == a \o <<CR>>
  <2>1. <<CR>> \in Seq(T) /\ Len(<<CR>>) = 1
    OBVIOUS
  <2>2. b \in Seq(T) /\ Len(b) = k
    <3>1. b \in Seq(T) /\ Len(b) = Len(a) + Len(<<CR>>)
      BY ONLY <1>1, <2>1, ConcatProperties
    <3> HIDE DEF b
    <3> QED
      BY <1>1, <1>5, <2>1, <3>1
  <2>3. t = b \o z
    <3>1. Regroups(a, <<CR>>, z)
      BY <1>1, <2>1, Regroup
    <3> QED
      BY ONLY <1>3, <3>1 DEF w, b, Regroups
  <2> HIDE DEF b
  <2> QED
    BY <2>2, <2>3, CutOut
<1>12. \A i \in 1 .. n : t[i] # NUL
  BY <1>7
<1> HIDE DEF n, k
<1>13. FirstLine(t, x, z)
  BY ONLY <1>5, <1>6, <1>8, <1>9, <1>10, <1>11, <1>12 DEF FirstLine
<1> QED
  BY <1>13 DEF t

(* SendLine finds a line: c leaves, d is behind a NUL of it, and a line    *)
(* feed may be skipped before what stays.                                  *)
LEMMA LineFound ==
  ASSUME BufferInv, SendLine
  PROVE  \E c \in Seq(Alphabet), d \in Seq(Alphabet), skip \in {<<>>, <<LF>>} :
           /\ Unsent = (c \o d) \o (<<CR>> \o (skip \o Unsent'))
           /\ c \in Seq(Alphabet \ {CR}) /\ c \in Seq(Alphabet \ {NUL})
           /\ d \in Seq(Alphabet \ {CR}) /\ (d = <<>> \/ d[1] = NUL)
           /\ Unsent' \in Seq(Alphabet)
           /\ \E num : sent' = Append(sent, [num |-> num, text |-> c])
           /\ received' = received
<1>1. /\ rptr \in Seq(Alphabet) /\ Len(rptr) \in Nat /\ tptr \in 0 .. Len(rptr)
      /\ \A i \in 1 .. Len(rptr) : rptr[i] \in Alphabet
  BY LenProperties, ElementOfSeq DEF BufferInv, BufferOK
<1>2. PICK lptr \in tptr + 1 .. Len(rptr) :
        /\ FoundCR(lptr) /\ tptr' = BehindCR[lptr]
        /\ LET r == stripesc(vtstate, CString(SubSeq(rptr, tptr + 1, lptr - 1)))
           IN sent' = Append(sent, [num |-> linecnt, text |-> r.line])
  BY DEF SendLine, Send
<1>3. rptr' = rptr /\ received' = received
  BY DEF SendLine, Send
<1> DEFINE m == Len(rptr)
           pre == SubSeq(rptr, tptr + 1, lptr - 1)
           rest == SubSeq(rptr, lptr + 1, m)
           skip == IF tptr' = lptr THEN <<>> ELSE <<LF>>
<1>4. lptr \in 1 .. m /\ rptr[lptr] = CR /\ \A i \in tptr + 1 .. lptr - 1 : rptr[i] # CR
  BY <1>1, <1>2 DEF FoundCR
<1>5. /\ tptr' \in lptr .. m
      /\ tptr' # lptr => tptr' = lptr + 1 /\ lptr + 1 < m /\ rptr[lptr + 1] = LF
  BY <1>1, <1>2, <1>4 DEF BehindCR
<1>6. pre \in Seq(Alphabet \ {CR})
  <2>1. \A i \in tptr + 1 .. lptr - 1 : rptr[i] \in Alphabet \ {CR}
    BY <1>1, <1>4
  <2> QED
    BY <1>1, <1>4, <2>1, SubSeqProperties
<1>7. Unsent = pre \o (<<CR>> \o rest)
  <2>1. Unsent = pre \o SubSeq(rptr, lptr, m)
    <3>1. /\ tptr + 1 \in 1 .. m + 1 /\ lptr - 1 \in (tptr + 1) - 1 .. m /\ m \in lptr - 1 .. m
          /\ lptr - 1 + 1 = lptr
      BY <1>1, <1>4
    <3>2. SubSeq(rptr, tptr + 1, lptr - 1) \o SubSeq(rptr, lptr - 1 + 1, m)
            = SubSeq(rptr, tptr + 1, m)
      BY <1>1, <3>1, ConcatAdjacentSubSeq
    <3> QED
      BY <3>1, <3>2 DEF Unsent
  <2>2. SubSeq(rptr, lptr, m) = <<CR>> \o rest
    <3>1. m \in lptr .. m
      BY <1>1, <1>4
    <3> QED
      BY <1>1, <1>4, <3>1, SubSeqRecursiveFirst
  <2> QED
    BY <2>1, <2>2
<1>8. Unsent' = SubSeq(rptr, tptr' + 1, m)
  BY <1>3 DEF Unsent
<1>9. rest = skip \o Unsent' /\ Unsent' \in Seq(Alphabet) /\ rest \in Seq(Alphabet)
  <2>1. tptr' \in 0 .. m /\ lptr \in 0 .. m
    BY <1>1, <1>4, <1>5
  <2>2. SubSeq(rptr, tptr' + 1, m) \in Seq(Alphabet) /\ rest \in Seq(Alphabet)
    BY <1>1, <2>1, TwoParts
  <2>3. CASE tptr' = lptr
    BY <1>8, <2>2, <2>3, ConcatEmptySeq
  <2>4. CASE tptr' # lptr
    <3>1. lptr + 1 \in 1 .. m /\ m \in lptr + 1 .. m /\ (lptr + 1) + 1 = tptr' + 1
      BY <1>1, <1>4, <1>5, <2>4
    <3>2. rest = <<rptr[lptr + 1]>> \o SubSeq(rptr, (lptr + 1) + 1, m)
      BY <1>1, <3>1, SubSeqRecursiveFirst
    <3> QED
      BY <1>5, <1>8, <2>2, <2>4, <3>1, <3>2
  <2> QED
    BY <2>3, <2>4
<1> DEFINE c == CString(pre)
<1> HIDE DEF pre, rest
<1>10. PICK d \in Seq(Alphabet \ {CR}) :
         pre = c \o d /\ c \in Seq((Alphabet \ {CR}) \ {NUL}) /\ (d = <<>> \/ d[1] = NUL)
  BY <1>6, CStringIsPart
<1> HIDE DEF c
<1>11. /\ c \in Seq(Alphabet) /\ c \in Seq(Alphabet \ {CR}) /\ c \in Seq(Alphabet \ {NUL})
       /\ d \in Seq(Alphabet)
  <2>1. /\ (Alphabet \ {CR}) \ {NUL} \subseteq Alphabet
        /\ (Alphabet \ {CR}) \ {NUL} \subseteq Alphabet \ {CR}
        /\ (Alphabet \ {CR}) \ {NUL} \subseteq Alphabet \ {NUL}
        /\ Alphabet \ {CR} \subseteq Alphabet
    OBVIOUS
  <2> QED
    BY <1>10, <2>1, SeqMonotonic
<1>12. sent' = Append(sent, [num |-> linecnt, text |-> c])
  <2>1. stripesc(vtstate, c).line = c
    BY <1>11, LineComesBack
  <2> QED
    BY <1>2, <2>1 DEF c, pre
<1>13. skip \in {<<>>, <<LF>>}
  OBVIOUS
<1>14. Unsent = (c \o d) \o (<<CR>> \o (skip \o Unsent'))
  BY <1>7, <1>9, <1>10
<1> HIDE DEF skip
<1> QED
  BY <1>3, <1>9, <1>10, <1>11, <1>12, <1>13, <1>14

(* One line more.                                                          *)
LEMMA OneMore ==
  ASSUME Numbered, NEW m, sent' = Append(sent, m)
  PROVE  /\ SentLines \in Seq({NoLF(sent[i].text) : i \in 1 .. Len(sent)})
         /\ SentLines' = Append(SentLines, NoLF(m.text))
<1>1. PICK S : sent \in Seq(S)
  BY DEF Numbered
<1> DEFINE n == Len(sent)
           S1 == S \cup {m}
           x == NoLF(m.text)
           T == {NoLF(sent[i].text) : i \in 1 .. n}
           T1 == T \cup {x}
           L == SentLines
           L1 == SentLines'
<1>2. n \in Nat
  BY <1>1, LenProperties
<1>3. Len(sent') = n + 1 /\ (\A i \in 1 .. n : sent'[i] = sent[i]) /\ sent'[n + 1] = m
  <2>1. sent \in Seq(S1) /\ m \in S1
    BY <1>1, SeqMonotonic
  <2> HIDE DEF S1
  <2> QED
    BY <2>1, AppendProperties
<1>4. L \in Seq(T) /\ Len(L) = n /\ \A i \in 1 .. n : L[i] = NoLF(sent[i].text)
  <2>1. L = [i \in 1 .. n |-> NoLF(sent[i].text)]
    BY DEF SentLines
  <2> HIDE DEF L
  <2>2. L \in [1 .. n -> T]
    BY <2>1
  <2> HIDE DEF T
  <2>3. L \in Seq(T)
    BY <1>2, <2>2, SeqDef
  <2>4. DOMAIN L = 1 .. n
    BY <2>2
  <2>5. Len(L) = n
    BY <1>2, <2>3, <2>4
  <2> QED
    BY <2>1, <2>3, <2>5
<1>5. L1 = [i \in 1 .. n + 1 |-> NoLF(sent'[i].text)]
  BY <1>3 DEF SentLines
<1> HIDE DEF L, L1
<1>6. /\ \A i \in 1 .. n : L1[i] = L[i]
      /\ L1[n + 1] = x
  BY <1>2, <1>3, <1>4, <1>5
<1>7. L \in Seq(T1) /\ x \in T1
  BY <1>4, SeqMonotonic
<1>8. \A i \in 1 .. n : L[i] \in T1
  BY <1>4, <1>7, ElementOfSeq
<1> HIDE DEF T1, x
<1>9. /\ Append(L, x) \in Seq(T1) /\ Len(Append(L, x)) = n + 1
      /\ \A i \in 1 .. n : Append(L, x)[i] = L[i]
      /\ Append(L, x)[n + 1] = x
  BY <1>4, <1>7, AppendProperties
<1>10. L1 \in [1 .. n + 1 -> T1]
  <2>1. \A i \in 1 .. n + 1 : L1[i] \in T1
    <3>1. \A i \in 1 .. n + 1 : i \in 1 .. n \/ i = n + 1
      BY <1>2
    <3> QED
      BY <1>6, <1>7, <1>8, <3>1
  <2>2. L1 = [i \in 1 .. n + 1 |-> L1[i]]
    BY <1>5
  <2> QED
    BY <2>1, <2>2
<1>11. L1 \in Seq(T1) /\ Len(L1) = n + 1
  <2>1. L1 \in Seq(T1)
    BY <1>2, <1>10, SeqDef
  <2> QED
    BY <1>2, <1>10, <2>1
<1>12. \A i \in 1 .. n + 1 : L1[i] = Append(L, x)[i]
  <2>1. \A i \in 1 .. n + 1 : i \in 1 .. n \/ i = n + 1
    BY <1>2
  <2> QED
    BY <1>6, <1>9, <2>1
<1>13. L1 = Append(L, x)
  BY <1>9, <1>11, <1>12, SeqEqual
<1> QED
  BY <1>4, <1>13 DEF L, L1, T, x

(* The output a call takes.                                                *)
LEMMA EnterAccepts ==
  ASSUME BufferInv, NEW chunk \in Seq(Alphabet), chunk # <<>>, Enter(chunk)
  PROVE  Lines!Accept
<1> DEFINE skips == rflag /\ chunk[1] = LF
           taken == IF skips THEN Tail(chunk) ELSE chunk
           D == Alphabet \ {LF}
           C == Chars \cup {CR}
<1>1. taken \in Seq(Alphabet)
  BY HeadTailProperties
<1>2. rptr \in Seq(Alphabet) /\ tptr = 0
  BY DEF BufferInv, BufferOK, Enter
<1>3. rptr' = rptr \o taken /\ tptr' = 0 /\ sent' = sent
  BY DEF Enter
<1> HIDE DEF taken
<1>4. rptr' \in Seq(Alphabet)
  BY <1>1, <1>2, <1>3, ConcatProperties
<1>5. Unsent = rptr /\ Unsent' = rptr'
  BY <1>2, <1>3, <1>4, SubSeqFull DEF Unsent
<1> DEFINE a == NoLF(rptr)
           b == NoLF(taken)
<1>6. NoLF(rptr') = a \o b
  BY <1>1, <1>2, <1>3, NoLFConcat
<1>7. a \in Seq(C) /\ b \in Seq(C)
  <2>1. NoLF(rptr) \in Seq(D) /\ NoLF(taken) \in Seq(D)
    BY <1>1, <1>2, NoLFType
  <2>2. D \subseteq C
    BY DEF Alphabet
  <2> HIDE DEF D, C
  <2> QED
    BY <2>1, <2>2, SeqMonotonic
<1> HIDE DEF a, b, C
<1>8. /\ a \o b \in Seq(C) /\ Len(a \o b) >= Len(a)
      /\ SubSeq(a \o b, 1, Len(a)) = a
  <2>1. Len(a) \in Nat /\ Len(b) \in Nat /\ Len(a \o b) = Len(a) + Len(b) /\ a \o b \in Seq(C)
    BY <1>7, LenProperties, ConcatProperties
  <2>2. SubSeq(a \o b, 1, Len(a)) = a
    BY ONLY <1>7, CutOut
  <2> QED
    BY <2>1, <2>2
<1>9. SentLines' = SentLines
  BY <1>3 DEF SentLines
<1>10. NoLF(Unsent)' = a \o b /\ NoLF(Unsent) = a
  BY <1>5, <1>6 DEF a
<1> QED
  BY <1>8, <1>9, <1>10 DEF Lines!Accept, C

(* A line that SendLine finds.                                             *)
LEMMA SendEmits ==
  ASSUME BufferInv, Numbered, SendLine
  PROVE  Lines!Emit
<1>1. PICK c \in Seq(Alphabet), d \in Seq(Alphabet), skip \in {<<>>, <<LF>>} :
        /\ Unsent = (c \o d) \o (<<CR>> \o (skip \o Unsent'))
        /\ c \in Seq(Alphabet \ {CR}) /\ c \in Seq(Alphabet \ {NUL})
        /\ d \in Seq(Alphabet \ {CR}) /\ (d = <<>> \/ d[1] = NUL)
        /\ Unsent' \in Seq(Alphabet)
        /\ \E num : sent' = Append(sent, [num |-> num, text |-> c])
  BY LineFound
<1> DEFINE u == Unsent'
           x == NoLF(c)
           y == NoLF(d)
           z == NoLF(u)
           t == NoLF(Unsent)
<1>2. x \in Seq(Alphabet) /\ y \in Seq(Alphabet) /\ z \in Seq(Alphabet)
  <2>1. x \in Seq(Alphabet \ {LF}) /\ y \in Seq(Alphabet \ {LF}) /\ z \in Seq(Alphabet \ {LF})
    BY <1>1, NoLFType
  <2>2. Alphabet \ {LF} \subseteq Alphabet
    OBVIOUS
  <2> HIDE DEF x, y, z
  <2> QED
    BY <2>1, <2>2, SeqMonotonic
<1>3. /\ \A i \in 1 .. Len(x) : x[i] # NUL /\ x[i] # CR
      /\ \A i \in 1 .. Len(y) : y[i] # CR
  <2>1. /\ x \in Seq((Alphabet \ {CR}) \ {LF}) /\ x \in Seq((Alphabet \ {NUL}) \ {LF})
        /\ y \in Seq((Alphabet \ {CR}) \ {LF})
    BY <1>1, NoLFType
  <2> HIDE DEF x, y
  <2>2. /\ \A i \in 1 .. Len(x) : x[i] \in (Alphabet \ {CR}) \ {LF}
        /\ \A i \in 1 .. Len(x) : x[i] \in (Alphabet \ {NUL}) \ {LF}
        /\ \A i \in 1 .. Len(y) : y[i] \in (Alphabet \ {CR}) \ {LF}
    BY <2>1, ElementOfSeq
  <2> QED
    BY <2>2
<1>4. y = <<>> \/ y[1] = NUL
  BY <1>1, EndsEarly
<1>5. t = (x \o y) \o (<<CR>> \o z)
  <2>1. <<CR>> \in Seq(Alphabet) /\ skip \in Seq(Alphabet) /\ CR # LF
    <3>1. CR \in Alphabet /\ LF \in Alphabet /\ CR # LF
      BY DEF Alphabet, CR, LF
    <3>2. <<CR>> \in Seq(Alphabet) /\ <<LF>> \in Seq(Alphabet) /\ <<>> \in Seq(Alphabet)
      BY <3>1
    <3> QED
      BY <3>1, <3>2
  <2>2. u \in Seq(Alphabet)
    BY <1>1
  <2> HIDE DEF u
  <2>3. /\ c \o d \in Seq(Alphabet) /\ skip \o u \in Seq(Alphabet)
        /\ <<CR>> \o (skip \o u) \in Seq(Alphabet)
    BY <2>1, <2>2, ConcatProperties
  <2>4. NoLF(skip \o u) = z
    <3>1. NoLF(skip) = <<>>
      BY NoLFOfNone, NoLFOfOne
    <3>2. NoLF(skip \o u) = NoLF(skip) \o NoLF(u)
      BY <2>1, <2>2, NoLFConcat
    <3> QED
      BY <1>2, <3>1, <3>2, ConcatEmptySeq
  <2>5. NoLF(<<CR>> \o (skip \o u)) = <<CR>> \o z
    <3>1. NoLF(<<CR>>) = <<CR>>
      BY <2>1, NoLFOfOne
    <3>2. NoLF(<<CR>> \o (skip \o u)) = NoLF(<<CR>>) \o NoLF(skip \o u)
      BY <2>1, <2>3, NoLFConcat
    <3> QED
      BY ONLY <2>4, <3>1, <3>2
  <2>6. NoLF(c \o d) = x \o y
    BY NoLFConcat
  <2>7. NoLF((c \o d) \o (<<CR>> \o (skip \o u)))
          = NoLF(c \o d) \o NoLF(<<CR>> \o (skip \o u))
    BY <2>3, NoLFConcat
  <2>8. Unsent = (c \o d) \o (<<CR>> \o (skip \o u))
    BY <1>1 DEF u
  <2> HIDE DEF x, y, z
  <2> QED
    BY ONLY <2>5, <2>6, <2>7, <2>8 DEF t
<1>6. SentLines' = Append(SentLines, x)
  <2>1. PICK num : sent' = Append(sent, [num |-> num, text |-> c])
    BY <1>1
  <2>2. [num |-> num, text |-> c].text = c
    OBVIOUS
  <2> QED
    BY <2>1, <2>2, OneMore
<1>7. z = NoLF(Unsent)' /\ CR \in Alphabet
  BY DEF Alphabet
<1> HIDE DEF u, x, y, z, t
<1>8. FirstLine(t, x, z)
  BY <1>2, <1>3, <1>4, <1>5, <1>7, EmitForm
<1>9. PICK k \in 1 .. Len(t) :
        /\ t[k] = CR /\ \A i \in 1 .. k - 1 : t[i] # CR
        /\ \E n \in 0 .. k - 1 :
             /\ \A i \in 1 .. n : t[i] # NUL
             /\ t[n + 1] \in {NUL, CR}
             /\ x = SubSeq(t, 1, n)
        /\ z = SubSeq(t, k + 1, Len(t))
  BY <1>8 DEF FirstLine
<1>10. \E n \in 0 .. k - 1 :
         /\ \A i \in 1 .. n : t[i] # NUL
         /\ t[n + 1] \in {NUL, CR}
         /\ SentLines' = Append(SentLines, SubSeq(t, 1, n))
  BY ONLY <1>6, <1>9
<1>11. NoLF(Unsent)' = SubSeq(t, k + 1, Len(t))
  BY ONLY <1>7, <1>9
<1> QED
  BY ONLY <1>9, <1>10, <1>11 DEF Lines!Emit, t

(* The line feeds that are skipped at the end of a call.                   *)
LEMMA KeepStutters ==
  ASSUME BufferInv, KeepRest
  PROVE  \E a \in Seq(Alphabet) :
           /\ Unsent = a \o Unsent' /\ \A i \in 1 .. Len(a) : a[i] = LF
           /\ Unsent' \in Seq(Alphabet)
<1>1. PICK k \in tptr .. Len(rptr) :
        /\ \A i \in tptr + 1 .. k : rptr[i] = LF
        /\ rptr' = SubSeq(rptr, k + 1, Len(rptr))
  BY DEF KeepRest, Keep
<1>2. rptr \in Seq(Alphabet) /\ tptr \in 0 .. Len(rptr) /\ Len(rptr) \in Nat /\ tptr' = 0
  BY LenProperties DEF BufferInv, BufferOK, KeepRest, Keep
<1> DEFINE a == SubSeq(rptr, tptr + 1, k)
           b == SubSeq(rptr, k + 1, Len(rptr))
<1>3. k \in 0 .. Len(rptr) /\ tptr \in Nat
  BY <1>2
<1>4. b \in Seq(Alphabet)
  BY <1>2, <1>3, TwoParts
<1>5. Unsent' = b
  BY <1>1, <1>2, <1>4, SubSeqFull DEF Unsent
<1>6. Unsent = a \o b
  <2>1. /\ tptr + 1 \in 1 .. Len(rptr) + 1 /\ k \in (tptr + 1) - 1 .. Len(rptr)
        /\ Len(rptr) \in k .. Len(rptr)
    BY <1>2, <1>3
  <2> QED
    BY <1>2, <2>1, ConcatAdjacentSubSeq DEF Unsent
<1>7. \A i \in tptr + 1 .. k : rptr[i] \in Alphabet
  BY <1>1 DEF Alphabet
<1>8. /\ a \in Seq(Alphabet)
      /\ Len(a) = IF tptr + 1 <= k THEN k - (tptr + 1) + 1 ELSE 0
      /\ \A i \in 1 .. k - (tptr + 1) + 1 : a[i] = rptr[(tptr + 1) + i - 1]
  BY <1>2, <1>3, <1>7, SubSeqProperties
<1> HIDE DEF a, b
<1>9. \A i \in 1 .. Len(a) : a[i] = LF
  <2> SUFFICES ASSUME NEW i \in 1 .. Len(a) PROVE a[i] = LF
    OBVIOUS
  <2>1. /\ i \in 1 .. k - (tptr + 1) + 1 /\ (tptr + 1) + i - 1 \in tptr + 1 .. k
    BY <1>3, <1>8
  <2> QED
    BY <1>1, <1>8, <2>1
<1> QED
  BY <1>4, <1>5, <1>6, <1>8, <1>9

(* However the output is cut into calls, the lines that reach syslog are   *)
(* those of the log that LineLog describes: SendLine ends one of its       *)
(* lines, a call accepts characters, everything else changes nothing.      *)
THEOREM LinesAreKept == Spec => KeepsLines
<1>1. Init => Lines!Init
  <2> SUFFICES ASSUME Init PROVE Lines!Init
    OBVIOUS
  <2>1. Unsent = <<>>
    <3>1. 0 + 1 > 0
      OBVIOUS
    <3>2. rptr = <<>> /\ tptr = 0 /\ Len(rptr) = 0
      BY EmptySeq DEF Init
    <3> QED
      BY <3>1, <3>2, SubSeqEmpty DEF Unsent
  <2>2. SentLines = <<>>
    <3>1. Len(sent) = 0
      BY EmptySeq DEF Init
    <3>2. 1 .. 0 = {}
      OBVIOUS
    <3> QED
      BY <3>1, <3>2 DEF SentLines
  <2> QED
    BY <2>1, <2>2, NoLFOfNone DEF Lines!Init
<1>2. BufferInv /\ Numbered /\ [Next]_vars => [Lines!Next]_(Lines!vars)
  <2> SUFFICES ASSUME BufferInv, Numbered, [Next]_vars
               PROVE  [Lines!Next]_(Lines!vars)
    OBVIOUS
  <2>1. CASE Write
    <3>1. PICK n \in {MaxChunk, Room} : \E chunk \in Chunks(n) : Enter(chunk)
      BY <2>1 DEF Write
    <3> QED
      BY <3>1, ChunkIsSeq, EnterAccepts DEF Lines!Next
  <2>2. CASE Close
    <3>1. <<CR, LF>> \in Seq(Alphabet) /\ <<CR, LF>> # <<>>
      BY DEF Alphabet
    <3> QED
      BY <2>2, <3>1, EnterAccepts DEF Close, FlushWith, Lines!Next
  <2>3. CASE SendLine
    BY <2>3, SendEmits DEF Lines!Next
  <2>4. CASE KeepRest
    <3>1. PICK a \in Seq(Alphabet) :
            /\ Unsent = a \o Unsent' /\ \A i \in 1 .. Len(a) : a[i] = LF
            /\ Unsent' \in Seq(Alphabet)
      BY <2>4, KeepStutters
    <3> DEFINE u == Unsent'
    <3>2. NoLF(u) \in Seq(Alphabet \ {LF})
      BY <3>1, NoLFType
    <3>3. NoLF(a) = <<>>
      BY <3>1, NoLFOfLF
    <3>4. NoLF(a \o u) = NoLF(a) \o NoLF(u)
      BY <3>1, NoLFConcat
    <3>5. NoLF(a \o u) = NoLF(u)
      BY <3>2, <3>3, <3>4, ConcatEmptySeq
    <3>6. NoLF(Unsent)' = NoLF(Unsent)
      BY <3>1, <3>5
    <3>7. SentLines' = SentLines
      BY <2>4 DEF KeepRest, Keep, SentLines
    <3> QED
      BY <3>6, <3>7 DEF Lines!vars
  <2>5. CASE OutOfMemory \/ UNCHANGED vars
    <3>1. rptr' = rptr /\ tptr' = tptr /\ sent' = sent
      BY <2>5 DEF OutOfMemory, vars
    <3>2. Unsent' = Unsent /\ SentLines' = SentLines
      BY <3>1 DEF Unsent, SentLines
    <3> QED
      BY <3>2 DEF Lines!vars
  <2> QED
    BY <2>1, <2>2, <2>3, <2>4, <2>5 DEF Next
<1> QED
  BY <1>1, <1>2, BufferInvHolds, CountersHold, PTL DEF Spec, KeepsLines, Lines!Spec

-----------------------------------------------------------------------------
(* What is heard of a text.                                                *)

Ears  == [silent : BOOLEAN, text : Seq(Alphabet)]
Quiet == [silent |-> FALSE, text |-> <<>>]
Hear(c, x) ==
  CASE c = NUL -> [x EXCEPT !.silent = TRUE]
    [] c = CR  -> [x EXCEPT !.silent = FALSE]
    [] c = LF  -> x
    [] OTHER -> IF x.silent THEN x ELSE [x EXCEPT !.text = Append(@, c)]
At(s) == Hearing(s)[Len(s)]

HearsOne(c, x) ==
  /\ Hear(c, x) \in Ears
  /\ Hear(c, x).silent = IF c = NUL THEN TRUE ELSE IF c = CR THEN FALSE ELSE x.silent
  /\ Hear(c, x).text = IF c \in {NUL, CR, LF} \/ x.silent THEN x.text
                       ELSE Append(x.text, c)

LEMMA HearOne == ASSUME NEW c \in Alphabet, NEW x \in Ears PROVE HearsOne(c, x)
<1> USE DEF HearsOne
<1>1. /\ x.silent \in BOOLEAN /\ x.text \in Seq(Alphabet)
      /\ x = [silent |-> x.silent, text |-> x.text]
  BY DEF Ears
<1>2. NUL # CR /\ NUL # LF /\ CR # LF
  BY DEF NUL, CR, LF
<1>3. ASSUME NEW b \in BOOLEAN, NEW s \in Seq(Alphabet), Hear(c, x) = [silent |-> b, text |-> s]
      PROVE  Hear(c, x) \in Ears /\ Hear(c, x).silent = b /\ Hear(c, x).text = s
  BY <1>3 DEF Ears
<1>4. CASE c = NUL
  <2>1. Hear(c, x) = [x EXCEPT !.silent = TRUE]
    BY <1>2, <1>4 DEF Hear
  <2>2. Hear(c, x) = [silent |-> TRUE, text |-> x.text]
    BY <1>1, <2>1
  <2>3. Hear(c, x) \in Ears /\ Hear(c, x).silent = TRUE /\ Hear(c, x).text = x.text
    BY <1>1, <1>3, <2>2
  <2> QED
    BY <1>4, <2>3
<1>5. CASE c = CR
  <2>1. Hear(c, x) = [x EXCEPT !.silent = FALSE]
    BY <1>2, <1>5 DEF Hear
  <2>2. Hear(c, x) = [silent |-> FALSE, text |-> x.text]
    BY <1>1, <2>1
  <2>3. Hear(c, x) \in Ears /\ Hear(c, x).silent = FALSE /\ Hear(c, x).text = x.text
    BY <1>1, <1>3, <2>2
  <2> QED
    BY <1>2, <1>5, <2>3
<1>6. CASE c = LF
  <2>1. Hear(c, x) = x
    BY <1>2, <1>6 DEF Hear
  <2> QED
    BY <1>2, <1>6, <2>1
<1>7. CASE c \notin {NUL, CR, LF} /\ x.silent
  <2>1. Hear(c, x) = x
    BY <1>7 DEF Hear
  <2> QED
    BY <1>7, <2>1
<1>8. CASE c \notin {NUL, CR, LF} /\ ~x.silent
  <2>1. Hear(c, x) = [x EXCEPT !.text = Append(x.text, c)]
    BY <1>8 DEF Hear
  <2>2. Hear(c, x) = [silent |-> x.silent, text |-> Append(x.text, c)]
    BY <1>1, <2>1
  <2>3. Append(x.text, c) \in Seq(Alphabet)
    BY <1>1, AppendProperties
  <2>4. /\ Hear(c, x) \in Ears /\ Hear(c, x).silent = x.silent
        /\ Hear(c, x).text = Append(x.text, c)
    BY <1>1, <1>3, <2>2, <2>3
  <2> QED
    BY <1>8, <2>4
<1> QED
  BY <1>4, <1>5, <1>6, <1>7, <1>8

LEMMA HearingSteps ==
  ASSUME NEW s \in Seq(Alphabet)
  PROVE  /\ Hearing(s)[0] = Quiet
         /\ \A i \in 1 .. Len(s) : Hearing(s)[i] = Hear(s[i], Hearing(s)[i - 1])
         /\ \A i \in 0 .. Len(s) : Hearing(s)[i] \in Ears
<1> DEFINE n == Len(s)
           step == [c \in Alphabet |-> [x \in Ears |-> Hear(c, x)]]
           h == Hearing(s)
<1>1. n \in Nat /\ \A i \in 1 .. n : s[i] \in Alphabet
  BY LenProperties, ElementOfSeq
<1>2. step \in [Alphabet -> [Ears -> Ears]]
  <2>1. \A c \in Alphabet, x \in Ears : HearsOne(c, x)
    BY HearOne
  <2> QED
    BY <2>1 DEF HearsOne
<1>3. Quiet \in Ears
  <2>1. <<>> \in Seq(Alphabet) /\ FALSE \in BOOLEAN
    BY EmptySeq
  <2> QED
    BY <2>1 DEF Quiet, Ears
<1>4. PICK g : Reads(s, Ears, Quiet, step, g)
  <2> HIDE DEF step
  <2> QED
    BY <1>2, <1>3, Machine
<1>5. g \in [0 .. n -> Ears] /\ g[0] = Quiet
  BY <1>4 DEF Reads
<1>6. ASSUME NEW i \in 1 .. n PROVE g[i] = Hear(s[i], g[i - 1])
  <2>1. g[i] = step[s[i]][g[i - 1]]
    BY <1>4 DEF Reads
  <2>2. g[i - 1] \in Ears /\ s[i] \in Alphabet
    BY <1>1, <1>5
  <2> QED
    BY <2>1, <2>2
<1>7. g = [i \in 0 .. n |-> IF i = 0 THEN Quiet ELSE Hear(s[i], g[i - 1])]
  <2>1. \A i \in 0 .. n : i = 0 \/ i \in 1 .. n
    BY <1>1
  <2>2. g = [i \in 0 .. n |-> g[i]] /\ g[0] = Quiet
    BY <1>5
  <2> HIDE DEF n
  <2> QED
    BY ONLY <1>6, <2>1, <2>2
<1>8. h = [i \in 0 .. n |-> IF i = 0 THEN Quiet ELSE Hear(s[i], h[i - 1])]
  BY <1>7, Zenon DEF Hearing, Hear, Quiet
<1> HIDE DEF h
<1>9. h[0] = Quiet /\ \A i \in 1 .. n : h[i] = Hear(s[i], h[i - 1])
  <2>1. 0 \in 0 .. n /\ \A i \in 1 .. n : i \in 0 .. n /\ i # 0
    BY <1>1
  <2> HIDE DEF n
  <2> QED
    BY ONLY <1>8, <2>1
<1>10. \A i \in 0 .. n : h[i] \in Ears
  <2> DEFINE P == {i \in 0 .. n : h[i] \in Ears}
  <2>1. 0 \in P
    BY <1>1, <1>3, <1>9
  <2>2. ASSUME NEW i \in 1 .. n, i - 1 \in P PROVE i \in P
    <3>1. h[i - 1] \in Ears /\ s[i] \in Alphabet /\ i \in 0 .. n
      BY <1>1, <2>2
    <3>2. h[i] = Hear(s[i], h[i - 1])
      BY <1>9
    <3> DEFINE e == s[i]
               x == h[i - 1]
    <3>3. e \in Alphabet /\ x \in Ears
      BY <3>1
    <3> HIDE DEF e, x
    <3>4. HearsOne(e, x)
      BY ONLY <3>3, HearOne
    <3> QED
      BY <3>1, <3>2, <3>4 DEF e, x, HearsOne
  <2> HIDE DEF P, n
  <2>3. \A i \in 0 .. n : i \in P
    BY <1>1, <2>1, <2>2, Induct
  <2> QED
    BY <2>3 DEF P
<1> QED
  BY <1>9, <1>10 DEF h

(* Hearing t after s.                                                      *)
HearsOn(t, x, g) ==
  /\ g \in [0 .. Len(t) -> Ears]
  /\ g[0] = x
  /\ \A i \in 1 .. Len(t) : g[i] = Hear(t[i], g[i - 1])

LEMMA HearOn ==
  ASSUME NEW s \in Seq(Alphabet), NEW t \in Seq(Alphabet)
  PROVE  \E g : HearsOn(t, At(s), g) /\ At(s \o t) = g[Len(t)]
<1> DEFINE m == Len(s)
           n == Len(t)
           u == s \o t
           a == Hearing(s)
           c == Hearing(u)
           g == [i \in 0 .. n |-> c[m + i]]
<1>1. m \in Nat /\ n \in Nat /\ u \in Seq(Alphabet) /\ Len(u) = m + n
  BY LenProperties, ConcatProperties
<1>2. \A i \in 1 .. m : u[i] = s[i]
  BY <1>1, ConcatProperties
<1>3. ASSUME NEW i \in 1 .. n PROVE u[m + i] = t[i] /\ m + i \in 1 .. Len(u)
  <2>1. m + i \in 1 .. m + n /\ ~(m + i <= m) /\ m + i - m = i
    BY <1>1
  <2> QED
    BY <1>1, <2>1, ConcatProperties
<1> HIDE DEF u
<1>4. /\ a[0] = Quiet
      /\ \A i \in 1 .. m : a[i] = Hear(s[i], a[i - 1])
  BY HearingSteps
<1>5. /\ c[0] = Quiet
      /\ \A i \in 1 .. Len(u) : c[i] = Hear(u[i], c[i - 1])
      /\ \A i \in 0 .. Len(u) : c[i] \in Ears
  BY <1>1, HearingSteps
<1>6. At(s) = a[m] /\ At(u) = c[m + n]
  BY <1>1 DEF At
<1> HIDE DEF a, c, m, n
<1>7. \A i \in 0 .. m : c[i] = a[i]
  <2> DEFINE P == {i \in 0 .. m : c[i] = a[i]}
  <2>1. 0 \in P
    BY <1>1, <1>4, <1>5
  <2>2. ASSUME NEW i \in 1 .. m, i - 1 \in P PROVE i \in P
    <3>1. i \in 1 .. Len(u) /\ i \in 0 .. m /\ c[i - 1] = a[i - 1] /\ u[i] = s[i]
      BY <1>1, <1>2, <2>2
    <3>2. c[i] = Hear(u[i], c[i - 1]) /\ a[i] = Hear(s[i], a[i - 1])
      BY <1>4, <1>5, <3>1
    <3> QED
      BY <3>1, <3>2
  <2> HIDE DEF P
  <2>3. \A i \in 0 .. m : i \in P
    BY <1>1, <2>1, <2>2, Induct
  <2> QED
    BY <2>3 DEF P
<1>8. g \in [0 .. n -> Ears]
  <2>1. \A i \in 0 .. n : m + i \in 0 .. Len(u)
    BY <1>1
  <2> QED
    BY <1>5, <2>1
<1>9. g[0] = a[m]
  <2>1. m + 0 = m /\ 0 \in 0 .. n /\ m \in 0 .. m
    BY <1>1
  <2> QED
    BY <1>7, <2>1
<1>10. ASSUME NEW i \in 1 .. n PROVE g[i] = Hear(t[i], g[i - 1])
  <2> DEFINE j == m + i
  <2>1. j \in 1 .. Len(u) /\ u[j] = t[i] /\ j - 1 = m + (i - 1)
    BY <1>1, <1>3
  <2>2. i \in 0 .. n /\ i - 1 \in 0 .. n
    BY <1>1
  <2>3. g[i] = c[j] /\ g[i - 1] = c[j - 1]
    BY <2>1, <2>2
  <2> HIDE DEF j, g
  <2>4. c[j] = Hear(u[j], c[j - 1])
    BY ONLY <1>5, <2>1
  <2> QED
    BY ONLY <2>1, <2>3, <2>4
<1>11. g[n] = c[m + n]
  BY <1>1
<1> HIDE DEF g
<1>12. HearsOn(t, At(s), g)
  BY <1>6, <1>8, <1>9, <1>10 DEF HearsOn, n
<1> QED
  BY <1>6, <1>11, <1>12 DEF n, u

LEMMA AtType == ASSUME NEW s \in Seq(Alphabet) PROVE At(s) \in Ears
<1>1. Len(s) \in 0 .. Len(s)
  BY LenProperties
<1> QED
  BY <1>1, HearingSteps DEF At

(* Of a is heard what is heard of b, and p before it: that stays true when *)
(* both go on alike.                                                       *)
Ahead(p, a, b) == At(a).silent = At(b).silent /\ At(a).text = p \o At(b).text

LEMMA Alike ==
  ASSUME NEW a \in Seq(Alphabet), NEW b \in Seq(Alphabet), NEW c \in Seq(Alphabet),
         NEW p \in Seq(Alphabet), Ahead(p, a, b)
  PROVE  Ahead(p, a \o c, b \o c)
<1> DEFINE n == Len(c)
<1>1. n \in Nat /\ \A i \in 1 .. n : c[i] \in Alphabet
  BY LenProperties, ElementOfSeq
<1>2. PICK f : HearsOn(c, At(a), f) /\ At(a \o c) = f[n]
  BY HearOn
<1>3. PICK g : HearsOn(c, At(b), g) /\ At(b \o c) = g[n]
  BY HearOn
<1> DEFINE P == {i \in 0 .. n : f[i].silent = g[i].silent /\ f[i].text = p \o g[i].text}
<1>4. 0 \in P
  BY <1>1, <1>2, <1>3 DEF HearsOn, Ahead
<1>5. ASSUME NEW i \in 1 .. n, i - 1 \in P PROVE i \in P
  <2> DEFINE x == f[i - 1]
             y == g[i - 1]
             e == c[i]
  <2>1. i - 1 \in 0 .. n /\ i \in 0 .. n /\ e \in Alphabet
    BY <1>1
  <2>2. x \in Ears /\ y \in Ears /\ f[i] = Hear(e, x) /\ g[i] = Hear(e, y)
    BY <1>2, <1>3, <2>1 DEF HearsOn
  <2>3. x.silent = y.silent /\ x.text = p \o y.text /\ y.text \in Seq(Alphabet)
    BY <1>5, <2>2 DEF Ears
  <2> HIDE DEF x, y, e, P, n
  <2>4. /\ Hear(e, x).silent = IF e = NUL THEN TRUE ELSE IF e = CR THEN FALSE ELSE x.silent
        /\ Hear(e, x).text = IF e \in {NUL, CR, LF} \/ x.silent THEN x.text
                             ELSE Append(x.text, e)
        /\ Hear(e, y).silent = IF e = NUL THEN TRUE ELSE IF e = CR THEN FALSE ELSE y.silent
        /\ Hear(e, y).text = IF e \in {NUL, CR, LF} \/ y.silent THEN y.text
                             ELSE Append(y.text, e)
    <3>1. HearsOne(e, x) /\ HearsOne(e, y)
      BY <2>1, <2>2, HearOne
    <3> QED
      BY ONLY <3>1 DEF HearsOne
  <2>5. Append(p \o y.text, e) = p \o Append(y.text, e)
    <3> DEFINE q == y.text
               r == <<e>>
    <3>1. q \in Seq(Alphabet) /\ r \in Seq(Alphabet) /\ p \o q \in Seq(Alphabet)
      BY <2>1, <2>3, ConcatProperties
    <3>2. Append(q, e) = q \o r /\ Append(p \o q, e) = (p \o q) \o r
      BY <2>1, <3>1, AppendIsConcat
    <3> HIDE DEF q, r
    <3>3. Regroups(p, q, r)
      BY <3>1, Regroup
    <3> QED
      BY ONLY <3>2, <3>3 DEF q, Regroups
  <2>6. Hear(e, x).silent = Hear(e, y).silent
    BY ONLY <2>3, <2>4
  <2>7. Hear(e, x).text = p \o Hear(e, y).text
    BY ONLY <2>3, <2>4, <2>5
  <2> QED
    BY <2>1, <2>2, <2>6, <2>7 DEF P
<1>6. n \in P
  <2> HIDE DEF P, n
  <2>1. \A i \in 0 .. n : i \in P
    BY <1>1, <1>4, <1>5, Induct
  <2> QED
    BY <1>1, <2>1
<1> QED
  BY <1>2, <1>3, <1>6 DEF Ahead

(* Line feeds change nothing, a CR ends the silence.                       *)
LEMMA HearLFs ==
  ASSUME NEW s \in Seq(Alphabet), NEW a \in Seq(Alphabet),
         \A i \in 1 .. Len(a) : a[i] = LF
  PROVE  At(s \o a) = At(s)
<1> DEFINE n == Len(a)
<1>1. n \in Nat
  BY LenProperties
<1>2. PICK g : HearsOn(a, At(s), g) /\ At(s \o a) = g[n]
  BY HearOn
<1> DEFINE P == {i \in 0 .. n : g[i] = At(s)}
<1>3. 0 \in P
  BY <1>1, <1>2 DEF HearsOn
<1>4. ASSUME NEW i \in 1 .. n, i - 1 \in P PROVE i \in P
  <2>1. g[i] = Hear(LF, At(s)) /\ i \in 0 .. n
    BY <1>1, <1>2, <1>4 DEF HearsOn
  <2>2. Hear(LF, At(s)) = At(s)
    BY DEF Hear, LF, CR, NUL
  <2> QED
    BY <2>1, <2>2
<1>5. n \in P
  <2> HIDE DEF P, n
  <2>1. \A i \in 0 .. n : i \in P
    BY <1>1, <1>3, <1>4, Induct
  <2> QED
    BY <1>1, <2>1
<1> QED
  BY <1>2, <1>5

LEMMA HearCR ==
  ASSUME NEW s \in Seq(Alphabet)
  PROVE  At(s \o <<CR>>).silent = FALSE /\ At(s \o <<CR>>).text = At(s).text
<1>1. <<CR>> \in Seq(Alphabet) /\ Len(<<CR>>) = 1 /\ <<CR>>[1] = CR /\ CR \in Alphabet
  BY DEF Alphabet
<1>2. PICK g : HearsOn(<<CR>>, At(s), g) /\ At(s \o <<CR>>) = g[1]
  BY <1>1, HearOn
<1>3. 1 \in 1 .. 1 /\ 1 - 1 = 0 /\ CR # NUL
  BY DEF CR, NUL
<1>4. g[1] = Hear(CR, At(s))
  BY <1>1, <1>2, <1>3 DEF HearsOn
<1>5. At(s) \in Ears
  BY AtType
<1>6. HearsOne(CR, At(s))
  BY <1>1, <1>5, HearOne
<1> QED
  BY ONLY <1>2, <1>3, <1>4, <1>6 DEF HearsOne

LEMMA HearNone == At(<<>>) = Quiet
<1>1. <<>> \in Seq(Alphabet) /\ Len(<<>>) = 0
  BY EmptySeq
<1> QED
  BY <1>1, HearingSteps DEF At

(* Without NUL and CR only the line feeds are not heard.                   *)
LEMMA HearPlain ==
  ASSUME NEW s \in Seq(Alphabet), \A i \in 1 .. Len(s) : s[i] # NUL /\ s[i] # CR
  PROVE  At(s).silent = FALSE /\ At(s).text = NoLF(s)
<1> DEFINE n == Len(s)
           h == Hearing(s)
<1>1. n \in Nat /\ \A i \in 1 .. n : s[i] \in Alphabet
  BY LenProperties, ElementOfSeq
<1>2. PICK kept : Strips(Alphabet, s, kept)
  BY NoLFStrips
<1>3. /\ h[0] = Quiet /\ \A i \in 1 .. n : h[i] = Hear(s[i], h[i - 1])
      /\ \A i \in 0 .. n : h[i] \in Ears
  BY HearingSteps
<1>4. At(s) = h[n]
  BY DEF At
<1> HIDE DEF h
<1> DEFINE P == {i \in 0 .. n : h[i].silent = FALSE /\ h[i].text = kept[i]}
<1>5. 0 \in P
  <2>1. h[0].silent = FALSE /\ h[0].text = <<>>
    BY <1>3 DEF Quiet
  <2>2. kept[0] = <<>>
    BY <1>2 DEF Strips
  <2> QED
    BY <1>1, <2>1, <2>2
<1>6. ASSUME NEW i \in 1 .. n, i - 1 \in P PROVE i \in P
  <2> DEFINE e == s[i]
             x == h[i - 1]
  <2>1. i \in 0 .. n /\ i - 1 \in 0 .. n
    BY <1>1
  <2>2. /\ e \in Alphabet /\ e # NUL /\ e # CR /\ x \in Ears
        /\ h[i] = Hear(e, x) /\ x.silent = FALSE /\ x.text = kept[i - 1]
    BY <1>1, <1>3, <1>6, <2>1
  <2>3. kept[i] = IF e = LF THEN kept[i - 1] ELSE Append(kept[i - 1], e)
    BY <1>2 DEF Strips
  <2> HIDE DEF e, x
  <2>4. /\ Hear(e, x).silent = IF e = NUL THEN TRUE ELSE IF e = CR THEN FALSE ELSE x.silent
        /\ Hear(e, x).text = IF e \in {NUL, CR, LF} \/ x.silent THEN x.text
                             ELSE Append(x.text, e)
    <3>1. HearsOne(e, x)
      BY <2>2, HearOne
    <3> QED
      BY <3>1 DEF HearsOne
  <2>5. Hear(e, x).silent = FALSE /\ Hear(e, x).text = kept[i]
    BY <2>2, <2>3, <2>4
  <2> QED
    BY <2>1, <2>2, <2>5
<1>7. n \in P
  <2> HIDE DEF P, n
  <2>1. \A i \in 0 .. n : i \in P
    BY <1>1, <1>5, <1>6, Induct
  <2> QED
    BY <1>1, <2>1
<1> QED
  BY <1>2, <1>4, <1>7 DEF Strips

(* Behind a NUL nothing is heard.                                          *)
LEMMA HearCut ==
  ASSUME NEW s \in Seq(Alphabet), NEW d \in Seq(Alphabet),
         \A i \in 1 .. Len(d) : d[i] # CR,
         d = <<>> \/ d[1] = NUL
  PROVE  At(s \o d).text = At(s).text
<1> DEFINE n == Len(d)
<1>1. n \in Nat /\ (\A i \in 1 .. n : d[i] \in Alphabet) /\ (n >= 1 => d[1] = NUL)
  BY LenProperties, ElementOfSeq, EmptySeq
<1>2. PICK g : HearsOn(d, At(s), g) /\ At(s \o d) = g[n]
  BY HearOn
<1> DEFINE P == {i \in 0 .. n : g[i].text = At(s).text /\ (i >= 1 => g[i].silent = TRUE)}
<1>3. 0 \in P
  BY <1>1, <1>2 DEF HearsOn
<1>4. ASSUME NEW i \in 1 .. n, i - 1 \in P PROVE i \in P
  <2> DEFINE e == d[i]
             x == g[i - 1]
  <2>1. i \in 0 .. n /\ i - 1 \in 0 .. n
    BY <1>1
  <2>2. e \in Alphabet /\ e # CR /\ x \in Ears /\ g[i] = Hear(e, x)
    BY <1>1, <1>2, <2>1 DEF HearsOn
  <2>3. x.text = At(s).text /\ (i - 1 >= 1 => x.silent = TRUE)
    BY <1>4
  <2>4. i = 1 => e = NUL
    BY <1>1
  <2> HIDE DEF e, x
  <2>5. /\ Hear(e, x).silent = IF e = NUL THEN TRUE ELSE IF e = CR THEN FALSE ELSE x.silent
        /\ Hear(e, x).text = IF e \in {NUL, CR, LF} \/ x.silent THEN x.text
                             ELSE Append(x.text, e)
    <3>1. HearsOne(e, x)
      BY <2>2, HearOne
    <3> QED
      BY <3>1 DEF HearsOne
  <2>6. e = NUL \/ x.silent = TRUE
    BY <1>1, <2>3, <2>4
  <2>7. Hear(e, x).silent = TRUE /\ Hear(e, x).text = At(s).text
    BY <2>2, <2>3, <2>5, <2>6
  <2> QED
    BY <2>1, <2>2, <2>7
<1>5. n \in P
  <2> HIDE DEF P, n
  <2>1. \A i \in 0 .. n : i \in P
    BY <1>1, <1>3, <1>4, Induct
  <2> QED
    BY <1>1, <2>1
<1> QED
  BY <1>2, <1>5

(* FlattenSeq, sequence by sequence.                                       *)
Joins(L, T, g) ==
  /\ g \in [0 .. Len(L) -> Seq(T)]
  /\ g[0] = <<>>
  /\ \A i \in 1 .. Len(L) : g[i] = g[i - 1] \o L[i]
  /\ FlattenSeq(L) = g[Len(L)]

LEMMA FlattenJoins ==
  ASSUME NEW T, NEW L \in Seq(Seq(T))
  PROVE  \E g : Joins(L, T, g)
<1> DEFINE n == Len(L)
           X == Seq(T)
           none == <<>>
           step == [c \in X |-> [x \in X |-> x \o c]]
<1>1. n \in Nat /\ \A i \in 1 .. n : L[i] \in X
  BY LenProperties, ElementOfSeq
<1>2. none \in X /\ L \in Seq(X)
  BY EmptySeq
<1>3. \A c \in X, x \in X : x \o c \in X
  BY ConcatProperties
<1>4. PICK g : Reads(L, X, none, step, g)
  <2> HIDE DEF X
  <2>1. step \in [X -> [X -> X]]
    BY <1>3
  <2> HIDE DEF step, none
  <2> QED
    BY ONLY <1>2, <2>1, Machine
<1>5. g \in [0 .. n -> X] /\ g[0] = <<>>
  BY <1>4 DEF Reads
<1> HIDE DEF X
<1>6. ASSUME NEW i \in 1 .. n PROVE g[i] = g[i - 1] \o L[i]
  <2>1. g[i] = step[L[i]][g[i - 1]]
    BY <1>4 DEF Reads
  <2>2. i - 1 \in 0 .. n /\ L[i] \in X
    BY <1>1
  <2>3. g[i - 1] \in X
    BY ONLY <1>5, <2>2
  <2> QED
    BY <2>1, <2>2, <2>3
<1>7. FlattenSeq(L) = g[n]
  <2>1. CASE n = 0
    <3>1. L = <<>>
      BY <2>1, EmptySeq
    <3>2. FlattenSeq(L) = L
      BY <2>1, <3>1 DEF FlattenSeq
    <3> QED
      BY <1>5, <2>1, <3>1, <3>2
  <2>2. CASE n # 0
    <3> DEFINE f == [i \in 1 .. n |-> g[i]]
               k == CHOOSE k : k = [i \in 1 .. n |-> IF i = 1 THEN L[i] ELSE k[i - 1] \o L[i]]
    <3>1. \A i \in 1 .. n : f[i] = IF i = 1 THEN L[i] ELSE f[i - 1] \o L[i]
      <4> SUFFICES ASSUME NEW i \in 1 .. n
                   PROVE  f[i] = IF i = 1 THEN L[i] ELSE f[i - 1] \o L[i]
        OBVIOUS
      <4>1. f[i] = g[i - 1] \o L[i]
        BY <1>6
      <4>2. CASE i = 1
        <5>1. g[i - 1] = <<>> /\ L[i] \in Seq(T)
          BY <1>1, <1>5, <4>2 DEF X
        <5>2. <<>> \o L[i] = L[i]
          BY <5>1, ConcatEmptySeq
        <5> QED
          BY <4>1, <4>2, <5>1, <5>2
      <4>3. CASE i # 1
        <5>1. i - 1 \in 1 .. n
          BY <1>1, <4>3
        <5>2. f[i - 1] = g[i - 1]
          BY <5>1
        <5> HIDE DEF f
        <5> QED
          BY ONLY <4>1, <4>3, <5>2
      <4> QED
        BY <4>2, <4>3
    <3>2. f = [i \in 1 .. n |-> IF i = 1 THEN L[i] ELSE f[i - 1] \o L[i]]
      <4>1. f = [i \in 1 .. n |-> f[i]]
        OBVIOUS
      <4> HIDE DEF f, n
      <4> QED
        BY ONLY <3>1, <4>1
    <3>3. k = [i \in 1 .. n |-> IF i = 1 THEN L[i] ELSE k[i - 1] \o L[i]]
      <4> HIDE DEF f
      <4> QED
        BY <3>2
    <3>4. FlattenSeq(L) = k[n]
      BY <2>2 DEF FlattenSeq
    <3> HIDE DEF k
    <3>5. \A i \in 1 .. n : k[i] = IF i = 1 THEN L[i] ELSE k[i - 1] \o L[i]
      <4> HIDE DEF n
      <4> QED
        BY ONLY <3>3
    <3> DEFINE P == {i \in 0 .. n : i = 0 \/ k[i] = g[i]}
    <3>6. 0 \in P
      BY <1>1
    <3>7. ASSUME NEW i \in 1 .. n, i - 1 \in P PROVE i \in P
      <4>1. i \in 0 .. n /\ (i = 1 \/ k[i - 1] = g[i - 1])
        BY <1>1, <3>7
      <4>2. f[i] = g[i]
        OBVIOUS
      <4>3. CASE i = 1
        BY <3>1, <3>5, <4>1, <4>2, <4>3
      <4>4. CASE i # 1
        <5>1. k[i] = k[i - 1] \o L[i] /\ g[i] = g[i - 1] \o L[i]
          BY <1>6, <3>5, <4>4
        <5> QED
          BY <4>1, <4>4, <5>1
      <4> QED
        BY <4>3, <4>4
    <3>8. n \in P
      <4> HIDE DEF P, n
      <4>1. \A i \in 0 .. n : i \in P
        BY <1>1, <3>6, <3>7, Induct
      <4> QED
        BY <1>1, <4>1
    <3> QED
      BY <2>2, <3>4, <3>8
  <2> QED
    BY <2>1, <2>2
<1> QED
  BY <1>5, <1>6, <1>7 DEF Joins, X

LEMMA FlattenType ==
  ASSUME NEW T, NEW L \in Seq(Seq(T))
  PROVE  FlattenSeq(L) \in Seq(T)
<1>1. PICK g : Joins(L, T, g)
  BY FlattenJoins
<1>2. Len(L) \in 0 .. Len(L)
  BY LenProperties
<1> QED
  BY <1>1, <1>2 DEF Joins

LEMMA FlattenAppend ==
  ASSUME NEW T, NEW L \in Seq(Seq(T)), NEW x \in Seq(T)
  PROVE  FlattenSeq(Append(L, x)) = FlattenSeq(L) \o x
<1> DEFINE n == Len(L)
           M == Append(L, x)
           X == Seq(T)
<1>1. /\ M \in Seq(X) /\ Len(M) = n + 1 /\ n \in Nat
      /\ (\A i \in 1 .. n : M[i] = L[i]) /\ M[n + 1] = x
  <2>1. L \in Seq(X) /\ x \in X
    OBVIOUS
  <2> HIDE DEF X
  <2> QED
    BY <2>1, AppendProperties, LenProperties
<1> HIDE DEF M
<1>2. PICK g : Joins(L, T, g)
  BY FlattenJoins
<1>3. PICK h : Joins(M, T, h)
  BY <1>1, FlattenJoins
<1> DEFINE P == {i \in 0 .. n : h[i] = g[i]}
<1>4. 0 \in P
  BY <1>1, <1>2, <1>3 DEF Joins
<1>5. ASSUME NEW i \in 1 .. n, i - 1 \in P PROVE i \in P
  <2>1. i \in 1 .. Len(M) /\ i \in 0 .. n /\ M[i] = L[i] /\ h[i - 1] = g[i - 1]
    BY <1>1, <1>5
  <2>2. g[i] = g[i - 1] \o L[i]
    BY <1>2 DEF Joins
  <2>3. h[i] = h[i - 1] \o M[i]
    BY <1>3, <2>1 DEF Joins
  <2> QED
    BY <2>1, <2>2, <2>3
<1>6. n \in P
  <2> HIDE DEF P, n
  <2>1. \A i \in 0 .. n : i \in P
    BY <1>1, <1>4, <1>5, Induct
  <2> QED
    BY <1>1, <2>1
<1>7. n + 1 \in 1 .. Len(M) /\ (n + 1) - 1 = n
  BY <1>1
<1>8. h[n + 1] = h[n] \o x
  <2>1. h[n + 1] = h[(n + 1) - 1] \o M[n + 1]
    BY <1>3, <1>7 DEF Joins
  <2> QED
    BY <1>1, <1>7, <2>1
<1> QED
  BY <1>1, <1>2, <1>3, <1>6, <1>8 DEF Joins, M

(* What has been heard so far of all that was received: the lines sent,    *)
(* and what of the buffer can be heard already.                            *)
SameHeard ==
  /\ SentLines \in Seq(Seq(Alphabet))
  /\ Ahead(FlattenSeq(SentLines), received, Unsent)

(* Both hear the characters of a call alike; the line feed that Enter      *)
(* skips is heard by neither.                                              *)
LEMMA EnterHeard ==
  ASSUME BufferInv, CountersOK, SameHeard, NEW chunk \in Seq(Alphabet), chunk # <<>>,
         Enter(chunk)
  PROVE  SameHeard'
<1> DEFINE skips == rflag /\ chunk[1] = LF
           taken == IF skips THEN Tail(chunk) ELSE chunk
           p == FlattenSeq(SentLines)
<1>1. /\ rptr \in Seq(Alphabet) /\ tptr = 0 /\ received \in Seq(Alphabet)
      /\ p \in Seq(Alphabet)
  BY FlattenType DEF BufferInv, BufferOK, Enter, CountersOK, SameHeard
<1>2. /\ rptr' = rptr \o taken /\ tptr' = 0 /\ sent' = sent
      /\ received' = received \o chunk
  BY DEF Enter
<1>3. taken \in Seq(Alphabet)
  BY HeadTailProperties
<1>4. Unsent = rptr /\ Unsent' = rptr \o taken
  <2>1. rptr \o taken \in Seq(Alphabet)
    BY <1>1, <1>3, ConcatProperties
  <2> HIDE DEF taken
  <2> QED
    BY <1>1, <1>2, <2>1, SubSeqFull DEF Unsent
<1>5. SentLines' = SentLines
  BY <1>2 DEF SentLines
<1>6. Ahead(p, received, rptr)
  BY <1>4 DEF SameHeard
<1>7. Ahead(p, received \o chunk, rptr \o taken)
  <2> HIDE DEF p
  <2>1. CASE ~skips
    <3>1. taken = chunk
      BY <2>1
    <3> HIDE DEF taken
    <3> QED
      BY <1>1, <1>6, <3>1, Alike
  <2>2. CASE skips
    <3> DEFINE lf == <<LF>>
               r == received \o lf
               t == Tail(chunk)
    <3>1. lf \in Seq(Alphabet) /\ \A i \in 1 .. Len(lf) : lf[i] = LF
      <4>1. LF \in Alphabet
        BY DEF Alphabet
      <4> QED
        BY <4>1
    <3>2. chunk = lf \o t
      <4>1. Len(chunk) \in Nat /\ Len(chunk) >= 1
        BY EmptySeq
      <4>2. 1 \in 1 .. Len(chunk) /\ Len(chunk) \in 1 .. Len(chunk)
        BY <4>1
      <4>3. SubSeq(chunk, 1, Len(chunk)) = <<chunk[1]>> \o SubSeq(chunk, 1 + 1, Len(chunk))
        BY <4>2, SubSeqRecursiveFirst
      <4>4. SubSeq(chunk, 1, Len(chunk)) = chunk /\ t = SubSeq(chunk, 2, Len(chunk))
        BY SubSeqFull, TailIsSubSeq
      <4> QED
        BY <2>2, <4>3, <4>4
    <3>3. t \in Seq(Alphabet) /\ taken = t
      BY <2>2, <1>3
    <3> HIDE DEF taken, t, lf
    <3>4. At(r) = At(received)
      BY <1>1, <3>1, HearLFs
    <3>5. r \in Seq(Alphabet)
      BY <1>1, <3>1, ConcatProperties
    <3>6. received \o chunk = r \o t
      <4>1. Regroups(received, lf, t)
        BY <1>1, <3>1, <3>3, Regroup
      <4> QED
        BY ONLY <3>2, <4>1 DEF Regroups
    <3> HIDE DEF r
    <3>7. Ahead(p, r, rptr)
      BY ONLY <1>6, <3>4 DEF Ahead
    <3>8. Ahead(p, r \o t, rptr \o t)
      BY <1>1, <3>3, <3>5, <3>7, Alike
    <3> QED
      BY ONLY <3>3, <3>6, <3>8
  <2> QED
    BY <2>1, <2>2
<1>8. Ahead(p, received', Unsent')
  BY ONLY <1>2, <1>4, <1>7
<1>9. FlattenSeq(SentLines)' = p /\ (SentLines \in Seq(Seq(Alphabet)))'
  BY <1>5 DEF SameHeard
<1> QED
  BY ONLY <1>8, <1>9 DEF SameHeard

(* A line leaves the buffer with what could be heard of it; its CR ends    *)
(* the silence.                                                            *)
LEMMA SendHeard ==
  ASSUME BufferInv, Numbered, SameHeard, SendLine
  PROVE  SameHeard'
<1>1. PICK c \in Seq(Alphabet), d \in Seq(Alphabet), skip \in {<<>>, <<LF>>} :
        /\ Unsent = (c \o d) \o (<<CR>> \o (skip \o Unsent'))
        /\ c \in Seq(Alphabet \ {CR}) /\ c \in Seq(Alphabet \ {NUL})
        /\ d \in Seq(Alphabet \ {CR}) /\ (d = <<>> \/ d[1] = NUL)
        /\ Unsent' \in Seq(Alphabet)
        /\ \E num : sent' = Append(sent, [num |-> num, text |-> c])
        /\ received' = received
  BY LineFound
<1> DEFINE u == Unsent'
           x == NoLF(c)
           p == FlattenSeq(SentLines)
           cr == <<CR>>
           none == <<>>
           a == c \o d
           b == a \o cr
           e == b \o skip
<1>2. /\ x \in Seq(Alphabet) /\ p \in Seq(Alphabet) /\ u \in Seq(Alphabet)
      /\ cr \in Seq(Alphabet) /\ skip \in Seq(Alphabet) /\ none \in Seq(Alphabet)
  <2>1. CR \in Alphabet /\ LF \in Alphabet
    BY DEF Alphabet
  <2>2. /\ <<CR>> \in Seq(Alphabet) /\ <<LF>> \in Seq(Alphabet) /\ <<>> \in Seq(Alphabet)
    BY <2>1
  <2>3. NoLF(c) \in Seq(Alphabet \ {LF})
    BY NoLFType
  <2>4. NoLF(c) \in Seq(Alphabet)
    <3>1. Alphabet \ {LF} \subseteq Alphabet
      OBVIOUS
    <3> QED
      BY <2>3, <3>1, SeqMonotonic
  <2>5. FlattenSeq(SentLines) \in Seq(Alphabet)
    BY FlattenType DEF SameHeard
  <2> QED
    BY <1>1, <2>2, <2>4, <2>5
<1>3. SentLines' = Append(SentLines, x)
  <2>1. PICK num : sent' = Append(sent, [num |-> num, text |-> c])
    BY <1>1
  <2>2. [num |-> num, text |-> c].text = c
    OBVIOUS
  <2> QED
    BY <2>1, <2>2, OneMore
<1>4. At(c).text = x
  <2>1. /\ \A i \in 1 .. Len(c) : c[i] \in Alphabet \ {CR}
        /\ \A i \in 1 .. Len(c) : c[i] \in Alphabet \ {NUL}
    BY <1>1, ElementOfSeq
  <2> QED
    BY <2>1, HearPlain
<1>5. At(a).text = x
  <2>1. \A i \in 1 .. Len(d) : d[i] \in Alphabet \ {CR}
    BY <1>1, ElementOfSeq
  <2> QED
    BY <1>1, <1>4, <2>1, HearCut
<1>6. a \in Seq(Alphabet) /\ b \in Seq(Alphabet) /\ e \in Seq(Alphabet)
  <2>1. a \in Seq(Alphabet)
    BY ConcatProperties
  <2> HIDE DEF a
  <2>2. b \in Seq(Alphabet)
    BY <1>2, <2>1, ConcatProperties
  <2> HIDE DEF b
  <2>3. e \in Seq(Alphabet)
    BY <1>2, <2>2, ConcatProperties
  <2> QED
    BY <2>1, <2>2, <2>3
<1>7. Unsent = e \o u
  <2>1. Regroups(a, cr, skip \o u) /\ Regroups(b, skip, u)
    <3>1. skip \o u \in Seq(Alphabet)
      BY <1>2, ConcatProperties
    <3> QED
      BY <1>2, <1>6, <3>1, Regroup
  <2>2. Unsent = a \o (cr \o (skip \o u))
    BY <1>1
  <2> HIDE DEF a, cr, u
  <2> QED
    BY ONLY <2>1, <2>2 DEF Regroups, e, b
<1> HIDE DEF u, x, p, cr, none, a, e
<1>8. At(b).silent = FALSE /\ At(b).text = x
  BY <1>5, <1>6, HearCR DEF cr
<1> HIDE DEF b
<1>9. At(e) = At(b)
  <2>1. \A i \in 1 .. Len(skip) : skip[i] = LF
    <3>1. CASE skip = <<>>
      BY <3>1, EmptySeq
    <3>2. CASE skip = <<LF>>
      BY <3>2
    <3> QED
      BY <1>1, <3>1, <3>2
  <2> QED
    BY <1>2, <1>6, <2>1, HearLFs DEF e
<1>10. At(none).silent = FALSE /\ At(none).text = none
  BY HearNone DEF none, Quiet
<1>11. Ahead(x, e, none)
  <2>1. x \o none = x
    BY <1>2, ConcatEmptySeq DEF none
  <2> QED
    BY ONLY <1>8, <1>9, <1>10, <2>1 DEF Ahead
<1>12. Ahead(x, e \o u, none \o u)
  BY <1>2, <1>6, <1>11, Alike
<1>13. none \o u = u
  BY <1>2, ConcatEmptySeq DEF none
<1>14. At(u).text \in Seq(Alphabet)
  <2>1. At(u) \in Ears
    BY <1>2, AtType
  <2> QED
    BY <2>1 DEF Ears
<1>15. FlattenSeq(SentLines)' = p \o x /\ (SentLines \in Seq(Seq(Alphabet)))'
  <2> DEFINE X == Seq(Alphabet)
  <2>1. SentLines \in Seq(X) /\ x \in X
    BY <1>2 DEF SameHeard
  <2>2. FlattenSeq(Append(SentLines, x)) = FlattenSeq(SentLines) \o x
    BY <1>2, <2>1, FlattenAppend
  <2> HIDE DEF X
  <2>3. Append(SentLines, x) \in Seq(X)
    BY <2>1, AppendProperties
  <2> QED
    BY <1>3, <2>2, <2>3 DEF p, X
<1>16. Regroups(p, x, At(u).text)
  BY <1>2, <1>14, Regroup
<1>17. Ahead(p, received, Unsent)
  BY DEF SameHeard, p
<1>18. Ahead(p \o x, received', u)
  <2>1. received' = received
    BY <1>1
  <2> QED
    BY ONLY <1>7, <1>12, <1>13, <1>16, <1>17, <2>1 DEF Regroups, Ahead
<1> QED
  BY ONLY <1>15, <1>18 DEF SameHeard, u

(* Nothing the session prints is lost, doubled or put out of order by      *)
(* write2syslog, however the output was cut into calls.                    *)
THEOREM NothingIsLost == Spec => []NothingLost
<1>1. Init => SameHeard
  <2> SUFFICES ASSUME Init PROVE SameHeard
    OBVIOUS
  <2>1. received = <<>> /\ sent = <<>> /\ rptr = <<>> /\ tptr = 0
    BY DEF Init
  <2>2. Len(<<>>) = 0
    BY EmptySeq
  <2>3. Unsent = <<>>
    <3>1. 0 + 1 > 0
      OBVIOUS
    <3> QED
      BY <2>1, <2>2, <3>1, SubSeqEmpty DEF Unsent
  <2>4. SentLines = <<>>
    <3>1. 1 .. 0 = {}
      OBVIOUS
    <3> QED
      BY <2>1, <2>2, <3>1 DEF SentLines
  <2>5. FlattenSeq(<<>>) = <<>>
    BY <2>2 DEF FlattenSeq
  <2>6. /\ At(<<>>).silent = FALSE /\ At(<<>>).text = <<>>
    BY HearNone DEF Quiet
  <2>7. <<>> \o <<>> = <<>>
    OBVIOUS
  <2>8. <<>> \in Seq(Seq(Alphabet))
    BY EmptySeq
  <2> QED
    BY ONLY <2>1, <2>3, <2>4, <2>5, <2>6, <2>7, <2>8 DEF SameHeard, Ahead
<1>2. BufferInv /\ CountersOK /\ Numbered /\ SameHeard /\ [Next]_vars => SameHeard'
  <2> SUFFICES ASSUME BufferInv, CountersOK, Numbered, SameHeard, [Next]_vars
               PROVE  SameHeard'
    OBVIOUS
  <2>1. CASE Write
    <3>1. PICK n \in {MaxChunk, Room} : \E chunk \in Chunks(n) : Enter(chunk)
      BY <2>1 DEF Write
    <3> QED
      BY <3>1, ChunkIsSeq, EnterHeard
  <2>2. CASE Close
    <3>1. <<CR, LF>> \in Seq(Alphabet) /\ <<CR, LF>> # <<>>
      BY DEF Alphabet
    <3> QED
      BY <2>2, <3>1, EnterHeard DEF Close, FlushWith
  <2>3. CASE SendLine
    BY <2>3, SendHeard
  <2>4. CASE KeepRest
    <3>1. PICK a \in Seq(Alphabet) :
            /\ Unsent = a \o Unsent' /\ \A i \in 1 .. Len(a) : a[i] = LF
            /\ Unsent' \in Seq(Alphabet)
      BY <2>4, KeepStutters
    <3> DEFINE u == Unsent'
               none == <<>>
    <3>2. none \in Seq(Alphabet) /\ u \in Seq(Alphabet)
      BY <3>1, EmptySeq
    <3>3. none \o a = a /\ none \o u = u
      BY <3>1, <3>2, ConcatEmptySeq
    <3>4. At(none).silent = FALSE /\ At(none).text = none
      BY HearNone DEF Quiet
    <3> HIDE DEF none, u
    <3>5. At(none \o a) = At(none)
      BY <3>1, <3>2, HearLFs
    <3>6. none \o none = none
      BY DEF none
    <3>7. Ahead(none, a, none)
      BY ONLY <3>3, <3>4, <3>5, <3>6 DEF Ahead
    <3>8. Ahead(none, a \o u, none \o u)
      BY <3>1, <3>2, <3>7, Alike
    <3>9. none \o At(u).text = At(u).text
      <4>1. At(u) \in Ears
        BY <3>2, AtType
      <4>2. At(u).text \in Seq(Alphabet)
        BY <4>1 DEF Ears
      <4> QED
        BY <4>2, ConcatEmptySeq DEF none
    <3>10. At(Unsent).silent = At(u).silent /\ At(Unsent).text = At(u).text
      <4>1. Unsent = a \o u
        BY <3>1 DEF u
      <4> QED
        BY ONLY <3>3, <3>8, <3>9, <4>1 DEF Ahead
    <3>11. received' = received /\ SentLines' = SentLines
      BY <2>4 DEF KeepRest, Keep, SentLines
    <3> QED
      BY <3>10, <3>11 DEF SameHeard, Ahead, u
  <2>5. CASE OutOfMemory \/ UNCHANGED vars
    <3>1. rptr' = rptr /\ tptr' = tptr /\ sent' = sent /\ received' = received
      BY <2>5 DEF OutOfMemory, vars
    <3>2. Unsent' = Unsent /\ SentLines' = SentLines
      BY <3>1 DEF Unsent, SentLines
    <3> QED
      BY <3>1, <3>2 DEF SameHeard
  <2> QED
    BY <2>1, <2>2, <2>3, <2>4, <2>5 DEF Next
<1>3. SameHeard => NothingLost
  BY DEF SameHeard, Ahead, NothingLost, Heard, At
<1> QED
  BY <1>1, <1>2, <1>3, BufferInvHolds, CountersHold, PTL DEF Spec
=============================================================================
