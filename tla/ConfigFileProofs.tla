--------------------------- MODULE ConfigFileProofs ---------------------------
(***************************************************************************)
(* What a line of the configuration file does, for every size of the       *)
(* buffer, every alphabet and all settings.                                *)
(***************************************************************************)
EXTENDS ConfigFile, SequenceTheorems, WellFoundedInduction, TLAPS

(* The least and the greatest of some positions.                           *)
Less == {ss \in Nat \X Nat : ss[1] < ss[2]}
LEMMA LessWF == IsWellFoundedOn(Less, Nat)
  BY NatLessThanWellFounded DEF OpToRel, Less
LEMMA MinOf ==
  ASSUME NEW S, S \subseteq Nat, S # {}
  PROVE  Min(S) \in S /\ \A y \in S : Min(S) <= y
<1>1. PICK x \in S : \A y \in S : <<y, x>> \notin Less
  BY LessWF, WFMin
<1>2. \A y \in S : x <= y
  <2> SUFFICES ASSUME NEW y \in S PROVE x <= y
    OBVIOUS
  <2>1. x \in Nat /\ y \in Nat /\ ~(y < x)
    BY <1>1 DEF Less
  <2> QED
    BY <2>1
<1> QED
  BY <1>2 DEF Min
LEMMA MaxOf ==
  ASSUME NEW S, NEW n \in Nat, S \subseteq 0 .. n, S # {}
  PROVE  Max(S) \in S /\ \A y \in S : Max(S) >= y
<1> DEFINE T == {n - i : i \in S}
<1>1. T \subseteq Nat /\ T # {}
  <2>1. \A i \in S : n - i \in Nat
    OBVIOUS
  <2>2. \E i \in S : n - i \in T
    OBVIOUS
  <2> QED
    BY <2>1, <2>2
<1>2. Min(T) \in T /\ \A y \in T : Min(T) <= y
  BY <1>1, MinOf
<1>3. PICK x \in S : Min(T) = n - x
  BY <1>2
<1>4. \A y \in S : x >= y
  <2> SUFFICES ASSUME NEW y \in S PROVE x >= y
    OBVIOUS
  <2>1. n - x <= n - y
    BY <1>2, <1>3
  <2> QED
    BY <2>1
<1> QED
  BY <1>4 DEF Max
-----------------------------------------------------------------------------
(* The parser.                                                             *)

Ink(t) == {i \in DOMAIN t : t[i] \notin White}

LEMMA TextIsSeq ==
  ASSUME NEW max \in Nat, NEW t \in Texts(max)
  PROVE  t \in Seq(Chars) /\ Len(t) \in 1 .. max
<1>1. PICK n \in 1 .. max : t \in [1 .. n -> Chars]
  BY DEF Texts
<1>2. t \in Seq(Chars)
  BY <1>1, SeqDef
<1>3. Len(t) = n
  BY <1>1, <1>2, LenProperties
<1> QED
  BY <1>2, <1>3

LEMMA PartOf ==
  ASSUME NEW t \in Seq(Chars), NEW m \in 1 .. Len(t) + 1, NEW n \in m - 1 .. Len(t)
  PROVE  /\ SubSeq(t, m, n) \in Seq(Chars)
         /\ Len(SubSeq(t, m, n)) = n - m + 1
         /\ \A i \in 1 .. n - m + 1 : SubSeq(t, m, n)[i] = t[m + i - 1]
<1>1. \A i \in 1 .. Len(t) : t[i] \in Chars
  BY ElementOfSeq
<1> QED
  BY <1>1, LenProperties, SubSeqProperties

(* trimWhitespace shortens its text, and strips it if more than the last   *)
(* character remains.                                                      *)
LEMMA Trimmed ==
  ASSUME NEW t \in Seq(Chars), t # <<>>
  PROVE  /\ trimWhitespace(t) \in Seq(Chars)
         /\ Len(trimWhitespace(t)) <= Len(t)
         /\ ~OneAtEnd(t) => trimWhitespace(t) = Strip(t)
         /\ OneAtEnd(t) => trimWhitespace(t) = <<>> /\ Len(Strip(t)) = 1
<1> DEFINE n == Len(t)
           B == Ink(t) \cup {n}
           E == Ink(t) \cup {1}
<1>1. n \in Nat /\ n > 0 /\ DOMAIN t = 1 .. n
  BY LenProperties, EmptySeq
<1>2. Ink(t) \subseteq 1 .. n
  BY <1>1 DEF Ink
<1>3. /\ B \subseteq Nat /\ B \subseteq 0 .. n /\ B # {}
      /\ E \subseteq 0 .. n /\ E # {}
      /\ Ink(t) \subseteq Nat /\ Ink(t) \subseteq 0 .. n
      /\ B \subseteq 1 .. n /\ E \subseteq 1 .. n
  BY <1>1, <1>2
<1>6. trimWhitespace(t) = IF Min(B) = n THEN <<>> ELSE SubSeq(t, Min(B), Max(E))
  BY DEF trimWhitespace, TrimTo, isWhitespace, Ink
<1>7. Strip(t) = IF Ink(t) = {} THEN <<>> ELSE SubSeq(t, Min(Ink(t)), Max(Ink(t)))
  BY DEF Strip, Ink
<1>8. OneAtEnd(t) <=> Ink(t) = {n}
  BY DEF OneAtEnd, Ink
<1>12. \A y : (y \in B <=> y \in Ink(t) \/ y = n) /\ (y \in E <=> y \in Ink(t) \/ y = 1)
  OBVIOUS
<1>13. n = Len(t)
  OBVIOUS
<1> HIDE DEF n, B, E
<1>4. Min(B) \in B /\ \A y \in B : Min(B) <= y
  BY ONLY <1>3, MinOf
<1>5. Max(E) \in E /\ \A y \in E : Max(E) >= y
  BY ONLY <1>1, <1>3, MaxOf
<1>9. <<>> \in Seq(Chars) /\ Len(<<>>) = 0
  OBVIOUS
<1>10. CASE Min(B) = n
  <2>1. Ink(t) = {} \/ Ink(t) = {n}
    <3>1. \A y \in Ink(t) : y = n
      BY <1>1, <1>2, <1>4, <1>10, <1>12
    <3> QED
      BY <3>1
  <2>2. Ink(t) = {n} => Min(Ink(t)) = n /\ Max(Ink(t)) = n
    <3>1. ASSUME Ink(t) = {n} PROVE Min(Ink(t)) \in Ink(t) /\ Max(Ink(t)) \in Ink(t)
      <4>1. Ink(t) # {}
        BY <3>1
      <4> QED
        BY ONLY <1>1, <1>3, <4>1, MinOf, MaxOf
    <3> QED
      BY <3>1
  <2>3. Ink(t) = {n} => Len(Strip(t)) = 1
    <3>1. n \in 1 .. Len(t) + 1 /\ n \in n - 1 .. Len(t)
      BY <1>1, <1>13
    <3>2. Len(SubSeq(t, n, n)) = n - n + 1
      BY ONLY <3>1, t \in Seq(Chars), PartOf
    <3> QED
      BY <1>1, <1>7, <2>2, <3>2
  <2> QED
    <3>1. trimWhitespace(t) = <<>>
      BY <1>6, <1>10
    <3>2. Ink(t) = {} => Strip(t) = <<>> /\ ~OneAtEnd(t)
      BY <1>7, <1>8
    <3> QED
      BY <1>1, <1>8, <1>9, <1>13, <2>1, <2>3, <3>1, <3>2
<1>11. CASE Min(B) # n
  <2>1. Min(B) \in Ink(t) /\ Min(B) < n
    BY <1>1, <1>2, <1>3, <1>4, <1>11, <1>12
  <2>2. Min(Ink(t)) \in Ink(t) /\ \A y \in Ink(t) : Min(Ink(t)) <= y
    <3>1. Ink(t) # {}
      BY <2>1
    <3> QED
      BY ONLY <1>3, <3>1, MinOf
  <2>3. Max(Ink(t)) \in Ink(t) /\ \A y \in Ink(t) : Max(Ink(t)) >= y
    <3>1. Ink(t) # {}
      BY <2>1
    <3> QED
      BY ONLY <1>1, <1>3, <3>1, MaxOf
  <2>4. Min(Ink(t)) = Min(B)
    <3>1. Min(Ink(t)) <= Min(B)
      BY <2>1, <2>2
    <3>2. Min(B) <= Min(Ink(t))
      BY <1>4, <1>12, <2>2
    <3> QED
      BY <1>1, <1>2, <2>1, <2>2, <3>1, <3>2
  <2>5. Max(Ink(t)) = Max(E)
    <3>1. Max(Ink(t)) >= Max(E)
      BY <1>1, <1>2, <1>5, <1>12, <2>1, <2>3
    <3>2. Max(E) >= Max(Ink(t))
      BY <1>5, <1>12, <2>3
    <3> QED
      <4>1. Max(E) \in Nat /\ Max(Ink(t)) \in Nat
        <5>1. Max(E) \in 0 .. n /\ Max(Ink(t)) \in 0 .. n
          BY <1>3, <1>5, <2>3
        <5> QED
          BY <1>1, <5>1
      <4> QED
        BY <3>1, <3>2, <4>1
  <2>6. /\ Min(B) \in 1 .. n + 1 /\ Max(E) \in Min(B) - 1 .. n
    BY <1>1, <1>2, <1>3, <1>5, <1>12, <2>1
  <2>7. /\ SubSeq(t, Min(B), Max(E)) \in Seq(Chars)
        /\ Len(SubSeq(t, Min(B), Max(E))) = Max(E) - Min(B) + 1
    BY ONLY <1>13, <2>6, t \in Seq(Chars), PartOf
  <2>8. ~OneAtEnd(t)
    <3>1. Ink(t) = {n} => Min(B) = n
      BY <2>1
    <3> QED
      BY <1>1, <1>8, <2>1, <3>1
  <2>9. trimWhitespace(t) = SubSeq(t, Min(B), Max(E)) /\ Strip(t) = SubSeq(t, Min(B), Max(E))
    BY <1>6, <1>7, <1>11, <2>1, <2>4, <2>5
  <2>10. Max(E) - Min(B) + 1 \in 0 .. Len(t)
    BY ONLY <1>1, <1>13, <2>6
  <2> QED
    BY ONLY <1>1, <1>13, <2>7, <2>8, <2>9, <2>10
<1> QED
  BY <1>10, <1>11

(* The first "=" divides a line.                                           *)
LEMMA Divided ==
  ASSUME NEW t \in Seq(Chars), t # <<>>, isConfigLine(t)
  PROVE  /\ equals(t) \in 1 .. Len(t) /\ t[equals(t)] = "="
         /\ \A j \in 1 .. equals(t) - 1 : t[j] # "="
         /\ KeyText(t) \in Seq(Chars) /\ Len(KeyText(t)) = equals(t) - 1
         /\ ValueText(t) \in Seq(Chars) /\ Len(ValueText(t)) = Len(t) - equals(t)
         /\ ValueText(t) # <<>> => ValueText(t)[Len(ValueText(t))] = t[Len(t)]
<1> DEFINE S == {i \in DOMAIN t : t[i] = "="}
<1>1. Len(t) \in Nat /\ DOMAIN t = 1 .. Len(t)
  BY LenProperties
<1>2. S \subseteq 1 .. Len(t) /\ S # {}
  BY <1>1 DEF isConfigLine
<1>3. equals(t) \in S /\ \A y \in S : equals(t) <= y
  BY <1>1, <1>2, MinOf DEF equals
<1>4. equals(t) \in 1 .. Len(t) /\ t[equals(t)] = "="
  BY <1>1, <1>3
<1>5. \A j \in 1 .. equals(t) - 1 : t[j] # "="
  <2> SUFFICES ASSUME NEW j \in 1 .. equals(t) - 1 PROVE j \notin S
    BY <1>1, <1>4
  <2> QED
    BY <1>1, <1>2, <1>3, <1>4
<1> HIDE DEF S
<1>6. KeyText(t) \in Seq(Chars) /\ Len(KeyText(t)) = equals(t) - 1
  BY <1>1, <1>4, PartOf DEF KeyText
<1>7. /\ ValueText(t) \in Seq(Chars) /\ Len(ValueText(t)) = Len(t) - equals(t)
      /\ \A i \in 1 .. Len(t) - equals(t) : ValueText(t)[i] = t[equals(t) + i]
  BY <1>1, <1>4, PartOf DEF ValueText
<1>8. ValueText(t) # <<>> => ValueText(t)[Len(ValueText(t))] = t[Len(t)]
  <2>1. ValueText(t) # <<>> => Len(t) - equals(t) > 0
    BY <1>1, <1>4, <1>7, EmptySeq, LenProperties
  <2> QED
    BY <1>1, <1>4, <1>7, <2>1
<1> QED
  BY <1>4, <1>5, <1>6, <1>7, <1>8
-----------------------------------------------------------------------------
(* Only what fgets returned is parsed, and a path came from such a line.   *)
Room == LineSize - 1

PathFits(name, text) == text # <<>> => Len(name) + 1 + Len(text) < LineSize

ConfigInv ==
  /\ pc = "parse" => line \in Texts(Room)
  /\ settings \in [on : [Switches -> BOOLEAN], path : [Paths -> Seq(Chars)]]
  /\ \A name \in Paths : PathFits(name, settings.path[name])

LEMMA ParsedLine ==
  ASSUME ConfigInv, pc = "parse"
  PROVE  line \in Seq(Chars) /\ line # <<>> /\ Len(line) \in 1 .. Room /\ Room \in Nat
<1>1. Room \in Nat
  BY ConfigAssumption DEF Room
<1>2. line \in Seq(Chars) /\ Len(line) \in 1 .. Room
  BY <1>1, TextIsSeq DEF ConfigInv
<1> QED
  BY <1>1, <1>2

LEMMA AssignFits ==
  ASSUME ConfigInv, NEW key \in Seq(Chars), NEW value \in Seq(Chars),
         Len(key) + 1 + Len(value) < LineSize
  PROVE  /\ Assign(key, value) \in [on : [Switches -> BOOLEAN], path : [Paths -> Seq(Chars)]]
         /\ \A name \in Paths : PathFits(name, Assign(key, value).path[name])
<1>1. CASE key \in Switches
  <2>1. Assign(key, value) = [settings EXCEPT !.on[key] = parseBool(value)]
    BY <1>1 DEF Assign
  <2>2. parseBool(value) \in BOOLEAN
    BY DEF parseBool
  <2>3. Assign(key, value).path = settings.path
    BY <2>1 DEF ConfigInv
  <2>4. Assign(key, value) \in [on : [Switches -> BOOLEAN], path : [Paths -> Seq(Chars)]]
    <3>1. settings \in [on : [Switches -> BOOLEAN], path : [Paths -> Seq(Chars)]]
      BY DEF ConfigInv
    <3>2. [settings.on EXCEPT ![key] = parseBool(value)] \in [Switches -> BOOLEAN]
      BY Zenon, <2>2, <3>1
    <3>3. Assign(key, value) = [settings EXCEPT !.on = [settings.on EXCEPT ![key] = parseBool(value)]]
      BY Zenon, <2>1
    <3> QED
      BY ONLY <3>1, <3>2, <3>3
  <2> QED
    BY <2>3, <2>4 DEF ConfigInv
<1>2. CASE key \notin Switches /\ key \in Paths
  <2>1. Assign(key, value) = [settings EXCEPT !.path[key] = value]
    BY <1>2 DEF Assign
  <2>2. PathFits(key, value)
    BY DEF PathFits
  <2>3. /\ settings \in [on : [Switches -> BOOLEAN], path : [Paths -> Seq(Chars)]]
        /\ \A name \in Paths : PathFits(name, settings.path[name])
    BY DEF ConfigInv
  <2> DEFINE paths == [settings.path EXCEPT ![key] = value]
  <2>4. /\ paths \in [Paths -> Seq(Chars)]
        /\ \A name \in Paths : paths[name] = IF name = key THEN value ELSE settings.path[name]
    BY <2>3
  <2>5. Assign(key, value) = [settings EXCEPT !.path = paths]
    BY Zenon, <2>1
  <2> HIDE DEF paths
  <2>6. /\ Assign(key, value) \in [on : [Switches -> BOOLEAN], path : [Paths -> Seq(Chars)]]
        /\ Assign(key, value).path = paths
    BY ONLY <2>3, <2>4, <2>5
  <2> QED
    BY ONLY <2>2, <2>3, <2>4, <2>6
<1>3. CASE key \notin Switches /\ key \notin Paths
  BY <1>3 DEF Assign, ConfigInv
<1> QED
  BY <1>1, <1>2, <1>3

LEMMA ConfigStep == ASSUME ConfigInv, [Next]_vars PROVE ConfigInv'
<1>1. CASE Fgets
  BY <1>1 DEF Fgets, FgetsUpTo, ConfigInv, PathFits, Room
<1>2. CASE EndOfFile
  BY <1>2 DEF EndOfFile, ConfigInv, PathFits
<1>3. CASE Parse
  <2>1. pc = "parse" /\ pc' # "parse"
    BY <1>3 DEF Parse
  <2>2. CASE UNCHANGED settings
    BY <2>1, <2>2 DEF ConfigInv, PathFits
  <2>3. CASE isConfigLine(line) /\ ~SplitCrashes(line)
             /\ settings' = Assign(trimWhitespace(KeyText(line)), trimWhitespace(ValueText(line)))
    <3> DEFINE k == KeyText(line)
               v == ValueText(line)
    <3>1. line \in Seq(Chars) /\ line # <<>> /\ Len(line) \in 1 .. Room /\ Room \in Nat
      BY <2>1, ParsedLine
    <3>2. /\ equals(line) \in 1 .. Len(line)
          /\ k \in Seq(Chars) /\ Len(k) = equals(line) - 1
          /\ v \in Seq(Chars) /\ Len(v) = Len(line) - equals(line)
      BY <2>3, <3>1, Divided
    <3>3. k # <<>> /\ v # <<>>
      BY <2>3 DEF SplitCrashes
    <3>4. /\ trimWhitespace(k) \in Seq(Chars) /\ Len(trimWhitespace(k)) <= Len(k)
          /\ trimWhitespace(v) \in Seq(Chars) /\ Len(trimWhitespace(v)) <= Len(v)
      BY <3>2, <3>3, Trimmed
    <3>5. Len(trimWhitespace(k)) \in Nat /\ Len(trimWhitespace(v)) \in Nat
      BY <3>4, LenProperties
    <3>6. Len(trimWhitespace(k)) + 1 + Len(trimWhitespace(v)) < LineSize
      BY <3>1, <3>2, <3>4, <3>5, ConfigAssumption DEF Room
    <3>7. settings' = Assign(trimWhitespace(k), trimWhitespace(v))
      BY <2>3
    <3> HIDE DEF k, v
    <3> QED
      BY <2>1, <3>4, <3>6, <3>7, AssignFits DEF ConfigInv
  <2> QED
    BY <1>3, <2>2, <2>3 DEF Parse
<1>4. CASE UNCHANGED vars
  BY <1>4 DEF vars, ConfigInv, PathFits
<1> QED
  BY <1>1, <1>2, <1>3, <1>4 DEF Next

THEOREM ConfigInvHolds == Spec => []ConfigInv
<1>1. Init => ConfigInv
  <2>1. <<>> \in Seq(Chars)
    OBVIOUS
  <2> QED
    BY <2>1 DEF Init, ConfigInv, PathFits
<1> QED
  BY <1>1, ConfigStep, PTL DEF Spec

(* No path is longer than a line leaves room for.                          *)
THEOREM SettingsAlwaysFit == Spec => []SettingsFit
<1>1. ConfigInv => SettingsFit
  BY DEF ConfigInv, SettingsFit, PathFits
<1> QED
  BY <1>1, ConfigInvHolds, PTL

(* A sound line that fits the buffer means what the header says, and does  *)
(* not crash the parser.                                                   *)
THEOREM LinesDo == Spec => LinesTakeEffect
<1>1. ASSUME ConfigInv, Next, pc = "parse", Sound(line)
      PROVE  pc' = "fgets" /\ settings' = Meaning(line)
  <2>1. line \in Seq(Chars) /\ line # <<>> /\ Len(line) \in 1 .. Room /\ Room \in Nat
    BY <1>1, ParsedLine
  <2>2. DOMAIN line = 1 .. Len(line)
    BY <2>1, LenProperties
  <2>3. Parse
    BY <1>1 DEF Next, Fgets, FgetsUpTo, EndOfFile
  <2>4. CASE ~isConfigLine(line)
    BY <2>3, <2>4 DEF Parse, isConfigLine, Meaning
  <2>5. CASE isConfigLine(line)
    <3> DEFINE k == KeyText(line)
               v == ValueText(line)
               e == CHOOSE i \in DOMAIN line :
                      line[i] = "=" /\ "=" \notin {line[j] : j \in 1 .. i - 1}
    <3>2. /\ equals(line) \in 1 .. Len(line) /\ line[equals(line)] = "="
          /\ \A j \in 1 .. equals(line) - 1 : line[j] # "="
          /\ k \in Seq(Chars) /\ Len(k) = equals(line) - 1
          /\ v \in Seq(Chars) /\ Len(v) = Len(line) - equals(line)
          /\ v # <<>> => v[Len(v)] = line[Len(line)]
      BY <2>1, <2>5, Divided
    <3>9. k # <<>> /\ v # <<>>
      <4>1. Len(<<>>) = 0
        OBVIOUS
      <4>2. equals(line) # 1
        BY <1>1, <3>2 DEF Sound
      <4>3. v = <<>> => equals(line) = Len(line)
        BY <2>1, <3>2, <4>1
      <4> QED
        BY <1>1, <2>1, <3>2, <4>1, <4>2, <4>3 DEF Sound
    <3>1. /\ settings' = Assign(trimWhitespace(k), trimWhitespace(v)) /\ pc' = "fgets"
          /\ k # <<>> /\ v # <<>>
      BY <2>3, <2>5, <3>9 DEF Parse, SplitCrashes
    <3>3. e = equals(line)
      <4>1. "=" \notin {line[j] : j \in 1 .. equals(line) - 1}
        BY <3>2
      <4>2. /\ e \in 1 .. Len(line) /\ line[e] = "="
            /\ "=" \notin {line[j] : j \in 1 .. e - 1}
        BY <2>2, <3>2, <4>1
      <4>3. \A j \in 1 .. e - 1 : line[j] # "="
        BY <4>2
      <4> QED
        BY <2>1, <3>2, <4>2, <4>3
    <3>4. Meaning(line) = Assign(Strip(k), Strip(v))
      BY <2>5, <3>3 DEF Meaning, isConfigLine, KeyText, ValueText
    <3>5. ~OneAtEnd(v)
      <4>1. CASE line[Len(line)] = "LF"
        <5>1. v[Len(v)] = "LF"
          BY <3>1, <3>2, <4>1
        <5> QED
          BY <5>1 DEF OneAtEnd, White
      <4> QED
        BY <1>1, <4>1 DEF Sound
    <3> HIDE DEF k, v
    <3>6. trimWhitespace(v) = Strip(v)
      BY <3>1, <3>2, <3>5, Trimmed
    <3>7. CASE ~OneAtEnd(k)
      BY <3>1, <3>2, <3>4, <3>6, <3>7, Trimmed
    <3>8. CASE OneAtEnd(k)
      <4>1. trimWhitespace(k) = <<>> /\ Len(Strip(k)) = 1
        BY <3>1, <3>2, <3>8, Trimmed
      <4>2. Len(<<>>) = 0
        OBVIOUS
      <4>3. /\ trimWhitespace(k) \notin Switches \cup Paths
            /\ Strip(k) \notin Switches \cup Paths
        <5>1. \A name \in Switches \cup Paths : Len(name) > 1
          BY ConfigAssumption
        <5>2. Len(trimWhitespace(k)) = 0
          BY <4>1, <4>2
        <5> QED
          <6>1. ASSUME trimWhitespace(k) \in Switches \cup Paths PROVE FALSE
            BY ONLY <5>1, <5>2, <6>1
          <6>2. ASSUME Strip(k) \in Switches \cup Paths PROVE FALSE
            <7>1. Len(Strip(k)) > 1
              BY ONLY <5>1, <6>2
            <7>2. Len(Strip(k)) = 1
              BY <4>1
            <7> QED
              BY ONLY <7>1, <7>2
          <6> QED
            BY ONLY <6>1, <6>2, Zenon
      <4>4. Assign(trimWhitespace(k), trimWhitespace(v)) = settings
        BY <4>3 DEF Assign
      <4>5. Assign(Strip(k), Strip(v)) = settings
        BY <4>3 DEF Assign
      <4> QED
        BY <3>1, <3>4, <4>4, <4>5
    <3> QED
      BY <3>7, <3>8
  <2> QED
    BY <2>4, <2>5
<1>2. ConfigInv /\ Next =>
        (pc = "parse" /\ ~mid /\ (line[Len(line)] = "LF" \/ last) /\ Sound(line)
           => pc' = "fgets" /\ settings' = Meaning(line))
  BY <1>1
<1> QED
  BY <1>2, ConfigInvHolds, PTL DEF Spec, LinesTakeEffect
=============================================================================
