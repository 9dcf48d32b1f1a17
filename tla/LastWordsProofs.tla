--------------------------- MODULE LastWordsProofs ---------------------------
(***************************************************************************)
(* What reaches syslog of a session, for every bound of the session, every *)
(* set of faults and whichever logs are switched on.                       *)
(***************************************************************************)
EXTENDS LastWords, SessionProofs, SequenceTheorems

(* How a step of the session bears on its words: it says nothing, passes   *)
(* its buffer on, or ends its loop or its wait with a message.             *)
Silent ==
  /\ pc # "exited" /\ UNCHANGED <<logged, epilogue>>
  /\ pc' = "close" => pc = "close"
  /\ pc = "close" => pc' \in {"close", "exited"}
Outputs ==
  /\ pc = "log" /\ pc' = "show" /\ UNCHANGED epilogue
  /\ logged' = logged + buf
Concludes ==
  /\ pc \notin {"close", "exited"} /\ UNCHANGED logged
  /\ \/ pc' = "exited" /\ epilogue' = "error"
     \/ pc' = "close" /\ epilogue' \in Closers

LEMMA SpeechStep ==
  ASSUME TypeOK, NoVerdictYet, Others PROVE Silent \/ Outputs \/ Concludes
<1> USE DEF Silent, Outputs, Concludes, Closers
<1> USE DEF procVars, sizeVars, childVars, inVars, outVars, endVars
<1>1. CASE Setup
  BY <1>1 DEF Setup, SaveTerminal, ForkPty, ForkPtyFails, SetRaw, InstallHandlers,
              ClearFlags, Fail
<1>2. CASE EnterSelect \/ Select \/ ReadStdin \/ WritePty \/ ReadPty \/ LogOutput
  BY <1>2 DEF EnterSelect, Select, ReadStdin, WritePty, WriteToPty, ReadPty, ReadPtyWhen,
              LogOutput, LogUpTo, Fail
<1>3. CASE ShowOutput \/ ReadWinSize \/ ForwardWinSize \/ WinchDone \/ CheckStop
  BY <1>3 DEF ShowOutput, ReadWinSize, ReadWinSizeAs, ForwardWinSize, WinchDone, Forget,
              CheckStop, StopOn, Fail
<1>4. CASE RestoreTerminal
  BY <1>4 DEF RestoreTerminal, RestoreTo
<1>5. CASE Wait
  BY <1>5 DEF Wait, WaitAnd, Verdict
<1>6. CASE Type \/ CloseStdin \/ Kill
  BY <1>6 DEF Type, CloseStdin, Kill, Die, Live
<1>7. ASSUME Live, NEW s, Deliver(s), UNCHANGED logged
      PROVE  Silent \/ Concludes
  <2> USE DEF Live
  <2>1. CASE Undisturbed
    BY <1>7, <2>1 DEF Undisturbed
  <2>2. CASE Terminated
    BY <1>7, <2>2 DEF Terminated, DefaultPCs
  <2>3. CASE Diverted
    BY <1>7, <2>3 DEF Diverted
  <2> QED
    BY <1>7, <2>1, <2>2, <2>3, DeliverEffect
<1>8. CASE \/ ChildWrite \/ ChildWritten \/ ChildRead \/ ChildSpawn
            \/ OtherWrite \/ OtherExit
  BY <1>8 DEF ChildWrite, ChildWritten, ChildRead, ChildSpawn, OtherWrite, OtherExit, Live
<1>9. CASE Resize \/ ChildStop \/ ChildContinue
  BY <1>7, <1>9 DEF Resize, ChildStop, ChildContinue
<1>10. ASSUME NEW s \in Signals, Signal(s) PROVE Silent \/ Concludes
  BY <1>7, <1>10 DEF Signal
<1>11. ASSUME NEW status \in {"ok", "err", "sig"}, ChildExit(status)
       PROVE  Silent \/ Concludes
  BY <1>7, <1>11 DEF ChildExit
<1> QED
  BY <1>1, <1>2, <1>3, <1>4, <1>5, <1>6, <1>8, <1>9, <1>10, <1>11
     DEF Others, Relay, User, Shell
-----------------------------------------------------------------------------
On == "syslog" \in Logs

(* Every word is in syslog or kept, in its order.                          *)
Conserved ==
  /\ told \in Seq(Words) /\ syslog \in Seq(Words) /\ rptr \in Seq(Words)
  /\ IF On THEN syslog \o rptr = told ELSE syslog = <<>> /\ rptr = <<>>

EndsWith(s, w) == s # <<>> /\ s[Len(s)] = w

LEMMA Associative ==
  ASSUME NEW s \in Seq(Words), NEW t \in Seq(Words), NEW u \in Seq(Words)
  PROVE  (s \o t) \o u = s \o (t \o u)
  BY ONLY s \in Seq(Words), t \in Seq(Words), u \in Seq(Words), ConcatAssociative

LEMMA LogWordsStep ==
  ASSUME Conserved, NEW words \in Seq(Words), NEW cr \in 0 .. Len(words),
         LogWords(words, cr)
  PROVE  /\ Conserved' /\ told' = told \o words /\ closed' = closed
         /\ On /\ cr = Len(words) /\ cr > 0 => rptr' = <<>>
         /\ On /\ cr = 0 => rptr' = rptr \o words
<1> USE DEF Conserved, On
<1>1. /\ told' = told \o words /\ closed' = closed /\ told' \in Seq(Words)
      /\ Len(words) \in Nat
  BY ConcatProperties, LenProperties DEF LogWords, LogAfter
<1>2. CASE ~On
  BY <1>1, <1>2 DEF LogWords, LogAfter
<1>3. CASE On /\ cr = 0
  <2>1. rptr' = rptr \o words /\ syslog' = syslog
    BY <1>3 DEF LogWords, LogAfter
  <2>2. rptr' \in Seq(Words)
    BY <2>1, ConcatProperties
  <2>3. syslog \o (rptr \o words) = (syslog \o rptr) \o words
    <3>1. syslog \in Seq(Words) /\ rptr \in Seq(Words)
      BY <1>3
    <3> QED
      BY ONLY <3>1, words \in Seq(Words), Associative
  <2>4. syslog \o rptr = told
    BY <1>3
  <2>5. syslog' \o rptr' = told'
    <3>1. told' = told \o words
      BY <1>1
    <3> QED
      BY ONLY <2>1, <2>3, <2>4, <3>1
  <2> QED
    BY <1>1, <1>3, <2>1, <2>2, <2>5
<1>4. CASE On /\ cr # 0
  <2> DEFINE front == SubSeq(words, 1, cr)
             rest  == SubSeq(words, cr + 1, Len(words))
  <2>1. syslog' = syslog \o rptr \o front /\ rptr' = rest
    BY <1>4 DEF LogWords, LogAfter
  <2>2. \A i \in 1 .. Len(words) : words[i] \in Words
    BY ElementOfSeq
  <2>3. front \in Seq(Words)
    BY <1>1, <1>4, <2>2, SubSeqProperties
  <2>4. rest \in Seq(Words)
    BY <1>1, <1>4, <2>2, SubSeqProperties
  <2>5. front \o rest = words
    <3>1. 1 \in 1 .. Len(words) + 1 /\ cr \in 1 - 1 .. Len(words) /\ Len(words) \in cr .. Len(words)
      BY <1>1
    <3>2. front \o rest = SubSeq(words, 1, Len(words))
      BY <3>1, ConcatAdjacentSubSeq
    <3> QED
      BY <3>2, SubSeqFull
  <2>6. cr = Len(words) => rest = <<>>
    BY <1>1, SubSeqEmpty
  <2> HIDE DEF front, rest
  <2>7. syslog \o rptr = told
    BY <1>4
  <2>8. syslog' \in Seq(Words)
    BY <2>1, <2>3, <2>7, ConcatProperties
  <2>9. syslog' \o rptr' = told'
    <3>0. told \in Seq(Words) /\ front \in Seq(Words) /\ rest \in Seq(Words)
      BY <2>3, <2>4
    <3>1. (told \o front) \o rest = told \o (front \o rest)
      BY ONLY <3>0, Associative
    <3>2. told' = told \o words
      BY <1>1
    <3> QED
      BY ONLY <2>1, <2>5, <2>7, <3>1, <3>2
  <2> QED
    BY <1>1, <1>4, <2>1, <2>4, <2>6, <2>8, <2>9
<1> QED
  BY <1>2, <1>3, <1>4

(* A message is the last word from then on.                                *)
LEMMA LastOfConcat ==
  ASSUME NEW s \in Seq(Words), NEW w \in Words PROVE EndsWith(s \o <<w>>, w)
<1>1. <<w>> \in Seq(Words) /\ Len(<<w>>) = 1 /\ <<w>>[1] = w
  OBVIOUS
<1>2. Len(s) \in Nat
  BY LenProperties
<1>3. Len(s \o <<w>>) = Len(s) + 1 /\ (s \o <<w>>)[Len(s) + 1] = w
  BY <1>1, <1>2, ConcatProperties
<1>4. s \o <<w>> # <<>>
  BY <1>2, <1>3
<1> QED
  BY <1>3, <1>4 DEF EndsWith

(* While the recovery is under way the last words are the message of the   *)
(* way out, the accusation and a complaint for each failed attempt.        *)
Accused ==
  LET last == Len(told) IN
  /\ last - tries - 1 \in 1 .. last
  /\ told[last - tries - 1] = Message(epilogue)
  /\ told[last - tries] = Message("accusation")
  /\ \A k \in last - tries + 1 .. last : told[k] = Message("retry")

LastTold ==
  /\ recovery = "none" /\ epilogue # "none" => EndsWith(told, Message(epilogue))
  /\ recovery = "open" => Accused
  /\ recovery = "over" => Accounted

(* What must be known together.  Before finish nothing is concluded; from  *)
(* then on the last words are the message of the way out and, if users     *)
(* tampered, the account of it; and where they went follows from whether   *)
(* they end a line.                                                        *)
LogInv ==
  /\ Conserved /\ LastTold
  /\ recovery \in {"none", "open", "over"} /\ tries \in 0 .. 2
  /\ recovery = "none" => tries = 0
  /\ pc # "exited" => closed = {}
  /\ pc = "close" => epilogue \in Closers
  /\ recovery # "none" =>
       pc \in {"close", "exited"} /\ epilogue \in Closers /\ (On => rptr = <<>>)
  /\ epilogue \in Lines /\ On => rptr = <<>>
  /\ epilogue = "error" => closed = {} /\ (On => EndsWith(rptr, Message("error")))
  /\ closed # {} =>
       closed = Logs /\ pc = "exited" /\ epilogue \in Closers /\ rptr = <<>>
       /\ recovery # "open"

LEMMA LastToldKept ==
  ASSUME LastTold, UNCHANGED <<told, epilogue, recovery, tries>> PROVE LastTold'
  BY DEF LastTold, EndsWith, Accused, Accounted

LEMMA TellStep ==
  ASSUME TypeOK, NoVerdictYet, LogInv, Others, TellWords PROVE LogInv'
<1> USE DEF LogInv
<1>1. PICK cr \in IF NewOutput THEN 0 .. Len(Said)
                   ELSE IF epilogue' \in Lines THEN {Len(Said)} ELSE {0} :
              LogWords(Said, cr)
  BY DEF TellWords, Tell
<1>0. UNCHANGED <<recovery, tries>>
  BY DEF TellWords, Tell, rescueVars
<1>2. CASE Silent
  <2>1. Said = <<>> /\ cr = 0
    BY <1>1, <1>2 DEF Silent, Said, NewOutput
  <2>2. Said \in Seq(Words) /\ cr \in 0 .. Len(Said)
    BY <2>1
  <2>3. told \o Said = told /\ rptr \o Said = rptr
    BY <2>1, ConcatEmptySeq DEF Conserved
  <2>4. /\ Conserved' /\ told' = told /\ closed' = closed
        /\ On => rptr' = rptr
    BY <1>1, <2>1, <2>2, <2>3, LogWordsStep
  <2>5. ~On => rptr' = <<>>
    BY <2>4 DEF Conserved, On
  <2>6. LastTold'
    BY <1>0, <1>2, <2>4, LastToldKept DEF Silent
  <2> QED
    BY <1>0, <1>2, <2>4, <2>5, <2>6 DEF Silent, On, Conserved
<1>3. CASE Outputs
  <2>1. Said \in Seq(Words) /\ Len(Said) \in Nat
    <3>1. buf \in Nat /\ logged \in Nat /\ logged' - logged \in Nat
      BY <1>3 DEF Outputs, TypeOK
    <3>2. CASE NewOutput
      <4> DEFINE k == logged' - logged
      <4>1. Said = [i \in 1 .. k |-> Output(logged + i)]
        BY <3>2 DEF Said
      <4>2. \A i \in 1 .. k : Output(logged + i) \in Words
        BY <3>1 DEF Output, Words, Texts
      <4>3. Said \in [1 .. k -> Words]
        BY <4>1, <4>2
      <4>4. Said \in Seq(Words)
        BY <3>1, <4>3, SeqDef
      <4> QED
        BY <4>4, LenProperties
    <3>3. CASE ~NewOutput
      BY <1>3, <3>3 DEF Outputs, Said
    <3> QED
      BY <3>2, <3>3
  <2>2. epilogue = "none" /\ epilogue' = "none"
    BY <1>3 DEF Outputs, NoVerdictYet
  <2>3. cr \in 0 .. Len(Said)
    BY <1>1, <2>1, <2>2
  <2>4. Conserved' /\ closed' = closed
    BY <1>1, <2>1, <2>3, LogWordsStep
  <2>5. recovery = "none"
    BY <1>3 DEF Outputs
  <2>6. LastTold'
    BY <1>0, <2>2, <2>5 DEF LastTold
  <2> QED
    BY <1>0, <1>3, <2>2, <2>4, <2>5, <2>6 DEF Outputs, Lines, Closers
<1>4. CASE Concludes
  <2> DEFINE w == Message(epilogue')
  <2>1. /\ epilogue = "none" /\ epilogue' \in Closers \cup {"error"}
        /\ ~NewOutput
    BY <1>4 DEF Concludes, NoVerdictYet, NewOutput
  <2>2. Said = <<w>> /\ w \in Words
    BY <2>1 DEF Said, Closers, Words, Texts, Message, Lines
  <2>3. Said \in Seq(Words) /\ Len(Said) = 1
    BY <2>2
  <2>4. cr = IF epilogue' \in Lines THEN 1 ELSE 0
    BY <1>1, <2>1, <2>3
  <2> HIDE DEF w
  <2>11. cr \in 0 .. Len(Said) /\ LogWords(Said, cr)
    BY <1>1, <2>3, <2>4
  <2>12. Conserved
    OBVIOUS
  <2>13. /\ Conserved' /\ told' = told \o Said /\ closed' = closed
         /\ On /\ cr = Len(Said) /\ cr > 0 => rptr' = <<>>
         /\ On /\ cr = 0 => rptr' = rptr \o Said
    BY ONLY <2>3, <2>11, <2>12, LogWordsStep, Zenon
  <2>5. /\ Conserved' /\ told' = told \o Said /\ closed' = closed
        /\ On /\ epilogue' \in Lines => rptr' = <<>>
        /\ On /\ epilogue' \notin Lines => rptr' = rptr \o Said
    BY <2>3, <2>4, <2>13
  <2>6. EndsWith(told \o Said, w) /\ EndsWith(rptr \o Said, w)
    BY <2>2, LastOfConcat DEF Conserved
  <2>7. EndsWith(told', w)
    BY <2>5, <2>6
  <2>8. epilogue' = "error" /\ On => EndsWith(rptr', Message("error"))
    BY <2>5, <2>6 DEF w, Lines, On
  <2>9. closed' = {}
    BY <1>4, <2>5 DEF Concludes
  <2>14. recovery = "none"
    BY <1>4 DEF Concludes
  <2>15. LastTold'
    BY <1>0, <2>7, <2>14 DEF LastTold, w
  <2> QED
    BY <1>0, <1>4, <2>1, <2>5, <2>8, <2>9, <2>14, <2>15 DEF Concludes, Closers, Lines, On
<1> QED
  BY <1>2, <1>3, <1>4, SpeechStep

(* endlogging's messages on a manipulated file all end their line.         *)
LEMMA ReportStep ==
  ASSUME LogInv, NEW text \in Lines, Report(text)
  PROVE  /\ Conserved' /\ closed' = {} /\ (On => rptr' = <<>>)
         /\ UNCHANGED vars /\ pc = "close" /\ epilogue \in Closers
         /\ Len(told) \in Nat /\ Len(told') = Len(told) + 1
         /\ told'[Len(told) + 1] = Message(text)
         /\ \A k \in 1 .. Len(told) : told'[k] = told[k]
<1> USE DEF LogInv
<1> DEFINE words == <<Message(text)>>
<1>1. words \in Seq(Words) /\ Len(words) = 1 /\ words[1] = Message(text)
  BY DEF Message, Words, Texts
<1>2. LogWords(words, 1) /\ 1 \in 0 .. Len(words) /\ UNCHANGED vars /\ pc = "close"
  BY <1>1 DEF Report
<1> HIDE DEF words
<1>3. /\ Conserved' /\ told' = told \o words /\ closed' = closed
      /\ On /\ 1 = Len(words) /\ 1 > 0 => rptr' = <<>>
  BY ONLY LogInv, <1>1, <1>2, LogWordsStep DEF LogInv
<1>4. told \in Seq(Words) /\ Len(told) \in Nat
  BY LenProperties DEF Conserved
<1>5. /\ Len(told \o words) = Len(told) + 1
      /\ (told \o words)[Len(told) + 1] = words[1]
      /\ \A k \in 1 .. Len(told) : (told \o words)[k] = told[k]
  <2>1. /\ Len(told \o words) = Len(told) + Len(words)
        /\ \A i \in 1 .. Len(told) + Len(words) :
             (told \o words)[i] = IF i <= Len(told) THEN told[i]
                                  ELSE words[i - Len(told)]
    BY ONLY <1>1, <1>4, ConcatProperties
  <2> QED
    BY ONLY <1>1, <1>4, <2>1
<1> QED
  BY <1>1, <1>2, <1>3, <1>4, <1>5

LEMMA RescueStep ==
  ASSUME LogInv, Accuse \/ Retry \/ Recover PROVE LogInv'
<1> USE DEF LogInv
<1>1. ASSUME NEW text \in Lines, Report(text), LastTold', recovery' \in {"open", "over"},
             tries' \in 0 .. 2
      PROVE  LogInv'
  BY <1>1, ReportStep DEF vars, procVars, endVars, On, Closers
<1>2. CASE Accuse
  <2>1. Report("accusation") /\ recovery = "none" /\ recovery' = "open" /\ tries' = 0
    BY <1>2 DEF Accuse
  <2>2. /\ epilogue' = epilogue /\ epilogue \in Closers
        /\ Len(told) \in Nat /\ Len(told') = Len(told) + 1
        /\ told'[Len(told) + 1] = Message("accusation")
        /\ \A k \in 1 .. Len(told) : told'[k] = told[k]
    BY <2>1, ReportStep DEF Lines, vars, endVars
  <2>3. told # <<>> /\ told[Len(told)] = Message(epilogue)
    BY <2>1, <2>2 DEF LastTold, EndsWith, Closers
  <2>4. Len(told) \in 1 .. Len(told)
    BY <2>2, <2>3, EmptySeq DEF Conserved
  <2>5. Accused'
    BY <2>1, <2>2, <2>3, <2>4 DEF Accused, Message
  <2> QED
    BY <1>1, <2>1, <2>5 DEF LastTold, Lines
<1>3. CASE Retry
  <2>1. /\ Report("retry") /\ recovery = "open" /\ recovery' = "open"
        /\ tries' = tries + 1 /\ tries \in 0 .. 1
    BY <1>3 DEF Retry
  <2>2. /\ epilogue' = epilogue
        /\ Len(told) \in Nat /\ Len(told') = Len(told) + 1
        /\ told'[Len(told) + 1] = Message("retry")
        /\ \A k \in 1 .. Len(told) : told'[k] = told[k]
    BY <2>1, ReportStep DEF Lines, vars, endVars
  <2>3. Accused
    BY <2>1 DEF LastTold
  <2>4. Accused'
    <3> DEFINE n == Len(told) - tries - 1
    <3>1. /\ n \in 1 .. Len(told) - 1 /\ told[n] = Message(epilogue)
          /\ told[n + 1] = Message("accusation")
          /\ \A k \in n + 2 .. Len(told) : told[k] = Message("retry")
      BY <2>1, <2>2, <2>3 DEF Accused
    <3>2. Len(told') - tries' - 1 = n /\ Len(told') - tries' = n + 1
      BY ONLY <2>1, <2>2
    <3> HIDE DEF n
    <3>3. /\ told'[n] = Message(epilogue) /\ told'[n + 1] = Message("accusation")
          /\ \A k \in n + 2 .. Len(told') : told'[k] = Message("retry")
      BY ONLY <2>2, <3>1
    <3> QED
      BY ONLY <2>2, <3>1, <3>2, <3>3 DEF Accused, Message
  <2> QED
    BY <1>1, <2>1, <2>4 DEF LastTold, Lines
<1>4. CASE Recover
  <2>1. PICK text \in {"recovered", "lost"} :
             Report(text) /\ (text = "lost" => tries = 2)
    BY <1>4 DEF Recover
  <2>2. recovery = "open" /\ recovery' = "over" /\ tries' = tries
    BY <1>4 DEF Recover
  <2>3. /\ epilogue' = epilogue
        /\ Len(told) \in Nat /\ Len(told') = Len(told) + 1
        /\ told'[Len(told) + 1] = Message(text)
        /\ \A k \in 1 .. Len(told) : told'[k] = told[k]
    BY <2>1, ReportStep DEF Lines, vars, endVars
  <2>4. Accused
    BY <2>2 DEF LastTold
  <2> DEFINE n == Len(told) - tries - 1
  <2>5. /\ n \in 1 .. Len(told') - 2 /\ Len(told') - n = tries + 2
        /\ told'[n] = Message(epilogue) /\ told'[n + 1] = Message("accusation")
        /\ \A k \in n + 2 .. Len(told') - 1 : told'[k] = Message("retry")
    BY <2>3, <2>4 DEF Accused
  <2>6. \/ told'[Len(told')] = Message("recovered") /\ Len(told') - n <= 4
        \/ told'[Len(told')] = Message("lost") /\ Len(told') - n = 4
    BY <2>1, <2>3, <2>5
  <2> HIDE DEF n
  <2>7. Accounted'
    BY <2>3, <2>5, <2>6 DEF Accounted, Message
  <2> QED
    BY <1>1, <2>1, <2>2, <2>7 DEF LastTold, Lines
<1> QED
  BY <1>2, <1>3, <1>4

LEMMA CloseStep ==
  ASSUME LogInv, EndSession, EndLogging PROVE LogInv'
<1> USE DEF LogInv
<1>1. /\ pc = "close" /\ pc' = "exited" /\ UNCHANGED epilogue
      /\ epilogue \in Closers
  BY DEF EndSession, endVars
<1>2. CASE FailToClose
  <2>1. UNCHANGED <<told, syslog, rptr, closed, recovery, tries>>
    BY <1>2 DEF FailToClose, logVars, rescueVars
  <2>2. LastTold'
    BY <1>1, <2>1, LastToldKept
  <2> QED
    BY <1>1, <2>1, <2>2 DEF Conserved, On, Closers
<1>3. CASE CloseLogs(Logs)
  <2>1. /\ closed' = Logs /\ syslog' = syslog \o rptr /\ rptr' = <<>>
        /\ UNCHANGED <<told, recovery, tries>> /\ recovery # "open"
    BY <1>3 DEF CloseLogs, rescueVars
  <2>2. Conserved'
    <3>1. syslog' \in Seq(Words) /\ rptr' \in Seq(Words)
      BY <2>1, ConcatProperties, EmptySeq DEF Conserved
    <3>2. syslog' \o <<>> = syslog'
      BY <3>1, ConcatEmptySeq
    <3>3. ~On => syslog' = <<>>
      BY <2>1, ConcatEmptySeq, EmptySeq DEF Conserved
    <3> QED
      BY <2>1, <3>1, <3>2, <3>3 DEF Conserved, On
  <2>3. LastTold'
    BY <1>1, <2>1, LastToldKept
  <2> QED
    BY <1>1, <2>1, <2>2, <2>3 DEF Closers
<1> QED
  BY <1>2, <1>3 DEF EndLogging
-----------------------------------------------------------------------------
LEMMA InitLog == LogInit => LogInv
<1> SUFFICES ASSUME LogInit PROVE LogInv
  OBVIOUS
<1> USE DEF LogInit, InitLogs, Init, Closers, Lines
<1>1. Message("commands") \in Words
  BY DEF Message, Words, Texts
<1>2. told \in Seq(Words)
  <2>1. told = <<>> \/ told = <<Message("commands")>>
    OBVIOUS
  <2>2. <<>> \in Seq(Words) /\ <<Message("commands")>> \in Seq(Words)
    BY ONLY <1>1
  <2> QED
    BY ONLY <2>1, <2>2
<1>3. <<>> \in Seq(Words) /\ <<>> \o told = told
  BY <1>2, ConcatEmptySeq
<1>4. Conserved
  BY <1>2, <1>3 DEF Conserved, On
<1> QED
  BY <1>4 DEF LogInv, LastTold

LEMMA LogStepIsStep == [LogNext]_allVars => [Next]_vars
  BY DEF LogNext, Others, Next, Rootsh, Finish, allVars, Accuse, Retry, Recover, Report

(* The inductive invariant, on top of that of the session.                 *)
THEOREM LogInvHolds == LogSpec => [](SafetyInv /\ LogInv)
<1>1. LogInit => Init /\ LogInv
  BY InitLog DEF LogInit
<1>2. SafetyInv /\ LogInv /\ [LogNext]_allVars => LogInv'
  <2> SUFFICES ASSUME SafetyInv, LogInv, [LogNext]_allVars PROVE LogInv'
    OBVIOUS
  <2>1. TypeOK /\ NoVerdictYet
    BY DEF SafetyInv, VerdictInv
  <2>2. CASE Others /\ TellWords
    BY <2>1, <2>2, TellStep
  <2>3. CASE EndSession /\ EndLogging
    BY <2>3, CloseStep
  <2>4. CASE Accuse \/ Retry \/ Recover
    BY <2>4, RescueStep
  <2>5. CASE UNCHANGED allVars
    <3>1. LastTold'
      BY <2>5, LastToldKept
         DEF allVars, vars, endVars, logVars, rescueVars, LogInv
    <3> QED
      BY <2>5, <3>1 DEF allVars, vars, procVars, endVars, logVars, rescueVars, LogInv,
                        Conserved, EndsWith
  <2> QED
    BY <2>2, <2>3, <2>4, <2>5 DEF LogNext
<1>3. LogSpec => Spec
  BY <1>1, LogStepIsStep, PTL DEF LogSpec, Spec
<1> QED
  BY <1>1, <1>2, <1>3, SafetyInvHolds, PTL DEF LogSpec

(* The logs hold words, and only the logs in use are closed.               *)
THEOREM LogTypeCorrect == LogSpec => []LogTypeOK
<1>1. LogInv => LogTypeOK
  BY DEF LogInv, Conserved, LogTypeOK
<1> QED
  BY <1>1, LogInvHolds, PTL

(* With a verdict or a closing message syslog has all that was said.       *)
THEOREM SyslogIsComplete == LogSpec => []SyslogComplete
<1>1. LogInv => SyslogComplete
  <2> SUFFICES ASSUME LogInv, On, rptr = <<>> PROVE syslog = told
    BY DEF LogInv, SyslogComplete, On
  <2>1. syslog \o <<>> = syslog
    BY ConcatEmptySeq DEF LogInv, Conserved
  <2> QED
    BY <2>1 DEF LogInv, Conserved
<1> QED
  BY <1>1, LogInvHolds, PTL

(* The reason of an error exit is what syslog lacks.                       *)
THEOREM ReasonIsUnsent == LogSpec => []ReasonUnsent
<1>1. LogInv => ReasonUnsent
  BY DEF LogInv, Conserved, ReasonUnsent, EndsWith, On
<1> QED
  BY <1>1, LogInvHolds, PTL

(* The logs are closed together, and the last words are the verdict or the *)
(* finished account of users' tampering.                                   *)
THEOREM LogsCloseTogether == LogSpec => []ClosedTogether
<1>1. LogInv => ClosedTogether
  <2> SUFFICES ASSUME LogInv, closed # {} PROVE Accounted
    BY DEF LogInv, ClosedTogether, LogClosed
  <2>1. recovery \in {"none", "over"} /\ epilogue # "none"
    BY DEF LogInv, Closers
  <2>2. EndsWith(told, Message(epilogue)) => Accounted
    BY DEF EndsWith, Accounted
  <2> QED
    BY <2>1, <2>2 DEF LogInv, LastTold
<1> QED
  BY <1>1, LogInvHolds, PTL
=============================================================================
