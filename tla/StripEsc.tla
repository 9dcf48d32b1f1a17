------------------------------ MODULE StripEsc ------------------------------
(***************************************************************************)
(* stripesc of write2syslog.c, a filter for terminal escape sequences.     *)
(* Characters are their codes; vtstate outlives a call.                    *)
(***************************************************************************)
EXTENDS Integers, Sequences, SequencesExt

NUL == 0
BEL == 7
CAN == 24
SUB == 26
ESC == 27
DCS == 144
CSI == 155
OSC == 157
PM  == 158
APC == 159

VtStates == {"Normal", "Esc", "Csi", "Dcs", "DcsString", "Osc", "OscString", "DropOne"}

(* BS TAB LF VT FF CR pass, in every state.                                *)
Layout    == 8 .. 13
(* (chr & 0x6F) < 0x20: bits 5 and 6 are clear.                            *)
IsControl(chr) == chr % 128 < 32
IsFinal(chr)   == chr \in 64 .. 126
(* # blank ( ) * + announce one more character.                            *)
Designators == {35, 32, 40, 41, 42, 43}

(* vtstate after a character has reached the switch.                       *)
Switch(vt, chr) ==
  CASE chr \in {CAN, SUB}     -> "Normal"
    [] chr = ESC              -> "Esc"
    [] chr = CSI              -> "Csi"
    [] chr \in {DCS, PM, APC} -> "Dcs"
    [] chr = OSC              -> "Osc"
    [] chr = BEL              -> IF vt = "OscString" THEN "Normal" ELSE vt
    [] ~IsControl(chr) /\ vt = "Esc"
         -> IF chr \in Designators THEN "DropOne" ELSE "Normal"
    [] vt \in {"Csi", "Dcs", "Osc"} /\ IsFinal(chr)
         -> [Csi |-> "Normal", Dcs |-> "DcsString", Osc |-> "OscString"][vt]
    [] OTHER                  -> vt

Copied(vt, chr) ==
  \/ chr \in Layout
  \/ chr = BEL /\ vt # "OscString"
  \/ ~IsControl(chr) /\ vt = "Normal"

(* ESC and a character of 0x40 .. 0x5F together stand for a C1 control.    *)
Pair(vt, c) == vt = "Esc" /\ c \in 64 .. 95

(* One turn of the loop: the next vtstate and what is copied.              *)
NextState ==
  [vt \in VtStates |-> [c \in 0 .. 255 |->
     IF vt = "DropOne" THEN "Normal"
     ELSE IF Pair(vt, c) THEN Switch("Normal", c + 64) ELSE Switch(vt, c)]]
Output ==
  [vt \in VtStates |-> [c \in 0 .. 255 |->
     IF vt = "DropOne" \/ Pair(vt, c) \/ ~Copied(vt, c) THEN <<>> ELSE <<c>>]]

(* The loop over a line that holds no NUL: vtstate after i characters.     *)
StateAfter(vt, line) ==
  LET st[i \in 0 .. Len(line)] == IF i = 0 THEN vt ELSE NextState[st[i - 1]][line[i]]
  IN st

Cleaned(vt, line) ==
  FlattenSeq([i \in 1 .. Len(line) |-> Output[StateAfter(vt, line)[i - 1]][line[i]]])

StrNCpy(to, from, n) ==
  [i \in 1 .. Len(to) |->
     IF i > n THEN to[i] ELSE IF i <= Len(from) THEN from[i] ELSE NUL]

(* What the caller finds in its buffer.  buflen starts as the length of    *)
(* the line and each turn takes one off: nothing is left of it when        *)
(* strncpy is told to copy buflen characters back.                         *)
stripesc(vt, line) ==
  LET turns  == Len(line)
      buflen == Len(line) - turns
  IN [vt   |-> StateAfter(vt, line)[Len(line)],
      line |-> StrNCpy(line, Cleaned(vt, line), buflen)]
=============================================================================
