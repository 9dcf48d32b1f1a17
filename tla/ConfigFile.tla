------------------------------ MODULE ConfigFile ------------------------------
(***************************************************************************)
(* readConfigFile and the parser it uses.  A text is a sequence of         *)
(* characters.  A character is ordinary, "=", "#", "blank" (any white      *)
(* space but a line break) or "LF".  The file is whatever fgets finds next *)
(* in it.  The names that are not settings are passed over, so only the    *)
(* settings of this program have to be known.  The checks of a length that *)
(* no line from the buffer can exceed are left out.                        *)
(*                                                                         *)
(* A definition whose name ends in Bug is the definition after it with one *)
(* plausible mistake.                                                      *)
(***************************************************************************)
EXTENDS Naturals, Sequences, FiniteSetsExt

CONSTANTS
  Ordinary,   \* characters that mean nothing to the parser
  LineSize,   \* MAXPATHLEN: the size of readConfigFile's buffer
  Switches,   \* the names of boolean settings
  Paths,      \* the names of settings that are paths
  TrueTexts   \* what strcasecmp takes for "true"

ASSUME ConfigAssumption ==
  /\ LineSize \in Nat \ {0, 1}
  /\ Switches \cap Paths = {}
  /\ \A name \in Switches \cup Paths : Len(name) > 1

White == {"blank", "LF"}
Chars == Ordinary \cup {"=", "#"} \cup White
Texts(max) == UNION {[1 .. n -> Chars] : n \in 1 .. max}

VARIABLES
  pc,        \* "fgets", "parse", "done" or "crashed"
  line,      \* what fgets has read
  mid,       \* it continues a line that did not fit before
  last,      \* the file ends behind it
  settings   \* the program's variables: switches that are on, and paths

vars == <<pc, line, mid, last, settings>>

Init ==
  /\ pc = "fgets" /\ line = <<>> /\ mid = FALSE /\ last = FALSE
  /\ settings \in [on : [Switches -> BOOLEAN], path : {[n \in Paths |-> <<>>]}]
-----------------------------------------------------------------------------
(* The parser.                                                             *)

isWhitespace(c) == c \in White

(* begin stops at the last character, white or not, and then nothing is    *)
(* left.  A text without characters gives NULL; see SplitCrashes.          *)
TrimTo(data, end) ==
  LET begin == Min({i \in DOMAIN data : ~isWhitespace(data[i])} \cup {Len(data)})
  IN  IF begin = Len(data) THEN <<>> ELSE SubSeq(data, begin, end)

(* The end of the text is taken for the end of what is left of it.         *)
trimWhitespaceBug(data) == TrimTo(data, Len(data))
trimWhitespace(data)    ==
  TrimTo(data, Max({i \in DOMAIN data : ~isWhitespace(data[i])} \cup {1}))

isConfigLine(text) == text[1] # "#" /\ \E i \in DOMAIN text : text[i] = "="

equals(text)    == Min({i \in DOMAIN text : text[i] = "="})
KeyText(text)   == SubSeq(text, 1, equals(text) - 1)
ValueText(text) == SubSeq(text, equals(text) + 1, Len(text))

(* splitConfigLine copies from the NULL that it got for an empty text.     *)
SplitCrashes(text) == KeyText(text) = <<>> \/ ValueText(text) = <<>>

parseBool(value) == IF value \in TrueTexts THEN TRUE ELSE FALSE

Assign(key, value) ==
  IF key \in Switches THEN [settings EXCEPT !.on[key] = parseBool(value)]
  ELSE IF key \in Paths THEN [settings EXCEPT !.path[key] = value]
  ELSE settings
-----------------------------------------------------------------------------
(* readConfigFile.                                                         *)

(* fgets returns a text that ends with its first line break, fills the     *)
(* buffer but for the NUL, or ends where the file ends.                    *)
FgetsUpTo(room) ==
  /\ pc = "fgets" /\ ~last
  /\ line' \in {t \in Texts(room) : \A i \in 1 .. Len(t) - 1 : t[i] # "LF"}
  /\ last' \in IF line'[Len(line')] = "LF" \/ Len(line') = room THEN BOOLEAN ELSE {TRUE}
  /\ pc' = "parse"
  /\ UNCHANGED <<mid, settings>>

(* The NUL at the end is not counted.                                      *)
FgetsBug == FgetsUpTo(LineSize)
Fgets    == FgetsUpTo(LineSize - 1)

EndOfFile ==
  /\ pc = "fgets" /\ pc' = "done"
  /\ UNCHANGED <<line, mid, last, settings>>

Parse ==
  /\ pc = "parse"
  /\ line' = <<>> /\ mid' = (line[Len(line)] # "LF")
  /\ \/ /\ ~isConfigLine(line)
        /\ pc' = "fgets" /\ UNCHANGED settings
     \/ /\ isConfigLine(line) /\ ~SplitCrashes(line)
        /\ settings' = Assign(trimWhitespace(KeyText(line)), trimWhitespace(ValueText(line)))
        /\ pc' = "fgets"
     \/ /\ isConfigLine(line) /\ SplitCrashes(line)
        /\ pc' = "crashed" /\ UNCHANGED settings
  /\ UNCHANGED last

Next == Fgets \/ EndOfFile \/ Parse
Spec == Init /\ [][Next]_vars
-----------------------------------------------------------------------------
(* Switches are on or off, and a path fits the variable it is copied to:   *)
(* logdir and defaultshell have MAXPATHLEN + 1 characters.  The buffer of  *)
(* fgets sees to it, which holds the name and the NUL as well; the check   *)
(* for more than MAXPATHLEN characters can never fire.                     *)
SettingsFit ==
  /\ settings.on \in [Switches -> BOOLEAN]
  /\ \A n \in Paths : settings.path[n] # <<>> => Len(n) + 1 + Len(settings.path[n]) < LineSize

(* What a line means, by the words of the header: nothing if it is a       *)
(* comment or has no "="; otherwise what stands before the first "=" is    *)
(* the key and all that follows the value, both without the white space    *)
(* around them.                                                            *)
Strip(t) ==
  LET ink == {i \in DOMAIN t : t[i] \notin White}
  IN  IF ink = {} THEN <<>> ELSE SubSeq(t, Min(ink), Max(ink))
Meaning(text) ==
  IF text[1] = "#" \/ ~\E i \in DOMAIN text : text[i] = "=" THEN settings
  ELSE LET e == CHOOSE i \in DOMAIN text :
                  text[i] = "=" /\ "=" \notin {text[j] : j \in 1 .. i - 1}
       IN  Assign(Strip(SubSeq(text, 1, e - 1)), Strip(SubSeq(text, e + 1, Len(text))))

(* A line that fits the buffer means that and nothing else, whatever came  *)
(* before it, and reading goes on: also behind a comment, a "key=" without *)
(* a value, or one of white space.  Left out are lines on which the parser *)
(* fails its header: one that begins with "=" crashes it, and of a value   *)
(* that only the end of the file ends a single character is dropped, and   *)
(* none at all crashes it.  No setting here has a name of one character,   *)
(* which would never be recognised.                                        *)
OneAtEnd(t) == t # <<>> /\ {i \in DOMAIN t : t[i] \notin White} = {Len(t)}
Sound(text) ==
  /\ text[1] # "="
  /\ \/ text[Len(text)] = "LF"
     \/ /\ isConfigLine(text) /\ ValueText(text) # <<>>
        /\ ~OneAtEnd(ValueText(text))
LinesTakeEffect ==
  [][pc = "parse" /\ ~mid /\ (line[Len(line)] = "LF" \/ last) /\ Sound(line)
       => pc' = "fgets" /\ settings' = Meaning(line)]_vars
=============================================================================
