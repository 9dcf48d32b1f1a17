------------------------------- MODULE LineLog -------------------------------
(***************************************************************************)
(* What a line-buffered log promises: the characters it accepts, line      *)
(* feeds apart, leave it in order, one line for each carriage return, and  *)
(* how the characters were cut into calls makes no difference.  A line     *)
(* ends early at a NUL.                                                    *)
(***************************************************************************)
EXTENDS Naturals, Sequences

CONSTANTS Chars, CR, NUL

VARIABLES
  todo,   \* accepted, not yet part of a line
  lines   \* the lines written so far

vars == <<todo, lines>>

Init == todo = <<>> /\ lines = <<>>

Accept ==
  /\ todo' \in Seq(Chars)
  /\ Len(todo') >= Len(todo) /\ SubSeq(todo', 1, Len(todo)) = todo
  /\ UNCHANGED lines

Emit ==
  \E k \in 1 .. Len(todo) :
    /\ todo[k] = CR /\ \A i \in 1 .. k - 1 : todo[i] # CR
    /\ \E n \in 0 .. k - 1 :
         /\ \A i \in 1 .. n : todo[i] # NUL
         /\ todo[n + 1] \in {NUL, CR}
         /\ lines' = Append(lines, SubSeq(todo, 1, n))
    /\ todo' = SubSeq(todo, k + 1, Len(todo))

Next == Accept \/ Emit

Spec == Init /\ [][Next]_vars
=============================================================================
