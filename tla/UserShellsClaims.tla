--------------------------- MODULE UserShellsClaims ---------------------------
(***************************************************************************)
(* What a comment of getusershell.c says and the code does not do.         *)
(***************************************************************************)
EXTENDS UserShells

(* "Return an entry from the shells file, ignoring comment lines"          *)
(* (getusershell.c:85): a shell whose name stands in comments only is      *)
(* refused.                                                                *)
CommentsIgnored == pc = "done" /\ shell # {} => caller \in Listed
=============================================================================
