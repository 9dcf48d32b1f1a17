----------------------------- MODULE MCUserShells -----------------------------
(* Instances of UserShells for TLC: every path of up to four characters,   *)
(* listed alone, and some of them in every file of up to four words and    *)
(* line breaks.                                                            *)
EXTENDS UserShellsClaims

Upto(n, S)  == UNION {[1 .. k -> S] : k \in 1 .. n}
AllPaths    == Upto(4, {"/", "r", "x"})
Rootsh      == <<"r">>
Other       == <<"/", "x">>
Defaults    == <<Other, <<"/", "r">>>>
Mark        == <<"#">>
Break       == <<"LF">>
Words       == {Mark, Break, Other, <<"/", "r">>, <<"/", "x", "/", "r">>}
AllFiles    == {<<>>} \cup Upto(4, Words) \cup {<<p>> : p \in AllPaths}
=============================================================================
