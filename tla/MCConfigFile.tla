----------------------------- MODULE MCConfigFile -----------------------------
(* Instances of ConfigFile for TLC.  Names have two or more characters.    *)
EXTENDS ConfigFile

OneSwitch == {<<"a", "a", "a">>}
OnePath   == {<<"a", "a">>}
True      == {<<"a">>}
=============================================================================
