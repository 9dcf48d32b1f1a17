------------------------------ MODULE MCStartup ------------------------------
(* Instances of Startup for TLC.                                           *)
EXTENDS Startup, TLC

RootAndJoe == "root" :> "sh" @@ "joe" :> "rootsh"
(* Called by a user, setuid, by sudo, and by users without an entry.       *)
JoeOrRoot  == {<<"joe", "joe">>, <<"joe", "root">>, <<"root", "root">>,
               <<"none", "root">>, <<"joe", "none">>}
=============================================================================
