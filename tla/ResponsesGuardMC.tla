-------------------------- MODULE ResponsesGuardMC --------------------------
(* Arguments for ResponsesGuard: "v" is a valid text, "o" opens one.         *)
EXTENDS ResponsesGuard

MCArguments == {<<"v">>, <<"o", "v">>}
MCFinals    == {<<"o">>, <<"o", "v">>}
=============================================================================
