---------------------------- MODULE MCNamespace ----------------------------
(* Small instances of Namespace for TLC.                                   *)
EXTENDS Namespace, TLC

CONSTANTS c1, c2

\* Two names at the top, and one in the directory of the first.
TwoLevels == {<<"a">>, <<"b">>, <<"a", "b">>}

\* A directory with a file in it, and a file beside it.
WithFiles == <<"a">> :> Dir @@ <<"b">> :> 3 @@ <<"a", "b">> :> 4

\* The host of the second client has a directory of the first name.
OneHost == [c \in Clients |-> IF c = c2 THEN {<<"a">>} ELSE {}]
=============================================================================
