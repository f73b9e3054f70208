------------------------------- MODULE MCsfs -------------------------------
(***************************************************************************)
(* Two files, one of them in a directory, and a second directory: the      *)
(* three entries of the root fill its block.                               *)
(***************************************************************************)
EXTENDS SfsProperties

MCFiles == {<<"f">>, <<"d", "f">>}
MCDirs == {<<"d">>, <<"e">>}
=============================================================================
