----------------------------- MODULE DevServerMC -----------------------------
(***************************************************************************)
(* Instances of DevServer for TLC.  Version 1 of the engine imports a      *)
(* library and binds a level; the first level data does not fit the first  *)
(* engine's successor, and the second library version does not compile.    *)
(***************************************************************************)
EXTENDS DevServer

MCDirs == {"engine", "library", "levels"}
MCSources == [v \in 0..MaxVersion |-> IF v = 0 THEN {"engine"} ELSE {"engine", "library"}]
MCLevelDirs == [v \in 0..MaxVersion |-> IF v = 0 THEN {} ELSE {"levels"}]
MCBad == {<<"library", 1>>, <<"engine", 2>>}
MCMisfit == {<<1, "levels", 1>>, <<0, "levels", 0>>}
=============================================================================
