----------------------------- MODULE ScaffoldMC -----------------------------
(* Two commands, each of any kind, with two failing calls or kills and     *)
(* two things the user makes.                                              *)
EXTENDS Scaffold, TLC

CONSTANTS c1, c2

MCModuleFiles == <<".gitignore", "settings.json", "go.mod", "go.sum">>
MCEngineFiles == <<"main.go", "play.go">>

Symmetric == Permutations({c1, c2})
=============================================================================
