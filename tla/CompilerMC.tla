---------------------------- MODULE CompilerMC -----------------------------
(***************************************************************************)
(* Instances of Compiler for TLC.  Three modes are enough: two that Schema *)
(* reads and one that only Compile does.                                   *)
(***************************************************************************)
EXTENDS Compiler

MCModes == {"play", "watch", "tutorial"}
MCSchemaModes == {"play", "watch"}

\* Requests that overlap, that extend each other, all modes, and none.
MCRequests == {{}, {"play"}, {"watch", "tutorial"}, MCModes}
OnlyAll == {MCModes}

\* Version 2 does not load for watch nor type-check for play and tutorial and
\* changes nothing shared; version 3 changes the configuration and does not compile
\* for play.
MCUnloadable == {<<"watch", 2>>}
MCUntypable == {<<"tutorial", 2>>, <<"play", 2>>}
MCUncompilable == {<<"play", 3>>}
MCShared == <<"A", "A", "B">>
=============================================================================
