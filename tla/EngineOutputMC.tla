--------------------------- MODULE EngineOutputMC ---------------------------
(***************************************************************************)
(* Instances of EngineOutput for TLC: packages of different file sets, so  *)
(* that a mixture of two is not one of them.                               *)
(***************************************************************************)
EXTENDS EngineOutput

CONSTANTS w1, w2

TwoWriters == {w1, w2}
OneWriter == {w1}

MCFiles == {"config", "play", "watch"}
MCPackageOf == [w \in Writers |-> IF w = w1 THEN {"config", "play"} ELSE {"config", "watch"}]
MCOldFiles == {"config", "play"}
=============================================================================
