---------------------------- MODULE ContainersMC ----------------------------
(***************************************************************************)
(* Instances of the containers for TLC: elements of which two compare      *)
(* equal and one is below them, and maps and sets with one key more than   *)
(* they can hold.                                                          *)
(***************************************************************************)
EXTENDS Containers

MCElements == {"one", "two", "deux"}
MCKey == [v \in MCElements |-> IF v = "one" THEN 1 ELSE 2]
=============================================================================
