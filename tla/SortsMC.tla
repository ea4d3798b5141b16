------------------------------ MODULE SortsMC ------------------------------
(***************************************************************************)
(* Instances of the two merge sorts for TLC.  A behaviour sorts an array   *)
(* or a list of entities.                                                  *)
(*                                                                         *)
(* Arrays: up to seven elements with every choice of three keys.  Lists:   *)
(* five entities under every strict weak order of three levels, and every  *)
(* relation between three of them.                                         *)
(***************************************************************************)
EXTENDS MergeSort, LinkedSort

MCEntities == 0..4
ByKey(key) == {pair \in MCEntities \X MCEntities : key[pair[1]] < key[pair[2]]}
Orders == {ByKey(key) : key \in [MCEntities -> 1..3]}
Relations == SUBSET {pair \in {0, 1, 3} \X {0, 1, 3} : pair[1] # pair[2]}
MCComparators == Orders \cup Relations

\* The sort that is not chosen has nothing to do.
NoArray ==
  /\ cells = <<>> /\ pc = "done" /\ width = 1 /\ start = 0
  /\ merge = Triple(0, 0, 0) /\ stack = <<>> /\ cut = NoCut
NoList ==
  /\ size = 0 /\ next = ListOf(0) /\ previous = ListOf(0) /\ less = {}
  /\ doubly = FALSE /\ block = "returned" /\ local = Locals(Nil)

SortsInit ==
  \/ Init /\ NoList
  \/ ListInit /\ NoArray

SortsNext ==
  \/ Next /\ UNCHANGED listVars
  \/ ListNext /\ UNCHANGED vars

SortsSpec == SortsInit /\ [][SortsNext]_<<vars, listVars>> /\ WF_vars(Next) /\ WF_listVars(ListNext)

\* Both sorts return, for every comparator: the code runs to its end.
BothReturn == Returns /\ Terminates
=============================================================================
