-------------------------- MODULE UncachedCompile --------------------------
(***************************************************************************)
(* What the callback cache promises its users: to be invisible.  Every     *)
(* call of Compile ends once, and if it succeeds each callback of its      *)
(* project was optimized from its own IR at the project's own level and    *)
(* its constant tables stand where the project's own ROM puts them,        *)
(* whatever other calls shared the cache.                                  *)
(***************************************************************************)
CONSTANTS
  Sessions,     \* calls of Compile
  Workloads,    \* what the calls may be asked to compile, together
  Compiled(_),  \* the functions a project compiles to, without any cache
  Unfinished, Failed

VARIABLES project, outcome

vars == <<project, outcome>>

Init ==
  /\ project \in Workloads
  /\ outcome = [s \in Sessions |-> Unfinished]

Succeed(s) ==
  /\ outcome[s] = Unfinished
  /\ outcome' = [outcome EXCEPT ![s] = Compiled(project[s])]
  /\ UNCHANGED project

Fail(s) ==
  /\ outcome[s] = Unfinished
  /\ outcome' = [outcome EXCEPT ![s] = Failed]
  /\ UNCHANGED project

Next == \E s \in Sessions : Succeed(s) \/ Fail(s)

Spec == Init /\ [][Next]_vars
=============================================================================
