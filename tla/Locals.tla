-------------------------------- MODULE Locals --------------------------------
(***************************************************************************)
(* The locals of a function at the end of the optimizer: the copies that   *)
(* replace the Phis of an edge (internal/compiler/optimize/ssa.go), copies *)
(* between locals that become one (simplify.go), and the addresses of the  *)
(* locals in Temporary Memory (allocate.go).                               *)
(*                                                                         *)
(* locals[i] is the number of slots of local i.  Two locals interfere if   *)
(* one is written while the other is live; an interference graph is the    *)
(* set of its edges {a, b}.                                                *)
(***************************************************************************)
EXTENDS Integers, Sequences, FiniteSets, Functions

CONSTANT TemporaryMemorySlots
ASSUME SlotsAssumption == TemporaryMemorySlots \in Nat \ {0}

---------------------------------------------------------------------------
(* The moves [target, source] of one edge happen at once.  A destination   *)
(* that is also a source is first copied to a new local, behind the n      *)
(* there are, and read from there.                                         *)

Snapshots(n, moves) ==
  LET sources == {moves[i].source : i \in DOMAIN moves}
      Save(saves, t) == Append(saves, [target |-> n + Len(saves) + 1, source |-> t])
      after[k \in 0..Len(moves)] ==
        IF k = 0 THEN <<>>
        ELSE IF moves[k].target \in sources THEN Save(after[k - 1], moves[k].target) ELSE after[k - 1]
  IN after[Len(moves)]

ReadFrom(snapshots, s) ==
  IF \E i \in DOMAIN snapshots : snapshots[i].source = s
  THEN snapshots[CHOOSE i \in DOMAIN snapshots : snapshots[i].source = s].target ELSE s

\* The moves, from where their sources are read.
Redirected(snapshots, moves) ==
  [i \in 1..Len(moves) |-> [target |-> moves[i].target, source |-> ReadFrom(snapshots, moves[i].source)]]

---------------------------------------------------------------------------
(* A copy between locals that do not interfere makes them one: the lower   *)
(* stands for both, and has the neighbours of both.                        *)

EdgesOf(id, live) == {{id, a} : a \in live \ {id}}
Neighbours(graph, id) == (UNION {edge \in graph : id \in edge}) \ {id}

\* u = [parent, graph]: each local with the one that stands for it.
Unite(u, copy) ==
  LET a == u.parent[copy.target]
      b == u.parent[copy.source]
      low == IF a < b THEN a ELSE b
      high == IF a < b THEN b ELSE a
  IN IF a = b \/ {a, b} \in u.graph THEN u
     ELSE [parent |-> [id \in DOMAIN u.parent |-> IF u.parent[id] = high THEN low ELSE u.parent[id]],
           graph |-> u.graph \cup EdgesOf(low, Neighbours(u.graph, high))]

\* n locals after all the copies, in their order.
United(n, graph, copies) ==
  LET after[k \in 0..Len(copies)] ==
        IF k = 0 THEN [parent |-> [id \in 1..n |-> id], graph |-> graph] ELSE Unite(after[k - 1], copies[k])
  IN after[Len(copies)]

---------------------------------------------------------------------------
(* Addresses: one after the other, or the widest first, each where none it *)
(* interferes with has been placed: fast, behind all of those; otherwise   *)
(* at the lowest free address, or past the end if there is none.           *)

Sums(locals) ==
  LET after[n \in 0..Len(locals)] == IF n = 0 THEN 0 ELSE after[n - 1] + locals[n]
  IN after
Total(locals) == Sums(locals)[Len(locals)]
Sequential(locals) == [id \in DOMAIN locals |-> Sums(locals)[id - 1]]

EndOf(locals, at) ==
  LET ends == {0} \cup {at[id] + locals[id] : id \in DOMAIN at}
  IN CHOOSE n \in ends : \A m \in ends : m <= n
Fitting(locals, at) == EndOf(locals, at) <= TemporaryMemorySlots

Conflicts(graph, at, id) == Neighbours(graph, id) \cap DOMAIN at

FirstFit(locals, graph, at, id) ==
  LET occupied == UNION {at[o]..(at[o] + locals[o] - 1) : o \in Conflicts(graph, at, id)}
      Fits(n) == \A slot \in n..(n + locals[id] - 1) : slot \notin occupied
      free == {n \in 0..(TemporaryMemorySlots - locals[id]) : Fits(n)}
  IN IF free = {} THEN TemporaryMemorySlots ELSE CHOOSE n \in free : \A m \in free : n <= m

AfterConflicts(locals, graph, at, id) ==
  EndOf(locals, [o \in Conflicts(graph, at, id) |-> at[o]])

Widest(locals, ids) ==
  CHOOSE a \in ids : \A b \in ids : locals[a] > locals[b] \/ (locals[a] = locals[b] /\ a <= b)

PlaceNext(locals, graph, fast, at) ==
  LET id == Widest(locals, DOMAIN locals \ DOMAIN at)
      offset == IF fast THEN AfterConflicts(locals, graph, at, id) ELSE FirstFit(locals, graph, at, id)
  IN [o \in DOMAIN at \cup {id} |-> IF o = id THEN offset ELSE at[o]]

Placement(locals, graph, fast) ==
  LET after[n \in 0..Len(locals)] ==
        IF n = 0 THEN <<>> ELSE PlaceNext(locals, graph, fast, after[n - 1])
  IN after[Len(locals)]
=============================================================================
