------------------------------ MODULE Optimizer ------------------------------
(***************************************************************************)
(* The optimizer (internal/compiler/optimize/optimize.go): a level's list  *)
(* of passes is run over a function one after the other; the analyses a    *)
(* pass requires are computed or taken from the cache, the result of every *)
(* pass is validated, and the analyses it does not preserve are dropped.   *)
(*                                                                         *)
(* Programs are functions of the intermediate code as lowering makes them, *)
(* Tapes what Random may draw.                                             *)
(***************************************************************************)
EXTENDS Simplify, Execution, Locals

---------------------------------------------------------------------------
(* Which locals interfere, for the operators of Locals (allocate.go).      *)

Located(place) == place.p \in {"local", "indexed"}
LocalsRead(e) == {place.id : place \in {q \in Reads(e) : Located(q)}}
AllLocalsRead(es) == UNION {LocalsRead(e) : e \in Range(es)}

Pairs(live) == {{a, b} : a \in live, b \in live} \ {{a} : a \in live}

---------------------------------------------------------------------------
(* Where the life of an aggregate starts: at the first store of a complete *)
(* overwrite by fixed slots with no read in between.  acc = [pending,      *)
(* starts]; pending[id] = [first, written].                                *)

Forget(acc, ids) == [acc EXCEPT !.pending = [id \in DOMAIN @ \ ids |-> @[id]]]

Overwrite(f, code, acc, at) ==
  LET place == code[at].place
      group == IF place.id \in DOMAIN acc.pending THEN acc.pending[place.id] ELSE [first |-> at, written |-> {}]
      grown == [group EXCEPT !.written = @ \cup {place.off}]
  IN IF f.locals[place.id] <= 1 THEN acc
     ELSE IF Cardinality(grown.written) = f.locals[place.id]
     THEN [Forget(acc, {place.id}) EXCEPT !.starts = @ \cup {grown.first}]
     ELSE [acc EXCEPT !.pending = (place.id :> grown) @@ @]

AggregateInitializations(f, code) ==
  LET One(acc, at) ==
        LET ins == code[at]
            read == Forget(acc, AllLocalsRead(InstrExprs(ins)))
        IN CASE ins.i = "store" /\ ins.place.p = "local" -> Overwrite(f, code, read, at)
             [] ins.i = "store" /\ ins.place.p = "indexed" -> Forget(read, {ins.place.id})
             [] OTHER -> read
  IN FoldLeft(One, [pending |-> <<>>, starts |-> {}], [at \in DOMAIN code |-> at]).starts

(* Or at its only store, if all it is read for comes after that store in   *)
(* the same block, at an address that is still the same.                   *)

Invalidated(seen, when) == [seen EXCEPT !.stable = @ /\ ~when]
Observe(c, seen, e) ==
  LET mine == {Load(place) : place \in {q \in Reads(e) : Located(q) /\ q.id = c.store.place.id}}
  IN [seen EXCEPT !.valid = @ /\ \A x \in mine :
        seen.defined /\ seen.stable /\ ExprKey(x) = ExprKey(Load(c.store.place))]

\* Effects within expressions may come before what else they read.
ObserveAll(c, seen, es) ==
  FoldLeft(LAMBDA s, e : Observe(c, s, e), Invalidated(seen, \E e \in Range(es) : HasEffects(e)), es)
\* A call on its own reads its arguments first, and a log writes nothing.
ObserveCall(c, seen, call) ==
  Invalidated(Observe(c, Invalidated(seen, \E a \in Range(call.args) : HasEffects(a)), call),
              HasEffects(call) /\ call.fn # "DebugLog")
ObserveInstr(c, seen, ins) ==
  IF ins.i = "store" THEN ObserveAll(c, seen, StoreExprs(ins)) ELSE ObserveCall(c, seen, ins.value)

Undisturbed(c, place) == FALSE \* mutant: the index may be written in between
Disturbs(c, place) ==
  LET inputs == UNION {Reads(e) : e \in Range(PlaceExprs(c.store.place))}
  IN \E q \in inputs : IF Located(place) THEN Located(q) /\ q.id = place.id ELSE q.p = "memory"

SingleStoreStarts(f, c) ==
  LET block == f.blocks[c.block]
      Elsewhere == \E b \in Blocks(f) \ {c.block} : c.store.place.id \in AllLocalsRead(BlockExprs(f.blocks[b]))
      After(read, at, ins) ==
        IF at = c.at THEN [read EXCEPT !.defined = TRUE, !.stable = TRUE]
        ELSE IF ins.i = "store" /\ Disturbs(c, ins.place) THEN [read EXCEPT !.stable = FALSE] ELSE read
      One(seen, at) == After(ObserveInstr(c, seen, block.code[at]), at, block.code[at])
      seen == FoldLeft(One, [defined |-> FALSE, stable |-> FALSE, valid |-> TRUE], [at \in DOMAIN block.code |-> at])
  IN /\ \A e \in Range(StoreExprs(c.store)) : ~HasEffects(e)
     /\ FoldLeft(LAMBDA s, e : ObserveAll(c, s, <<e>>), seen, TermExprs(block.term)).valid
     /\ ~Elsewhere

SingleStoreAggregates(f) ==
  LET Stores(b) == {[block |-> b, at |-> at, store |-> f.blocks[b].code[at]] :
                      at \in {x \in DOMAIN f.blocks[b].code :
                                f.blocks[b].code[x].i = "store" /\ Located(f.blocks[b].code[x].place)}}
      all == {c \in UNION {Stores(b) : b \in Blocks(f)} : f.locals[c.store.place.id] > 1}
      single == {c \in all : \A d \in all : d.store.place.id = c.store.place.id => d = c}
  IN {<<c.block, c.at>> : c \in {x \in single : SingleStoreStarts(f, x)}}

---------------------------------------------------------------------------
(* Liveness, backwards; a store of a whole local ends its life, of a part  *)
(* counts as a use.                                                        *)

WholeDefinitions(f) ==
  SingleStoreAggregates(f)
  \cup UNION {{<<b, at>> : at \in AggregateInitializations(f, f.blocks[b].code)} : b \in Blocks(f)}
  \cup UNION {{<<b, at>> : at \in {x \in DOMAIN f.blocks[b].code :
                 LET ins == f.blocks[b].code[x]
                 IN ins.i = "store" /\ ins.place.p = "local" /\ f.locals[ins.place.id] = 1}} : b \in Blocks(f)}

\* What is used at an instruction, besides what it defines.
UsedAt(ins, whole) ==
  AllLocalsRead(InstrExprs(ins)) \cup (IF ins.i = "store" /\ ~whole /\ Located(ins.place) THEN {ins.place.id} ELSE {})

\* Backwards over a block, acc = [live, graph].
LivenessOfBlock(f, whole, liveOut, b) ==
  LET block == f.blocks[b]
      end == liveOut \cup AllLocalsRead(TermExprs(block.term))
      One(at, acc) ==
        LET ins == block.code[at]
            defines == <<b, at>> \in whole
            before == (acc.live \ IF defines THEN {ins.place.id} ELSE {}) \cup UsedAt(ins, defines)
        IN [live |-> before,
            graph |-> acc.graph \cup Pairs(before) \cup IF defines THEN EdgesOf(ins.place.id, acc.live) ELSE {}]
  IN FoldRight(One, [at \in DOMAIN block.code |-> at], [live |-> end, graph |-> Pairs(end)])

RECURSIVE ComputeLiveness(_, _, _)
ComputeLiveness(f, whole, liveIn) ==
  LET Then(next) == IF next = liveIn THEN liveIn ELSE ComputeLiveness(f, whole, next)
  IN Then([b \in Blocks(f) |-> LivenessOfBlock(f, whole, LiveOut(f, liveIn, b), b).live])

LocalInterference(f) ==
  LET Graph(whole, liveIn) == UNION {LivenessOfBlock(f, whole, LiveOut(f, liveIn, b), b).graph : b \in Blocks(f)}
      With(whole) == Graph(whole, ComputeLiveness(f, whole, [b \in Blocks(f) |-> {}]))
  IN With(WholeDefinitions(f))

---------------------------------------------------------------------------
(* A copy between locals that may share memory makes them one.             *)

IsCopy(f, ins) ==
  IF ins.i # "store" THEN FALSE
  ELSE IF ins.place.p # "local" \/ ~IsLoad(ins.value, {"local"}) THEN FALSE
  ELSE f.locals[ins.place.id] = 1 /\ f.locals[ins.value.place.id] = 1

\* [function, graph]: the graph of the united locals becomes the cached one.
CopyCoalesce(f, graph) ==
  LET Copy(ins) == [target |-> ins.place.id, source |-> ins.value.place.id]
      copies == MapSeq(Copy, SelectSeq(FlattenSeq(MapSeq(LAMBDA b : b.code, f.blocks)), LAMBDA ins : IsCopy(f, ins)))
      Renamed(reps, u) ==
        LET New(id) == CHOOSE n \in DOMAIN reps : reps[n] = u.parent[id]
            To(place) == IF Located(place) THEN [place EXCEPT !.id = New(@)] ELSE place
            merged == {{New(id) : id \in edge} : edge \in u.graph}
        IN [function |-> RemoveNoOps(MovePlaces(To, [f EXCEPT !.locals = MapSeq(LAMBDA r : f.locals[r], reps)])),
            graph |-> {edge \in merged : Cardinality(edge) = 2}]
      Shrunk(u) == Renamed(ById(Range(u.parent)), u)
  IN Shrunk(United(Len(f.locals), graph, copies))

---------------------------------------------------------------------------
(* The function with its locals at their addresses.                        *)

\* The function with its locals in one memory: {it}, or {} if they do not fit.
Placed(f, at) ==
  LET To(place) == CASE place.p = "local" -> Local(1, at[place.id] + place.off)
                     [] place.p = "indexed" -> [place EXCEPT !.id = 1, !.base = @ + at[place.id]]
                     [] OTHER -> place
      size == EndOf(f.locals, at)
  IN IF ~Fitting(f.locals, at) THEN {}
     ELSE {[MovePlaces(To, f) EXCEPT !.locals = IF size = 0 THEN <<>> ELSE <<size>>, !.allocated = TRUE]}

AllocateBasic(f) == Placed(f, Sequential(f.locals))

TryAllocateBasic(f) ==
  LET Either(fast, first) == IF Fitting(f.locals, fast) THEN fast ELSE first
      Sharing(graph) == Either(Placement(f.locals, graph, TRUE), Placement(f.locals, graph, FALSE))
  IN Placed(f, IF Total(f.locals) <= TemporaryMemorySlots THEN Sequential(f.locals) ELSE Sharing(LocalInterference(f)))

Allocate(f, graph) ==
  LET Or(at) == Placed(f, IF Fitting(f.locals, at) THEN at ELSE Placement(f.locals, LocalInterference(f), FALSE))
  IN Or(Placement(f.locals, graph, FALSE))

---------------------------------------------------------------------------
(* The pass manager.                                                       *)

CONSTANTS Programs, Levels, Tapes
ASSUME ProgramsAssumption == \A p \in DOMAIN Programs : Valid(Programs[p])
ASSUME LevelsAssumption == Levels \subseteq {"minimal", "fast", "standard"}

VARIABLES
  program,   \* the number of the function being optimized
  level,
  at,        \* the pass that runs next
  function,  \* the function as the passes so far left it
  analyses,  \* the cached analyses
  outcome    \* "running", "done", "too large" or "invalid"
vars == <<program, level, at, function, analyses, outcome>>

Passes ==
  [minimal |-> <<"FoldConstantControl", "RemoveUnreachable", "CoalesceFlow", "RemoveNoOps", "RemoveUnreachable",
                 "AllocateBasic", "RenumberBlocks">>,
   fast |-> <<"CoalesceFlow", "RemoveUnreachable", "TryAllocateBasic", "CoalesceFlow", "RenumberBlocks">>,
   standard |->
     <<"CoalesceFlow", "RemoveUnreachable", "DeadCodeElimination", "CoalesceSmallConditionalBlocks",
       "ToSSA", "SparseConditionalConstantPropagation", "RemoveUnreachable", "DeadCodeElimination", "CoalesceFlow",
       "NormalizeBlocks", "InlineVars", "DeadCodeElimination", "InlineVars", "CoalesceFlow",
       "SparseConditionalConstantPropagation", "FlattenAssociativeOps", "RemoveRedundantArguments",
       "DeadCodeElimination", "CoalesceFlow",
       "RewriteToSwitch", "InlineVarsAggressive", "UnflattenAssociativeOps", "LoopInvariantCodeMotion",
       "CommonSubexpressionElimination", "NormalizeBlocks",
       "FlattenAssociativeOps", "InlineVars", "DeadCodeElimination", "FlattenAssociativeOps", "RemoveRedundantArguments",
       "FromSSA", "CoalesceFlow", "AdvancedDeadCodeElimination", "CopyCoalesce", "AdvancedDeadCodeElimination",
       "CoalesceFlow", "InlineVars", "AdvancedDeadCodeElimination", "NormalizeSwitch", "CombineExitBlocks",
       "Allocate", "RenumberBlocks">>]

Requires(pass) ==
  CASE pass \in {"ToSSA", "InlineVars", "InlineVarsAggressive", "CommonSubexpressionElimination",
                 "LoopInvariantCodeMotion"} -> {"dominance"}
    [] pass \in {"CopyCoalesce", "Allocate"} -> {"liveness"}
    [] pass = "FromSSA" -> {"ssa"}
    [] OTHER -> {}

\* What a pass preserves less what it destroys; a pass that does not say, nothing.
Keeps(pass) ==
  CASE pass \in {"InlineVars", "InlineVarsAggressive"} -> {"dominance", "ssa"}
    [] pass = "CommonSubexpressionElimination" -> {"dominance"}
    [] pass \in {"CopyCoalesce", "NormalizeSwitch", "CombineExitBlocks"} -> {"liveness"}
    [] OTHER -> {}

Analyse(analysis, f) ==
  CASE analysis = "dominance" -> ComputeDominance(f)
    [] analysis = "liveness" -> LocalInterference(f)
    [] analysis = "ssa" -> TRUE

Ensured(cached, analysis, f) ==
  IF analysis \in DOMAIN cached THEN cached ELSE (analysis :> Analyse(analysis, f)) @@ cached

\* What pass makes of f with these analyses: {[function, cached]}, or {} if
\* the locals do not fit in memory.
RunPass(pass, f, cached) ==
  LET Changed(g) == {[function |-> g, cached |-> cached]}
      Fit(placed) == {[function |-> g, cached |-> cached] : g \in placed}
      Joined(u) == {[function |-> u.function, cached |-> [cached EXCEPT !["liveness"] = u.graph]]}
  IN CASE pass = "FoldConstantControl" -> Changed(FoldConstantControl(f))
       [] pass = "RemoveUnreachable" -> Changed(RemoveUnreachable(f))
       [] pass \in {"RenumberBlocks", "NormalizeBlocks"} -> Changed(NormalizeReachable(f))
       [] pass = "RemoveNoOps" -> Changed(RemoveNoOps(f))
       [] pass = "CoalesceFlow" -> Changed(CoalesceFlow(f))
       [] pass = "CoalesceSmallConditionalBlocks" -> Changed(CoalesceSmallConditionalBlocks(f))
       [] pass = "DeadCodeElimination" -> Changed(DeadCodeElimination(f))
       [] pass = "AdvancedDeadCodeElimination" -> Changed(AdvancedDeadCodeElimination(f))
       [] pass = "ToSSA" -> Changed(ToSSA(f, cached["dominance"]))
       [] pass = "SparseConditionalConstantPropagation" -> Changed(SparseConditionalConstantPropagation(f))
       [] pass = "InlineVars" -> Changed(InlineVars(f, cached["dominance"], FALSE))
       [] pass = "InlineVarsAggressive" -> Changed(InlineVars(f, cached["dominance"], TRUE))
       [] pass = "FlattenAssociativeOps" -> Changed(FlattenAssociativeOps(f))
       [] pass = "UnflattenAssociativeOps" -> Changed(UnflattenAssociativeOps(f))
       [] pass = "RemoveRedundantArguments" -> Changed(RemoveRedundantArguments(f))
       [] pass = "RewriteToSwitch" -> Changed(RewriteToSwitch(f))
       [] pass = "NormalizeSwitch" -> Changed(NormalizeSwitch(f))
       [] pass = "CombineExitBlocks" -> Changed(CombineExitBlocks(f))
       [] pass = "LoopInvariantCodeMotion" -> Changed(LoopInvariantCodeMotion(f, cached["dominance"]))
       [] pass = "CommonSubexpressionElimination" -> Changed(CommonSubexpressionElimination(f, cached["dominance"]))
       [] pass = "FromSSA" -> Changed(FromSSA(f))
       [] pass = "CopyCoalesce" -> Joined(CopyCoalesce(f, cached["liveness"]))
       [] pass = "AllocateBasic" -> Fit(AllocateBasic(f))
       [] pass = "TryAllocateBasic" -> Fit(TryAllocateBasic(f))
       [] pass = "Allocate" -> Fit(Allocate(f, cached["liveness"]))

LastPass == Len(Passes[level])
Accepted(f) == IF at = LastPass THEN ValidFinal(f) ELSE Valid(f)

Init ==
  /\ program \in DOMAIN Programs
  /\ level \in Levels
  /\ at = 1
  /\ function = Programs[program]
  /\ analyses = <<>>
  /\ outcome = "running"

\* The pass has run: there is a result, or the locals did not fit.
Ran(pass, result) ==
  \/ /\ result = {}
     /\ outcome' = "too large"
     /\ UNCHANGED <<at, function, analyses>>
  \/ \E r \in result :
       /\ outcome' = IF ~Accepted(r.function) THEN "invalid" ELSE IF at = LastPass THEN "done" ELSE "running"
       /\ at' = at + 1
       /\ function' = r.function
       /\ analyses' = Restrict(r.cached, DOMAIN r.cached \cap Keeps(pass))

Optimize ==
  /\ outcome = "running"
  /\ LET pass == Passes[level][at]
         ensured == FoldLeft(LAMBDA c, a : Ensured(c, a, function), analyses, SetToSeq(Requires(pass)))
     IN Ran(pass, RunPass(pass, function, ensured))
  /\ UNCHANGED <<program, level>>

Next == Optimize
Spec == Init /\ [][Next]_vars

---------------------------------------------------------------------------
(* Properties. *)

\* What the programs do before anything was optimized.
Expected == [p \in DOMAIN Programs |-> [tape \in Tapes |-> Run(Programs[p], tape)]]

\* Whatever passes ran so far, the function shows the same effects in the
\* same order and returns the same value: every pass of every level.
SameExecution ==
  outcome # "invalid" =>
    \A tape \in Tapes : Does(Expected[program][tape], Run(function, tape))

(* Positions in block b: 0 is the Phis, Len(code) + 1 the terminator.      *)
UsesSSA(f) ==
  {[id |-> u.key[2], block |-> u.block, at |-> u.at] :
     u \in {x \in Range(Occurrences(f)) : x.key[1] = "ssa"}}
  \cup UNION {{[id |-> a.value.id, block |-> a.pred, at |-> Len(f.blocks[a.pred].code) + 1] : a \in Range(phi.args)} :
                phi \in UNION {Range(b.phis) : b \in Range(f.blocks)}}
DefinesSSA(f) ==
  {[id |-> f.blocks[s.block].code[s.at].place.id, block |-> s.block, at |-> s.at] :
     s \in {x \in StoredAt(f) : f.blocks[x.block].code[x.at].place.p = "ssa"}}
  \cup UNION {{[id |-> phi.target.id, block |-> b, at |-> 0] : phi \in Range(f.blocks[b].phis)} : b \in Blocks(f)}

\* In SSA form every value is defined on every way to its uses, which the
\* validator does not look at.
DefinitionsDominateUses ==
  LET dom == ComputeDominance(function)
      defs == DefinesSSA(function)
  IN \A u \in {x \in UsesSSA(function) : x.block \in Range(dom.order)} :
       \E d \in defs :
         /\ d.id = u.id
         /\ IF d.block = u.block THEN d.at < u.at ELSE Dominates(dom, d.block, u.block)

\* No pass makes of a valid function one the validator refuses, or one that
\* uses a value where it may not be defined.
NeverInvalid == outcome # "invalid" /\ DefinitionsDominateUses

(* An execution that keeps a record of who wrote what it reads:            *)
(* w = [s, by, from], by[cell] being the instruction that wrote a cell of a *)
(* local last, from the instructions all reads so far got their value from. *)

LocatedLoads(es) == SelectSeq(FlattenSeq(MapSeq(Walk, es)), LAMBDA e : e.e = "load" /\ Located(e.place))
CellOf(s, place) == CellAt(s, place, IF PlaceExprs(place) = <<>> THEN {0} ELSE Eval(s, place.index).v)
WriterOf(w, place) == {w.by[cell] : cell \in CellOf(w.s, place) \cap DOMAIN w.by}
Noted(w, es) ==
  IF w.s.status # "running" THEN w ELSE [w EXCEPT !.from = @ \o MapSeq(LAMBDA e : WriterOf(w, e.place), LocatedLoads(es))]
NotedStep(w, where, ins) ==
  LET written == IF ins.i = "store" /\ Located(ins.place) THEN CellOf(w.s, ins.place) ELSE {}
  IN [Noted(w, InstrExprs(ins)) EXCEPT !.s = Step(w.s, ins), !.by = [cell \in written |-> where] @@ @]
NotedBlock(f, w) ==
  LET b == w.s.at
      block == f.blocks[b]
      End(v) == [Noted(v, TermExprs(block.term)) EXCEPT !.s = Leave(block.term, v.s)]
  IN IF w.s.status # "running" THEN w
     ELSE End(Iterate(LAMBDA v, i : NotedStep(v, <<b, i>>, block.code[i]), w, [i \in DOMAIN block.code |-> i]))
WritersRead(f, tape) ==
  Iterate(LAMBDA w, n : NotedBlock(f, w), [s |-> Begin(f, tape), by |-> <<>>, from |-> <<>>], [n \in 1..Fuel |-> n]).from

\* However locals come to share memory, every read gets its value from the
\* store it got it from before: no store to another local comes between,
\* not even one of the same value, or one whose effect does not show.
StoresReachTheirReads ==
  [][outcome = "running" /\ Passes[level][at] \in {"AllocateBasic", "TryAllocateBasic", "Allocate"} /\ outcome' # "too large" =>
       \A tape \in Tapes :
         LET before == WritersRead(function, tape)
             after == WritersRead(function', tape)
         IN \A i \in DOMAIN before : before[i] # {} => i \in DOMAIN after /\ after[i] = before[i]]_vars

(* Points of the code: the terminator is at Len(code) + 1.                 *)
PointsAfter(f, p) ==
  IF p[2] <= Len(f.blocks[p[1]].code) THEN {<<p[1], p[2] + 1>>} ELSE {<<b, 1>> : b \in Successors(f, p[1])}
AtPoint(f, p, Of(_), Otherwise) ==
  IF p[2] <= Len(f.blocks[p[1]].code) THEN Of(f.blocks[p[1]].code[p[2]]) ELSE Otherwise
StoresThere(f, p, key) ==
  AtPoint(f, p, LAMBDA ins : ins.i = "store" /\ IsTemporary(ins.place) /\ PlaceKey(ins.place) = key, FALSE)
ReadsThere(f, p, key) ==
  key \in AtPoint(f, p, LAMBDA ins : AllReads(InstrExprs(ins)), AllReads(TermExprs(f.blocks[p[1]].term)))

\* Where control gets to from some points before key is stored again.
RECURSIVE ReachedUnstored(_, _, _)
ReachedUnstored(f, key, points) ==
  LET more == points \cup UNION {PointsAfter(f, p) : p \in {q \in points : ~StoresThere(f, q, key)}}
  IN IF more = points THEN points ELSE ReachedUnstored(f, key, more)

DeadStore(f, s, indexed) ==
  LET ins == f.blocks[s.block].code[s.at]
      key == PlaceKey(ins.place)
  IN /\ IsTemporary(ins.place) /\ ~AddressTaken(indexed, ins.place) /\ ~HasEffects(ins.value)
     /\ \A p \in ReachedUnstored(f, key, PointsAfter(f, <<s.block, s.at>>)) : ~ReadsThere(f, p, key)

\* One invocation removes all dead stores, however long the chains and
\* whatever blocks they cross: of every store that is left some path leads
\* to a read.
DeadStoresGone ==
  [][outcome = "running" /\ Passes[level][at] = "AdvancedDeadCodeElimination" =>
       \A s \in StoredAt(function') : ~DeadStore(function', s, IndexedLocalIDs(function))]_vars
=============================================================================
