------------------------------ MODULE Simplify ------------------------------
(***************************************************************************)
(* The passes that reshape control flow and algebra                        *)
(* (internal/compiler/optimize/coalesce.go, simplify.go).                  *)
(***************************************************************************)
EXTENDS Dataflow

Code0(b) == b.code = <<>> /\ b.phis = <<>>
EachBlock(f) == ById(Blocks(f))

---------------------------------------------------------------------------
(* Coalescing the flow: a branch on a condition an edge has decided, empty *)
(* blocks on the way, and chains of blocks.                                *)

\* Not(condition), on an edge that decided it.
Decided(key, taken, e) ==
  IF IsCall(e, "Not") /\ Len(e.args) = 1 /\ ExprKey(e.args[1]) = key THEN Const(IF taken THEN 0 ELSE 1) ELSE e

PureStore(ins) == ins.i = "store" /\ \A e \in Range(StoreExprs(ins)) : ~HasEffects(e)

(* The edge of branch t to a target: the first store there learns what was *)
(* decided, an empty target that asks again is passed by.                  *)
ThreadedTarget(f, t, target, taken) ==
  LET next == f.blocks[target]
      selected == IF taken THEN next.term.yes ELSE next.term.no
      again == /\ Code0(next) /\ next.term.t = "branch"
               /\ ~HasEffects(next.term.cond) /\ ExprKey(next.term.cond) = ExprKey(t.cond)
  IN IF again THEN IF f.blocks[selected].phis = <<>> THEN selected ELSE target ELSE target

Informed(f, preds, t, target, taken) ==
  LET next == f.blocks[target]
      may == /\ t.yes # t.no /\ target # f.entry /\ preds[target] = 1 /\ next.phis = <<>>
             /\ next.code # <<>> /\ ~IsConst(t.cond)
      Told(e) == Decided(ExprKey(t.cond), taken, e)
      store == next.code[1]
  IN IF ~may THEN f
     ELSE IF ~PureStore(store) THEN f
     ELSE [f EXCEPT !.blocks[target].code[1].value = RewriteExpr(Told, @)]

ThreadSide(f, preds, b, taken) ==
  LET t == f.blocks[b].term
      target == IF taken THEN t.yes ELSE t.no
      To(x) == IF taken THEN [t EXCEPT !.yes = x] ELSE [t EXCEPT !.no = x]
      Threaded(g) == [g EXCEPT !.blocks[b].term = To(ThreadedTarget(g, t, target, taken))]
  IN Threaded(Informed(f, preds, t, target, taken))

ThreadBlock(f, preds, b) ==
  IF f.blocks[b].term.t # "branch" THEN f
  ELSE IF HasEffects(f.blocks[b].term.cond) THEN f
  ELSE LET Other(g) == ThreadSide(g, preds, b, FALSE) IN Other(ThreadSide(f, preds, b, TRUE))

PredecessorCounts(f) == [b \in Blocks(f) |-> Cardinality(Preds(f, b))]

ThreadRepeatedConditions(f) ==
  LET preds == PredecessorCounts(f)
  IN FoldLeft(LAMBDA g, b : ThreadBlock(g, preds, b), f, EachBlock(f))

\* Where an empty block leads, and whether b is on a cycle of empty blocks.
Forwarding(f) ==
  [b \in Blocks(f) |->
     LET block == f.blocks[b]
     IN IF /\ b # f.entry /\ Code0(block) /\ block.term.t = "jump"
           /\ block.term.t = "jump" => block.term.to # b /\ f.blocks[block.term.to].phis = <<>>
        THEN block.term.to ELSE b]

RECURSIVE Follow(_, _, _)
Follow(forward, b, n) == IF n = 0 THEN b ELSE Follow(forward, forward[b], n - 1)

OnCycle(forward, b) == forward[b] # b /\ \E n \in 1..Cardinality(DOMAIN forward) : Follow(forward, b, n) = b

\* The end of every chain; a cycle of empty blocks stays, entered where it was.
CompressForwarding(forward) ==
  LET Stops(x) == forward[x] = x \/ OnCycle(forward, x)
      Steps(b) == CHOOSE n \in 0..Cardinality(DOMAIN forward) :
                    /\ Stops(Follow(forward, b, n))
                    /\ \A m \in 0..n - 1 : ~Stops(Follow(forward, b, m))
  IN [b \in DOMAIN forward |-> Follow(forward, b, Steps(b))]

\* A block takes in the only one it leads to, if nothing else leads there.
Absorbs(g, preds, b) ==
  LET t == g.f.blocks[b].term
  IN IF t.t # "jump" THEN FALSE ELSE t.to \notin {b, g.f.entry} /\ preds[t.to] = 1

RECURSIVE Absorb(_, _, _)
Absorb(g, preds, b) ==
  LET f == g.f
      to == f.blocks[b].term.to
      target == f.blocks[to]
      From(phi) == SelectSeq(phi.args, LAMBDA a : a.pred = b)
      Assigned(phi) == MapSeq(LAMBDA a : Store(phi.target, Load(a.value)), From(phi))
      merged == [f EXCEPT !.blocks[b].code = @ \o FlattenSeq(MapSeq(Assigned, target.phis)) \o target.code,
                          !.blocks[b].term = target.term]
      Moved(a) == [a EXCEPT !.pred = IF @ = to THEN b ELSE @]
      joined == [merged EXCEPT !.blocks = Eager([x \in Blocks(f) |->
                   IF x \notin Range(Targets(target.term)) THEN @[x]
                   ELSE [@[x] EXCEPT !.phis = MapSeq(LAMBDA phi : [phi EXCEPT !.args = MapSeq(Moved, @)], @)]])]
  IN IF b \in g.removed \/ ~Absorbs(g, preds, b) THEN g
     ELSE Absorb([f |-> joined, removed |-> g.removed \cup {to}], preds, b)

MergeChains(f) ==
  LET preds == PredecessorCounts(f)
  IN FoldLeft(LAMBDA g, b : Absorb(g, preds, b), [f |-> f, removed |-> {}], EachBlock(f)).f

Retarget(f, to) == [f EXCEPT !.blocks = MapSeq(LAMBDA b : [b EXCEPT !.term = Retargeted(@, to)], @)]

RECURSIVE CoalesceFlow(_)
CoalesceFlow(f) ==
  LET Or(g, Otherwise) == IF g # f THEN CoalesceFlow(NormalizeReachable(g)) ELSE Otherwise
      Forwarded(to) == IF \E b \in Blocks(f) : to[b] # b THEN CoalesceFlow(NormalizeReachable(Retarget(f, to)))
                       ELSE Or(MergeChains(f), f)
  IN Or(ThreadRepeatedConditions(f), Forwarded(CompressForwarding(Forwarding(f))))

---------------------------------------------------------------------------
(* Small blocks are copied into those that jump to them.                   *)

RECURSIVE Extend(_, _, _)
Extend(f, b, seen) ==
  LET t == f.blocks[b].term
      target == f.blocks[t.to]
  IN IF t.t # "jump" THEN f
     ELSE IF t.to \in seen \/ target.phis # <<>> \/ Len(target.code) > 1 THEN f
     ELSE Extend([f EXCEPT !.blocks[b].code = @ \o target.code, !.blocks[b].term = target.term],
                 b, seen \cup {t.to})

CoalesceSmallConditionalBlocks(f) ==
  LET Simple(b) == \A c \in 1..b : f.blocks[c].phis = <<>>
      extended == FoldLeft(LAMBDA g, b : Extend(g, b, {b}), f, SelectSeq(EachBlock(f), Simple))
  IN IF Simple(Len(f.blocks)) THEN RemoveUnreachable(extended) ELSE extended

---------------------------------------------------------------------------
(* Algebra. *)

Flattenable(fn) == fn \in {"Add", "Multiply", "Mod", "Rem"}

FlattenExpr(e) ==
  IF e.e # "call" THEN e
  ELSE IF ~Flattenable(e.fn) \/ e.args = <<>> THEN e
  ELSE IF IsCall(e.args[1], e.fn) /\ Pure(e) THEN [e EXCEPT !.args = e.args[1].args \o Tail(@)] ELSE e
FlattenAssociativeOps(f) == RewriteFunction(FlattenExpr, f)

UnflattenExpr(e) ==
  IF e.e # "call" THEN e
  ELSE IF ~Flattenable(e.fn) \/ Len(e.args) <= 2 THEN e
  ELSE FoldLeft(LAMBDA left, a : Call(e.fn, <<left, a>>), Call(e.fn, SubSeq(e.args, 1, 2)),
                SubSeq(e.args, 3, Len(e.args)))
UnflattenAssociativeOps(f) == RewriteFunction(UnflattenExpr, f)

\* Arguments that change nothing go, of a difference or quotient not the first.
Identity(fn) == IF fn \in {"Multiply", "Divide"} THEN Const(1) ELSE Const(0)
SimplifyAlgebra(e) ==
  LET Others(args) == SelectSeq(args, LAMBDA a : a # Identity(e.fn))
      args == IF e.fn \in {"Add", "Multiply"} THEN Others(e.args) ELSE <<Head(e.args)>> \o Others(Tail(e.args))
  IN IF e.e # "call" THEN e
     ELSE IF e.fn \notin {"Add", "Multiply", "Subtract", "Divide"} THEN e
     ELSE IF Len(args) = 1 THEN args[1]
     ELSE IF e.fn = "Subtract" /\ Len(args) = 2 /\ args[1] = Const(0) THEN Call("Negate", <<args[2]>>)
     ELSE [e EXCEPT !.args = args]
RemoveRedundantArguments(f) == RewriteFunction(SimplifyAlgebra, f)

---------------------------------------------------------------------------
(* Switches.  A chain of branches that compare one value with constants    *)
(* becomes a switch; edges into a block with Phis get a block of their own *)
(* first, as the Phis tell their inputs apart by predecessor.              *)

IsEqualityCase(e) ==
  IF e.e # "call" THEN FALSE
  ELSE e.fn = "Equal" /\ ~HasEffects(e) /\ Len(e.args) = 2 /\ \E a \in Range(e.args) : IsConst(a)
Discriminant(e) == IF IsConst(e.args[1]) THEN e.args[2] ELSE e.args[1]
Compared(e) == IF IsConst(e.args[1]) THEN e.args[1].v ELSE e.args[2].v

\* The chain from block b: c = [cases, sources, fallback, source, visited].
RECURSIVE Chain(_, _, _, _)
Chain(f, preds, key, c) ==
  LET b == c.fallback
      t == f.blocks[b].term
      continues == /\ b \notin c.visited /\ b # f.entry /\ preds[b] = 1 /\ Code0(f.blocks[b])
                   /\ t.t = "branch"
      same == IF IsEqualityCase(t.cond) THEN ExprKey(Discriminant(t.cond)) = key ELSE FALSE
      v == Compared(t.cond)
      new == ~Sets(c.cases, v)
  IN IF ~continues THEN c
     ELSE IF ~same THEN c
     ELSE Chain(f, preds, key,
            [cases |-> IF new THEN Append(c.cases, Case(v, t.yes)) ELSE c.cases,
             sources |-> IF new THEN Append(c.sources, b) ELSE c.sources,
             fallback |-> t.no, source |-> b, visited |-> c.visited \cup {b}])

\* mutant: Phis are left as they are.
RouteUnsplit(f, from, to) == [f |-> f, to |-> to]

\* r = [f, to]: the target of the edge from -> to, split if Phis wait there.
Route(f, from, to) ==
  IF f.blocks[to].phis = <<>> THEN [f |-> f, to |-> to]
  ELSE IF to \in Successors(f, from) THEN [f |-> SplitEdge(f, from, to), to |-> Len(f.blocks) + 1]
  ELSE LET split == {x \in Successors(f, from) : f.blocks[x] = Block(<<>>, <<>>, Jump(to))}
       IN [f |-> f, to |-> CHOOSE x \in split : \A y \in split : y <= x]

\* The switch of chain c in block b, its edges routed one after the other.
SwitchOf(f, b, value, c) ==
  LET Added(cases, i, x) == [f |-> x.f, cases |-> Append(cases, Case(c.cases[i].v, x.to))]
      Routed(r, i) == Added(r.cases, i, Route(r.f, c.sources[i], c.cases[i].to))
      Closed(cases, last) == [last.f EXCEPT !.blocks[b].term = Switch(value, cases, last.to)]
      Made(r) == Closed(r.cases, Route(r.f, c.source, c.fallback))
  IN IF Len(c.cases) <= 1 THEN f
     ELSE Made(FoldLeft(Routed, [f |-> f, cases |-> <<>>], [i \in DOMAIN c.cases |-> i]))

SwitchOfChain(f, preds, b) ==
  LET t == f.blocks[b].term
  IN IF t.t # "branch" THEN f
     ELSE IF ~IsEqualityCase(t.cond) THEN f
     ELSE SwitchOf(f, b, Discriminant(t.cond),
                   Chain(f, preds, ExprKey(Discriminant(t.cond)),
                         [cases |-> <<Case(Compared(t.cond), t.yes)>>, sources |-> <<b>>, fallback |-> t.no,
                          source |-> b, visited |-> {b}]))

RewriteToSwitch(f) ==
  LET preds == PredecessorCounts(f)
      grown(g) == [b \in Blocks(g) |-> IF b \in Blocks(f) THEN preds[b] ELSE 0]
  IN NormalizeReachable(FoldLeft(LAMBDA g, b : SwitchOfChain(g, grown(g), b), f, EachBlock(f)))

(* Cases once each; those at equal distances are numbered from 0 and the   *)
(* value is scaled to match.                                               *)
NormalizeCases(t) ==
  LET First(i) == \A j \in 1..i - 1 : t.cases[j].v # t.cases[i].v
      once == MapSeq(LAMBDA i : t.cases[i], SelectSeq([i \in DOMAIN t.cases |-> i], First))
      sorted == InOrder(LAMBDA a, b : a.v < b.v, Range(once))
      offset == sorted[1].v
      stride == sorted[2].v - offset
      even == \A i \in DOMAIN sorted : sorted[i].v = offset + (i - 1) * stride
      moved == IF offset = 0 THEN t.value ELSE Call("Subtract", <<t.value, Const(offset)>>)
      scaled == IF stride = 1 THEN moved ELSE Call("Divide", <<moved, Const(stride)>>)
  IN IF Len(once) < 2 THEN [t EXCEPT !.cases = once]
     ELSE IF even /\ ~(offset = 0 /\ stride = 1)
     THEN Switch(scaled, [i \in DOMAIN sorted |-> Case(i - 1, sorted[i].to)], t.default)
     ELSE [t EXCEPT !.cases = once]

NormalizeSwitch(f) ==
  [f EXCEPT !.blocks = MapSeq(LAMBDA b :
     [b EXCEPT !.term = IF @.t = "switch" THEN NormalizeCases(@) ELSE @], @)]

\* One exit that does nothing for all of them.
CombineExitBlocks(f) ==
  LET exits == {b \in Blocks(f) : f.blocks[b] = Block(<<>>, <<>>, Return(<<>>))}
      first == CHOOSE b \in exits : \A c \in exits : b <= c
      to == [b \in Blocks(f) |-> IF b \in exits THEN first ELSE b]
  IN CoalesceFlow(NormalizeReachable(IF exits = {} THEN f ELSE Retarget(f, to)))

---------------------------------------------------------------------------
(* Loop-invariant code motion: what a loop computes anew in every turn     *)
(* from values it does not define is computed once in a block before it.   *)


Invariant(e, defs) ==
  /\ Movable(e)
  /\ \A x \in Range(Walk(e)) : IsLoad(x, {"ssa"}) => x.place.id \notin defs

\* acc = [code, next, hoisted]: the code before the loop, the next value,
\* and the value that holds the expression of a key.
Hoisted(acc, e) ==
  LET key == ExprKey(e)
  IN IF key \in DOMAIN acc.hoisted THEN acc
     ELSE [next |-> acc.next + 1, code |-> Append(acc.code, Store(SSA(acc.next), e)),
           hoisted |-> (key :> acc.next) @@ acc.hoisted]

RECURSIVE HoistExpr(_, _, _)
RECURSIVE HoistUpwards(_, _, _)

HoistUpwards(acc, defs, e) ==
  LET Joined(parts) == HoistExpr(parts.acc, defs, WithParts(e, parts.es))
  IN Joined(CSEParts(LAMBDA a, x : HoistUpwards(a, defs, x), acc, Parts(e)))

\* The largest invariant expressions first, in an index the smallest.
HoistExpr(acc, defs, e) ==
  LET Read(after) == [acc |-> after, e |-> Load(SSA(after.hoisted[ExprKey(e)]))]
      Joined(parts) == [acc |-> parts.acc, e |-> WithParts(e, parts.es)]
  IN IF Invariant(e, defs) /\ ExpressionCost(e) >= 4 THEN Read(Hoisted(acc, e))
     ELSE Joined(CSEParts(LAMBDA a, x : IF e.e = "load" THEN HoistUpwards(a, defs, x) ELSE HoistExpr(a, defs, x),
                          acc, Parts(e)))

\* r = [acc, done]: the instructions rewritten so far.
HoistInstr(r, defs, ins) ==
  LET Done(es, value) ==
        LET at == IF es = <<>> THEN ins ELSE [ins EXCEPT !.place.index = es[1]]
        IN [acc |-> value.acc, done |-> Append(r.done, [at EXCEPT !.value = value.e])]
      Into(index) == Done(index.es, HoistExpr(index.acc, defs, ins.value))
  IN Into(CSEParts(LAMBDA a, x : HoistUpwards(a, defs, x), r.acc,
                   IF ins.i = "store" THEN PlaceExprs(ins.place) ELSE <<>>))

HoistBlock(g, defs, b) ==
  LET block == g.f.blocks[b]
      Done(code, term) ==
        [acc |-> term.acc,
         f |-> [g.f EXCEPT !.blocks[b].code = code, !.blocks[b].term = WithTermExprs(@, term.es)]]
      Then(r) == Done(r.done, CSEParts(LAMBDA a, x : HoistExpr(a, defs, x), r.acc, TermExprs(block.term)))
  IN Then(FoldLeft(LAMBDA r, ins : HoistInstr(r, defs, ins), [acc |-> g.acc, done |-> <<>>], block.code))

(* The block before the loop: the only one outside that leads to it, or a  *)
(* new one all edges from outside go through.  The inputs from outside of  *)
(* a Phi of the header join in the new block.                              *)
NeedsPreheader(f, header, outside) ==
  \/ Cardinality(outside) # 1
  \/ \E p \in outside : f.blocks[p].term # Jump(header) \/ f.blocks[p].phis # <<>>

AddPreheader(f, header, outside) ==
  LET new == Len(f.blocks) + 1
      To(x) == IF x = header THEN new ELSE x
      phis == f.blocks[header].phis
      FromOutside(phi) == SelectSeq(phi.args, LAMBDA a : a.pred \in outside)
      joins == SelectSeq([i \in DOMAIN phis |-> i], LAMBDA i : Len(FromOutside(phis[i])) > 1)
      Joined(i) == NextSSA(f) + (CHOOSE n \in DOMAIN joins : joins[n] = i) - 1
      Input(i) == IF Len(FromOutside(phis[i])) > 1 THEN SSA(Joined(i)) ELSE FromOutside(phis[i])[1].value
      InLoop(phi) == SelectSeq(phi.args, LAMBDA a : a.pred \notin outside)
      Header(i) == IF FromOutside(phis[i]) = <<>> THEN phis[i]
                   ELSE [phis[i] EXCEPT !.args = Append(InLoop(phis[i]), PhiArg(new, Input(i)))]
      moved == Eager([b \in Blocks(f) |-> IF b \in outside
                  THEN [f.blocks[b] EXCEPT !.term = Retargeted(@, [x \in Blocks(f) |-> To(x)])] ELSE f.blocks[b]])
  IN [f EXCEPT !.blocks = Append([moved EXCEPT ![header].phis = Eager([i \in DOMAIN phis |-> Header(i)])],
        Block(MapSeq(LAMBDA i : Phi(SSA(Joined(i)), phis[i].local, FromOutside(phis[i])), joins),
              <<>>, Jump(header)))]

DefinedInLoop(f, loop) ==
  UNION {{phi.target.id : phi \in Range(f.blocks[b].phis)} : b \in loop}
  \cup {ins.place.id : ins \in {i \in UNION {Range(f.blocks[b].code) : b \in loop} : i.i = "store" /\ i.place.p = "ssa"}}

\* From these blocks of the loop into block pre before it.
HoistBlocks(f, defs, blocks, pre) ==
  LET Done(g) == [g.f EXCEPT !.blocks[pre].code = @ \o g.acc.code]
  IN Done(FoldLeft(LAMBDA g, b : HoistBlock(g, defs, b),
                   [f |-> f, acc |-> [code |-> <<>>, next |-> NextSSA(f), hoisted |-> <<>>]], ById(blocks)))

HoistFromLoop(f, dom, original, header) ==
  LET Always(loop) ==
        {b \in loop : \A latch \in Latches(original, dom, header) : Dominates(dom, b, latch)}
      Entered(loop, g, pre) == HoistBlocks(g, DefinedInLoop(g, loop), Always(loop), pre)
      Outside(loop, outside) ==
        IF outside = {} THEN f
        ELSE IF NeedsPreheader(f, header, outside)
        THEN Entered(loop, AddPreheader(f, header, outside), Len(f.blocks) + 1)
        ELSE Entered(loop, f, CHOOSE p \in outside : TRUE)
      Of(loop) == Outside(loop, Preds(original, header) \ loop)
  IN Of(Loop(original, dom, header))

LoopInvariantCodeMotion(f, dom) ==
  FoldLeft(LAMBDA g, header : HoistFromLoop(g, dom, f, header), f, ById(Headers(f, dom)))
=============================================================================
