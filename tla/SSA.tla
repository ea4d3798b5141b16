--------------------------------- MODULE SSA ---------------------------------
(***************************************************************************)
(* Into static single assignment form and out of it                        *)
(* (internal/compiler/optimize/dominance.go, ssa.go).                      *)
(*                                                                         *)
(* Dominance is computed as the code does, by the iteration of Cooper,     *)
(* Harvey and Kennedy over immediate dominators; 0 is no dominator.        *)
(***************************************************************************)
EXTENDS IR, Locals

PredsInOrder(f, b) == ById(Preds(f, b))

\* The nearest common ancestor of a and b in the tree idom.
RECURSIVE Intersect(_, _, _, _)
Intersect(idom, number, a, b) ==
  IF a = b THEN a
  ELSE IF number[a] > number[b] THEN Intersect(idom, number, idom[a], b)
  ELSE Intersect(idom, number, a, idom[b])

RECURSIVE ImmediateDominators(_, _, _, _)
ImmediateDominators(f, order, number, idom) ==
  LET Meet(d, next, p) ==
        IF d[p] = 0 THEN next ELSE IF next = 0 THEN p ELSE Intersect(d, number, p, next)
      Update(d, b) == [d EXCEPT ![b] = FoldLeft(LAMBDA next, p : Meet(d, next, p), 0, PredsInOrder(f, b))]
      Swept(d) == IF d = idom THEN idom ELSE ImmediateDominators(f, order, number, d)
  IN Swept(FoldLeft(Update, idom, Tail(order)))

\* From a predecessor of b up to the immediate dominator of b.
RECURSIVE Climb(_, _, _)
Climb(idom, runner, b) ==
  IF runner = idom[b] \/ runner = 0 THEN {} ELSE {runner} \cup Climb(idom, idom[runner], b)

DominatorTree(f, order, idom) ==
  LET Joins == {b \in Range(order) : Cardinality(Preds(f, b)) >= 2}
  IN [order |-> order,
      idom |-> idom,
      children |-> [b \in Blocks(f) |-> SelectSeq(order, LAMBDA c : idom[c] = b /\ c # b)],
      frontier |-> [b \in Blocks(f) |-> {j \in Joins : b \in UNION {Climb(idom, p, j) : p \in Preds(f, j)}}]]

ComputeDominance(f) ==
  LET Number(order) == [b \in Range(order) |-> CHOOSE i \in DOMAIN order : order[i] = b]
      Self == [b \in Blocks(f) |-> IF b = f.entry THEN b ELSE 0]
      Tree(order) == DominatorTree(f, order, ImmediateDominators(f, order, Number(order), Self))
  IN Tree(ReversePostorder(f))

RECURSIVE Dominates(_, _, _)
Dominates(dom, a, b) ==
  \/ a = b
  \/ dom.idom[b] \notin {0, b} /\ Dominates(dom, a, dom.idom[b])

---------------------------------------------------------------------------
(* Into the form: the scalars that no instruction addresses by an index.   *)

Key(place) == <<place.id, place.off>>
KeysInOrder(S) == InOrder(LAMBDA j, k : j[1] < k[1] \/ (j[1] = k[1] /\ j[2] < k[2]), S)

InstrPlaces(ins) ==
  (IF ins.i = "store" THEN {ins.place} ELSE {}) \cup UNION {Reads(e) : e \in Range(InstrExprs(ins))}

EligibleScalars(f) ==
  LET code == UNION {Range(b.code) : b \in Range(f.blocks)}
  IN DOMAIN f.locals \ {place.id : place \in {q \in UNION {InstrPlaces(ins) : ins \in code} : q.p = "indexed"}}

\* A store of an eligible scalar.
Defines(ins, eligible) == ins.i = "store" /\ ins.place.p = "local" /\ ins.place.id \in eligible

\* The blocks in which each scalar is stored.
DefinedIn(f, eligible) ==
  LET Keys(b) == {Key(ins.place) : ins \in {i \in Range(f.blocks[b].code) : Defines(i, eligible)}}
  IN [k \in UNION {Keys(b) : b \in Blocks(f)} |-> {b \in Blocks(f) : k \in Keys(b)}]

RECURSIVE IteratedFrontier(_, _)
IteratedFrontier(dom, S) ==
  LET more == S \cup UNION {dom.frontier[b] : b \in S}
  IN IF more = S THEN UNION {dom.frontier[b] : b \in S} ELSE IteratedFrontier(dom, more)

PlacePhis(f, dom, defs) ==
  LET At(b) == KeysInOrder({k \in DOMAIN defs : b \in IteratedFrontier(dom, defs[k])})
      New(k) == Phi(SSA(0), Local(k[1], k[2]), <<>>)
  IN [f EXCEPT !.blocks = Eager([b \in Blocks(f) |-> [@[b] EXCEPT !.phis = @ \o MapSeq(New, At(b))]])]

(* Renaming, down the dominator tree.  top[k] is the value scalar k has    *)
(* (undefined if no definition dominates); acc = [blocks, next, eligible,  *)
(* top], and a block hands its children the top it ends with.              *)

Fresh(acc) == [acc EXCEPT !.next = @ + 1]
Defined(acc, k) == [Fresh(acc) EXCEPT !.top = (k :> acc.next) @@ @]

RenameUse(acc, e) ==
  IF IsLoad(e, {"local"}) /\ e.place.id \in acc.eligible /\ Key(e.place) \in DOMAIN acc.top
  THEN Load(SSA(acc.top[Key(e.place)])) ELSE e

RenamePhi(acc, b, i) ==
  LET k == Key(acc.blocks[b].phis[i].local)
  IN [Defined(acc, k) EXCEPT !.blocks[b].phis[i].target = SSA(acc.next)]

RenameInstr(acc, b, i) ==
  LET Renamed(ins) ==
        IF Defines(ins, acc.eligible)
        THEN [Defined(acc, Key(ins.place)) EXCEPT !.blocks[b].code[i] = Store(SSA(acc.next), ins.value)]
        ELSE [acc EXCEPT !.blocks[b].code[i] = ins]
  IN Renamed(RewriteInstr(LAMBDA e : RenameUse(acc, e), acc.blocks[b].code[i]))

\* The input of a Phi along the edge b -> to: the value the scalar has, or a
\* value read from the local where nothing dominates the edge.
FillPhi(acc, b, to, i) ==
  LET local == acc.blocks[to].phis[i].local
      known == Key(local) \in DOMAIN acc.top
      value == SSA(IF known THEN acc.top[Key(local)] ELSE acc.next)
      filled == [acc EXCEPT !.blocks[to].phis[i].args = Append(@, PhiArg(b, value))]
  IN IF known THEN filled ELSE [Fresh(filled) EXCEPT !.blocks[b].code = Append(@, Store(value, Load(local)))]

FillPhis(acc, b, to) ==
  FoldLeft(LAMBDA a, i : FillPhi(a, b, to, i), acc, [i \in DOMAIN acc.blocks[to].phis |-> i])

RenameBlock(acc, b) ==
  LET Phis(a) == FoldLeft(LAMBDA x, i : RenamePhi(x, b, i), a, [i \in DOMAIN acc.blocks[b].phis |-> i])
      Code(a) == FoldLeft(LAMBDA x, i : RenameInstr(x, b, i), a, [i \in DOMAIN acc.blocks[b].code |-> i])
      Term(a) == [a EXCEPT !.blocks[b].term = RewriteTerm(LAMBDA e : RenameUse(a, e), @)]
      Edges(a) == FoldLeft(LAMBDA x, to : FillPhis(x, b, to), a, Targets(acc.blocks[b].term))
  IN Edges(Term(Code(Phis(acc))))

RECURSIVE Rename(_, _, _)
Rename(acc, dom, b) ==
  LET Child(top, a, c) == [Rename([a EXCEPT !.top = top], dom, c) EXCEPT !.top = a.top]
      Below(a) == FoldLeft(LAMBDA x, c : Child(a.top, x, c), a, dom.children[b])
  IN Below(RenameBlock(acc, b))

SortPhis(b) == [b EXCEPT !.phis = MapSeq(LAMBDA phi : [phi EXCEPT !.args = ByPred(@)], @)]

ToSSA(f, dom) ==
  LET eligible == EligibleScalars(f)
      placed == PlacePhis(f, dom, DefinedIn(f, eligible))
      renamed == Rename([blocks |-> placed.blocks, next |-> 1, eligible |-> eligible, top |-> <<>>], dom, f.entry)
  IN [f EXCEPT !.blocks = MapSeq(SortPhis, renamed.blocks)]

---------------------------------------------------------------------------
(* Out of the form: every value gets a local of its own, and a Phi becomes *)
(* copies at the end of its predecessors.                                  *)

\* A new block on the edge from -> to.
SplitEdge(f, from, to) ==
  LET new == Len(f.blocks) + 1
      Only(x) == IF x = to THEN new ELSE x
      moved(a) == [a EXCEPT !.pred = IF @ = from THEN new ELSE @]
  IN [f EXCEPT
        !.blocks = Append([@ EXCEPT
          ![from].term = Retargeted(@, [x \in Blocks(f) |-> Only(x)]),
          ![to].phis = MapSeq(LAMBDA phi : [phi EXCEPT !.args = MapSeq(moved, @)], @)],
          Block(<<>>, <<>>, Jump(to)))]

SplitPhiCriticalEdges(f) ==
  LET Preceding(b) == Distinct(MapSeq(LAMBDA a : a.pred, FlattenSeq(MapSeq(LAMBDA phi : phi.args, f.blocks[b].phis))))
      Split(g, a, b) == IF Len(Targets(g.blocks[a].term)) > 1 THEN SplitEdge(g, a, b) ELSE g
      SplitInto(g, b) == FoldLeft(LAMBDA h, a : Split(h, a, b), g, Preceding(b))
  IN FoldLeft(SplitInto, f, ById(Blocks(f)))

\* The values of f in the order they get their locals.
SSAIds(f) ==
  LET OfPhi(phi) == <<phi.target.id>> \o MapSeq(LAMBDA a : a.value.id, phi.args)
      Stored(code) == SelectSeq(code, LAMBDA ins : ins.i = "store" /\ ins.place.p = "ssa")
      OfBlock(b) == FlattenSeq(MapSeq(OfPhi, b.phis)) \o MapSeq(LAMBDA ins : ins.place.id, Stored(b.code))
      read == {e.place.id : e \in {x \in FunctionExprs(f) : IsLoad(x, {"ssa"})}}
  IN Distinct(FlattenSeq(MapSeq(OfBlock, f.blocks)) \o ById(read))

\* The values that are stored as a constant: those the locals in consts.
ConstantStores(f) ==
  {ins \in UNION {Range(b.code) : b \in Range(f.blocks)} :
     ins.i = "store" /\ ins.place.p = "ssa" /\ IsConst(ins.value)}

\* mutant: the moves of an edge one after the other.
MoveInTurn(g, pred, moves, constants) ==
  LET Value(s) == IF s \in DOMAIN constants THEN Const(constants[s]) ELSE Load(Local(s, 0))
      Move(m) == Store(Local(m.target, 0), Value(m.source))
  IN [g EXCEPT !.blocks[pred].code = @ \o MapSeq(Move, moves)]

\* The moves on one edge, at the end of its block; a constant is written itself.
Sequentialize(g, pred, moves, constants) ==
  LET saved == Snapshots(Len(g.locals), moves)
      Value(s) == IF s \in DOMAIN constants THEN Const(constants[s]) ELSE Load(Local(s, 0))
      Save(m) == Store(Local(m.target, 0), Load(Local(m.source, 0)))
      Move(m) == Store(Local(m.target, 0), Value(m.source))
  IN [g EXCEPT !.locals = @ \o MapSeq(LAMBDA m : 1, saved),
               !.blocks[pred].code = @ \o MapSeq(Save, saved) \o MapSeq(Move, Redirected(saved, moves))]

\* Value ids[i] gets the i-th local after those there are.
Localize(f, ids) ==
  LET At(id) == Len(f.locals) + (CHOOSE i \in DOMAIN ids : ids[i] = id)
      constants == [l \in {At(ins.place.id) : ins \in ConstantStores(f)} |->
                      (CHOOSE ins \in ConstantStores(f) : At(ins.place.id) = l).value.v]
      OnEdge(phi, a) == MapSeq(LAMBDA x : [target |-> At(phi.target.id), source |-> At(x.value.id)],
                               SelectSeq(phi.args, LAMBDA x : x.pred = a /\ x.value.id # phi.target.id))
      Moved(g, a, moves) == IF moves = <<>> THEN g ELSE Sequentialize(g, a, moves, constants)
      Joined(g, b, a) == Moved(g, a, FlattenSeq(MapSeq(LAMBDA phi : OnEdge(phi, a), f.blocks[b].phis)))
      Copied(g, b) == [FoldLeft(LAMBDA h, a : Joined(h, b, a), g, PredsInOrder(f, b)) EXCEPT !.blocks[b].phis = <<>>]
      Place(place) == IF place.p = "ssa" THEN Local(At(place.id), 0) ELSE place
  IN MovePlaces(Place, FoldLeft(Copied, [f EXCEPT !.locals = @ \o MapSeq(LAMBDA id : 1, ids)], ById(Blocks(f))))

FromSSA(f) ==
  LET Numbered(split) == Localize(split, SSAIds(split)) IN Numbered(SplitPhiCriticalEdges(f))
=============================================================================
