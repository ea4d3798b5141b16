------------------------------ MODULE Dataflow ------------------------------
(***************************************************************************)
(* The passes that follow values through a function: dead code, constants, *)
(* inlining, common subexpressions                                         *)
(* (internal/compiler/optimize/dataflow.go).  The limits on the size of    *)
(* what inlining copies (16384 nodes, depth 256) are left out.             *)
(***************************************************************************)
EXTENDS SSA

(* Temporaries: fixed slots of locals, and values in SSA form.             *)

IsTemporary(place) == place.p \in {"local", "ssa"}
PlaceKey(place) == IF place.p = "local" THEN <<"local", place.id, place.off>> ELSE <<"ssa", place.id, 0>>
TempReads(e) == {PlaceKey(place) : place \in {q \in Reads(e) : IsTemporary(q)}}
AllReads(es) == UNION {TempReads(e) : e \in Range(es)}

Code(f) == UNION {Range(b.code) : b \in Range(f.blocks)}
TempStores(f) == {ins \in Code(f) : ins.i = "store" /\ IsTemporary(ins.place)}

\* The locals some index reaches into: no slot of them is ever known unused.
IndexedLocalIDs(f) ==
  {e.place.id : e \in {x \in FunctionExprs(f) : IsLoad(x, {"indexed"})}}
  \cup {ins.place.id : ins \in {i \in Code(f) : i.i = "store" /\ i.place.p = "indexed"}}

AddressTaken(indexed, place) == place.p = "local" /\ place.id \in indexed

---------------------------------------------------------------------------
(* Dead code: keep what something observable depends on, whatever the      *)
(* order of the instructions.                                              *)

Observed(f, indexed) ==
  LET OfInstr(ins) ==
        IF ins.i = "eval" THEN TempReads(ins.value)
        ELSE AllReads(PlaceExprs(ins.place)) \cup
             IF ~IsTemporary(ins.place) THEN TempReads(ins.value)
             ELSE IF HasEffects(ins.value) \/ AddressTaken(indexed, ins.place) THEN {PlaceKey(ins.place)} ELSE {}
  IN UNION {OfInstr(ins) : ins \in Code(f)} \cup UNION {AllReads(TermExprs(b.term)) : b \in Range(f.blocks)}

Dependencies(f, live) ==
  UNION {TempReads(ins.value) : ins \in {i \in TempStores(f) : PlaceKey(i.place) \in live}}
  \cup UNION {{PlaceKey(a.value) : a \in Range(phi.args)} :
                phi \in {q \in UNION {Range(b.phis) : b \in Range(f.blocks)} : PlaceKey(q.target) \in live}}

RECURSIVE Needed(_, _)
Needed(f, live) ==
  LET With(more) == IF more \subseteq live THEN live ELSE Needed(f, live \cup more) IN With(Dependencies(f, live))

DeadCodeElimination(f) ==
  LET live == Needed(f, Observed(f, IndexedLocalIDs(f)))
      Kept(ins) == ins.i = "store" /\ IsTemporary(ins.place) => PlaceKey(ins.place) \in live
  IN [f EXCEPT !.blocks = MapSeq(LAMBDA b :
        [b EXCEPT !.phis = SelectSeq(@, LAMBDA phi : PlaceKey(phi.target) \in live),
                  !.code = SelectSeq(@, Kept)], @)]

(* Dead stores: one whose place is not read again before the next store.   *)

Unneeded(ins, indexed, live) ==
  /\ ins.i = "store" /\ IsTemporary(ins.place) /\ ~AddressTaken(indexed, ins.place)
  /\ ~HasEffects(ins.value) /\ PlaceKey(ins.place) \notin live

\* Backwards over one instruction, acc = [live, code].
Demand(ins, indexed, acc) ==
  LET stored == IF ins.i = "store" /\ IsTemporary(ins.place) THEN {PlaceKey(ins.place)} ELSE {}
  IN IF Unneeded(ins, indexed, acc.live) THEN acc
     ELSE [live |-> (acc.live \ stored) \cup AllReads(InstrExprs(ins)), code |-> <<ins>> \o acc.code]

DemandOfBlock(b, indexed, liveOut) ==
  FoldRight(LAMBDA ins, acc : Demand(ins, indexed, acc), b.code,
            [live |-> liveOut \cup AllReads(TermExprs(b.term)), code |-> <<>>])

LiveOut(f, liveIn, b) == UNION {liveIn[s] : s \in Successors(f, b)}

RECURSIVE DemandIn(_, _, _)
DemandIn(f, indexed, liveIn) ==
  LET Then(next) == IF next = liveIn THEN liveIn ELSE DemandIn(f, indexed, next)
  IN Then([b \in Blocks(f) |-> DemandOfBlock(f.blocks[b], indexed, LiveOut(f, liveIn, b)).live])

\* mutant: at first everything is in demand, and in a loop it stays so.
AllInDemand(f) ==
  LET indexed == IndexedLocalIDs(f)
      all == {PlaceKey(ins.place) : ins \in TempStores(f)}
      liveIn == DemandIn(f, indexed, [b \in Blocks(f) |-> all])
  IN [f EXCEPT !.blocks = Eager([b \in Blocks(f) |->
        [@[b] EXCEPT !.code = DemandOfBlock(f.blocks[b], indexed, LiveOut(f, liveIn, b)).code]])]

AdvancedDeadCodeElimination(f) ==
  LET indexed == IndexedLocalIDs(f)
      liveIn == DemandIn(f, indexed, [b \in Blocks(f) |-> {}])
  IN [f EXCEPT !.blocks = Eager([b \in Blocks(f) |->
        [@[b] EXCEPT !.code = DemandOfBlock(f.blocks[b], indexed, LiveOut(f, liveIn, b)).code]])]

---------------------------------------------------------------------------
(* Constants: what is known of a value is <<>> (nothing yet), <<v>> or     *)
(* Overdefined; of a value not in the domain, nothing yet.                 *)

Overdefined == <<0, 0>>
StateOf(states, id) == IF id \in DOMAIN states THEN states[id] ELSE <<>>

JoinStates(a, b) ==
  CASE a = <<>> -> b
    [] a # <<>> /\ b = <<>> -> a
    [] a # <<>> /\ b # <<>> -> IF a = b THEN a ELSE Overdefined

\* What a pure call yields when this is known of its arguments.
FoldedState(fn, args) ==
  LET unsure == SelectSeq(args, LAMBDA s : Len(s) # 1)
      Yield(folded) == IF folded = {} THEN Overdefined ELSE SetToSeq(folded)
  IN IF unsure # <<>> THEN unsure[1] ELSE Yield(EvaluateRuntime(fn, MapSeq(LAMBDA s : s[1], args)))

\* The entry of a table at an index of this state.
EntryState(place, index) ==
  IF Len(index) # 1 THEN index
  ELSE IF ConstantTableValue(place, index[1]) = {} THEN Overdefined
  ELSE SetToSeq(ConstantTableValue(place, index[1]))

RECURSIVE ConstantState(_, _)
ConstantState(e, states) ==
  CASE e.e = "const" -> <<e.v>>
    [] IsLoad(e, {"ssa"}) -> StateOf(states, e.place.id)
    [] IsLoad(e, {"memory"}) /\ IsTable(e.place) -> EntryState(e.place, ConstantState(e.place.index, states))
    [] e.e = "load" /\ e.place.p # "ssa" /\ ~IsTable(e.place) -> Overdefined
    [] e.e = "call" /\ ~Pure(e) -> Overdefined
    [] e.e = "call" /\ Pure(e) -> FoldedState(e.fn, MapSeq(LAMBDA a : ConstantState(a, states), e.args))

\* The edges out of a block that may be taken, from what is known.
TargetsIf(t, known) ==
  CASE known = <<>> -> {}
    [] Len(known) = 2 -> Range(Targets(t))
    [] Len(known) = 1 /\ t.t = "branch" -> {IF known[1] # 0 THEN t.yes ELSE t.no}
    [] Len(known) = 1 /\ t.t = "switch" ->
         {IF Sets(t.cases, known[1]) THEN FirstCase(t.cases, known[1]).to ELSE t.default}
ExecutableTargets(t, states) ==
  TargetsIf(t, IF t.t \in {"branch", "switch"} THEN ConstantState(TermExprs(t)[1], states) ELSE Overdefined)

\* One sweep over the reachable blocks; acc = [states, reachable].
Learn(acc, id, state) == [acc EXCEPT !.states = (id :> JoinStates(StateOf(acc.states, id), state)) @@ @]

LearnBlock(f, acc, b) ==
  LET Arriving(a, phi) == SelectSeq(phi.args, LAMBDA x :
        x.pred \in a.reachable /\ b \in ExecutableTargets(f.blocks[x.pred].term, a.states))
      Joined(a, phi) == FoldLeft(LAMBDA s, x : JoinStates(s, StateOf(a.states, x.value.id)), <<>>, Arriving(a, phi))
      LearnPhi(a, phi) == Learn(a, phi.target.id, Joined(a, phi))
      LearnInstr(a, ins) == IF ins.i = "store" /\ ins.place.p = "ssa"
                            THEN Learn(a, ins.place.id, ConstantState(ins.value, a.states)) ELSE a
      LearnTerm(a) == [a EXCEPT !.reachable = @ \cup ExecutableTargets(f.blocks[b].term, a.states)]
  IN IF b \notin acc.reachable THEN acc
     ELSE LearnTerm(FoldLeft(LearnInstr, FoldLeft(LearnPhi, acc, f.blocks[b].phis), f.blocks[b].code))

\* Sweeps until nothing changes; what is unknown then is given up.
RECURSIVE Propagate(_, _)
Propagate(f, acc) ==
  LET Learnt(a) == \/ a.reachable # acc.reachable
                   \/ \E id \in DOMAIN a.states : a.states[id] # <<>> /\ StateOf(acc.states, id) # a.states[id]
      GiveUp(unknown) == IF unknown = {} THEN acc
                         ELSE Propagate(f, [acc EXCEPT !.states = [id \in unknown |-> Overdefined] @@ @])
      Swept(a) == IF Learnt(a) THEN Propagate(f, a)
                  ELSE GiveUp({id \in Range(SSAIds(f)) : StateOf(acc.states, id) = <<>>})
  IN Swept(FoldLeft(LAMBDA a, b : LearnBlock(f, a, b), acc, ById(Blocks(f))))

\* Folded from the inside out, so the arguments of a call are done.
Folded(e, values) == IF values = {} THEN e ELSE Const(CHOOSE v \in values : TRUE)
FoldExpr(e, states) ==
  CASE IsLoad(e, {"ssa"}) -> IF Len(StateOf(states, e.place.id)) = 1 THEN Const(states[e.place.id][1]) ELSE e
    [] IsLoad(e, {"memory"}) /\ IsTable(e.place) /\ IsConst(e.place.index) ->
         Folded(e, ConstantTableValue(e.place, e.place.index.v))
    [] e.e = "call" /\ Pure(e) /\ (\A a \in Range(e.args) : IsConst(a)) ->
         Folded(e, EvaluateRuntime(e.fn, MapSeq(LAMBDA a : a.v, e.args)))
    [] OTHER -> e

SparseConditionalConstantPropagation(f) ==
  LET states == Propagate(f, [states |-> <<>>, reachable |-> {f.entry}]).states
  IN FoldConstantControl(RewriteFunction(LAMBDA e : FoldExpr(e, states), f))

---------------------------------------------------------------------------
(* Inlining puts an expression where its value is used, the elimination of *)
(* common subexpressions takes a repeated one out again.                   *)


\* What evaluating an expression costs.
RECURSIVE ExpressionCost(_)
ExpressionCost(e) ==
  CASE e.e = "call" -> FoldLeft(LAMBDA n, a : n + ExpressionCost(a), 1, e.args)
    [] IsLoad(e, {"ssa"}) -> 3
    [] IsLoad(e, {"memory"}) -> 2 + ExpressionCost(e.place.index)
    [] OTHER -> 1

\* It yields the same value wherever it is evaluated.
Movable(e) ==
  \A x \in Range(Walk(e)) :
    \/ IsConst(x) \/ IsLoad(x, {"ssa"})
    \/ IsLoad(x, {"memory"}) /\ x.place.storage \in ReadOnly
    \/ x.e = "call" /\ Pure(x)

\* The blocks on the way from header to latch.
RECURSIVE NaturalLoop(_, _, _)
NaturalLoop(f, header, body) ==
  LET more == body \cup UNION {Preds(f, b) : b \in body \ {header}}
  IN IF more = body THEN body ELSE NaturalLoop(f, header, more)

BackEdges(f, dom) == {e \in Blocks(f) \X Blocks(f) : e[2] \in Successors(f, e[1]) /\ Dominates(dom, e[2], e[1])}
Headers(f, dom) == {e[2] : e \in BackEdges(f, dom)}
Latches(f, dom, header) == {e[1] : e \in {x \in BackEdges(f, dom) : x[2] = header}}
Loop(f, dom, header) ==
  UNION {NaturalLoop(f, header, {header, latch}) : latch \in Latches(f, dom, header)}

---------------------------------------------------------------------------
(* Copies of values are resolved first.                                    *)

RECURSIVE Root(_, _)
Root(aliases, id) == IF id \in DOMAIN aliases THEN Root(aliases, aliases[id]) ELSE id

InlineSSAAliases(f) ==
  LET copies == {ins \in TempStores(f) : ins.place.p = "ssa" /\ IsLoad(ins.value, {"ssa"})}
      aliases == [id \in {ins.place.id : ins \in copies} |->
                    (CHOOSE ins \in copies : ins.place.id = id).value.place.id]
      Resolved(e) == IF IsLoad(e, {"ssa"}) THEN Load(SSA(Root(aliases, e.place.id))) ELSE e
      Input(a) == PhiArg(a.pred, SSA(Root(aliases, a.value.id)))
  IN RewriteFunction(Resolved, [f EXCEPT !.blocks = MapSeq(LAMBDA b :
       [b EXCEPT !.phis = MapSeq(LAMBDA phi : [phi EXCEPT !.args = MapSeq(Input, @)], @)], @)])

(* The temporaries that are stored once, with how they are used.  A place  *)
(* in the code is [block, at]; the terminator comes after the last         *)
(* instruction.                                                            *)

ExprsAt(f, b, at) == IF at > Len(f.blocks[b].code) THEN TermExprs(f.blocks[b].term)
                     ELSE InstrExprs(f.blocks[b].code[at])
LoadsAt(f, b, at) ==
  LET all == FlattenSeq(MapSeq(Walk, ExprsAt(f, b, at)))
      loads == SelectSeq(all, LAMBDA e : e.e = "load" /\ IsTemporary(e.place))
  IN MapSeq(LAMBDA e : [key |-> PlaceKey(e.place), block |-> b, at |-> at], loads)
Occurrences(f) ==
  FlattenSeq([b \in Blocks(f) |-> FlattenSeq([at \in 1..Len(f.blocks[b].code) + 1 |-> LoadsAt(f, b, at)])])
PhiInputs(f) ==
  FlattenSeq(MapSeq(LAMBDA b : FlattenSeq(MapSeq(LAMBDA phi : MapSeq(LAMBDA a : PlaceKey(a.value), phi.args), b.phis)), f.blocks))

StoredAt(f) ==
  {s \in UNION {{[block |-> b, at |-> at] : at \in DOMAIN f.blocks[b].code} : b \in Blocks(f)} :
     f.blocks[s.block].code[s.at] \in TempStores(f)}

\* How the temporary with this key is defined and used, if its only store
\* is at s.
InlineDefinition(f, dom, key, s, uses, inputs, loops) ==
  LET mine == SelectSeq(uses, LAMBDA u : u.key = key)
      Follows(u) == Dominates(dom, s.block, u.block) /\ (u.block = s.block => s.at < u.at)
  IN [value |-> f.blocks[s.block].code[s.at].value, block |-> s.block, at |-> s.at,
      uses |-> Len(mine) + Len(SelectSeq(inputs, LAMBDA i : i = key)),
      crossBlock |-> Contains(inputs, key) \/ \E u \in Range(mine) : u.block # s.block,
      crossLoop |-> \E u \in Range(mine), body \in loops : u.block \in body /\ s.block \notin body,
      unsafe |-> key[1] = "local" /\ mine # <<>>
                 /\ (key[2] \in IndexedLocalIDs(f) \/ \E u \in Range(mine) : ~Follows(u))]

InlineDefinitions(f, dom) ==
  LET KeyAt(s) == PlaceKey(f.blocks[s.block].code[s.at].place)
      Once(stores) == {s \in stores : \A r \in stores : KeyAt(r) = KeyAt(s) => r = s}
      Found(once, uses, inputs, loops) ==
        [k \in {KeyAt(s) : s \in once} |->
           InlineDefinition(f, dom, k, CHOOSE s \in once : KeyAt(s) = k, uses, inputs, loops)]
  IN Found(Once(StoredAt(f)), Occurrences(f), PhiInputs(f), {Loop(f, dom, h) : h \in Headers(f, dom)})

Affordable(d, value, aggressive) ==
  LET cost == ExpressionCost(value)
  IN \/ aggressive \/ cost <= 3
     \/ /\ ~d.crossLoop
        /\ \/ d.uses = 1
           \/ ~d.crossBlock /\ d.uses >= 2 /\ cost * (d.uses - 1) <= 3 * (d.uses + 1)

\* A value that may change is read by the terminator just as well.
MovableIntoTerminator(f, d) ==
  /\ d.uses = 1 /\ ~d.crossBlock /\ ~HasEffects(d.value)
  /\ d.at = Len(f.blocks[d.block].code)
  /\ \A e \in Range(TermExprs(f.blocks[d.block].term)) : ~HasEffects(e)

RECURSIVE Inline(_, _, _, _)
Inline(f, defs, aggressive, e) ==
  IF e.e # "load" \/ ~IsTemporary(e.place) THEN e
  ELSE IF PlaceKey(e.place) \notin DOMAIN defs THEN e
  ELSE LET d == defs[PlaceKey(e.place)]
           inlined == RewriteExpr(LAMBDA x : Inline(f, defs, aggressive, x), d.value)
           allowed == /\ ~d.unsafe /\ (Movable(d.value) \/ MovableIntoTerminator(f, d))
                      /\ Affordable(d, d.value, aggressive)
       IN IF ~allowed THEN e ELSE IF Affordable(d, inlined, aggressive) THEN inlined ELSE e

InlineVars(f, dom, aggressive) ==
  LET With(g, defs) == RewriteFunction(LAMBDA e : Inline(g, defs, aggressive, e), g)
      Resolved(g) == With(g, InlineDefinitions(g, dom))
  IN Resolved(InlineSSAAliases(f))

---------------------------------------------------------------------------
(* Keys of expressions.  The code writes an expression as a string, the    *)
(* arguments of a call one after the other; here it is the sequence of the *)
(* tokens of that string, numbered in some order.                          *)

FunctionNumber(fn) ==
  CHOOSE n \in 1..10 : fn = <<"Add", "Divide", "Equal", "Execute", "Less", "Multiply", "Negate", "Not",
                             "Random", "Subtract">>[n]
StorageNumber(storage) == CHOOSE n \in 1..3 : storage = <<"EngineRom", "LevelMemory", "table">>[n]
Commutative(fn) == fn \in {"Equal", "NotEqual", "Min", "Max"}

RECURSIVE Lower(_, _)
Lower(a, b) == b # <<>> /\ (a = <<>> \/ Head(a) < Head(b) \/ (Head(a) = Head(b) /\ Lower(Tail(a), Tail(b))))

\* The arguments of a commutative call in the order of their keys.
Ordered(Key2(_), call) ==
  IF Commutative(call.fn) /\ Len(call.args) = 2 /\ Lower(Key2(call.args[2]), Key2(call.args[1]))
  THEN [call EXCEPT !.args = Reverse(@)] ELSE call

RECURSIVE ExprKey(_)
ExprKey(e) ==
  CASE e.e = "const" -> <<1, e.v>>
    [] e.e = "call" -> <<2, FunctionNumber(e.fn)>> \o FlattenSeq(MapSeq(ExprKey, Ordered(ExprKey, e).args))
    [] IsLoad(e, {"local"}) -> <<3, e.place.id, e.place.off>>
    [] IsLoad(e, {"ssa"}) -> <<4, e.place.id>>
    [] IsLoad(e, {"indexed"}) ->
         <<5, e.place.id>> \o ExprKey(e.place.index)
         \o <<e.place.base, e.place.length, e.place.stride, e.place.off>>
    [] IsLoad(e, {"memory"}) -> <<6, StorageNumber(e.place.storage)>> \o ExprKey(e.place.index)

---------------------------------------------------------------------------
(* Common subexpressions, down the dominator tree.  acc = [code, next,     *)
(* available]: what the block has so far, and the value that holds the     *)
(* expression of a key.                                                    *)

RECURSIVE CSEExpression(_, _)
RECURSIVE CSEUpwards(_, _)

\* F over the parts of e in turn: r = [acc, es].
CSEParts(F(_, _), acc, es) ==
  LET Then(r, s) == [acc |-> s.acc, es |-> Append(r.es, s.e)]
  IN FoldLeft(LAMBDA r, x : Then(r, F(r.acc, x)), [acc |-> acc, es |-> <<>>], es)

\* An expression with this key whose parts are rewritten: the value that
\* holds it, a new one, or the expression itself.
CSEWhole(acc, whole, key) ==
  IF ~Movable(whole) THEN [acc |-> acc, e |-> whole]
  ELSE IF key \in DOMAIN acc.available THEN [acc |-> acc, e |-> Load(SSA(acc.available[key]))]
  ELSE IF ExpressionCost(whole) < 4 THEN [acc |-> acc, e |-> whole]
  ELSE [acc |-> [acc EXCEPT !.next = @ + 1, !.code = Append(@, Store(SSA(acc.next), whole)),
                            !.available = (key :> acc.next) @@ @],
        e |-> Load(SSA(acc.next))]

CSEJoined(e, parts) ==
  LET Keyed(whole) == CSEWhole(parts.acc, whole, ExprKey(whole))
      Sorted(whole) == IF e.e = "call" THEN Ordered(ExprKey, whole) ELSE whole
  IN Keyed(Sorted(WithParts(e, parts.es)))

CSEExpression(acc, e) ==
  IF IsConst(e) THEN [acc |-> acc, e |-> e]
  ELSE CSEJoined(e, CSEParts(LAMBDA a, x : IF e.e = "load" THEN CSEUpwards(a, x) ELSE CSEExpression(a, x), acc, Parts(e)))

\* An index is rewritten from the inside out.
CSEUpwards(acc, e) ==
  LET Joined(parts) == CSEExpression(parts.acc, WithParts(e, parts.es))
  IN Joined(CSEParts(CSEUpwards, acc, Parts(e)))

CSEPlace(acc, place) ==
  LET At(index) == [acc |-> index.acc, place |-> [place EXCEPT !.index = index.e]]
  IN IF PlaceExprs(place) = <<>> THEN [acc |-> acc, place |-> place] ELSE At(CSEUpwards(acc, place.index))

\* A value stored is available from then on; one stored twice becomes a copy.
CSEStored(acc, place, value, key) ==
  LET names == place.p = "ssa" /\ ~IsConst(value) /\ Movable(value)
      known == names /\ key \in DOMAIN acc.available
      stored == Store(place, IF known THEN Load(SSA(acc.available[key])) ELSE value)
  IN [acc EXCEPT !.code = Append(@, stored),
                 !.available = IF names /\ ~known THEN (key :> place.id) @@ @ ELSE @]

CSEInstr(acc, ins) ==
  LET Stored(at, r) == CSEStored(r.acc, at.place, r.e, ExprKey(r.e))
      Into(at) == Stored(at, CSEExpression(at.acc, ins.value))
      Evaluated(r) == [r.acc EXCEPT !.code = Append(@, EvalOf(r.e))]
  IN IF ins.i = "store" THEN Into(CSEPlace(acc, ins.place)) ELSE Evaluated(CSEExpression(acc, ins.value))

WithTermExprs(t, es) ==
  CASE t.t = "branch" -> [t EXCEPT !.cond = es[1]]
    [] t.t = "switch" -> [t EXCEPT !.value = es[1]]
    [] t.t = "return" -> [t EXCEPT !.slots = es]
    [] t.t \in {"jump", "unreachable"} -> t

RECURSIVE CSEBlock(_, _, _, _)
CSEBlock(g, dom, b, available) ==
  LET block == g.blocks[b]
      Done(term) == [blocks |-> [g.blocks EXCEPT ![b].code = term.acc.code,
                                                 ![b].term = WithTermExprs(@, term.es)],
                     next |-> term.acc.next]
      Below(term) == FoldLeft(LAMBDA h, c : CSEBlock(h, dom, c, term.acc.available), Done(term), dom.children[b])
      code == FoldLeft(CSEInstr, [code |-> <<>>, next |-> g.next, available |-> available], block.code)
  IN Below(CSEParts(CSEExpression, code, TermExprs(block.term)))

NextSSA(f) ==
  LET Above(ids) == IF ids = {} THEN 1 ELSE 1 + CHOOSE i \in ids : \A j \in ids : j <= i IN Above(Range(SSAIds(f)))

CommonSubexpressionElimination(f, dom) ==
  [f EXCEPT !.blocks = CSEBlock([blocks |-> f.blocks, next |-> NextSSA(f)], dom, f.entry, <<>>).blocks]
=============================================================================
