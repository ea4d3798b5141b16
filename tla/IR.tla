--------------------------------- MODULE IR ---------------------------------
(***************************************************************************)
(* The typed control-flow intermediate code of the compiler                *)
(* (internal/compiler/ir) and what every optimizer pass does to it: walk   *)
(* and rewrite expressions, follow and retarget edges, fold constant       *)
(* control, drop unreachable blocks, validate (control.go, walk.go,        *)
(* noop.go, validate.go).                                                  *)
(*                                                                         *)
(* A function is a value: [entry, blocks, locals, result, allocated].      *)
(* Blocks and locals are numbered from 1 (from 0 in the code); locals[i]   *)
(* is the number of slots of local i.  Types, names and positions are left *)
(* out.  Passes return the new function instead of updating it.            *)
(***************************************************************************)
EXTENDS Integers, Sequences, FiniteSets, SequencesExt

---------------------------------------------------------------------------
(* Places, expressions, instructions, terminators. *)

Local(id, off) == [p |-> "local", id |-> id, off |-> off]
SSA(id) == [p |-> "ssa", id |-> id]
Indexed(id, index, base, length, stride, off) ==
  [p |-> "indexed", id |-> id, index |-> index, base |-> base,
   length |-> length, stride |-> stride, off |-> off]
Memory(storage, index) == [p |-> "memory", storage |-> storage, index |-> index]

Const(v) == [e |-> "const", v |-> v]
Load(place) == [e |-> "load", place |-> place]
Call(fn, args) == [e |-> "call", fn |-> fn, args |-> args]

Store(place, value) == [i |-> "store", place |-> place, value |-> value]
EvalOf(value) == [i |-> "eval", value |-> value]

Jump(to) == [t |-> "jump", to |-> to]
Branch(cond, yes, no) == [t |-> "branch", cond |-> cond, yes |-> yes, no |-> no]
Switch(value, cases, default) ==
  [t |-> "switch", value |-> value, cases |-> cases, default |-> default]
Case(v, to) == [v |-> v, to |-> to]
Return(slots) == [t |-> "return", slots |-> slots]
Unreachable == [t |-> "unreachable"]  \* the callback ends here

Block(phis, code, term) == [phis |-> phis, code |-> code, term |-> term]
Phi(target, local, args) == [target |-> target, local |-> local, args |-> args]
PhiArg(pred, value) == [pred |-> pred, value |-> value]

(* The runtime functions in use: those of one value, and those of none.    *)
(* Random draws again at every call, DebugLog shows its argument and       *)
(* DebugPause halts a debugger, so none is pure; storage EngineRom is      *)
(* read-only, LevelMemory is not.  A constant table has a storage of its   *)
(* own until all callbacks are optimized.                                  *)
VoidFunctions == {"DebugLog", "DebugPause", "Execute"}
Pure(call) == call.fn \notin {"Random", "DebugLog", "DebugPause"}
ConstantTable == [table |-> <<1, 4, 2>>]
ReadOnly == {"EngineRom"} \cup DOMAIN ConstantTable
IsTable(place) == place.p = "memory" /\ place.storage \in DOMAIN ConstantTable
\* What a place of a table reads at a constant index: {its entry}, or {}.
ConstantTableValue(place, index) ==
  {ConstantTable[place.storage][i] : i \in {index + 1} \cap DOMAIN ConstantTable[place.storage]}

Blocks(f) == DOMAIN f.blocks
\* The elements of S in the order Before.
InOrder(Before(_, _), S) ==
  LET RECURSIVE From(_)
      From(T) == IF T = {} THEN <<>>
                 ELSE LET first == CHOOSE x \in T : \A y \in T : y = x \/ Before(x, y)
                      IN <<first>> \o From(T \ {first})
  IN From(S)
ById(S) == InOrder(<, S)
(* The identity.  TLC loses an EXCEPT two levels deep in a function written *)
(* with |-> that then becomes a sequence; this makes it one before.         *)
Eager(s) == SubSeq(s, 1, Len(s))
MapSeq(F(_), s) == Eager([i \in 1..Len(s) |-> F(s[i])])
\* Without what occurred before.
Distinct(s) ==
  MapSeq(LAMBDA i : s[i], SelectSeq([i \in 1..Len(s) |-> i], LAMBDA i : \A j \in 1..i - 1 : s[j] # s[i]))

---------------------------------------------------------------------------
(* Walking and rewriting (walk.go, dataflow.go). *)

IsLoad(e, kinds) == e.e = "load" /\ e.place.p \in kinds
IsCall(e, fn) == e.e = "call" /\ e.fn = fn

PlaceExprs(place) == IF place.p \in {"indexed", "memory"} THEN <<place.index>> ELSE <<>>

\* The expressions directly below one, and it with others there.
Parts(e) == CASE e.e = "const" -> <<>> [] e.e = "load" -> PlaceExprs(e.place) [] e.e = "call" -> e.args
WithParts(e, es) ==
  CASE e.e = "call" -> [e EXCEPT !.args = es]
    [] e.e = "load" /\ es # <<>> -> [e EXCEPT !.place.index = es[1]]
    [] OTHER -> e

\* An expression and all below it, from the outside in.
RECURSIVE Walk(_)
Walk(e) ==
  <<e>> \o FlattenSeq(MapSeq(Walk, Parts(e)))

\* The places an expression reads.
Reads(e) == {x.place : x \in {y \in Range(Walk(e)) : y.e = "load"}}

StoreExprs(ins) == <<ins.value>> \o PlaceExprs(ins.place)
InstrExprs(ins) == IF ins.i = "store" THEN StoreExprs(ins) ELSE <<ins.value>>
TermExprs(t) == CASE t.t = "branch" -> <<t.cond>>
                  [] t.t = "switch" -> <<t.value>>
                  [] t.t = "return" -> t.slots
                  [] t.t \in {"jump", "unreachable"} -> <<>>
BlockExprs(b) == FlattenSeq(MapSeq(InstrExprs, b.code)) \o TermExprs(b.term)
FunctionExprs(f) == UNION {Range(Walk(e)) : e \in UNION {Range(BlockExprs(b)) : b \in Range(f.blocks)}}

\* From the inside out: the parts of an expression first, then itself.
RewriteExpr(F(_), e) ==
  LET RECURSIVE Go(_)
      Go(x) == F(WithParts(x, MapSeq(Go, Parts(x))))
  IN Go(e)
RewritePlace(F(_), place) ==
  IF place.p \in {"indexed", "memory"} THEN [place EXCEPT !.index = RewriteExpr(F, @)] ELSE place
RewriteInstr(F(_), ins) ==
  IF ins.i = "store"
  THEN Store(RewritePlace(F, ins.place), RewriteExpr(F, ins.value))
  ELSE EvalOf(RewriteExpr(F, ins.value))
RewriteTerm(F(_), t) ==
  CASE t.t = "branch" -> [t EXCEPT !.cond = RewriteExpr(F, @)]
    [] t.t = "switch" -> [t EXCEPT !.value = RewriteExpr(F, @)]
    [] t.t = "return" -> [t EXCEPT !.slots = MapSeq(LAMBDA e : RewriteExpr(F, e), @)]
    [] t.t \in {"jump", "unreachable"} -> t
RewriteFunction(F(_), f) ==
  [f EXCEPT !.blocks = MapSeq(LAMBDA b :
     [b EXCEPT !.code = MapSeq(LAMBDA ins : RewriteInstr(F, ins), @),
               !.term = RewriteTerm(F, @)], @)]

\* Every place of f moved by To.
MovePlaces(To(_), f) ==
  LET Use(e) == IF e.e = "load" THEN Load(To(e.place)) ELSE e
      Target(ins) == IF ins.i = "store" THEN [ins EXCEPT !.place = To(@)] ELSE ins
  IN RewriteFunction(Use, [f EXCEPT !.blocks = MapSeq(LAMBDA b : [b EXCEPT !.code = MapSeq(Target, @)], @)])

\* Does evaluating it do more than yield a value?
HasEffects(e) == \E x \in Range(Walk(e)) : x.e = "call" /\ ~Pure(x)

(* What a pure function yields on numbers: {its value}, or {} where the    *)
(* compiler does not know it.  Numbers are whole here: a quotient that is  *)
(* not whole is one of a range no program uses otherwise.                  *)
Truth(b) == IF b THEN {1} ELSE {0}
Quotient(a, b) == IF a % b = 0 THEN a \div b ELSE 100000 + 100 * a + b
EvaluateRuntime(fn, a) ==
  CASE fn \in {"Add", "Multiply", "Subtract"} ->
         LET Both(x, y) == CASE fn = "Add" -> x + y [] fn = "Multiply" -> x * y [] fn = "Subtract" -> x - y
         IN {FoldLeft(Both, Head(a), Tail(a))}
    [] fn = "Divide" -> IF a[2] = 0 THEN {} ELSE {Quotient(a[1], a[2])}
    [] fn = "Negate" -> {-a[1]}
    [] fn = "Not" -> Truth(a[1] = 0)
    [] fn = "Equal" -> Truth(a[1] = a[2])
    [] fn = "NotEqual" -> Truth(a[1] # a[2])
    [] fn = "Less" -> Truth(a[1] < a[2])
    [] fn = "LessOr" -> Truth(a[1] <= a[2])
    [] fn = "Greater" -> Truth(a[1] > a[2])
    [] fn = "GreaterOr" -> Truth(a[1] >= a[2])
    [] fn = "And" -> Truth(\A i \in DOMAIN a : a[i] # 0)
    [] fn = "Or" -> Truth(\E i \in DOMAIN a : a[i] # 0)
    [] fn = "Trunc" -> {a[1]}
    [] fn = "Rem" -> IF a[2] = 0 THEN {} ELSE {a[1] % a[2]}
    [] OTHER -> {}

---------------------------------------------------------------------------
(* Edges (control.go, walk.go). *)

\* The targets of a terminator, each once, in the order they are visited.
Targets(t) ==
  Distinct(CASE t.t = "jump" -> <<t.to>>
             [] t.t = "branch" -> <<t.yes, t.no>>
             [] t.t = "switch" -> <<t.default>> \o MapSeq(LAMBDA c : c.to, t.cases)
             [] t.t \in {"return", "unreachable"} -> <<>>)

Successors(f, b) == Range(Targets(f.blocks[b].term))
Preds(f, b) == {a \in Blocks(f) : b \in Successors(f, a)}

\* The terminator with target x replaced by to[x].
Retargeted(t, to) ==
  CASE t.t = "jump" -> Jump(to[t.to])
    [] t.t = "branch" -> Branch(t.cond, to[t.yes], to[t.no])
    [] t.t = "switch" -> Switch(t.value, MapSeq(LAMBDA c : Case(c.v, to[c.to]), t.cases), to[t.default])
    [] t.t \in {"return", "unreachable"} -> t

\* Depth first from block b, the targets in order; acc = [seen, post].
RECURSIVE Visit(_, _, _)
Visit(f, acc, b) ==
  IF b \in acc.seen THEN acc
  ELSE LET below == FoldLeft(LAMBDA a, to : Visit(f, a, to),
                             [acc EXCEPT !.seen = @ \cup {b}], Targets(f.blocks[b].term))
       IN [below EXCEPT !.post = Append(@, b)]
ReversePostorder(f) == Reverse(Visit(f, [seen |-> {}, post |-> <<>>], f.entry).post)
Reachable(f) == Range(ReversePostorder(f))

ByPred(args) == InOrder(LAMBDA a, b : a.pred < b.pred, Range(args))

\* Only the blocks in order, numbered as they are there.
Renumbered(f, order) ==
  LET new == [b \in Range(order) |-> CHOOSE i \in DOMAIN order : order[i] = b]
      Kept(args) == SelectSeq(args, LAMBDA a : a.pred \in Range(order))
      Moved(args) == ByPred(MapSeq(LAMBDA a : [a EXCEPT !.pred = new[@]], Kept(args)))
  IN [f EXCEPT !.entry = new[f.entry],
               !.blocks = Eager([i \in DOMAIN order |->
                  [f.blocks[order[i]] EXCEPT
                     !.term = Retargeted(@, new),
                     !.phis = MapSeq(LAMBDA phi : [phi EXCEPT !.args = Moved(@)], @)]])]

NormalizeReachable(f) == Renumbered(f, ReversePostorder(f))

---------------------------------------------------------------------------
(* Constant control (control.go). *)

IsConst(e) == e.e = "const"
Sets(cases, v) == \E c \in Range(cases) : c.v = v
FirstCase(cases, v) == cases[CHOOSE i \in DOMAIN cases : cases[i].v = v /\ \A j \in 1..i - 1 : cases[j].v # v]

\* A condition that no longer chooses is kept for its effects.
Dropped(e) == IF HasEffects(e) THEN <<EvalOf(Call("Execute", <<e>>))>> ELSE <<>>

FoldBlock(b) ==
  LET t == b.term
      Goto(to) == [b EXCEPT !.term = Jump(to)]
      Drop(e, to) == [b EXCEPT !.term = Jump(to), !.code = @ \o Dropped(e)]
  IN CASE t.t = "branch" /\ t.yes = t.no -> Drop(t.cond, t.yes)
       [] t.t = "branch" /\ t.yes # t.no /\ IsConst(t.cond) -> Goto(IF t.cond.v # 0 THEN t.yes ELSE t.no)
       [] t.t = "switch" /\ t.cases = <<>> -> Drop(t.value, t.default)
       [] t.t = "switch" /\ t.cases # <<>> /\ IsConst(t.value) ->
            Goto(IF Sets(t.cases, t.value.v) THEN FirstCase(t.cases, t.value.v).to ELSE t.default)
       [] OTHER -> b

\* The inputs of a Phi whose edge is gone.
PrunePhiArguments(f) ==
  [f EXCEPT !.blocks = Eager([b \in Blocks(f) |-> [@[b] EXCEPT !.phis = MapSeq(LAMBDA phi :
     [phi EXCEPT !.args = SelectSeq(@, LAMBDA a : b \in Successors(f, a.pred))], @)]])]

FoldConstantControl(f) ==
  PrunePhiArguments([f EXCEPT !.blocks = MapSeq(FoldBlock, @)])

RemoveUnreachable(f) == NormalizeReachable(FoldConstantControl(f))

\* Instructions without any effect (noop.go).
Removable(ins) ==
  \/ /\ ins.i = "eval"
     /\ Pure(ins.value) /\ \A a \in Range(ins.value.args) : ~HasEffects(a)
  \/ /\ ins.i = "store" /\ ins.place.p = "local"
     /\ IsLoad(ins.value, {"local"}) /\ ins.value.place = ins.place

RemoveNoOps(f) ==
  [f EXCEPT !.blocks = MapSeq(LAMBDA b : [b EXCEPT !.code = SelectSeq(@, LAMBDA ins : ~Removable(ins))], @)]

---------------------------------------------------------------------------
(* Validation after every pass (validate.go). *)

ValidPlace(f, place) ==
  CASE place.p = "ssa" -> TRUE
    [] place.p = "local" -> place.id \in DOMAIN f.locals /\ place.off \in 0..f.locals[place.id] - 1
    [] place.p = "indexed" ->
         /\ place.id \in DOMAIN f.locals /\ place.base >= 0
         /\ place.length > 0 /\ place.stride > 0 /\ place.off \in 0..place.stride - 1
         /\ place.base + place.length * place.stride <= f.locals[place.id]
    [] place.p = "memory" -> TRUE

ValidExpr(f, e) ==
  \A x \in Range(Walk(e)) :
    /\ x.e = "load" => ValidPlace(f, x.place)
    /\ x.e = "call" => x.fn \notin VoidFunctions

ValidInstr(f, ins) ==
  IF ins.i = "store"
  THEN ValidPlace(f, ins.place) /\ \A e \in Range(StoreExprs(ins)) : ValidExpr(f, e)
  ELSE ins.value.e = "call" /\ ins.value.fn \in VoidFunctions /\ \A e \in Range(ins.value.args) : ValidExpr(f, e)

\* Every definition of a value in static single assignment form.
Definitions(f) ==
  FlattenSeq(MapSeq(LAMBDA b :
    MapSeq(LAMBDA phi : phi.target.id, b.phis) \o
    MapSeq(LAMBDA ins : ins.place.id, SelectSeq(b.code, LAMBDA ins : ins.i = "store" /\ ins.place.p = "ssa")),
    f.blocks))

\* One input per reachable predecessor, in the order of the predecessors.
ValidPhi(f, reachable, b, phi) ==
  /\ ValidPlace(f, phi.local)
  /\ \A i \in 1..Len(phi.args) - 1 : phi.args[i].pred < phi.args[i + 1].pred
  /\ \A a \in Range(phi.args) : a.pred \in Blocks(f) /\ b \in Successors(f, a.pred)
  /\ b \in reachable => {a.pred : a \in Range(phi.args)} \cap reachable = Preds(f, b) \cap reachable

Valid(f) ==
  LET reachable == Reachable(f)
  IN /\ f.entry \in Blocks(f)
     /\ IsInjective(Definitions(f))
     /\ \A b \in Blocks(f) :
          /\ Successors(f, b) \subseteq Blocks(f)
          /\ \A phi \in Range(f.blocks[b].phis) : ValidPhi(f, reachable, b, phi)
          /\ \A ins \in Range(f.blocks[b].code) : ValidInstr(f, ins)
          /\ \A e \in Range(TermExprs(f.blocks[b].term)) : ValidExpr(f, e)
          /\ f.blocks[b].term.t = "return" => Len(f.blocks[b].term.slots) = f.result

\* What the backend accepts.
ValidFinal(f) ==
  /\ Valid(f) /\ f.allocated
  /\ Definitions(f) = <<>>
  /\ \A b \in Range(f.blocks) : b.phis = <<>>
  /\ \A e \in FunctionExprs(f) : ~IsLoad(e, {"ssa"})
=============================================================================
