----------------------------- MODULE Execution -----------------------------
(***************************************************************************)
(* What a function of the intermediate code does when it runs: the effects *)
(* it shows and the value it returns, for a tape of the values drawn by    *)
(* Random.  From the interpreter the optimizer's tests execute functions   *)
(* with (internal/compiler/optimize/ir_interpreter_test.go).               *)
(*                                                                         *)
(* A cell is <<storage, id, index>>; one that is not in the domain of      *)
(* cells was never written.  A value is a set: {n}, or {} where it comes   *)
(* from such a cell.  Copying and computing with {} is silent, as in SSA   *)
(* form it happens on edges where the value is not wanted; showing it or   *)
(* branching on it ends the execution as "undefined", and of these the     *)
(* optimizer promises nothing.  The interpreter of the tests reads 0       *)
(* instead, which allocation to shared cells would break.                  *)
(***************************************************************************)
EXTENDS IR, Iteration

CONSTANT Fuel  \* most blocks an execution enters

Value(x) == CHOOSE n \in x : TRUE
RomValue == 2  \* EngineRom holds this everywhere

Stop(s, why) == IF s.status = "running" THEN [s EXCEPT !.status = why] ELSE s
Show(s, event) == IF s.status = "running" THEN [s EXCEPT !.shown = Append(@, event)] ELSE s

Draw(s) == IF s.tape = <<>> THEN Stop(s, "exhausted")
           ELSE [Show(s, <<"draw", Head(s.tape)>>) EXCEPT !.tape = Tail(@)]

Invoke(s, fn, args) ==
  CASE fn = "Random" -> [s |-> Draw(s), v |-> IF s.tape = <<>> THEN {} ELSE {Head(s.tape)}]
    [] fn = "DebugLog" ->
         [s |-> IF args[1] = {} THEN Stop(s, "undefined") ELSE Show(s, <<"log", Value(args[1])>>), v |-> {0}]
    [] fn \in {"DebugPause", "Execute"} -> [s |-> s, v |-> {0}]
    [] OTHER -> [s |-> s, v |-> IF {} \in Range(args) THEN {} ELSE EvaluateRuntime(fn, MapSeq(Value, args))]

Cell(allocated, place, index) ==
  CASE place.p = "local" -> <<"local", IF allocated THEN 1 ELSE place.id, place.off>>
    [] place.p = "ssa" -> <<"ssa", place.id, 0>>
    [] place.p = "memory" -> <<place.storage, 0, index>>
    [] place.p = "indexed" -> <<"local", IF allocated THEN 1 ELSE place.id,
                                place.base + index * place.stride + place.off>>

Held(s, cell) == IF cell[1] \in DOMAIN ConstantTable THEN ConstantTableValue(Memory(cell[1], Const(cell[3])), cell[3])
                 ELSE IF cell[1] \in ReadOnly THEN {RomValue}
                 ELSE IF cell \in DOMAIN s.cells THEN {s.cells[cell]} ELSE {}

\* The cell of a place whose index has this value; {} if there is none.
CellAt(s, place, index) ==
  IF index = {} \/ (place.p = "indexed" /\ Value(index) \notin 0..place.length - 1) THEN {}
  ELSE {Cell(s.allocated, place, Value(index))}

\* An expression after its parts: done = [s, v], v their values.
EvalWhole(e, done) ==
  LET cell == CellAt(done.s, e.place, IF done.v = <<>> THEN {0} ELSE done.v[1])
  IN CASE e.e = "const" -> [s |-> done.s, v |-> {e.v}]
       [] e.e = "load" -> [s |-> done.s, v |-> IF cell = {} THEN {} ELSE Held(done.s, CHOOSE c \in cell : TRUE)]
       [] e.e = "call" -> Invoke(done.s, e.fn, done.v)

RECURSIVE Eval(_, _)
Eval(s, e) ==
  LET Then(done, r) == [s |-> r.s, v |-> Append(done.v, r.v)]
  IN EvalWhole(e, Iterate(LAMBDA done, x : Then(done, Eval(done.s, x)), [s |-> s, v |-> <<>>], Parts(e)))

\* A write; a write to shared memory shows.
Write(s, cell, v) ==
  LET shown == IF cell[1] \in {"local", "ssa"} THEN s ELSE Show(s, <<"set", cell[3], v>>)
  IN [shown EXCEPT !.cells = (cell :> v) @@ @]
Erase(s, cell) == [s EXCEPT !.cells = [c \in DOMAIN @ \ {cell} |-> @[c]]]

AssignCell(s, cells, v) ==
  LET cell == CHOOSE c \in cells : TRUE
  IN CASE cells = {} -> Stop(s, "undefined")
       [] cells # {} /\ v # {} -> Write(s, cell, Value(v))
       [] cells # {} /\ v = {} -> IF cell[1] \in {"local", "ssa"} THEN Erase(s, cell) ELSE Stop(s, "undefined")

Assign(s, place, v) ==
  LET At(index) == AssignCell(index.s, CellAt(index.s, place, index.v), v)
  IN At(IF PlaceExprs(place) = <<>> THEN [s |-> s, v |-> {0}] ELSE Eval(s, place.index))

Step(s, ins) ==
  LET Evaluated(r) == IF ins.i = "eval" THEN r.s ELSE Assign(r.s, ins.place, r.v)
  IN IF s.status # "running" THEN s ELSE Evaluated(Eval(s, ins.value))

\* The Phis of a block take the values of the edge all at once.
Enter(s, block) ==
  LET Input(phi) == Held(s, <<"ssa", (CHOOSE a \in Range(phi.args) : a.pred = s.from).value.id, 0>>)
  IN Iterate(LAMBDA acc, phi : AssignCell(acc, CellAt(acc, phi.target, {0}), Input(phi)), s, block.phis)

\* r = [s, v]: the terminator t has been evaluated.
LeaveBy(t, r) ==
  LET Goto(b) == [r.s EXCEPT !.from = r.s.at, !.at = b]
  IN CASE t.t = "return" ->
            IF r.v = {} THEN Stop(r.s, "undefined") ELSE Stop(Show(r.s, <<"return", r.v>>), "returned")
       [] t.t = "unreachable" -> Stop(Show(r.s, <<"return", {0}>>), "returned")
       [] t.t = "jump" -> Goto(t.to)
       [] OTHER ->
            IF r.v = {} THEN Stop(r.s, "undefined")
            ELSE IF t.t = "branch" THEN Goto(IF Value(r.v) # 0 THEN t.yes ELSE t.no)
            ELSE Goto(IF Sets(t.cases, Value(r.v)) THEN FirstCase(t.cases, Value(r.v)).to ELSE t.default)

Leave(t, s) ==
  IF s.status # "running" THEN s
  ELSE LeaveBy(t, IF TermExprs(t) = <<>> THEN [s |-> s, v |-> {0}] ELSE Eval(s, TermExprs(t)[1]))

RunBlock(block, s) ==
  IF s.status # "running" THEN s ELSE Leave(block.term, Iterate(Step, Enter(s, block), block.code))

Begin(f, tape) ==
  [cells |-> <<>>, shown |-> <<>>, tape |-> tape, at |-> f.entry, from |-> 0,
   status |-> "running", allocated |-> f.allocated]

\* The execution of f on a tape; "running" if the fuel did not suffice.
Run(f, tape) ==
  LET Seen(end) == [shown |-> end.shown, status |-> end.status]
  IN Seen(Iterate(LAMBDA s, n : RunBlock(f.blocks[s.at], s), Begin(f, tape), [n \in 1..Fuel |-> n]))

\* Execution b does what execution a does.  One that ran out of fuel is
\* known only up to there; passes change the number of blocks entered.
Does(a, b) ==
  \/ a = b
  \/ a.status = "undefined" /\ IsPrefix(a.shown, b.shown)
  \/ /\ "running" \in {a.status, b.status}
     /\ IsPrefix(a.shown, b.shown) \/ IsPrefix(b.shown, a.shown)
=============================================================================
