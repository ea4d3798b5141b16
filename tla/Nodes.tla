------------------------------- MODULE Nodes -------------------------------
(***************************************************************************)
(* The backend (internal/compiler/backend): an optimized function becomes  *)
(* a tree of nodes, the tree is simplified, and the trees of all callbacks *)
(* of a mode are appended to one list in which equal nodes are shared      *)
(* (finalize.go, snode_optimize.go, snode.go, assemble.go).                *)
(*                                                                         *)
(* Targets of jumps are numbered from 0 as in the engine, nodes of the     *)
(* list from 1.                                                            *)
(***************************************************************************)
EXTENDS IR

Number(v) == [n |-> "value", v |-> v]
Node(fn, args) == [n |-> "call", fn |-> fn, args |-> args]
Zero == Number(0)
IsNumber(x) == x.n = "value"
IsZero(x) == x = Zero
IsNode(x, fn) == x.n = "call" /\ x.fn = fn

\* Several nodes one after the other.
Execute(xs) == CASE Len(xs) = 0 -> Zero [] Len(xs) = 1 -> xs[1] [] OTHER -> Node("Execute", xs)

---------------------------------------------------------------------------
(* Finalization (finalize.go). *)

TemporaryMemory == 10000
MemoryBlock == [LevelMemory |-> 2000, EngineRom |-> 3000]
TableStart == 16  \* PlaceConstantTables puts the table there, behind the rest of EngineRom

\* The arguments that say where a place is.
RECURSIVE Expression(_)
Address(place) ==
  CASE place.p = "local" -> <<Number(TemporaryMemory), Number(place.off)>>
    [] place.p = "indexed" -> <<Number(TemporaryMemory), Number(place.base + place.off),
                                Expression(place.index), Number(place.stride)>>
    [] IsTable(place) -> <<Number(MemoryBlock["EngineRom"]), Number(TableStart), Expression(place.index), Number(1)>>
    [] place.p = "memory" /\ ~IsTable(place) -> <<Number(MemoryBlock[place.storage]), Expression(place.index)>>
Shifted(place) == place.p = "indexed" \/ IsTable(place)

Expression(e) ==
  CASE e.e = "const" -> Number(e.v)
    [] e.e = "load" -> Node(IF Shifted(e.place) THEN "GetShifted" ELSE "Get", Address(e.place))
    [] e.e = "call" -> Node(e.fn, MapSeq(Expression, e.args))

Instruction(ins) ==
  IF ins.i = "eval" THEN Expression(ins.value)
  ELSE Node(IF Shifted(ins.place) THEN "SetShifted" ELSE "Set",
            Append(Address(ins.place), Expression(ins.value)))

Target(b) == Number(b - 1)

ByValue(cases) ==
  MapSeq(LAMBDA i : cases[i],
         InOrder(LAMBDA i, j : cases[i].v < cases[j].v \/ (cases[i].v = cases[j].v /\ i < j), DOMAIN cases))

SwitchNode(value, cases, default) ==
  LET dense == cases # <<>> /\ \A i \in DOMAIN cases : cases[i].v = i - 1
  IN IF dense
     THEN Node("SwitchIntegerWithDefault", <<value>> \o MapSeq(LAMBDA c : Target(c.to), cases) \o <<default>>)
     ELSE Node("SwitchWithDefault",
               <<value>> \o FlattenSeq(MapSeq(LAMBDA c : <<Number(c.v), Target(c.to)>>, cases)) \o <<default>>)

\* What the loop over the blocks does after a block: go to another, or leave.
Control(f, t) ==
  CASE t.t = "jump" -> Target(t.to)
    [] t.t = "branch" -> Node("If", <<Expression(t.cond), Target(t.yes), Target(t.no)>>)
    [] t.t = "switch" -> SwitchNode(Expression(t.value), ByValue(t.cases), Target(t.default))
    [] t.t = "return" -> IF t.slots = <<>> THEN Number(Len(f.blocks))
                         ELSE Node("Break", <<Number(1), Expression(t.slots[1])>>)
    [] t.t = "unreachable" -> Node("Break", <<Number(1), Number(0)>>)

BlockNode(f, b) == Node("Execute", Append(MapSeq(Instruction, b.code), Control(f, b.term)))

IsExpression(f) == Len(f.blocks) = 1 /\ f.blocks[1].code = <<>> /\ f.blocks[1].term.t = "return"

Finalize(f) ==
  IF IsExpression(f)
  THEN IF f.blocks[1].term.slots = <<>> THEN Zero ELSE Expression(f.blocks[1].term.slots[1])
  ELSE Node("Block", <<Node("JumpLoop", Append(MapSeq(LAMBDA b : BlockNode(f, b), f.blocks), Zero))>>)

---------------------------------------------------------------------------
(* Simplification (snode_optimize.go). *)

RECURSIVE Simplify(_)

\* Arguments that are calls of the same function, in their place.
Flat(fn, args) == FlattenSeq(MapSeq(LAMBDA a : IF IsNode(a, fn) THEN a.args ELSE <<a>>, args))
Numbers(args) == SelectSeq(args, IsNumber)
Dynamic(args) == SelectSeq(args, LAMBDA a : ~IsNumber(a))
SumOf(fn, args) == FoldLeft(LAMBDA t, a : IF fn \in {"Multiply", "Divide"} THEN t * a.v ELSE t + a.v,
                            IF fn \in {"Multiply", "Divide"} THEN 1 ELSE 0, Numbers(args))
\* The numbers among them as one, in front, if it matters.
Gathered(fn, args) ==
  IF SumOf(fn, args) = SumOf(fn, <<>>) THEN Dynamic(args) ELSE <<Number(SumOf(fn, args))>> \o Dynamic(args)

SimplifyCommutative(fn, args) ==
  CASE Dynamic(args) = <<>> -> Number(SumOf(fn, args))
    [] Dynamic(args) # <<>> /\ fn = "Multiply" /\ SumOf(fn, args) = 0 -> Execute(Append(Dynamic(args), Zero))
    [] OTHER -> IF Len(Gathered(fn, args)) = 1 THEN Gathered(fn, args)[1] ELSE Node(fn, Gathered(fn, args))

FlatHead(fn, args) == IF IsNode(args[1], fn) THEN args[1].args \o Tail(args) ELSE args
SimplifyNonCommutative(fn, args) ==
  IF Gathered(fn, Tail(args)) = <<>> THEN args[1] ELSE Node(fn, <<args[1]>> \o Gathered(fn, Tail(args)))

\* Base plus index times stride.
IsShift(x) == IsNode(x, "Add") /\ Len(x.args) = 2 /\ IsNode(x.args[2], "Multiply") /\ Len(x.args[2].args) = 2
ShiftOf(x) == <<x.args[1], x.args[2].args[1], x.args[2].args[2]>>

\* Where base, index and stride of args[2..4] need no shift: {the offset}.
Unshifted(args) ==
  CASE ~IsNumber(args[3]) \/ ~IsNumber(args[4]) -> {}
    [] IsNumber(args[3]) /\ IsNumber(args[4]) /\ IsNumber(args[2]) -> {Number(args[2].v + args[3].v * args[4].v)}
    [] OTHER -> IF IsZero(args[3]) /\ IsZero(args[4]) THEN {args[2]} ELSE {}

SimplifyGet(args) ==
  IF IsShift(args[2]) THEN Simplify(Node("GetShifted", <<args[1]>> \o ShiftOf(args[2]))) ELSE Node("Get", args)
SimplifyGetShifted(args) ==
  IF Unshifted(args) = {} THEN Node("GetShifted", args)
  ELSE Simplify(Node("Get", <<args[1], CHOOSE x \in Unshifted(args) : TRUE>>))

\* Nodes that certainly have one value: numbers, and reads of one place.
RECURSIVE Equivalent(_, _)
Equivalent(a, b) ==
  IF IsNumber(a) \/ IsNumber(b) THEN a = b
  ELSE /\ a.fn = b.fn /\ a.fn \in {"Get", "GetShifted"} /\ Len(a.args) = Len(b.args)
       /\ \A i \in DOMAIN a.args : Equivalent(a.args[i], b.args[i])

\* Operand i of the value is what the place holds.
HasOwnValue(fn, address, value, i) ==
  /\ IsNode(value.args[i], IF fn = "Set" THEN "Get" ELSE "GetShifted")
  /\ Len(value.args[i].args) = Len(address)
  /\ \A k \in DOMAIN address : Equivalent(value.args[i].args[k], address[k])
EitherOperand(fn, address, value, i) == HasOwnValue(fn, address, value, i) \* mutant: of a difference too
OwnOperand(fn, address, value, i) ==
  /\ HasOwnValue(fn, address, value, i)
  /\ i = 1 \/ value.fn \in {"Add", "Multiply"}

CompoundSet ==
  [Set |-> [Add |-> "SetAdd", Subtract |-> "SetSubtract", Multiply |-> "SetMultiply", Divide |-> "SetDivide"],
   SetShifted |-> [Add |-> "SetAddShifted", Subtract |-> "SetSubtractShifted",
                   Multiply |-> "SetMultiplyShifted", Divide |-> "SetDivideShifted"]]

Compound(fn, args) ==
  LET address == Front(args)
      value == Last(args)
      Own(i) == OwnOperand(fn, address, value, i)
      To(i) == Node(CompoundSet[fn][value.fn], Append(address, value.args[3 - i]))
  IN IF IsNumber(value) THEN Node(fn, args)
     ELSE IF value.fn \notin DOMAIN CompoundSet[fn] \/ Len(value.args) # 2 THEN Node(fn, args)
     ELSE IF Own(1) THEN To(1) ELSE IF Own(2) THEN To(2) ELSE Node(fn, args)

SimplifySet(args) ==
  IF IsShift(args[2]) THEN Simplify(Node("SetShifted", <<args[1]>> \o ShiftOf(args[2]) \o <<args[3]>>))
  ELSE Compound("Set", args)
SimplifySetShifted(args) ==
  IF Unshifted(args) = {} THEN Compound("SetShifted", args)
  ELSE Simplify(Node("Set", <<args[1], CHOOSE x \in Unshifted(args) : TRUE, args[5]>>))

\* An integer switch over x - n, as one over x with n more cases in front.
PadIntegerSwitch(fn, args) ==
  LET index == args[1]
      default == fn = "SwitchIntegerWithDefault"
      count == Len(args) - (IF default THEN 2 ELSE 1)
      fallback == IF default THEN Last(args) ELSE Zero
  IN IF /\ IsNode(index, "Subtract") /\ Len(index.args) = 2
        /\ IsNumber(index.args[2]) /\ index.args[2].v \in 1..8 /\ index.args[2].v <= count
     THEN Node(fn, <<index.args[1]>> \o [i \in 1..index.args[2].v |-> fallback] \o Tail(args))
     ELSE Node(fn, args)

\* Cases in even steps from the first.
Steps(tests) == \A i \in DOMAIN tests : tests[i] = tests[1] + (tests[2] - tests[1]) * (i - 1)

SimplifySwitch(args) ==
  LET cases == SubSeq(args, 2, Len(args) - 1)
      tests == [i \in 1..Len(cases) \div 2 |-> cases[2 * i - 1].v]
      results == [i \in 1..Len(cases) \div 2 |-> cases[2 * i]]
      index == Simplify(Node("Divide", <<Node("Subtract", <<args[1], Number(tests[1])>>), Number(tests[2] - tests[1])>>))
  IN CASE Len(tests) = 0 -> Node("SwitchWithDefault", args)
       [] Len(tests) >= 2 /\ Steps(tests) ->
            IF IsZero(Last(args)) THEN PadIntegerSwitch("SwitchInteger", <<index>> \o results)
            ELSE PadIntegerSwitch("SwitchIntegerWithDefault", <<index>> \o results \o <<Last(args)>>)
       [] OTHER -> IF IsZero(Last(args)) THEN Node("Switch", Front(args)) ELSE Node("SwitchWithDefault", args)

SimplifyCall(fn, args) ==
  CASE fn \in {"Add", "Multiply"} -> SimplifyCommutative(fn, Flat(fn, args))
    [] fn \in {"Subtract", "Divide"} -> SimplifyNonCommutative(fn, FlatHead(fn, args))
    [] fn = "Get" -> SimplifyGet(args)
    [] fn = "GetShifted" -> SimplifyGetShifted(args)
    [] fn = "Set" -> SimplifySet(args)
    [] fn = "SetShifted" -> SimplifySetShifted(args)
    [] fn = "If" /\ IsZero(args[3]) -> Simplify(Node("And", <<args[1], args[2]>>))
    [] fn = "SwitchWithDefault" -> SimplifySwitch(args)
    [] fn \in {"SwitchInteger", "SwitchIntegerWithDefault"} -> PadIntegerSwitch(fn, args)
    [] OTHER -> Node(fn, args)
Simplify(x) == IF IsNumber(x) THEN x ELSE SimplifyCall(x.fn, MapSeq(Simplify, x.args))

---------------------------------------------------------------------------
(* The list of a mode (snode.go, backend.go). *)

\* A constant a callback is left out for: without it the engine does the same.
Omitted(callback, node) ==
  /\ IsNumber(node)
  /\ callback = "shouldSpawn" => node.v # 0
  /\ callback \in {"spawnOrder", "spawnTime", "despawnTime", "updateSpawn"} => node.v = 0

\* list with node and all below it: [list, index].
RECURSIVE AppendNode(_, _)
AppendShared(list, entry) ==
  IF entry \in Range(list) THEN [list |-> list, index |-> CHOOSE i \in DOMAIN list : list[i] = entry]
  ELSE [list |-> Append(list, entry), index |-> Len(list) + 1]
RECURSIVE AppendArgs(_, _)
AppendArgs(acc, args) ==
  LET Then(added) == [list |-> added.list, indexes |-> Append(acc.indexes, added.index)]
  IN IF Len(acc.indexes) = Len(args) THEN acc
     ELSE AppendArgs(Then(AppendNode(acc.list, args[Len(acc.indexes) + 1])), args)
AppendNode(list, node) ==
  LET args == AppendArgs([list |-> list, indexes |-> <<>>], node.args)
  IN IF IsNumber(node) THEN AppendShared(list, node) ELSE AppendShared(args.list, Node(node.fn, args.indexes))
=============================================================================
