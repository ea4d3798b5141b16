----------------------------- MODULE Simulator -----------------------------
(***************************************************************************)
(* The executor of node lists, which tests and comparisons of optimization *)
(* levels run compiled callbacks with (internal/simexec/execute.go):       *)
(* control nodes evaluate the arguments they need, a Break unwinds to a    *)
(* Block, all other functions evaluate all arguments and then act on       *)
(* memory, draw or have an effect.                                         *)
(*                                                                         *)
(* A number is a set: {n}, or {} if it is NaN; n is whole, or stands for a *)
(* fraction (Quotient) or an infinity.  A result is [s, v, breaks]: the    *)
(* machine, the value and how many Blocks are still to be left.  Words     *)
(* written outside the temporary memory are shown, which is how two        *)
(* executions are compared; what Random draws is on a tape.                *)
(***************************************************************************)
EXTENDS Nodes, Execution

CONSTANT StepLimit  \* most nodes an execution evaluates

Yield(s, v) == [s |-> s, v |-> v, breaks |-> 0]
Stopped(r) == r.breaks > 0 \/ r.s.status # "running"
Fails(s) == Yield(Stop(s, "error"), {0})

---------------------------------------------------------------------------
(* Numbers. *)

Infinity == 1000000000
Infinite(n) == n \in {Infinity, -Infinity}
SignOf(n) == IF n > 0 THEN 1 ELSE IF n < 0 THEN -1 ELSE 0
Integral(v) == v # {} /\ Value(v) \in -65535..65535

Plus(x, y) ==
  IF Infinite(x) THEN IF y = -x THEN {} ELSE {x}
  ELSE IF Infinite(y) THEN {y} ELSE {x + y}
Times(x, y) ==
  IF ~Infinite(x) /\ ~Infinite(y) THEN {x * y}
  ELSE IF 0 \in {x, y} THEN {} ELSE {SignOf(x) * SignOf(y) * Infinity}
Over(x, y) ==
  IF y = 0 THEN IF x = 0 THEN {} ELSE {SignOf(x) * Infinity}
  ELSE IF Infinite(y) THEN IF Infinite(x) THEN {} ELSE {0}
  ELSE IF Infinite(x) THEN {SignOf(x) * SignOf(y) * Infinity} ELSE {Quotient(x, y)}

Arithmetics == {"Add", "Subtract", "Multiply", "Divide"}
Calculated(op, x, y) ==
  CASE op = "Add" -> Plus(x, y)
    [] op = "Subtract" -> Plus(x, -y)
    [] op = "Multiply" -> Times(x, y)
    [] op = "Divide" -> Over(x, y)
Arithmetic(op, x, y) == IF {} \in {x, y} THEN {} ELSE Calculated(op, Value(x), Value(y))
Reduce(op, a) == IF a = <<>> THEN {0} ELSE FoldLeft(LAMBDA x, y : Arithmetic(op, x, y), Head(a), Tail(a))

\* NaN is not equal to itself, and neither more nor less than anything.
Comparisons == {"Equal", "NotEqual", "Less", "LessOr", "Greater", "GreaterOr"}
Compares(op, x, y) ==
  CASE op = "Equal" -> x = y
    [] op = "NotEqual" -> x # y
    [] op = "Less" -> x < y
    [] op = "LessOr" -> x <= y
    [] op = "Greater" -> x > y
    [] op = "GreaterOr" -> x >= y
Comparison(op, x, y) ==
  IF {} \in {x, y} THEN op = "NotEqual" ELSE Compares(op, Value(x), Value(y))

---------------------------------------------------------------------------
(* Memory: the words of every block, as many as were written. *)

WordsOf(s, block) == IF block \in DOMAIN s.memory THEN s.memory[block] ELSE <<>>
ReadWord(s, block, index) ==
  IF index < Len(WordsOf(s, block)) THEN WordsOf(s, block)[index + 1] ELSE {0}
\* A write behind the last word puts zeros in between.
WriteWord(s, block, index, v) ==
  LET words == WordsOf(s, block)
      longer == words \o [i \in 1..index + 1 - Len(words) |-> {0}]
  IN [s EXCEPT !.memory = (block :> [longer EXCEPT ![index + 1] = v]) @@ @]

\* A NaN as others see it.
NaN == 999999999
Seen(v) == IF v = {} THEN NaN ELSE Value(v)
MachineWrite(s, block, index, v) ==
  IF block = TemporaryMemory THEN WriteWord(s, block, index, v)
  ELSE Show(WriteWord(s, block, index, v), <<"set", index, Seen(v)>>)

Plain == {"Get", "Set", "SetAdd", "SetSubtract", "SetMultiply", "SetDivide"}
ShiftedForms == {"GetShifted", "SetShifted", "SetAddShifted", "SetSubtractShifted", "SetMultiplyShifted", "SetDivideShifted"}
AddressLength(fn) == IF fn \in Plain THEN 2 ELSE IF fn \in ShiftedForms THEN 4 ELSE 0

\* The index of an address, offset plus index times stride if it is shifted.
IndexOf(fn, a) == IF fn \in Plain THEN Value(a[2]) ELSE Value(a[2]) + Value(a[3]) * Value(a[4])
\* All of it are integers, offset and index not negative, the sum in range.
AddressValid(fn, a) ==
  /\ \A i \in 1..AddressLength(fn) : Integral(a[i])
  /\ Value(a[2]) >= 0
  /\ fn \in ShiftedForms => Value(a[3]) >= 0
  /\ IndexOf(fn, a) \in 0..65535

\* The operation of a compound assignment.
AssignedBy ==
  [SetAdd |-> "Add", SetSubtract |-> "Subtract", SetMultiply |-> "Multiply", SetDivide |-> "Divide",
   SetAddShifted |-> "Add", SetSubtractShifted |-> "Subtract", SetMultiplyShifted |-> "Multiply",
   SetDivideShifted |-> "Divide"]

Access(s, fn, block, index, v) ==
  LET held == ReadWord(s, block, index)
      Put(x) == Yield(MachineWrite(s, block, index, x), x)
  IN CASE fn \in {"Get", "GetShifted"} -> Yield(s, held)
       [] fn \in {"Set", "SetShifted"} -> Put(v)
       [] OTHER -> Put(Arithmetic(AssignedBy[fn], held, v))

---------------------------------------------------------------------------
(* Functions. *)

\* The numbers of arguments a function takes.
ArityFits(fn, n) ==
  CASE fn \in Arithmetics \cup {"Execute", "And", "Or"} -> TRUE
    [] fn \in {"If", "Set", "SetAdd", "SetSubtract", "SetMultiply", "SetDivide"} -> n = 3
    [] fn \in {"Break", "Get", "Random"} \cup Comparisons -> n = 2
    [] fn \in {"Block", "Not", "Negate", "DebugLog"} -> n = 1
    [] fn = "Switch" -> n >= 1 /\ n % 2 = 1
    [] fn = "SwitchWithDefault" -> n >= 2 /\ n % 2 = 0
    [] fn \in {"SwitchInteger", "JumpLoop"} -> n >= 1
    [] fn = "SwitchIntegerWithDefault" -> n >= 2
    [] fn = "GetShifted" -> n = 4
    [] fn \in ShiftedForms \ {"GetShifted"} -> n = 5

\* What is no function of the machine is handed to the host, as an effect.
Builtin(s, fn, a) ==
  CASE AddressLength(fn) > 0 ->
         IF AddressValid(fn, a) THEN Access(s, fn, Value(a[1]), IndexOf(fn, a), Last(a)) ELSE Fails(s)
    [] fn \in Arithmetics -> Yield(s, Reduce(fn, a))
    [] fn \in Comparisons -> Yield(s, Truth(Comparison(fn, a[1], a[2])))
    [] fn = "Not" -> Yield(s, Truth(a[1] \in {{0}, {}}))
    [] fn = "Negate" -> Yield(s, Arithmetic("Subtract", {0}, a[1]))
    [] fn = "Random" -> Yield(Draw(s), IF s.tape = <<>> THEN {} ELSE {Head(s.tape)})
    [] fn = "DebugLog" -> Yield(Show(s, <<"log", Seen(a[1])>>), {0})

---------------------------------------------------------------------------
(* Control. *)

RECURSIVE EvalNode(_, _, _)

\* Nodes one after the other, up to one that breaks; their values.
RECURSIVE EvalFrom(_, _, _)
EvalFrom(nodes, acc, args) ==
  LET Then(r) == [s |-> r.s, v |-> r.v, breaks |-> r.breaks, values |-> Append(acc.values, r.v)]
  IN IF Stopped(acc) \/ args = <<>> THEN acc
     ELSE EvalFrom(nodes, Then(EvalNode(nodes, acc.s, Head(args))), Tail(args))
EvalAll(nodes, s, args) == EvalFrom(nodes, [s |-> s, v |-> {0}, breaks |-> 0, values |-> <<>>], args)

\* The argument at a place, after what r says.
Chosen(nodes, r, args, place) == IF Stopped(r) THEN r ELSE EvalNode(nodes, r.s, args[place])

\* All but zero is true, NaN too.
EvalIf(nodes, s, args) ==
  LET cond == EvalNode(nodes, s, args[1])
  IN Chosen(nodes, cond, args, IF cond.v # {0} THEN 2 ELSE 3)

\* One argument after the other, up to one that decides; the value is its own.
RECURSIVE EvalLogical(_, _, _, _)
EvalLogical(nodes, r, args, decides) ==
  IF Stopped(r) \/ args = <<>> THEN r
  ELSE LET next == EvalNode(nodes, r.s, Head(args))
       IN IF ~Stopped(next) /\ (next.v # {0}) = decides THEN next ELSE EvalLogical(nodes, next, Tail(args), decides)
EvalAnd(nodes, s, args) == EvalLogical(nodes, Yield(s, {0}), args, FALSE)
EvalOr(nodes, s, args) == EvalLogical(nodes, Yield(s, {0}), args, TRUE)

\* The argument an integer chooses, the default or 0 otherwise.
EvalSwitchInteger(nodes, s, args, default) ==
  LET r == EvalNode(nodes, s, args[1])
      count == Len(args) - (IF default THEN 2 ELSE 1)
      hit == Integral(r.v) /\ Value(r.v) \in 0..count - 1
  IN IF ~Stopped(r) /\ ~hit /\ ~default THEN Yield(r.s, {0})
     ELSE Chosen(nodes, r, args, IF hit THEN Value(r.v) + 2 ELSE Len(args))

\* The keys are evaluated in order up to the one that is equal.
RECURSIVE TryKeys(_, _, _, _, _)
TryKeys(nodes, s, v, args, default) ==
  LET key == EvalNode(nodes, s, args[1])
  IN CASE args = <<>> -> Yield(s, {0})
       [] args # <<>> /\ default /\ Len(args) = 1 -> key
       [] OTHER -> IF Stopped(key) THEN key
                   ELSE IF Comparison("Equal", key.v, v) THEN EvalNode(nodes, key.s, args[2])
                   ELSE TryKeys(nodes, key.s, v, SubSeq(args, 3, Len(args)), default)
EvalSwitch(nodes, s, args, default) ==
  LET r == EvalNode(nodes, s, args[1])
  IN IF Stopped(r) THEN r ELSE TryKeys(nodes, r.s, r.v, Tail(args), default)

\* Blocks, each yielding which is next, up to the last one.
RECURSIVE JumpLoop(_, _, _)
JumpLoop(nodes, r, args) ==
  LET last == Len(args) - 1
  IN CASE Stopped(r) -> r
       [] ~Stopped(r) /\ (~Integral(r.v) \/ Value(r.v) \notin 0..last) -> Fails(r.s)
       [] ~Stopped(r) /\ r.v = {last} -> EvalNode(nodes, r.s, Last(args))
       [] OTHER -> JumpLoop(nodes, EvalNode(nodes, r.s, args[Value(r.v) + 1]), args)

LeaveBlock(r) == IF r.breaks > 0 THEN [r EXCEPT !.breaks = @ - 1] ELSE r

EvalBreak(nodes, s, args) ==
  LET count == EvalNode(nodes, s, args[1])
      r == EvalNode(nodes, count.s, args[2])
  IN IF Stopped(count) THEN count
     ELSE IF ~Integral(count.v) \/ Value(count.v) < 1 THEN Fails(count.s)
     ELSE IF Stopped(r) THEN r ELSE [r EXCEPT !.breaks = Value(count.v)]

EvalCall(nodes, s, fn, args) ==
  CASE fn = "Execute" -> EvalAll(nodes, s, args)
    [] fn = "If" -> EvalIf(nodes, s, args)
    [] fn = "And" -> EvalAnd(nodes, s, args)
    [] fn = "Or" -> EvalOr(nodes, s, args)
    [] fn = "SwitchInteger" -> EvalSwitchInteger(nodes, s, args, FALSE)
    [] fn = "SwitchIntegerWithDefault" -> EvalSwitchInteger(nodes, s, args, TRUE)
    [] fn = "Switch" -> EvalSwitch(nodes, s, args, FALSE)
    [] fn = "SwitchWithDefault" -> EvalSwitch(nodes, s, args, TRUE)
    [] fn = "JumpLoop" -> JumpLoop(nodes, Yield(s, {0}), args)
    [] fn = "Block" -> LeaveBlock(EvalNode(nodes, s, args[1]))
    [] fn = "Break" -> EvalBreak(nodes, s, args)
    [] OTHER -> LET r == EvalAll(nodes, s, args) IN IF Stopped(r) THEN r ELSE Builtin(r.s, fn, r.values)

\* Every node counts as a step, and one too many ends the execution.
EvalNode(nodes, s, index) ==
  LET node == nodes[index]
      counted == [s EXCEPT !.steps = @ + 1]
  IN IF index \notin DOMAIN nodes THEN Fails(s)
     ELSE IF s.steps = StepLimit THEN Yield(Stop(counted, "step limit"), {0})
     ELSE IF IsNumber(node) THEN Yield(counted, {node.v})
     ELSE IF ArityFits(node.fn, Len(node.args)) THEN EvalCall(nodes, counted, node.fn, node.args)
     ELSE Fails(counted)

\* The read-only memory of the engine, as Execution has it.
RomWords == [i \in 1..TableStart |-> {RomValue}] \o MapSeq(LAMBDA v : {v}, ConstantTable["table"])

\* The execution of the node at root on a tape, as Run says it of a function.
Simulate(nodes, root, tape) ==
  LET start == [memory |-> (MemoryBlock["EngineRom"] :> RomWords), shown |-> <<>>, tape |-> tape,
                steps |-> 0, status |-> "running"]
      end == EvalNode(nodes, start, root)
  IN CASE end.s.status = "step limit" -> [shown |-> end.s.shown, status |-> "running"]
       [] end.s.status = "running" ->
            [shown |-> Append(end.s.shown, <<"return", end.v>>), status |-> "returned"]
       [] OTHER -> [shown |-> end.s.shown, status |-> end.s.status]
=============================================================================
