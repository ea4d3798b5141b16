------------------------------ MODULE Lowering ------------------------------
(***************************************************************************)
(* Expressions, calls and statements of a Go callback, lowered one after   *)
(* the other (internal/compiler/frontend/lower.go).  Lower takes a lowerer *)
(* and a node of the syntax tree; what it made of an expression is s.v.    *)
(***************************************************************************)
EXTENDS LoweringValues

RECURSIVE Lower(_, _)
\* What cannot be reached is left out, up to the next label.
Stmts(s, body) ==
  Iterate(LAMBDA t, n : IF ~IsOpen(t) /\ n.n # "labeled" THEN t ELSE Lower(t, n), s, body)

---------------------------------------------------------------------------
(* Deferred calls. *)

\* The call register: what is called and with what.
Inline(s, call, f, args) == Lower([s EXCEPT !.callee = f, !.args = args], [call EXCEPT !.n = "inline"])

\* Those whose flag is set, the last first.
RunDeferred(s, call, invoke) ==
  SetCurrent(JumpIfOpen(Inline(SetCurrent(Terminate(NewBlocks(s, 2), Branch(call.active.slots[1], invoke, invoke + 1)), invoke),
                               call.node, call.f, call.args), invoke + 1), invoke + 1)
\* The mistake of running them in their order.
RunsDeferredInOrder(s) ==
  Iterate(LAMBDA t, call : IF call.f.op = "none" THEN t ELSE RunDeferred(t, call, NextBlock(t)), s, Top(s).defers)
RunDeferredCalls(s) ==
  Iterate(LAMBDA t, call : IF call.f.op = "none" THEN t ELSE RunDeferred(t, call, NextBlock(t)), s, Reverse(Top(s).defers))

---------------------------------------------------------------------------
(* Expressions. *)

\* What was lowered last, evaluated now.
Settled(s) == Lower(s, Plain("settle", "", NoType, <<>>))
StoreReturned(s, result) == StoreAt(s, result, s.v.slots)
\* Several expressions from left to right: [s, vs], each evaluated at once;
\* a function is known and is not evaluated.
ArgumentFor(s, e) == IF e.type.kind # "func" THEN Settled(s) ELSE IF s.v.k = "func" THEN s ELSE Fail(s)
AddArgument(vs, s) == [s |-> s, vs |-> Append(vs, s.v)]
Arguments(s, es) ==
  Iterate(LAMBDA t, e : AddArgument(t.vs, ArgumentFor(Lower(t.s, e), e)), [s |-> s, vs |-> <<>>], es)
SlotsOfAll(vs) == FlatMap(LAMBDA v : v.slots, vs)

LowerIdent(s, n) == IF Holding(s, n.x) = {} THEN Fail(s) ELSE Give(s, Lookup(s, n.x))
LowerLiteral(s, n) == Give(s, CallableValue(Callable("literal", n.x, CaptureBindings(s))))

LowerDeref(s, n) ==
  LET p == Lower(s, n.parts[1])
  IN CASE p.v.k = "pointer" -> LoadPointer(p, p.v)
       [] p.v.k = "address" -> IF p.v.places = <<>> THEN Give(TerminateRuntime(p), Zeros(n.type))
                               ELSE Give(p, [p.v EXCEPT !.k = "slots", !.type = n.type])
       [] OTHER -> Fail(p)

LowerAddress(s, n) ==
  LET of == Lower(s, n.parts[1])
      placed == MaterializeAddressable(of, of.v)
      frozen == FreezePointerValue(placed, placed.v)
  IN CASE of.v.load.variant # 0 -> AddressPointerLoad(of, of.v.load, n.type)
       [] of.v.load.variant = 0 /\ placed.v.places = <<>> -> Fail(placed)
       [] OTHER -> Give(frozen, [frozen.v EXCEPT !.k = "address", !.type = n.type])

LowerUnary(s, n) ==
  LET of == Lower(s, n.parts[1])
  IN IF Len(of.v.slots) # 1 THEN Fail(of)
     ELSE Give(of, Scalar(of.v.type, Call(IF n.x = "-" THEN "Negate" ELSE "Not", of.v.slots)))

BinaryRuntime(op) ==
  CASE op = "+" -> "Add" [] op = "-" -> "Subtract" [] op = "*" -> "Multiply" [] op = "/" -> "Divide" [] op = "%" -> "Rem"
    [] op = "==" -> "Equal" [] op = "!=" -> "NotEqual" [] op = "<" -> "Less" [] op = "<=" -> "LessOr"
    [] op = ">" -> "Greater" [] op = ">=" -> "GreaterOr"
FoldBinaryConstants(op, a, b) == IF op \in {"/", "%"} /\ b = 0 THEN {} ELSE EvaluateRuntime(BinaryRuntime(op), <<a, b>>)
RequireIntegerDivisor(s, op, divisor) ==
  IF op \in {"/", "%"} THEN GuardWith(s, Call("NotEqual", <<divisor, Const(0)>>), TRUE) ELSE s
Calculated(op, a, b) ==
  LET e == Call(BinaryRuntime(op), <<a, b>>) IN IF op = "/" THEN Call("Trunc", <<e>>) ELSE e

LowerScalars(s, n, a, b) ==
  LET x == a.slots[1]
      y == b.slots[1]
      folded == IF IsConst(x) /\ IsConst(y) THEN FoldBinaryConstants(n.x, x.v, y.v) ELSE {}
  IN IF folded # {} THEN Give(s, Scalar(n.type, Const(CHOOSE v \in folded : TRUE)))
     ELSE Give(RequireIntegerDivisor(s, n.x, y), Scalar(n.type, Calculated(n.x, x, y)))

\* The left operand has its value before the right one is evaluated.
LowerBinary(s, n) ==
  LET left == Settled(Lower(s, n.parts[1]))
      right == Settled(Lower(left, n.parts[2]))
      a == left.v
      b == right.v
      equality == n.x \in {"==", "!="}
      Is(e) == Give(right, Scalar(Boolean, IF n.x = "==" THEN e ELSE Call("Not", <<e>>)))
      Nil(v) == v.k = "address" /\ v.places = <<>>
      NoTag(v) == Call("Equal", <<Tag(right, v.id), Const(-1)>>)
      Same(e, i) == Call("And", <<e, Call("Equal", <<a.slots[i], b.slots[i]>>)>>)
  IN CASE equality /\ a.k = "interface" /\ Nil(b) -> Is(NoTag(a))
       [] equality /\ b.k = "interface" /\ Nil(a) -> Is(NoTag(b))
       [] equality /\ IsPointer(a) /\ IsPointer(b) -> Is(PointerEqual(right, a, b))
       [] Len(a.slots) = 1 /\ Len(b.slots) = 1 -> LowerScalars(right, n, a, b)
       [] equality /\ Len(a.slots) = Len(b.slots) /\ Len(a.slots) # 1 /\ ~(IsPointer(a) /\ IsPointer(b))
            /\ ~(a.k = "interface" /\ Nil(b)) /\ ~(b.k = "interface" /\ Nil(a)) ->
            Is(Iterate(Same, Const(1), [i \in DOMAIN a.slots |-> i]))
       [] OTHER -> Fail(right)

\* The right operand in a block of its own.
\* The right operand in a block of its own, then the short way and the end.
LongWay(s, n, result, end) ==
  JumpIfOpen(StoreReturned(Lower([s EXCEPT !.dynamic = @ + 1], n.parts[2]), result), end)
ShortWay(s, result, value, right) ==
  SetCurrent(JumpIfOpen(StoreAt(SetCurrent(s, right + 1), result, value.slots), right + 2), right)
Ways(s, n, result, right) ==
  LET first == IF n.x = "&&" THEN right ELSE right + 1
      split == Branch(s.v.slots[1], first, 2 * right + 1 - first)
  IN LongWay(ShortWay(Terminate(NewBlocks(s, 3), split), result, s.v, right), n, result, right + 2)
Joined(s, result, end, dynamic) == Give([SetCurrent(s, end) EXCEPT !.dynamic = dynamic], result)
FromLeft(s, n, result) == Joined(Ways(s, n, result, NextBlock(s)), result, NextBlock(s) + 2, s.dynamic)
ShortWith(s, n) == FromLeft(Settled(Lower(s, n.parts[1])), n, s.v)
ShortCircuit(s, n) ==
  IF n.parts[1].n # "const" THEN ShortWith(Alloc(s, Boolean), n)
  ELSE IF (n.parts[1].v = 1) = (n.x = "&&") THEN Lower(s, n.parts[2])
  ELSE Give(s, Scalar(Boolean, Const(n.parts[1].v)))

CellOf(s, array, index) ==
  Give(NewVariant(s, "func", index, array.of), VariantValue("func", Function, Len(s.variants) + 1))
FunctionAt(s, array, index) ==
  IF ~IsConst(index.slots[1]) THEN CellOf(Guard(s, InBounds(index.slots[1], Len(array.of))), array, index)
  ELSE IF index.slots[1].v \notin 0..Len(array.of) - 1 THEN Fail(s) ELSE Give(s, array.of[index.slots[1].v + 1])
FunctionAtLowered(s, array) == FunctionAt(s, array, s.v)
IndexFunctions(s, array) == FunctionAtLowered(Settled(s), array)

PartOf(array, elem, first) ==
  [array EXCEPT !.type = elem, !.slots = SubSeq(@, first + 1, first + elem.slots),
                !.places = SubSeq(@, first + 1, first + elem.slots),
                !.load.offset = @ + first, !.load.size = elem.slots]
ElementPlace(s, array, elem, index, n) == Give(s, Stored(elem, DynamicArrayPlaces(s, array.places[1], index, n, elem.slots)))
ElementOf(s, index, type) == ElementPlace(Guard(s, InBounds(index, type.n)), s.v, Elem(type), index, type.n)
ElementAt(s, array) == ElementOf(MaterializeAddressable(s, array), s.v.slots[1], array.type)
IndexArray(s, array) ==
  LET c == s.v.slots[1]
      elem == Elem(array.type)
  IN CASE IsConst(c) -> IF c.v \in 0..array.type.n - 1 THEN Give(s, PartOf(array, elem, c.v * elem.slots)) ELSE Fail(s)
       [] ~IsConst(c) /\ array.load.variant # 0 -> LoadPointerArrayIndex(s, array.load, array.type, s.v)
       [] OTHER -> ElementAt(Settled(s), array)

IndexWith(s, base) ==
  CASE base.k = "funcs" -> IndexFunctions(s, base)
    [] base.k = "pointer" -> LoadPointerIndex(s, base, s.v)
    [] base.k = "address" -> IndexArray(s, [base EXCEPT !.k = "slots", !.type = Elem(@)])
    [] OTHER -> IndexArray(s, base)
IndexInto(s, n) == IndexWith(Lower(s, n.parts[2]), s.v)
LowerIndex(s, n) == IndexInto(Lower(s, n.parts[1]), n)

LowerComposite(s, n) ==
  LET array == NewCallableArray(s, n.type)
      Element(t, i) ==
        LET f == Lower(t, n.parts[i])
        IN IF n.parts[i].n = "nil" THEN t ELSE StoreCallableCell(f, array.v.of[i].f.id, f.v)
      values == Arguments(s, n.parts)
      slots == SlotsOfAll(values.vs)
  IN IF n.type.name = "funcs" THEN Give(Iterate(Element, array, [i \in DOMAIN n.parts |-> i]), array.v)
     ELSE Give(values.s, Slotted(n.type, slots \o SubSeq(Zeros(n.type).slots, Len(slots) + 1, n.type.slots)))

LowerNew(s, n) ==
  LET new == AllocZeroed(s, Elem(n.type))
  IN IF new.v.places = <<>> THEN Fail(new) ELSE Give(new, Address(n.type, new.v.places))

\* A call of the runtime with a result keeps it in a local.
RuntimeCall(s, n) ==
  LET args == Arguments(s, n.parts)
      call == Call(n.x, SlotsOfAll(args.vs))
      result == Alloc(args.s, n.type)
  IN IF n.type.slots = 0 THEN Give(Emit(args.s, EvalOf(call)), Void)
     ELSE Give(StoreSlots(result, result.v.places, <<call>>), result.v)

\* A conversion to an interface keeps the concrete type.
LowerConvert(s, n) ==
  LET of == Lower(s, n.parts[1])
  IN CASE n.type.kind = "interface" -> of
       [] n.type.kind # "interface" /\ Len(of.v.slots) # n.type.slots /\ ~IsPointer(of.v) -> Fail(of)
       [] OTHER -> Give(of, [of.v EXCEPT !.type = n.type])
\* Does a value of a type have the type asked for?
Fits(type, target) == target.kind = "interface" \/ type = target

\* An interface holds one of the types that fit: [s, value, ok].
FittingTag(s, v, target) ==
  FoldLeft(LAMBDA e, i : IF Fits(Alternatives(s, v)[i].type, target)
                         THEN Call("Or", <<e, Call("Equal", <<Tag(s, v.id), Const(i - 1)>>)>>) ELSE e,
           Const(0), [i \in DOMAIN Alternatives(s, v) |-> i])
Take(s, alt, target, result, ok) ==
  IF Fits(alt.type, target) THEN StoreSlots(StoreDescriptor(s, result, alt), ok.places, <<Const(1)>>) ELSE s
TakeOne(s, v, target, result, ok) ==
  [s |-> Dispatch(s, Tag(s, v.id), Len(Alternatives(s, v)),
                  LAMBDA t, i : Take(t, Alternatives(s, v)[i], target, result, ok), Dead),
   value |-> result, ok |-> ok]
AssertInto(s, v, target, result, commaOk) ==
  TakeOne(IF commaOk THEN s ELSE GuardWith(s, FittingTag(s, v, target), TRUE), v, target, result, s.v)
AssertWith(s, v, target, commaOk) == AssertInto(AllocZeroed(s, Boolean), v, target, s.v, commaOk)
InterfaceAssertion(s, v, target, commaOk) == AssertWith(NewDescriptorCell(s, target), v, target, commaOk)
\* A concrete type fits or does not.
AssertConcrete(s, v, target, commaOk) ==
  CASE Fits(v.type, target) -> [s |-> s, value |-> [v EXCEPT !.type = target], ok |-> Scalar(Boolean, Const(1))]
    [] ~Fits(v.type, target) -> [s |-> IF commaOk THEN s ELSE Fail(s), value |-> Zeros(target), ok |-> Scalar(Boolean, Const(0))]
AssertValue(s, target, commaOk) ==
  IF s.v.k = "interface" THEN InterfaceAssertion(s, s.v, target, commaOk) ELSE AssertConcrete(s, s.v, target, commaOk)
Asserted(s, n, commaOk) == AssertValue(Lower(s, n.parts[1]), n.type, commaOk)
ValueOf(asserted) == Give(asserted.s, asserted.value)
LowerAssert(s, n) == ValueOf(Asserted(s, n, FALSE))

---------------------------------------------------------------------------
(* Calls: the body stands where the call is. *)

TakeResult(s) == [s EXCEPT !.frames[Len(s.frames)].result = s.v]
FrameResult(s, type) ==
  TakeResult(CASE type.kind = "func" -> Give(s, CallableValue(NoCallable))
               [] type.name = "funcs" -> NewCallableArray(s, type)
               [] OTHER -> NewDescriptorCell(s, type))
PrepareFrame(s, body) ==
  PrepareDeferredCalls(PrepareGotoTargets([NewBlocks(s, 1) EXCEPT !.frames[Len(s.frames)].ret = NextBlock(s)], body), body)
\* The end of a body: every return comes here, then the deferred calls.
ReturnFrom(s, ret) == RunDeferredCalls(SetCurrent(JumpIfOpen(s, ret), ret))

MaxInlineCalls == 256
Fingerprint(args) == [known |-> \A v \in Range(args) : v.k # "func" /\ \A e \in Range(v.slots) : IsConst(e), slots |-> SlotsOfAll(args)]

\* An active function is expanded again only with constants not met before.
EnterFrame(s, decl, captures, here) ==
  [BeginInlineLocalScope(s) EXCEPT !.frames = Append(@, NewFrame(captures, Usage(decl.body))), !.active = @ \cup {here}]
PrepareCall(s, call, f, decl) ==
  IF f.op = "literal" THEN FrameResult(PrepareFrame(s, decl.body), call.type) ELSE PrepareFrame(FrameResult(s, call.type), decl.body)
BindCall(s, f, decl, args) == BindNamedResults(BindParameters(s, decl.params, args), f.op = "literal", decl.results)
RunBody(s, decl) == ReturnFrom(Stmts(s, decl.body), Top(s).ret)
LeaveFrame(s, here) ==
  Give([EndInlineLocalScope(s, Top(s).result) EXCEPT !.frames = Front(@), !.active = @ \ {here}], Top(s).result)
InlineAs(s, call, f, decl, captures, args, here) ==
  LeaveFrame(RunBody(BindCall(PrepareCall(EnterFrame(s, decl, captures, here), call, f, decl), f, decl, args), decl), here)
InlineBody(s, call, f, decl, captures, args) ==
  LET key == [op |-> f.op, x |-> f.x, id |-> f.id, args |-> <<>>]
      here == IF key \in s.active THEN [key EXCEPT !.args = <<Fingerprint(args).slots>>] ELSE key
  IN IF Len(s.frames) > MaxInlineCalls \/ (key \in s.active /\ (~Fingerprint(args).known \/ here \in s.active)) THEN Fail(s)
     ELSE InlineAs(s, call, f, decl, captures, args, here)

InlineLiteral(s, call, f, args) ==
  LET node == s.literals[f.x]
  IN InlineBody(s, call, f, FuncDecl(node.names[1], node.names[2], node.bodies[1]), f.vars, args)
InlineFunction(s, call, f, args) == InlineBody(s, call, f, s.program.funcs[f.x], <<>>, args)
\* The receiver is the first parameter and stands for its argument.
InlineMethod(s, call, f, args) ==
  LET decl == s.program.methods[f.id].f
      receiver == [args[1] EXCEPT !.type = decl.params[1].type]
  IN InlineBody(s, call, f, [decl EXCEPT !.params = Tail(@)], With(<<>>, decl.params[1].name, receiver), Tail(args))

\* One of several functions; none ends the callback.
CallOneOf(s, call, f, args, result) ==
  Give(Dispatch(s, Tag(s, f.id), Len(Alternatives(s, f)),
                LAMBDA t, i : StoreReturned(Inline(t, call, Alternatives(s, f)[i].f, args), result), Dead), result)
CallWithResult(s, call, f, args) == CallOneOf(s, call, f, args, s.v)
InlineCallableAlternatives(s, call, f, args) ==
  CASE call.type.kind \in {"func", "pointer"} -> Fail(s)
    [] call.type.kind \notin {"func", "pointer"} /\ Alternatives(s, f) = <<>> -> Give(TerminateRuntime(s), Zeros(call.type))
    [] OTHER -> CallWithResult(AllocZeroed(GuardWith(s, InBounds(Tag(s, f.id), Len(Alternatives(s, f))), TRUE), call.type),
                               call, f, args)

\* Targets of break and continue; a switch has none of its own for continue.
Entered(s, label, break, continue) ==
  [s EXCEPT !.labels = IF label = "" THEN @ ELSE With(@, label, [break |-> break, continue |-> continue]),
            !.breaks = Append(@, break),
            !.continues = IF continue = 0 THEN @ ELSE Append(@, continue)]
Exited(s, before) == [s EXCEPT !.labels = before.labels, !.breaks = before.breaks, !.continues = before.continues]
\* Statements that need not run.
Dynamic(s, body) == [Stmts([s EXCEPT !.dynamic = @ + 1], body) EXCEPT !.dynamic = s.dynamic]

\* The variables of an iteration.
AssignRangeValue(s, name, v) ==
  CASE v.k = "func" -> Bind(s, name.name, v)
    [] IsPointer(v) -> BindLowered(CopyPointerValue(s, v), name.name)
    [] OTHER -> BindLowered(AllocWith(s, name.type, v.slots), name.name)

\* The body of a range over a function stands where the function yields.
YieldResult(s, active, result, first, outer) ==
  LET Yields(t, v) == JumpIfOpen(StoreAt(t, result, <<Const(v)>>), first + 2)
      Over(t) == [Exited(t, outer) EXCEPT !.redirects = outer.redirects]
      Stopped(t) == StoreAt(SetCurrent(t, first + 1), active, <<Const(0)>>)
  IN Give(SetCurrent(Yields(Stopped(Yields(SetCurrent(Over(JumpIfOpen(s, first)), first), 1)), 0), first + 2), result)
\* The blocks of the next iteration and of the end of the range, then on.
YieldBody(s, f, body, first, outer) ==
  YieldResult(Dynamic([Entered(NewBlocks(s, 3), f.label, first + 1, first) EXCEPT
                         !.redirects = Append(@, [owner |-> f.id, depth |-> Len(s.frames)])], body),
              f.vars.active, s.v, first, outer)
YieldInto(s, f, body, outer) == YieldBody(s, f, body, NextBlock(s), outer)
InlineRangeYield(s, f, args) ==
  LET names == s.literals[f.x].names
  IN IF Len(args) # Len(names) THEN Fail(s)
     ELSE YieldInto(Alloc(Iterate(LAMBDA t, i : AssignRangeValue(t, names[i], args[i]),
                                  Guard(s, f.vars.active.slots[1]), [i \in DOMAIN names |-> i]), Boolean),
                    f, s.literals[f.x].bodies[1], s)

InlineCallable(s, call) ==
  LET f == s.callee
  IN CASE f.op = "cell" -> InlineCallableAlternatives(s, call, f, s.args)
       [] f.op = "yield" -> InlineRangeYield(s, f, s.args)
       [] f.op = "literal" -> InlineLiteral(s, call, f, s.args)
       [] f.op = "function" -> InlineFunction(s, call, f, s.args)
       [] f.op = "method" -> InlineMethod(s, call, f, s.args)
       [] f.op = "none" -> Fail(s)

\* The function first, then the arguments.
InlineWith(all, n, f) == Inline(all.s, n, f, all.vs)
CallWith(s, n) == IF s.v.k # "func" THEN Fail(s) ELSE InlineWith(Arguments(s, Tail(n.parts)), n, s.v.f)
LowerCall(s, n) == CallWith(Lower(s, n.parts[1]), n)

\* A pointer type has the methods of what it points to.
MethodSet(s, type, name) ==
  {i \in DOMAIN s.program.methods :
     s.program.methods[i].name = name /\ s.program.methods[i].type \in {type} \cup (IF type.kind = "pointer" THEN {Elem(type)} ELSE {})}
MethodOf(s, type, name) == [NoCallable EXCEPT !.op = "method", !.id = CHOOSE i \in MethodSet(s, type, name) : TRUE]

\* A receiver is addressed, or copied, as the method declares it.
ReceiverAddress(s, declared) == Give(s, [s.v EXCEPT !.k = "address", !.type = declared])
ReceiverCopy(s, declared) == AllocWith(s, declared, s.v.slots)
ReceiverFor(s, declared) ==
  CASE declared.kind = "pointer" -> IF IsPointer(s.v) THEN s ELSE ReceiverAddress(MaterializeAddressable(s, s.v), declared)
    [] OTHER -> ReceiverCopy(IF s.v.k = "pointer" THEN LoadPointer(s, s.v) ELSE s, declared)
CallReceiver(s, e, declared) == ReceiverFor(Lower(s, e), declared)

StoreReturnedAs(s, result) == StoreDescriptor(s, result, s.v)
CallMethodOf(s, n, receiver, args, result) ==
  IF MethodSet(s, receiver.type, n.x) = {} THEN Fail(s)
  ELSE StoreReturnedAs(Inline(s, n, MethodOf(s, receiver.type, n.x), <<receiver>> \o args), result)
CallMethods(s, n, v, args, result) ==
  Give(Dispatch(s, Tag(s, v.id), Len(Alternatives(s, v)),
                LAMBDA t, i : CallMethodOf(t, n, Alternatives(s, v)[i], args, result), TerminateRuntime), result)
MethodResult(s, n, v, args) == CallMethods(s, n, v, args, s.v)
InlineInterfaceMethod(s, n, v, args) ==
  IF Alternatives(s, v) = <<>> THEN Fail(s) ELSE MethodResult(NewDescriptorCell(s, n.type), n, v, args)

CallOn(all, n, receiver) ==
  CASE receiver.k = "interface" -> InlineInterfaceMethod(all.s, n, receiver, all.vs)
    [] receiver.k # "interface" ->
         Inline(all.s, n, MethodOf(all.s, IF n.parts[1].type.kind = "interface" THEN receiver.type ELSE n.parts[1].type, n.x),
                <<receiver>> \o all.vs)
CallWithReceiver(s, n) == CallOn(Arguments(s, Tail(n.parts)), n, s.v)
LowerMethod(s, n) ==
  LET e == n.parts[1]
  IN CallWithReceiver(IF e.type.kind = "interface" THEN Settled(Lower(s, e))
                      ELSE CallReceiver(s, e, s.program.methods[MethodOf(s, e.type, n.x).id].f.params[1].type), n)

---------------------------------------------------------------------------
(* Assignments. *)

EnsureStored(s, e) ==
  IF s.v.places # <<>> \/ e.n # "ident" \/ s.v.slots = <<>> THEN s ELSE RebindLowered(AllocWith(s, e.type, s.v.slots), e.x)
EnsureAssignable(s, e) == EnsureStored(Lower(s, e), e)

LowerDeclare(s, name) ==
  LET type == name.type
  IN BindLowered(CASE type.kind = "interface" -> NewInterfaceValue(s)
                   [] type.kind = "func" -> NewCallableCell(s, CallableValue(NoCallable))
                   [] type.name = "funcs" -> NewCallableArray(s, type)
                   [] type.kind = "pointer" -> CopyPointerValue(s, Address(type, <<>>))
                   [] OTHER -> AllocZeroed(s, type), name.name)

\* x op= e reads x when both operands are known.
UpdateWith(s, op, v) ==
  IF Len(v.slots) # 1 \/ Len(s.v.slots) # 1 THEN Fail(s)
  ELSE StoreValue(RequireIntegerDivisor(s, op, s.v.slots[1]), v, Scalar(v.type, Calculated(op, v.slots[1], s.v.slots[1])))
UpdateTo(s, n) == UpdateWith(Settled(Lower(s, n.parts[2])), n.x, s.v)
LowerUpdate(s, n) == UpdateTo(EnsureAssignable(s, n.parts[1]), n)

AssignArray(s, source) == StoreCallableArray(s, s.v, source)
AssignFunctionsFrom(s, n) ==
  CASE s.v.k # "funcs" -> Fail(s)
    [] s.v.k = "funcs" /\ n.n = "define" -> BindLowered(CopyCallableArray(s, s.v), n.names[1].name)
    [] s.v.k = "funcs" /\ n.n = "assign" -> AssignArray(Lower(s, n.parts[1]), s.v)
AssignFunctions(s, n) == AssignFunctionsFrom(Lower(s, Last(n.parts)), n)

AssignElement(s, array, index) == StoreCallableArrayElement(s, array, index, s.v)
AssignAt(s, array, source) == AssignElement(Lower(s, source), array, s.v)
AssignIn(s, dst, source) == AssignAt(Lower(s, dst.parts[2]), s.v, source)
AssignTo(s, x) == IF Lookup(s, x).f.op # "cell" THEN Fail(s) ELSE StoreCallableCell(s, Lookup(s, x).f.id, s.v)
BindFunction(s, x) == BindLowered(CallableBinding(s, x, s.v), x)
AssignFunction(s, n) ==
  LET dst == n.parts[1]
  IN CASE n.n = "define" -> BindFunction(Lower(s, Last(n.parts)), n.names[1].name)
       [] n.n = "assign" /\ dst.n = "index" -> AssignIn(Lower(s, dst.parts[1]), dst, n.parts[2])
       [] n.n = "assign" /\ dst.n # "index" -> AssignTo(Lower(s, Last(n.parts)), dst.x)

\* The values of an assignment to count targets: [s, vs].
TupleValues(v) ==
  MapSeq(LAMBDA i : LET before == SlotsOf(SubSeq(v.type.of, 1, i - 1))
                    IN Slotted(v.type.of[i], SubSeq(v.slots, before + 1, before + v.type.of[i].slots)),
         [i \in DOMAIN v.type.of |-> i])
OneValue(s) == [s |-> s, vs |-> <<s.v>>]
ValueAndOk(s, ok) == [s |-> s, vs |-> <<s.v, ok>>]
CommaOk(asserted) == ValueAndOk(Settled(ValueOf(asserted)), asserted.ok)
Several(s) == [s |-> s, vs |-> TupleValues(s.v)]
AssignedValues(s, es, count) ==
  CASE count = 1 -> OneValue(Lower(s, es[1]))
    [] count = 2 /\ Len(es) = 1 /\ es[1].n = "assert" -> CommaOk(Asserted(s, es[1], TRUE))
    [] count > 1 /\ Len(es) = 1 /\ ~(count = 2 /\ es[1].n = "assert") -> Several(Settled(Lower(s, es[1])))
    [] OTHER -> Arguments(s, es)

\* New variables first, then what is stored in them.
DefineVariable(s, name, v) ==
  IF name.name = "_" THEN s
  ELSE BindLowered(CASE "interface" \in {name.type.kind, v.k} -> CopyInterfaceValue(s, v)
                     [] "interface" \notin {name.type.kind, v.k} /\ IsPointer(v) -> CopyPointerValue(s, [v EXCEPT !.type = name.type])
                     [] OTHER -> Alloc(s, name.type), name.name)
StoreDefined(s, v, slots) == IF v.k # "slots" THEN s ELSE StoreAt(s, v, slots)
DefineAll(all, names) ==
  LET Stores(s) == Iterate(LAMBDA t, i : IF names[i].name = "_" THEN t
                                         ELSE StoreDefined(t, Lookup(t, names[i].name), all.vs[i].slots), s, [i \in DOMAIN names |-> i])
  IN IF Len(all.vs) # Len(names) THEN Fail(all.s)
     ELSE Stores(Iterate(LAMBDA t, i : DefineVariable(t, names[i], all.vs[i]), all.s, [i \in DOMAIN names |-> i]))
LowerDefine(s, names, es) == DefineAll(AssignedValues(s, es, Len(names)), names)

AssignPointer(s, x, v, existing) ==
  CASE ~IsPointer(existing) -> Fail(s)
    [] existing.k = v.k /\ (IF v.k = "pointer" THEN v.id = existing.id ELSE s.dynamic # 0 /\ v.places = existing.places) -> s
    [] existing.k = "address" /\ s.dynamic = 0 -> RebindLowered(CopyPointerValue(s, v), x)
    [] OTHER -> RebindLowered(MergePointerValue(s, existing, v), x)
AssignInterface(s, x, v) ==
  RebindLowered(IF Lookup(s, x).k = "interface" THEN StoreInterfaceValue(s, Lookup(s, x), v) ELSE CopyInterfaceValue(s, v), x)
StoreLowered(s, v) == StoreValue(s, s.v, v)
AssignVariable(s, e, v) ==
  CASE e.x = "_" -> s
    [] e.x # "_" /\ e.type.kind = "interface" -> AssignInterface(s, e.x, v)
    [] e.x # "_" /\ e.type.kind # "interface" /\ IsPointer(v) -> AssignPointer(s, e.x, v, Lookup(s, e.x))
    [] OTHER -> StoreLowered(EnsureAssignable(s, e), v)

\* Destinations that are not variables are evaluated before the values, and
\* everything is stored from left to right.
AddPlace(t, s) == [s |-> s, vs |-> Append(t.vs, s.v)]
DestinationPlaces(s, dsts) ==
  Iterate(LAMBDA t, e : IF e.n = "ident" THEN [t EXCEPT !.vs = Append(@, Void)] ELSE AddPlace(t, Lower(t.s, e)),
          [s |-> s, vs |-> <<>>], dsts)
StoreOne(s, dst, place, v) ==
  CASE dst.n = "ident" -> AssignVariable(s, dst, v)
    [] dst.n # "ident" /\ (v.k # "slots" \/ place.places = <<>>) -> Fail(s)
    [] OTHER -> StoreValue(s, place, v)
StoreAll(values, dsts, places) ==
  IF Len(values.vs) # Len(dsts) THEN Fail(values.s)
  ELSE Iterate(LAMBDA t, i : StoreOne(t, dsts[i], places[i], values.vs[i]), values.s, [i \in DOMAIN dsts |-> i])
AssignAll(places, dsts, es) == StoreAll(AssignedValues(places.s, es, Len(dsts)), dsts, places.vs)
LowerAssign(s, dsts, es) == AssignAll(DestinationPlaces(s, dsts), dsts, es)

LowerAssignment(s, n) ==
  LET first == IF n.n = "define" THEN n.names[1].type ELSE n.parts[1].type
      single == IF n.n = "define" THEN Len(n.names) = 1 ELSE n.v = 1
  IN CASE single /\ first.name = "funcs" -> AssignFunctions(s, n)
       [] single /\ first.kind = "func" -> AssignFunction(s, n)
       [] OTHER -> IF n.n = "define" THEN LowerDefine(s, n.names, n.parts)
                   ELSE LowerAssign(s, SubSeq(n.parts, 1, n.v), SubSeq(n.parts, n.v + 1, Len(n.parts)))

---------------------------------------------------------------------------
(* Control. *)

LowerIf(s, n) ==
  LET cond == Lower(s, n.parts[1])
      c == cond.v.slots[1]
      then == NextBlock(cond)  \* then else and the end
      split == Terminate(NewBlocks(cond, 3), Branch(c, then, then + 1))
      yes == JumpIfOpen(Dynamic(SetCurrent(split, then), n.bodies[1]), then + 2)
      no == JumpIfOpen(Dynamic(SetCurrent(yes, then + 1), n.bodies[2]), then + 2)
  IN CASE Len(cond.v.slots) # 1 -> Fail(cond)
       [] Len(cond.v.slots) = 1 /\ IsConst(c) -> Stmts(cond, n.bodies[IF c.v # 0 THEN 1 ELSE 2])
       [] OTHER -> SetCurrent(no, then + 2)

\* The body of a loop from its block, the block before the next iteration
\* and the way back; the loop ends in exit.
LoopBody(s, before, label, start, body, post) ==
  LET inside == Entered(SetCurrent(s, start), label, start + 2, start + 1)
      done == JumpIfOpen(Dynamic(inside, body), start + 1)
      again == JumpIfOpen(Dynamic(SetCurrent(done, start + 1), post), start - 1)
  IN SetCurrent(Exited(again, before), start + 2)

LowerFor(s, n, label) ==
  LET init == Stmts(s, n.bodies[2])
      cond == n.parts[1]
      header == NextBlock(init)  \* then body, post and exit
      begun == SetCurrent(JumpIfOpen(NewBlocks(init, 4), header), header)
      tested == Lower(begun, cond)
      entered == IF cond.n = "none" THEN JumpIfOpen(begun, header + 1)
                 ELSE Terminate(tested, Branch(tested.v.slots[1], header + 1, header + 3))
  IN IF cond.n = "const" /\ cond.v = 0 THEN init ELSE LoopBody(entered, init, label, header + 1, n.bodies[1], n.bodies[3])

\* The element of an array at the index of an iteration.
RangeElement(s, array, index) ==
  CASE array.k = "funcs" -> CellOf(s, array, index)
    [] array.k = "pointer" -> LoadPointerIndex(s, array, index)
    [] array.k = "address" -> ElementPlace(s, array, Elem(Elem(array.type)), index.slots[1], Elem(array.type).n)
    [] array.k = "slots" -> ElementPlace(s, array, Elem(array.type), index.slots[1], array.type.n)

\* A range over length numbers: an index local, and Element gives the
\* variables of an iteration their values.
Wants(n, k) == Len(n.names) >= k /\ n.names[k].name # "_"
AssignElementTo(s, name) == AssignRangeValue(s, name, s.v)
RangeValues(s, n, array, index) ==
  IF Wants(n, 2) THEN AssignElementTo(RangeElement(s, array, index), n.names[2]) ELSE s
RangeVariables(s, n, array, index) ==
  RangeValues(IF Wants(n, 1) THEN AssignRangeValue(s, n.names[1], index) ELSE s, n, array, index)
\* The header, then the body, the next iteration and the end.
RangeNext(s, index, header) ==
  JumpIfOpen(StoreAt(SetCurrent(JumpIfOpen(s, header + 2), header + 2), index, <<Call("Add", <<index.slots[1], Const(1)>>)>>), header)
RangeBody(s, n, label, array, index, header) ==
  RangeNext(Dynamic(Entered(RangeVariables(s, n, array, index), label, header + 3, header + 2), n.bodies[1]), index, header)
RangeFrom(s, n, label, length, array, index, header) ==
  LET test == Branch(Call("Less", <<index.slots[1], length>>), header + 1, header + 3)
      Test(t) == SetCurrent(Terminate(SetCurrent(JumpIfOpen(NewBlocks(t, 4), header), header), test), header + 1)
  IN RangeBody(Test(s), n, label, array, index, header)
RangeAt(s, n, label, length, array) == RangeFrom(s, n, label, length, array, s.v, NextBlock(s))
CountedRange(s, n, label, length, array) ==
  SetCurrent(Exited(RangeAt(AllocZeroed(s, Number), n, label, length, array), s), NextBlock(s) + 3)

IntegerRange(s, n, label) == IF Wants(n, 2) THEN Fail(s) ELSE CountedRange(s, n, label, s.v.slots[1], Void)

ArrayRange(s, n, label, type) == CountedRange(s, n, label, Const(type.n), s.v)
\* The elements are those the array has before the first iteration.
RangedArray(s, n) ==
  CASE ~Wants(n, 2) \/ IsPointer(s.v) -> s
    [] Wants(n, 2) /\ s.v.k = "funcs" -> CopyCallableArray(s, s.v)
    [] OTHER -> AllocWith(s, s.v.type, s.v.slots)

YieldTo(s, n, label, owner) == CallableValue([Callable("yield", n.x, [active |-> s.v]) EXCEPT !.id = owner, !.label = label])
Produce(s, n, label, producer) ==
  Inline(StoreAt(s, s.v, <<Const(1)>>), Plain("call", "", NoType, <<>>), producer, <<YieldTo(s, n, label, Len(s.frames))>>)
ProduceWith(s, n, label) == IF s.v.k # "func" THEN Fail(s) ELSE Produce(AllocZeroed(s, Boolean), n, label, s.v.f)
FunctionRange(s, n, label) == ProduceWith(Lower(s, n.parts[1]), n, label)

LowerRange(s, n, label) ==
  LET type == n.parts[1].type
      Over(t) == RangedArray(t, n)
  IN CASE type.kind = "func" -> FunctionRange(s, n, label)
       [] type.kind = "number" -> IntegerRange(Settled(Lower(s, n.parts[1])), n, label)
       [] OTHER -> ArrayRange(Over(Lower(s, n.parts[1])), n, label, IF type.kind = "pointer" THEN Elem(type) ELSE type)

\* The clause of a switch that is decided now: {its number}, {0} for none,
\* {} for one that is decided when it runs.
StaticSwitchClause(n) ==
  LET tag == n.parts[1]
      tests == FlatMap(LAMBDA i : MapSeq(LAMBDA j : [clause |-> i, e |-> n.parts[j]], n.names[i]), [i \in DOMAIN n.names |-> i])
      Hit(e) == e.v = IF tag.n = "none" THEN 1 ELSE tag.v
      stops == SelectSeq(tests, LAMBDA t : IF t.e.n = "const" THEN Hit(t.e) ELSE TRUE)
      default == {i \in DOMAIN n.names : n.names[i] = <<>>}
  IN CASE \E body \in Range(n.bodies) : body # <<>> /\ Last(body).n = "fallthrough" -> {}
       [] tag.n \notin {"const", "none"} -> {}
       [] stops # <<>> -> IF stops[1].e.n = "const" THEN {stops[1].clause} ELSE {}
       [] OTHER -> IF default = {} THEN {0} ELSE default

\* The clauses of a switch from their first block; a clause may fall through
\* to the next.
SwitchBodies(s, n, label, first, exit) ==
  LET Body(t, i) ==
        LET inside == [SetCurrent(t, first - 1 + i) EXCEPT !.falls = Append(@, IF i < Len(n.bodies) THEN first + i ELSE 0)]
        IN [JumpIfOpen(Dynamic(inside, n.bodies[i]), exit) EXCEPT !.falls = t.falls]
  IN SetCurrent(Exited(Iterate(Body, Entered(s, label, exit, 0), [i \in DOMAIN n.bodies |-> i]), s), exit)
DefaultBlock(n, first, exit) ==
  LET default == {i \in DOMAIN n.names : n.names[i] = <<>>}
  IN IF default = {} THEN exit ELSE first - 1 + CHOOSE i \in default : TRUE

\* All cases are constants: one switch.
ConstantSwitch(s, n, label) ==
  LET tag == Settled(Lower(s, n.parts[1]))
      exit == NextBlock(tag)
      cases == FlatMap(LAMBDA i : MapSeq(LAMBDA j : Case(n.parts[j].v, exit + i), n.names[i]), [i \in DOMAIN n.names |-> i])
      split == Terminate(NewBlocks(tag, 1 + Len(n.bodies)), Switch(tag.v.slots[1], cases, DefaultBlock(n, exit + 1, exit)))
  IN SwitchBodies(split, n, label, exit + 1, exit)
\* One case after the other.
DynamicSwitch(s, n, label) ==
  LET exit == NextBlock(s)
      blocks == NewBlocks(s, 1 + Len(n.bodies))
      tagged == n.parts[1].n # "none"
      tag == IF tagged THEN Settled(Lower(blocks, n.parts[1])) ELSE blocks
      Test(t, i) ==
        Iterate(LAMBDA u, j :
          LET case == Lower(u, n.parts[j])
              c == IF tagged THEN Call("Equal", <<tag.v.slots[1], case.v.slots[1]>>) ELSE case.v.slots[1]
              next == NextBlock(case)
          IN SetCurrent(Terminate(NewBlocks(case, 1), Branch(c, exit + i, next)), next), t, n.names[i])
      tested == Iterate(Test, tag, [i \in DOMAIN n.names |-> i])
  IN SwitchBodies(JumpIfOpen(tested, DefaultBlock(n, exit + 1, exit)), n, label, exit + 1, exit)
\* Only the clause that is known to be taken.
StaticSwitch(s, n, label, clause) ==
  LET exit == NextBlock(s)
      inside == Entered(NewBlocks(s, 1), label, exit, 0)
  IN IF clause = 0 THEN s ELSE SetCurrent(Exited(JumpIfOpen(Stmts(inside, n.bodies[clause]), exit), s), exit)
LowerSwitch(s, n, label) ==
  LET static == StaticSwitchClause(n)
      constant == n.parts[1].n # "none" /\ \A i \in 2..Len(n.parts) : n.parts[i].n = "const"
  IN CASE static # {} -> StaticSwitch(s, n, label, CHOOSE c \in static : TRUE)
       [] static = {} /\ constant -> ConstantSwitch(s, n, label)
       [] OTHER -> DynamicSwitch(s, n, label)

\* The clause for a concrete type; 0 if there is none.
TypeClause(n, type) ==
  LET fits == {i \in DOMAIN n.names : \E t \in Range(n.names[i]) : Fits(type, t)}
      default == {i \in DOMAIN n.names : n.names[i] = <<>>}
  IN IF fits # {} THEN CHOOSE i \in fits : \A j \in fits : i <= j
     ELSE IF default # {} THEN CHOOSE i \in default : TRUE ELSE 0
\* The variable of a clause is what the interface holds.
Selected(s, n, v) ==
  LET clause == TypeClause(n, v.type)
  IN IF clause = 0 THEN s ELSE Dynamic(IF n.x = "" THEN s ELSE Bind(s, n.x, v), n.bodies[clause])
LowerTypeSwitch(s, n, label) ==
  LET of == Lower(s, n.parts[1])
      variant == of.v.k = "interface"
      alts == Alternatives(of, of.v)
      exit == NextBlock(of)  \* then a block for none of them and their own
      inside == Entered(NewBlocks(of, IF variant THEN 2 + Len(alts) ELSE 1), label, exit, 0)
      split == Terminate(inside, Switch(Tag(of, of.v.id), [i \in DOMAIN alts |-> Case(i - 1, exit + 1 + i)], exit + 1))
      One(t, i) == JumpIfOpen(Selected(SetCurrent(t, exit + 1 + i), n, alts[i]), exit)
      all == Dead(SetCurrent(Iterate(One, split, [i \in DOMAIN alts |-> i]), exit + 1))
      known == [JumpIfOpen(Selected(inside, n, of.v), exit) EXCEPT !.dynamic = s.dynamic]
  IN IF ~variant /\ TypeClause(n, of.v.type) = 0 THEN of
     ELSE SetCurrent(Exited(IF variant THEN all ELSE known, of), exit)

\* Labels are those of the functions being expanded.
GotoTarget(s, label) ==
  LET owners == {i \in DOMAIN s.frames : label \in DOMAIN s.frames[i].gotos}
  IN IF owners = {} THEN 0 ELSE s.frames[CHOOSE i \in owners : \A j \in owners : j <= i].gotos[label]
LowerLabeled(s, n) ==
  LET target == GotoTarget(s, n.x)
      at == SetCurrent(JumpIfOpen(s, target), target)
      inner == n.bodies[1][1]
  IN CASE inner.n = "for" -> LowerFor(at, inner, n.x)
       [] inner.n = "range" -> LowerRange(at, inner, n.x)
       [] inner.n = "switch" -> LowerSwitch(at, inner, n.x)
       [] inner.n = "typeswitch" -> LowerTypeSwitch(at, inner, n.x)
       [] OTHER -> Lower(at, inner)
\* The block a branch statement goes to; 0 if there is none.
BranchTarget(s, n) ==
  LET Last_(blocks) == IF blocks = <<>> THEN 0 ELSE Last(blocks)
  IN CASE n.n = "goto" -> GotoTarget(s, n.x)
       [] n.n = "fallthrough" -> Last_(s.falls)
       [] n.n \in {"break", "continue"} /\ n.x # "" -> IF n.x \in DOMAIN s.labels THEN s.labels[n.x][n.n] ELSE 0
       [] n.n = "break" /\ n.x = "" -> Last_(s.breaks)
       [] n.n = "continue" /\ n.x = "" -> Last_(s.continues)
LowerBranch(s, n) == IF BranchTarget(s, n) = 0 THEN Fail(s) ELSE JumpIfOpen(s, BranchTarget(s, n))

\* The function and the arguments of a deferred call are known when it is
\* deferred; whether it is deferred is known at the end.
DeferHere(s, i, n) == {d \in DOMAIN s.frames[i].defers : s.frames[i].defers[d].id = n.x}
KeepDeferred(all, call, f, at, d) ==
  StoreAt([all.s EXCEPT !.frames[at].defers[d] = [@ EXCEPT !.f = f, !.args = all.vs, !.node = call]],
          all.s.frames[at].defers[d].active, <<Const(1)>>)
DeferWith(s, call, at, d) == KeepDeferred(Arguments(s, Tail(call.parts)), call, s.v.f, at, d)
DeferCallee(s, call, at, d) == IF s.v.k # "func" THEN Fail(s) ELSE DeferWith(NewCallableCell(s, s.v), call, at, d)
DeferIn(s, n, at, d) ==
  IF s.frames[at].defers[d].repeated \/ s.frames[at].hasGoto THEN Fail(s)
  ELSE DeferCallee(Lower(s, n.parts[1].parts[1]), n.parts[1], at, d)
LowerDefer(s, n) ==
  LET owners == {i \in DOMAIN s.frames : DeferHere(s, i, n) # {}}
  IN IF owners = {} THEN Fail(s) ELSE DeferIn(s, n, Max(owners), CHOOSE d \in DeferHere(s, Max(owners), n) : TRUE)

\* The frame a return ends: within a range over a function, the one the
\* range stands in.
ReturnFrame(s) ==
  IF s.redirects # <<>> /\ Last(s.redirects).depth = Len(s.frames) THEN Last(s.redirects).owner ELSE Len(s.frames)
ReturnFunction(s, at, source) ==
  LET Into(t) == StoreCallableCell([t EXCEPT !.frames[at].result = t.v], t.v.f.id, source)
  IN Into(IF s.frames[at].result.f.op = "none" THEN NewCallableCell(s, CallableValue(NoCallable)) ELSE Give(s, s.frames[at].result))
ReturnAt(s, at) == [s EXCEPT !.frames[at].result = s.v]
ReturnPointer(s, at, result) == IF IsPointer(s.v) THEN ReturnAt(MergePointerValue(s, result, s.v), at) ELSE Fail(s)
ReturnInterface(s, result) == StoreInterfaceValue(s, result, s.v)
ReturnArray(s, result) == StoreCallableArray(s, result, s.v)
ReturnSlots(values, result) == StoreAt(values.s, result, SlotsOfAll(values.vs))
ReturnOne(s, at, result) ==
  CASE result.k = "func" -> ReturnFunction(s, at, s.v)
    [] result.k = "interface" -> ReturnInterface(s, result)
    [] result.k = "funcs" -> ReturnArray(s, result)
    [] result.k = "pointer" -> ReturnPointer(s, at, result)
ReturnTo(s, n, at, result) ==
  JumpIfOpen(CASE n.parts = <<>> -> IF result.k \in {"func", "interface"} THEN Fail(s) ELSE s
               [] n.parts # <<>> /\ result.k = "slots" -> ReturnSlots(Arguments(s, n.parts), result)
               [] n.parts # <<>> /\ result.k # "slots" ->
                    IF Len(n.parts) # 1 THEN Fail(s) ELSE ReturnOne(Lower(s, n.parts[1]), at, result),
             s.frames[at].ret)
LowerReturn(s, n) == ReturnTo(s, n, ReturnFrame(s), s.frames[ReturnFrame(s)].result)

---------------------------------------------------------------------------
(* Every node, and a whole callback. *)

Lower(s, n) ==
  CASE n.n = "inline" -> InlineCallable(s, n)
    [] n.n = "settle" -> Materialize(s, s.v)
    [] n.n = "const" -> Give(s, Scalar(n.type, Const(n.v)))
    [] n.n = "ident" -> LowerIdent(s, n)
    [] n.n = "function" -> Give(s, CallableValue(Callable("function", n.x, <<>>)))
    [] n.n = "nil" -> Give(s, Address(n.type, <<>>))
    [] n.n = "literal" -> LowerLiteral(s, n)
    [] n.n = "deref" -> LowerDeref(s, n)
    [] n.n = "address" -> LowerAddress(s, n)
    [] n.n = "unary" -> LowerUnary(s, n)
    [] n.n = "binary" -> LowerBinary(s, n)
    [] n.n = "short" -> ShortCircuit(s, n)
    [] n.n = "index" -> LowerIndex(s, n)
    [] n.n = "composite" -> LowerComposite(s, n)
    [] n.n = "new" -> LowerNew(s, n)
    [] n.n = "runtime" -> RuntimeCall(s, n)
    [] n.n = "convert" -> LowerConvert(s, n)
    [] n.n = "assert" -> LowerAssert(s, n)
    [] n.n = "call" -> LowerCall(s, n)
    [] n.n = "method" -> LowerMethod(s, n)
    [] n.n = "do" -> Lower(s, n.parts[1])
    [] n.n = "block" -> Stmts(s, n.bodies[1])
    [] n.n = "declare" -> LowerDeclare(s, n.names[1])
    [] n.n = "update" -> LowerUpdate(s, n)
    [] n.n \in {"define", "assign"} -> LowerAssignment(s, n)
    [] n.n = "if" -> LowerIf(s, n)
    [] n.n = "for" -> LowerFor(s, n, "")
    [] n.n = "range" -> LowerRange(s, n, "")
    [] n.n = "switch" -> LowerSwitch(s, n, "")
    [] n.n = "typeswitch" -> LowerTypeSwitch(s, n, "")
    [] n.n = "labeled" -> LowerLabeled(s, n)
    [] n.n \in {"break", "continue", "goto", "fallthrough"} -> LowerBranch(s, n)
    [] n.n = "defer" -> LowerDefer(s, n)
    [] n.n = "return" -> LowerReturn(s, n)

NewLowerer(program, checks) ==
  [blocks |-> <<Block(<<>>, <<>>, Open)>>, cur |-> 1, locals |-> <<>>, pool |-> <<>>, scopes |-> <<>>,
   frames |-> <<NewFrame(<<>>, NoUse)>>, breaks |-> <<>>, continues |-> <<>>, labels |-> <<>>, falls |-> <<>>,
   redirects |-> <<>>, dynamic |-> 0, variants |-> <<>>, active |-> {}, failed |-> FALSE, checks |-> checks,
   v |-> Void, callee |-> NoCallable, args |-> <<>>, program |-> program, literals |-> LiteralsOf(program)]

\* The function of a callback that returns a number; failed if it is refused.
CallbackFrame(s, body) ==
  FrameResult([PrepareFrame(s, body) EXCEPT !.frames[1].use.callables = PrepareCallableMutability(body)], Number)
ReturnResult(s) == Terminate(s, Return(Top(s).result.slots))
Finished(s) ==
  [failed |-> s.failed, checks |-> s.checks,
   function |-> [entry |-> 1, blocks |-> s.blocks, locals |-> MapSeq(LAMBDA t : t.slots, s.locals), result |-> 1, allocated |-> FALSE]]
LowerCallback(program, checks) ==
  Finished(ReturnResult(RunBody(CallbackFrame(NewLowerer(program, checks), program.body), [body |-> program.body])))
=============================================================================
