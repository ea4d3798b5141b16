--------------------------- MODULE LoweringValues ---------------------------
(***************************************************************************)
(* The lowering of a Go callback to the intermediate code                  *)
(* (internal/compiler/frontend/lower.go): every call is expanded where it  *)
(* stands, and what Go decides at run time about pointers, functions and   *)
(* interfaces becomes a number, the tag, with a switch over the targets,   *)
(* functions or types found so far.                                        *)
(*                                                                         *)
(* A lowerer is a value s: the blocks and locals of the function built so  *)
(* far with the current block; the locals free for reuse and the scopes of *)
(* the calls being expanded with the locals of each; the frames of these   *)
(* calls; the targets of break, continue and fallthrough; the variants     *)
(* with their alternatives; s.v is the value of what was lowered last.     *)
(* A lowerer that met something it refuses has failed.                     *)
(*                                                                         *)
(* Left out: struct fields other than as elements, containers, entities,   *)
(* streams, values in memory, package state, generic functions, methods as *)
(* values, intrinsics but Random and DebugLog, positions and messages.     *)
(***************************************************************************)
EXTENDS IR, GoSyntax

---------------------------------------------------------------------------
(* Values.  One of slots has an expression for each and, where it is       *)
(* stored, their places; an address is a pointer whose target is known,    *)
(* nil if it has no places; a pointer, an interface and a cell of          *)
(* functions have a variant.                                               *)

NoLoad == [variant |-> 0, offset |-> 0, size |-> 0, indexed |-> FALSE, index |-> Const(0), length |-> 0, stride |-> 0]
NoCallable == [op |-> "none", x |-> "", vars |-> <<>>, id |-> 0, label |-> ""]
Void == [k |-> "void", type |-> NoType, slots |-> <<>>, places |-> <<>>, load |-> NoLoad, id |-> 0,
         f |-> NoCallable, of |-> <<>>]

Loads(places) == MapSeq(Load, places)
Slotted(type, slots) == [Void EXCEPT !.k = "slots", !.type = type, !.slots = slots]
Stored(type, places) == [Slotted(type, Loads(places)) EXCEPT !.places = places]
Scalar(type, e) == Slotted(type, <<e>>)
Address(type, places) == [Stored(type, places) EXCEPT !.k = "address"]
Callable(op, x, vars) == [NoCallable EXCEPT !.op = op, !.x = x, !.vars = vars]
CallableValue(f) == [Void EXCEPT !.k = "func", !.type = Function, !.f = f]
CallableArray(type, of) == [Void EXCEPT !.k = "funcs", !.type = type, !.of = of]
Zeros(type) == Slotted(type, [i \in 1..type.slots |-> Const(0)])
AllConstant(v) == v.slots # <<>> /\ \A e \in Range(v.slots) : IsConst(e)
IsPointer(v) == v.k \in {"address", "pointer"}

---------------------------------------------------------------------------
(* The function being built (ir/builder.go).                               *)

Open == [t |-> "open"]
Fail(s) == [s EXCEPT !.failed = TRUE]
Give(s, v) == [s EXCEPT !.v = v]

\* The number the next block will have, and the lowerer with n more blocks.
NextBlock(s) == Len(s.blocks) + 1
NewBlocks(s, n) == [s EXCEPT !.blocks = @ \o [i \in 1..n |-> Block(<<>>, <<>>, Open)]]
SetCurrent(s, b) == [s EXCEPT !.cur = b]
IsOpen(s) == s.blocks[s.cur].term.t = "open"

Emit(s, ins) == IF IsOpen(s) THEN [s EXCEPT !.blocks[s.cur].code = Append(@, ins)] ELSE Fail(s)
Terminate(s, t) == IF IsOpen(s) THEN [s EXCEPT !.blocks[s.cur].term = t] ELSE Fail(s)
JumpIfOpen(s, b) == IF IsOpen(s) THEN Terminate(s, Jump(b)) ELSE s

StoreSlots(s, places, slots) ==
  IF Len(places) # Len(slots) \/ (places # <<>> /\ ~IsOpen(s)) THEN Fail(s)
  ELSE [s EXCEPT !.blocks[s.cur].code = @ \o [i \in DOMAIN places |-> Store(places[i], slots[i])]]
StoreAt(s, v, slots) == StoreSlots(s, v.places, slots)

\* A local of the type: the one last released of it, or a new one.
Places(type, id) == [i \in 1..type.slots |-> Local(id, i - 1)]
Owned(s, type, id) ==
  Give([s EXCEPT !.scopes = IF @ = <<>> THEN @ ELSE [@ EXCEPT ![Len(@)] = Append(@, id)]], Stored(type, Places(type, id)))
Free(s, type) == {i \in DOMAIN s.pool : s.locals[s.pool[i]] = type}
Reuse(s, type, at) == Owned([s EXCEPT !.pool = RemoveAt(@, at)], type, s.pool[at])
Alloc(s, type) ==
  IF Free(s, type) # {} THEN Reuse(s, type, Max(Free(s, type)))
  ELSE Owned([s EXCEPT !.locals = Append(@, type)], type, Len(s.locals) + 1)

\* A local with these slots.
Stored_(s, slots) == StoreAt(s, s.v, slots)
AllocWith(s, type, slots) == Stored_(Alloc(s, type), slots)
AllocZeroed(s, type) == AllocWith(s, type, [i \in 1..type.slots |-> Const(0)])

BeginInlineLocalScope(s) == [s EXCEPT !.scopes = Append(@, <<>>)]

\* The locals an expression reads, or a place is in.
RECURSIVE LocalsOf(_)
LocalsOf(e) ==
  LET In(place) == IF place.p \in {"local", "indexed"} THEN {place.id} ELSE {}
  IN (IF e.e = "load" THEN In(e.place) ELSE {}) \cup UNION {LocalsOf(x) : x \in Range(Parts(e))}
CollectLocalIDs(v) == UNION {LocalsOf(e) : e \in Range(v.slots) \cup Range(Loads(v.places))}

\* The locals of the call that ends are free, but for those its result is in.
EndInlineLocalScope(s, result) ==
  LET kept == CollectLocalIDs(result)
  IN IF result.k \in {"func", "funcs", "pointer", "interface"} \/ result.of # <<>> \/ result.load.variant # 0
     THEN [s EXCEPT !.scopes = Front(@)]
     ELSE [s EXCEPT !.scopes = Front(@),
                    !.pool = @ \o SelectSeq(Distinct(Last(s.scopes)), LAMBDA id : id \notin kept)]

---------------------------------------------------------------------------
(* Run-time checks: "none" omits those that Go programs need not rely on,  *)
(* "notify" reports before the callback ends.                              *)

NotifyRuntime(s) ==
  IF s.checks = "notify" THEN Emit(Emit(s, EvalOf(Call("DebugLog", <<Const(0)>>))), EvalOf(Call("DebugPause", <<>>))) ELSE s
TerminateRuntime(s) == Terminate(NotifyRuntime(s), Unreachable)

\* Goes on in block valid, ends in the next one.
Guarded(s, condition, valid) ==
  SetCurrent(TerminateRuntime(SetCurrent(Terminate(NewBlocks(s, 2), Branch(condition, valid, valid + 1)), valid + 1)), valid)
GuardWith(s, condition, required) ==
  CASE IsConst(condition) -> IF condition.v # 0 THEN s ELSE Fail(s)
    [] ~IsConst(condition) /\ s.checks = "none" /\ ~required -> s
    [] OTHER -> Guarded(s, condition, NextBlock(s))
Guard(s, condition) == GuardWith(s, condition, FALSE)

InBounds(index, n) ==
  Call("And", <<Call("GreaterOr", <<index, Const(0)>>), Call("Less", <<index, Const(n)>>)>>)

---------------------------------------------------------------------------
(* Variants: what a tag chooses from.                                      *)

Tag(s, id) == s.variants[id].tag.slots[1]
Alternatives(s, v) == s.variants[v.id].alts
NewVariant(s, kind, tag, alts) == [s EXCEPT !.variants = Append(@, [kind |-> kind, tag |-> tag, alts |-> alts])]

\* The value of a variant.
VariantValue(kind, type, id) ==
  IF kind = "func" THEN CallableValue([NoCallable EXCEPT !.op = "cell", !.id = id])
  ELSE [Void EXCEPT !.k = kind, !.type = type, !.id = id]
\* A new variant of this kind, its tag at none of its alternatives.
WithTag(s, kind, type, tag) ==
  Give(NewVariant(StoreSlots(s, tag.places, <<Const(-1)>>), kind, tag, <<>>), VariantValue(kind, type, Len(s.variants) + 1))
NewFiniteVariantAt(s, kind, type) == WithTag(s, kind, type, s.v)
NewFiniteVariant(s, kind, type) == NewFiniteVariantAt(AllocZeroed(s, Number), kind, type)
SetTag(s, id, n) == StoreSlots(s, s.variants[id].tag.places, <<Const(n)>>)

\* Pointers are the same if they have the same places, functions if they
\* are the same with the same captures, payloads if they have the same type.
SameAlternative(kind, a, b) ==
  CASE kind = "pointer" -> a.places = b.places
    [] kind = "func" -> a.f = b.f
    [] kind = "interface" -> a.type = b.type
Matching(s, id, v) == {i \in DOMAIN s.variants[id].alts : SameAlternative(s.variants[id].kind, s.variants[id].alts[i], v)}
MaxAlternatives == 256
Add(s, id, v) ==
  IF Matching(s, id, v) # {} THEN s
  ELSE IF Len(s.variants[id].alts) >= MaxAlternatives THEN Fail(s)
  ELSE [s EXCEPT !.variants[id].alts = Append(@, v)]
\* The number of v among the alternatives of a variant.
Index(s, id, v) == CHOOSE i \in Matching(s, id, v) : TRUE

SetTo(s, id, v) == IF Matching(s, id, v) = {} THEN s ELSE SetTag(s, id, Index(s, id, v) - 1)
AddAndSet(s, id, v) == SetTo(Add(s, id, v), id, v)

\* A switch on a tag over n alternatives: blocks where they meet again, for
\* none of them, and for each, in which Arm is lowered.
Split(s, tag, n, merge) ==
  Terminate(NewBlocks(s, n + 2), Switch(tag, [i \in 1..n |-> Case(i - 1, merge + 1 + i)], merge + 1))
DispatchFrom(s, tag, n, merge, Arm(_, _), Default(_)) ==
  LET One(t, i) == JumpIfOpen(Arm(SetCurrent(t, merge + 1 + i), i), merge)
      Arms(t) == Iterate(One, t, [i \in 1..n |-> i])
  IN SetCurrent(JumpIfOpen(Default(SetCurrent(Arms(Split(s, tag, n, merge)), merge + 1)), merge), merge)
Dispatch(s, tag, n, Arm(_, _), Default(_)) == DispatchFrom(s, tag, n, NextBlock(s), Arm, Default)
Dead(s) == Terminate(s, Unreachable)

Materialized(s, v) ==
  IF v.slots = <<>> \/ v.type.kind = "pointer" \/ AllConstant(v) THEN Give(s, v)
  ELSE AllocWith(s, v.type, v.slots)

---------------------------------------------------------------------------
(* Cells of functions. *)

RECURSIVE StoreCallableCell(_, _, _)
StoreAlternatives(s, id, alts) ==
  IF alts = <<>> THEN SetTag(s, id, -1)
  ELSE Dispatch(s, s.v.slots[1], Len(alts), LAMBDA t, i : StoreCallableCell(t, id, alts[i]), Dead)
StoreCallableCell(s, id, source) ==
  CASE source.f.op = "none" \/ id = 0 -> Fail(s)
    [] source.f.op # "cell" /\ source.f.op # "none" /\ id # 0 -> AddAndSet(s, id, source)
    [] source.f.op = "cell" /\ id # 0 /\ source.f.id = id -> s
    [] source.f.op = "cell" /\ id # 0 /\ source.f.id # id ->
         StoreAlternatives(Materialized(s, s.variants[source.f.id].tag), id, Alternatives(s, source.f))

\* Keeping the value that s has: the cell a function is stored in.
StoreInCell(s, source) ==
  IF source.f.op = "none" THEN s ELSE Give(StoreCallableCell(s, s.v.f.id, source), s.v)
NewCallableCell(s, source) == StoreInCell(NewFiniteVariant(s, "func", Function), source)

AppendCell(s, of) == [s |-> s, of |-> Append(of, s.v)]
ArrayOfCells(all, type) == Give(all.s, CallableArray(type, all.of))
NewCallableArray(s, type) ==
  ArrayOfCells(Iterate(LAMBDA t, i : AppendCell(NewFiniteVariant(t.s, "func", Function), t.of),
                       [s |-> s, of |-> <<>>], [i \in 1..type.n |-> i]), type)
StoreCallableArray(s, array, source) ==
  Iterate(LAMBDA t, i : StoreCallableCell(t, array.of[i].f.id, source.of[i]), s, [i \in DOMAIN array.of |-> i])
CopyInto(s, source) == Give(StoreCallableArray(s, s.v, source), s.v)
CopyCallableArray(s, source) == CopyInto(NewCallableArray(s, source.type), source)

StoreCallableElement(s, array, i, source) ==
  Dispatch(Guard(s, InBounds(i, Len(array.of))), i, Len(array.of),
           LAMBDA t, n : StoreCallableCell(t, array.of[n].f.id, source), Dead)
StoreElementAt(s, array, source) == StoreCallableElement(s, array, s.v.slots[1], source)
StoreCallableArrayElement(s, array, index, source) ==
  IF ~IsConst(index.slots[1]) THEN StoreElementAt(Materialized(s, index), array, source)
  ELSE IF index.slots[1].v \notin 0..Len(array.of) - 1 THEN Fail(s)
  ELSE StoreCallableCell(s, array.of[index.slots[1].v + 1].f.id, source)

---------------------------------------------------------------------------
(* Pointers and interfaces. *)

\* A pointer variant takes what source points at.
MergeAlternatives(s, id, source) ==
  CASE source.k # "pointer" -> AddAndSet(s, id, source)
    [] source.k = "pointer" /\ source.id = id -> s
    [] source.k = "pointer" /\ source.id # id ->
         Dispatch(s, Tag(s, source.id), Len(Alternatives(s, source)),
                  LAMBDA t, i : AddAndSet(t, id, Alternatives(s, source)[i]), Dead)
MergeInto(s, source) == Give(MergeAlternatives(s, s.v.id, source), s.v)
BecomeVariant(s, address) == Give(AddAndSet(s, s.v.id, address), s.v)
\* The destination is a variant, or an address that becomes one.
MergePointerValue(s, destination, source) ==
  MergeInto(IF destination.k = "pointer" THEN Give(s, destination)
            ELSE BecomeVariant(NewFiniteVariant(s, "pointer", destination.type), destination),
            source)

CopyPointerValue(s, source) ==
  IF IsPointer(source) THEN MergeInto(NewFiniteVariant(s, "pointer", source.type), source) ELSE Fail(s)

NewInterfaceValue(s) == NewFiniteVariant(s, "interface", Interface)

NewDescriptorCell(s, type) ==
  CASE type.kind = "interface" -> NewInterfaceValue(s)
    [] type.kind = "pointer" -> NewFiniteVariant(s, "pointer", type)
    [] OTHER -> AllocZeroed(s, type)

\* A value with a type of its own becomes what an interface holds: it goes
\* to the cell of its type.
StorePayload(s, payload, v) ==
  IF IsPointer(v) THEN MergePointerValue(s, payload, v) ELSE StoreSlots(s, payload.places, v.slots)
StoreAs(s, id, i, v) == SetTag(StorePayload(s, s.variants[id].alts[i], v), id, i - 1)
StoreKnown(s, id, v) == IF Matching(s, id, v) = {} THEN Fail(s) ELSE StoreAs(s, id, Index(s, id, v), v)
AddPayload(s, id) == Add(s, id, s.v)
StoreConcrete(s, id, v) ==
  IF v.k \in {"func", "funcs", "void"} \/ v.type.kind = "none" THEN Fail(s)
  ELSE StoreKnown(IF Matching(s, id, v) # {} THEN s ELSE AddPayload(NewDescriptorCell(s, v.type), id), id, v)

SetNil(s, id) == SetTag(s, id, -1)
StoreAnInterface(s, id, source) ==
  IF source.k = "interface"
  THEN Dispatch(s, Tag(s, source.id), Len(Alternatives(s, source)),
                LAMBDA t, i : StoreConcrete(t, id, Alternatives(s, source)[i]), LAMBDA t : SetNil(t, id))
  ELSE IF source.k = "address" /\ source.type.kind = "none" THEN SetNil(s, id)
  ELSE StoreConcrete(s, id, source)
StoreInterfaceValue(s, destination, source) == Give(StoreAnInterface(s, destination.id, source), destination)
StoreInto(s, source) == StoreInterfaceValue(s, s.v, source)
CopyInterfaceValue(s, source) == StoreInto(NewInterfaceValue(s), source)

StoreDescriptor(s, destination, source) ==
  CASE "interface" \in {destination.k, source.k} -> StoreInterfaceValue(s, destination, source)
    [] "interface" \notin {destination.k, source.k} /\ destination.k = "pointer" ->
         IF IsPointer(source) THEN MergePointerValue(s, destination, source) ELSE Fail(s)
    [] OTHER -> StoreSlots(s, destination.places, source.slots)

\* Evaluated now: later changes of what it was read from do not change it.
Materialize(s, v) == IF v.k = "interface" THEN CopyInterfaceValue(s, v) ELSE Materialized(s, v)

MaterializeAddressable(s, v) ==
  IF v.slots = <<>> \/ Len(v.places) = Len(v.slots) THEN Give(s, v) ELSE AllocWith(s, v.type, v.slots)

\* The index a place is at is kept as it is now.
Moved(place, index) == [place EXCEPT !.index = index]
PlacedAt(v, i, place) == [v EXCEPT !.places[i] = place, !.slots[i] = Load(place)]
FrozenPlace(s, v, i) == Give(s, PlacedAt(v, i, Moved(v.places[i], s.v.slots[1])))
FreezePointerValue(s, v) ==
  Iterate(LAMBDA t, i : IF PlaceExprs(t.v.places[i]) = <<>> THEN t
                        ELSE FrozenPlace(Materialized(t, Scalar(Number, t.v.places[i].index)), t.v, i),
          Give(s, v), [i \in DOMAIN v.places |-> i])

\* Slot offset of the element at an index of the array that starts at base.
Scaled(e, n) == IF n = 1 THEN e ELSE Call("Multiply", <<e, Const(n)>>)
Summed(es) ==
  LET terms == SelectSeq(es, LAMBDA e : e # Const(0))
  IN IF terms = <<>> THEN Const(0) ELSE IF Len(terms) = 1 THEN terms[1] ELSE Call("Add", terms)
DynamicArrayPlace(s, base, index, length, stride, offset) ==
  CASE base.p = "local" -> Indexed(base.id, index, base.off, length, stride, offset)
    [] base.p = "indexed" ->
         Indexed(base.id, Summed(<<Scaled(base.index, base.stride), Scaled(index, stride), Const(base.off + offset)>>),
                 base.base, s.locals[base.id].slots - base.base, 1, 0)
DynamicArrayPlaces(s, base, index, length, stride) ==
  [slot \in 1..stride |-> DynamicArrayPlace(s, base, index, length, stride, slot - 1)]

\* What a load addresses in one of its targets; none if that is too small.
LoadedPlaces(s, load, target) ==
  IF load.indexed
  THEN IF load.offset + load.length * load.stride > Len(target) THEN <<>>
       ELSE DynamicArrayPlaces(s, target[load.offset + 1], load.index, load.length, load.stride)
  ELSE SubSeq(target, load.offset + 1, load.offset + load.size)

\* Code for every target a pointer may have.
ForEachTarget(s, id, Arm(_, _)) ==
  LET alts == s.variants[id].alts
  IN Dispatch(s, Tag(s, id), Len(alts),
              LAMBDA t, i : IF alts[i].places = <<>> THEN TerminateRuntime(t) ELSE Arm(t, alts[i].places), Dead)

StoreLoaded(s, load) ==
  ForEachTarget(s, load.variant, LAMBDA t, target : StoreSlots(t, LoadedPlaces(t, load, target), s.v.slots))
StorePointerLoad(s, load, src) ==
  IF Len(src.slots) # load.size THEN Fail(s) ELSE StoreLoaded(Materialized(s, src), load)

StoreValue(s, destination, source) ==
  IF destination.load.variant # 0 THEN StorePointerLoad(s, destination.load, source)
  ELSE StoreSlots(s, destination.places, source.slots)

\* The address of what a load reads: the targets of the variant moved.
TargetOf(s, load, type, alt) == IF alt.places = <<>> THEN alt ELSE Address(type, LoadedPlaces(s, load, alt.places))
AddressPointerLoad(s, load, type) ==
  Give(NewVariant(s, "pointer", s.variants[load.variant].tag,
                  MapSeq(LAMBDA alt : TargetOf(s, load, type, alt), s.variants[load.variant].alts)),
       VariantValue("pointer", type, Len(s.variants) + 1))

\* What a load reads, in a local of its own; a store to it goes to the target.
ReadLoad(s, load) ==
  Give(ForEachTarget(s, load.variant, LAMBDA t, target : StoreSlots(t, s.v.places, Loads(LoadedPlaces(t, load, target)))),
       [s.v EXCEPT !.load = load])
LoadThrough(s, load, type) == ReadLoad(AllocZeroed(s, type), load)
LoadPointer(s, v) ==
  LoadThrough(s, [NoLoad EXCEPT !.variant = v.id, !.size = Elem(v.type).slots], Elem(v.type))

\* An element of the array in what a load reads.
ElementLoad(load, array, i) ==
  [variant |-> load.variant, offset |-> load.offset, size |-> Elem(array).slots, indexed |-> TRUE,
   index |-> i, length |-> array.n, stride |-> Elem(array).slots]
LoadElement(s, load, array, i) == LoadThrough(Guard(s, InBounds(i, array.n)), ElementLoad(load, array, i), Elem(array))
LoadElementAt(s, load, array) == LoadElement(s, load, array, s.v.slots[1])
LoadPointerArrayIndex(s, load, array, index) == LoadElementAt(Materialize(s, index), load, array)
LoadPointerIndex(s, v, index) ==
  LoadPointerArrayIndex(s, [NoLoad EXCEPT !.variant = v.id], Elem(v.type), index)

\* True when both choose one of the pairs of targets that are the same.
PointerTargets(s, v) == IF v.k = "pointer" THEN Alternatives(s, v) ELSE <<v>>
IsChosen(s, v, i) == IF v.k = "pointer" THEN <<Call("Equal", <<Tag(s, v.id), Const(i - 1)>>)>> ELSE <<>>
AllOf(conditions) == FoldLeft(LAMBDA e, c : Call("And", <<e, c>>), Const(1), conditions)
SameTargets(as, bs) ==
  SelectSeq(FlattenSeq([i \in DOMAIN as |-> [j \in DOMAIN bs |-> <<i, j>>]]), LAMBDA p : as[p[1]].places = bs[p[2]].places)
PointerEqual(s, a, b) ==
  FoldLeft(LAMBDA e, p : Call("Or", <<e, AllOf(IsChosen(s, a, p[1]) \o IsChosen(s, b, p[2]))>>), Const(0),
           SameTargets(PointerTargets(s, a), PointerTargets(s, b)))

---------------------------------------------------------------------------
(* Frames and their variables. *)

Top(s) == Last(s.frames)
Holding(s, x) == {i \in DOMAIN s.frames : x \in DOMAIN s.frames[i].vars}
InnerMost(s, x) == CHOOSE i \in Holding(s, x) : \A j \in Holding(s, x) : j <= i
Lookup(s, x) == s.frames[InnerMost(s, x)].vars[x]
With(vars, x, v) == [y \in DOMAIN vars \cup {x} |-> IF y = x THEN v ELSE vars[y]]
Bind(s, x, v) == [s EXCEPT !.frames[Len(s.frames)].vars = With(@, x, v)]
BindLowered(s, x) == Bind(s, x, s.v)
\* The value of a variable where it is; a named result is the result too.
RebindAt(s, x, v, at) ==
  [s EXCEPT !.frames[at] = [@ EXCEPT !.vars = With(@, x, v), !.result = IF x \in s.frames[at].results THEN v ELSE @]]
Rebind(s, x, v) == IF Holding(s, x) = {} THEN Bind(s, x, v) ELSE RebindAt(s, x, v, InnerMost(s, x))
RebindLowered(s, x) == Rebind(s, x, s.v)

\* Inner frames hide outer ones.
CaptureBindings(s) == Iterate(LAMBDA vars, frame : frame.vars @@ vars, <<>>, s.frames)

---------------------------------------------------------------------------
(* What the body of a function does, found before it is lowered. *)

NoUse == [mutable |-> {}, rebound |-> {}, addressed |-> {}, reads |-> <<>>, callables |-> {}]
Destinations(n) == IF n.n = "assign" THEN SubSeq(n.parts, 1, n.v) ELSE IF n.n = "update" THEN <<n.parts[1]>> ELSE <<>>
RECURSIVE AssignedRoot(_)
AssignedRoot(e) == CASE e.n = "ident" -> {e.x} [] e.n \in {"index", "deref"} -> AssignedRoot(e.parts[1]) [] OTHER -> {}
Idents(es) == {e.x : e \in {d \in Range(es) : d.n = "ident"}}

\* Variables of the frame itself and those of its function literals: the
\* assigned, the assigned as a whole, the addressed, and every reading.
PrepareValueParameterUsage(body) ==
  LET nodes == AllNodes(body)
      Of(kind) == SelectSeq(nodes, LAMBDA n : n.n = kind)
      assigned == FlatMap(Destinations, nodes)
      set == FlatMap(Destinations, Of("assign"))
      addressed == MapSeq(LAMBDA n : n.parts[1], Of("address"))
  IN [mutable |-> UNION {AssignedRoot(e) : e \in Range(assigned \o addressed)},
      rebound |-> Idents(set),
      addressed |-> Idents(addressed),
      reads |-> MapSeq(LAMBDA n : n.x, Of("ident")),
      callables |-> {}]
PrepareCallableMutability(body) ==
  UNION {{e.x : e \in {d \in Range(Destinations(n)) : d.n = "ident" /\ d.type.kind = "func"}} :
           n \in {m \in Range(AllNodes(body)) : m.n = "assign"}}
Usage(body) == [PrepareValueParameterUsage(body) EXCEPT !.callables = PrepareCallableMutability(body)]

\* The statements of a body itself, without those of its function literals.
RECURSIVE Statements(_)
Statements(body) == FlatMap(LAMBDA n : <<n>> \o FlatMap(Statements, n.bodies), body)
RECURSIVE DefersOf(_, _)
DefersIn(n, repeated) ==
  IF n.n = "defer" THEN <<[id |-> n.x, repeated |-> repeated]>>
  ELSE FlatMap(LAMBDA body : DefersOf(body, repeated \/ n.n \in {"for", "range"}), n.bodies)
DefersOf(body, repeated) == FlatMap(LAMBDA n : DefersIn(n, repeated), body)

\* A block for every label.
PrepareGotoTargets(s, body) ==
  LET labels == SelectSeq(Statements(body), LAMBDA n : n.n = "labeled")
      first == NextBlock(s)
      Target(x) == first - 1 + (CHOOSE i \in DOMAIN labels : labels[i].x = x)
  IN [NewBlocks(s, Len(labels)) EXCEPT !.frames[Len(s.frames)].gotos = [x \in {n.x : n \in Range(labels)} |-> Target(x)]]
\* A flag for every deferred call.
AddDeferred(s, d) ==
  [s EXCEPT !.frames[Len(s.frames)].defers =
     Append(@, [id |-> d.id, repeated |-> d.repeated, active |-> s.v, f |-> NoCallable, args |-> <<>>, node |-> NoNode])]
PrepareDeferredCalls(s, body) ==
  LET goto == \E n \in Range(Statements(body)) : n.n = "goto"
  IN [Iterate(LAMBDA t, d : AddDeferred(AllocZeroed(t, Boolean), d), s, DefersOf(body, FALSE)) EXCEPT
        !.frames[Len(s.frames)].hasGoto = goto]

NewFrame(vars, use) ==
  [vars |-> vars, results |-> {}, result |-> Void, ret |-> 0, gotos |-> <<>>, defers |-> <<>>, hasGoto |-> FALSE, use |-> use]

---------------------------------------------------------------------------
(* Parameters. *)

CallableBinding(s, x, source) ==
  IF source.f.op \notin {"cell", "none"} /\ x \notin Top(s).use.callables
  THEN Give(s, source) ELSE NewCallableCell(s, source)

\* A parameter that is neither changed nor read twice stands for its argument.
ParameterValue(s, param, v, typed) ==
  CASE param.type.kind = "func" -> CallableBinding(s, param.name, v)
    [] param.type.kind = "interface" -> CopyInterfaceValue(s, v)
    [] v.k = "funcs" -> CopyCallableArray(s, v)
    [] param.type.kind = "pointer" ->
         IF param.name \in Top(s).use.rebound \cup Top(s).use.addressed THEN CopyPointerValue(s, typed) ELSE Give(s, typed)
    [] OTHER ->
         IF param.name \notin Top(s).use.mutable
            /\ (AllConstant(v) \/ Len(SelectSeq(Top(s).use.reads, LAMBDA y : y = param.name)) <= 1)
         THEN Give(s, typed) ELSE AllocWith(s, param.type, v.slots)
BindParameter(s, param, v) ==
  IF param.name = "" THEN s ELSE BindLowered(ParameterValue(s, param, v, [v EXCEPT !.type = param.type]), param.name)
BindParameters(s, params, args) ==
  IF Len(params) # Len(args) THEN Fail(s)
  ELSE Iterate(LAMBDA t, i : BindParameter(t, params[i], args[i]), s, [i \in DOMAIN params |-> i])

\* A named result is the part of the result it stands for.
BindNamedResult(s, literal, r, offset) ==
  LET result == Top(s).result
      Part(seq) == SubSeq(seq, offset + 1, offset + r.type.slots)
      nil == MergePointerValue(s, result, Address(r.type, <<>>))
      Named_(t, v) == [Bind(t, r.name, v) EXCEPT !.frames[Len(s.frames)].results = @ \cup {r.name}]
  IN CASE r.name = "" \/ (literal /\ result.slots = <<>>) -> s
       [] r.name # "" /\ ~literal /\ result.k = "funcs" -> Named_(s, result)
       [] r.name # "" /\ ~literal /\ r.type.kind = "pointer" ->
            Named_(IF Alternatives(s, result) = <<>> THEN nil ELSE s, result)
       [] OTHER -> Named_(s, [Void EXCEPT !.k = "slots", !.type = r.type, !.slots = Part(result.slots), !.places = Part(result.places)])
BindNamedResults(s, literal, results) ==
  Iterate(LAMBDA t, i : BindNamedResult(t, literal, results[i], SlotsOf([j \in 1..i - 1 |-> results[j].type])),
           s, [i \in DOMAIN results |-> i])
=============================================================================
