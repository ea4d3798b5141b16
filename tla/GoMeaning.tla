----------------------------- MODULE GoMeaning -----------------------------
(***************************************************************************)
(* What a Go callback does, by the Go specification: the effects it shows  *)
(* and the number it returns, for a tape of the values drawn by Random.    *)
(* Operands are evaluated from left to right.                              *)
(*                                                                         *)
(* A value is a number, also for a boolean; the elements of an array; an   *)
(* address; a function with its environment; a dynamic type with a value.  *)
(* A variable is an address, and the environment has those of the names.   *)
(* s.v is the value of what was evaluated last, s.out how a statement      *)
(* ended, s.status whether the callback still runs.                        *)
(***************************************************************************)
EXTENDS GoSyntax

NilPointer == [addr |-> 0, path |-> <<>>]
NilFunc == [op |-> "nil", x |-> "", node |-> NoNode, env |-> <<>>, results |-> <<>>, id |-> 0]
NilInterface == [type |-> NoType, val |-> 0]

RECURSIVE Zero(_)
Zero(type) ==
  CASE type.kind \in {"number", "boolean"} -> 0
    [] type.kind = "array" -> [i \in 1..type.n |-> Zero(Elem(type))]
    [] type.kind = "pointer" -> NilPointer
    [] type.kind = "func" -> NilFunc
    [] type.kind \in {"interface", "none"} -> NilInterface

Out(kind, label) == [kind |-> kind, label |-> label]
Through == Out("next", "")
Going(s) == s.status = "running" /\ s.out = Through
Give(s, v) == [s EXCEPT !.v = v]
Panic(s) == IF s.status = "running" THEN [s EXCEPT !.status = "panicked"] ELSE s
Truth(b) == IF b THEN 1 ELSE 0

---------------------------------------------------------------------------
(* Memory.  An address is a variable and the way to one of its elements.   *)

RECURSIVE Within(_, _)
Within(v, path) == IF path = <<>> THEN v ELSE Within(v[Head(path)], Tail(path))
RECURSIVE Changed(_, _, _)
Changed(v, path, new) == IF path = <<>> THEN new ELSE [v EXCEPT ![Head(path)] = Changed(@, Tail(path), new)]

Read(s, p) == Within(s.mem[p.addr], p.path)
Put(s, p, v) == [s EXCEPT !.mem[p.addr] = Changed(@, p.path, v)]
Fresh(s, x, v) == [s EXCEPT !.mem = Append(@, v), !.env = (x :> Len(s.mem) + 1) @@ @]
FreshAll(s, names, vs) == Iterate(LAMBDA t, i : Fresh(t, names[i].name, vs[i]), s, [i \in DOMAIN names |-> i])

---------------------------------------------------------------------------
(* Expressions. *)

RECURSIVE Go(_, _)
Values(s, es) ==
  Iterate(LAMBDA t, e : LET done == Go(t.s, e) IN [s |-> done, vs |-> Append(t.vs, done.v)], [s |-> s, vs |-> <<>>], es)

Place(e) == Plain("place", "", PointerTo(e.type), <<e>>)
\* The address of what e stands for; of a new variable if e has none.
Located(s, e) ==
  LET array == IF e.parts[1].type.kind = "pointer" THEN Elem(e.parts[1].type) ELSE e.parts[1].type
      base == Go(s, IF e.n = "index" /\ e.parts[1].type.kind # "pointer" THEN Place(e.parts[1]) ELSE e.parts[1])
      index == Go(base, e.parts[2])
      value == Go(s, e)
  IN CASE e.n = "ident" -> Give(s, [addr |-> s.env[e.x], path |-> <<>>])
       [] e.n = "deref" -> IF Going(base) /\ base.v.addr = 0 THEN Panic(base) ELSE base
       [] e.n = "index" -> IF ~Going(index) THEN index
                           ELSE IF base.v.addr = 0 \/ index.v \notin 0..array.n - 1 THEN Panic(index)
                           ELSE Give(index, [base.v EXCEPT !.path = Append(@, index.v + 1)])
       [] OTHER -> Give([value EXCEPT !.mem = Append(@, value.v)], [addr |-> Len(value.mem) + 1, path |-> <<>>])

Loaded(at) == IF Going(at) THEN Give(at, Read(at, at.v)) ELSE at

Calculation(op, a, b) ==
  CASE op = "+" -> a + b [] op = "-" -> a - b [] op = "*" -> a * b [] op = "/" -> a \div b [] op = "%" -> a % b
    [] op = "==" -> Truth(a = b) [] op = "!=" -> Truth(a # b) [] op = "<" -> Truth(a < b)
    [] op = "<=" -> Truth(a <= b) [] op = ">" -> Truth(a > b) [] op = ">=" -> Truth(a >= b)
Calculate(s, op, a, b) ==
  IF ~Going(s) THEN s ELSE IF op \in {"/", "%"} /\ b = 0 THEN Panic(s) ELSE Give(s, Calculation(op, a, b))

Draw(s) == IF s.tape = <<>> THEN [s EXCEPT !.status = "exhausted"]
           ELSE [s EXCEPT !.tape = Tail(@), !.shown = Append(@, <<"draw", Head(s.tape)>>), !.v = Head(s.tape)]

Fits(type, target) == type # NoType /\ (target.kind = "interface" \/ type = target)
Unwrapped(v, target) == IF target.kind = "interface" THEN v ELSE v.val

---------------------------------------------------------------------------
(* Calls. *)

Exec(s, body) == Go(s, Node("body", "", NoType, <<>>, <<body>>, <<>>))
\* A call of a function with arguments that are known.
Apply(s, f, args) == Go([s EXCEPT !.f = f, !.args = args], Plain("apply", "", NoType, <<>>))

\* Results are variables; deferred calls run after a return has set them.
Activate(s, f, args) ==
  LET decl == CASE f.op = "function" -> s.program.funcs[f.x]
                [] f.op = "method" -> s.program.methods[f.id].f
                [] f.op = "literal" -> FuncDecl(f.node.names[1], f.node.names[2], f.node.bodies[1])
      given == FreshAll([s EXCEPT !.env = f.env, !.defers = <<>>], decl.params, args)
      ready == [FreshAll(given, decl.results, [i \in DOMAIN decl.results |-> Zero(decl.results[i].type)]) EXCEPT
                  !.results = [i \in DOMAIN decl.results |-> Len(given.mem) + i]]
      ran == Exec(ready, decl.body)
      done == Iterate(LAMBDA t, d : Apply(t, d.f, d.args), [ran EXCEPT !.out = Through], Reverse(ran.defers))
      vs == [i \in DOMAIN ready.results |-> done.mem[ready.results[i]]]
  IN [done EXCEPT !.env = s.env, !.defers = s.defers, !.results = s.results, !.v = IF Len(vs) = 1 THEN vs[1] ELSE vs]

\* The body of a loop ended like this: is there another iteration?
Repeats(out, label) == out = Through \/ (out.kind = "continue" /\ out.label \in {"", label})
Broken(s, label) == IF s.out.kind = "break" /\ s.out.label \in {"", label} THEN [s EXCEPT !.out = Through] ELSE s

\* The body of a range over a function is a function; what it ends with
\* besides its iteration waits until the producer has returned.
Yield(s, f, args) ==
  LET inside == FreshAll([s EXCEPT !.env = f.env, !.results = f.results], f.node.names, args)
      ran == Exec(inside, f.node.bodies[1])
      goes == Repeats(ran.out, f.x)
  IN IF ~s.mem[f.id].active THEN Panic(s)
     ELSE [ran EXCEPT !.env = s.env, !.results = s.results, !.out = Through, !.v = Truth(goes),
                      !.mem[f.id] = IF goes THEN @ ELSE [active |-> FALSE, out |-> Broken(ran, f.x).out]]

Calls(s) ==
  CASE s.f.op = "nil" -> Panic(s) [] s.f.op = "yield" -> Yield(s, s.f, s.args) [] OTHER -> Activate(s, s.f, s.args)

\* The receiver is addressed or read as the method declares it.
CallMethod(s, n) ==
  LET e == n.parts[1]
      dynamic == e.type.kind = "interface"
      held == Go(s, e)
      type == IF dynamic THEN held.v.type ELSE e.type
      Has(i) == s.program.methods[i].name = n.x /\ s.program.methods[i].type \in {type} \cup Range(type.of)
      id == CHOOSE i \in DOMAIN s.program.methods : Has(i)
      byAddress == s.program.methods[id].f.params[1].type.kind = "pointer"
      receiver == CASE dynamic -> Give(held, held.v.val)
                    [] ~dynamic /\ byAddress -> IF type.kind = "pointer" THEN held ELSE Located(s, e)
                    [] ~dynamic /\ ~byAddress -> IF type.kind = "pointer" THEN Loaded(Located(s, Deref(e))) ELSE held
      args == Values(receiver, Tail(n.parts))
      missing == dynamic /\ held.v.type = NoType
  IN CASE ~Going(held) -> held
       [] Going(held) /\ missing -> Panic(held)
       [] OTHER -> IF ~Going(args.s) THEN args.s
                   ELSE Apply(args.s, [NilFunc EXCEPT !.op = "method", !.id = id], <<receiver.v>> \o args.vs)

CallFunction(s, n) ==
  LET all == Values(s, n.parts) IN IF Going(all.s) THEN Apply(all.s, Head(all.vs), Tail(all.vs)) ELSE all.s

---------------------------------------------------------------------------
(* Assignments. *)

\* The values of an assignment to count targets: [s, vs].
Sources(s, es, count) ==
  LET all == Values(s, es)
      held == Go(s, es[1].parts[1])
      fits == Going(held) /\ Fits(held.v.type, es[1].type)
  IN CASE count = Len(es) -> all
       [] count # Len(es) /\ es[1].n = "assert" ->
            [s |-> held, vs |-> <<IF fits THEN Unwrapped(held.v, es[1].type) ELSE Zero(es[1].type), Truth(fits)>>]
       [] count # Len(es) /\ es[1].n # "assert" -> [s |-> all.s, vs |-> all.vs[1]]

DefineAll(s, names, es) ==
  LET values == Sources(s, es, Len(names)) IN IF Going(values.s) THEN FreshAll(values.s, names, values.vs) ELSE values.s

\* Operands of the destinations, the values, then the stores in order.
AssignAll(s, dsts, es) ==
  LET places == Values(s, [i \in DOMAIN dsts |-> Place(dsts[i])])
      values == Sources(places.s, es, Len(dsts))
  IN IF ~Going(values.s) THEN values.s
     ELSE Iterate(LAMBDA t, i : Put(t, places.vs[i], values.vs[i]), values.s, [i \in DOMAIN dsts |-> i])

UpdateOne(s, n) ==
  LET at == Go(s, Place(n.parts[1]))
      by == Go(at, n.parts[2])
      new == Calculate(by, n.x, Read(by, at.v), by.v)
  IN IF Going(by) /\ Going(new) THEN Put(new, at.v, new.v) ELSE IF Going(by) THEN new ELSE by

---------------------------------------------------------------------------
(* Control. *)

\* From a statement of a body on; a goto to one of its labels goes there.
Body(s, n) ==
  LET body == n.bodies[1]
      end == Iterate(LAMBDA t, i : IF i < n.v THEN t ELSE Go(t, body[i]), s, [i \in DOMAIN body |-> i])
      labels == {i \in DOMAIN body : body[i].n = "labeled" /\ body[i].x = end.out.label}
  IN IF end.out.kind = "goto" /\ labels # {}
     THEN Go([end EXCEPT !.out = Through], [n EXCEPT !.v = CHOOSE i \in labels : TRUE]) ELSE end

\* Every iteration has its own variables.
Loop(s, n) ==
  LET test == IF n.parts[1].n = "none" THEN Give(s, 1) ELSE Go(s, n.parts[1])
      ran == Exec(test, n.bodies[1])
      names == FlattenSeq([i \in DOMAIN n.bodies[2] |-> n.bodies[2][i].names])
      own == Iterate(LAMBDA t, x : Fresh(t, x.name, t.mem[t.env[x.name]]), [ran EXCEPT !.out = Through], names)
  IN IF ~Going(test) \/ test.v = 0 THEN test
     ELSE IF Repeats(ran.out, n.x) /\ ran.status = "running" THEN Go(Exec(own, n.bodies[3]), n) ELSE Broken(ran, n.x)

\* An array is copied first, unless it is ranged over by its address.
RangeLoop(s, n, label) ==
  LET over == n.parts[1]
      of == Go(s, over)
      keys == IF over.type.kind = "number" THEN of.v ELSE IF over.type.kind = "array" THEN over.type.n ELSE Elem(over.type).n
      Element(t, i) == IF over.type.kind = "array" THEN of.v[i] ELSE Read(t, [of.v EXCEPT !.path = Append(@, i)])
      One(t, i) ==
        LET keyed == IF Len(n.names) > 0 THEN Fresh(t, n.names[1].name, i - 1) ELSE t
            bound == IF Len(n.names) > 1 THEN Fresh(keyed, n.names[2].name, Element(t, i)) ELSE keyed
            ran == Exec(bound, n.bodies[1])
        IN IF ~Going(t) THEN t ELSE IF Repeats(ran.out, label) THEN [ran EXCEPT !.out = Through] ELSE ran
  IN IF ~Going(of) THEN of ELSE Broken(Iterate(One, of, [i \in 1..keys |-> i]), label)
RangeFunction(s, n, label) ==
  LET of == Go(s, n.parts[1])
      id == Len(of.mem) + 1
      yield == [op |-> "yield", x |-> label, node |-> n, env |-> s.env, results |-> s.results, id |-> id]
      done == Apply([of EXCEPT !.mem = Append(@, [active |-> TRUE, out |-> Through])], of.v, <<yield>>)
  IN IF ~Going(of) THEN of ELSE [done EXCEPT !.out = done.mem[id].out]

\* The clauses from the chosen one on, as long as they fall through.
Clauses(s, n, first, label) ==
  LET One(t, i) ==
        LET ran == Exec([t.s EXCEPT !.out = Through], n.bodies[i])
        IN IF i < first \/ ~t.on THEN t ELSE [s |-> ran, on |-> ran.out.kind = "fallthrough"]
  IN IF first = 0 THEN s ELSE Broken(Iterate(One, [s |-> s, on |-> TRUE], [i \in DOMAIN n.bodies |-> i]).s, label)
DefaultClause(n) == IF <<>> \in Range(n.names) THEN CHOOSE i \in DOMAIN n.names : n.names[i] = <<>> ELSE 0
Switches(s, n, label) ==
  LET tag == IF n.parts[1].n = "none" THEN Give(s, 1) ELSE Go(s, n.parts[1])
      Test(t, i) ==
        Iterate(LAMBDA u, j : LET case == Go(u.s, n.parts[j])
                               IN IF u.hit # 0 THEN u ELSE [s |-> case, hit |-> IF Going(case) /\ case.v = tag.v THEN i ELSE 0],
                 t, n.names[i])
      tested == Iterate(Test, [s |-> tag, hit |-> 0], [i \in DOMAIN n.names |-> i])
  IN IF ~Going(tested.s) THEN tested.s ELSE Clauses(tested.s, n, IF tested.hit # 0 THEN tested.hit ELSE DefaultClause(n), label)
TypeSwitches(s, n, label) ==
  LET of == Go(s, n.parts[1])
      fits == {i \in DOMAIN n.names : \E t \in Range(n.names[i]) : Fits(of.v.type, t)}
      clause == IF fits = {} THEN DefaultClause(n) ELSE CHOOSE i \in fits : \A j \in fits : i <= j
      bound == IF clause # 0 /\ Len(n.names[clause]) = 1 THEN Fresh(of, n.x, Unwrapped(of.v, n.names[clause][1])) ELSE of
  IN IF ~Going(of) THEN of ELSE Clauses(bound, n, clause, label)

DeferCall(s, n) ==
  LET all == Values(s, n.parts[1].parts)
  IN IF Going(all.s) THEN [all.s EXCEPT !.defers = Append(@, [f |-> Head(all.vs), args |-> Tail(all.vs)])] ELSE all.s
ReturnWith(s, n) ==
  LET values == Sources(s, n.parts, Len(s.results))
      set == Iterate(LAMBDA t, i : [t EXCEPT !.mem[s.results[i]] = values.vs[i]], values.s, [i \in DOMAIN s.results |-> i])
      done == IF n.parts = <<>> THEN s ELSE set
  IN IF n.parts # <<>> /\ ~Going(values.s) THEN values.s ELSE [done EXCEPT !.out = Out("return", "")]

---------------------------------------------------------------------------
(* Every node, and a whole callback. *)

Step(s, n) ==
  CASE n.n = "const" -> Give(s, n.v)
    [] n.n \in {"ident", "deref", "index"} -> Loaded(Located(s, n))
    [] n.n = "place" -> Located(s, n.parts[1])
    [] n.n = "address" -> Located(s, n.parts[1])
    [] n.n = "function" -> Give(s, [NilFunc EXCEPT !.op = "function", !.x = n.x])
    [] n.n = "literal" -> Give(s, [NilFunc EXCEPT !.op = "literal", !.node = n, !.env = s.env])
    [] n.n = "nil" -> Give(s, Zero(n.type))
    [] n.n = "new" -> Located(s, Plain("zero", "", Elem(n.type), <<>>))
    [] n.n = "zero" -> Give(s, Zero(n.type))
    [] n.n = "composite" -> LET all == Values(s, n.parts)
                            IN Give(all.s, all.vs \o SubSeq(Zero(n.type), Len(all.vs) + 1, n.type.n))
    [] n.n = "unary" -> LET of == Go(s, n.parts[1]) IN IF Going(of) THEN Give(of, IF n.x = "-" THEN -of.v ELSE 1 - of.v) ELSE of
    [] n.n = "binary" -> LET all == Values(s, n.parts) IN Calculate(all.s, n.x, all.vs[1], all.vs[2])
    [] n.n = "short" -> LET left == Go(s, n.parts[1])
                        IN IF Going(left) /\ left.v = Truth(n.x = "&&") THEN Go(left, n.parts[2]) ELSE left
    [] n.n = "runtime" /\ n.x = "Random" -> Draw(s)
    [] n.n = "runtime" /\ n.x = "DebugLog" ->
         LET of == Go(s, n.parts[1]) IN IF Going(of) THEN [of EXCEPT !.shown = Append(@, <<"log", of.v>>)] ELSE of
    [] n.n = "convert" -> LET of == Go(s, n.parts[1])
                          IN IF n.type.kind = "interface" /\ n.parts[1].type.kind # "interface"
                             THEN Give(of, [type |-> n.parts[1].type, val |-> of.v]) ELSE of
    [] n.n = "assert" -> LET of == Go(s, n.parts[1])
                         IN IF ~Going(of) THEN of
                            ELSE IF Fits(of.v.type, n.type) THEN Give(of, Unwrapped(of.v, n.type)) ELSE Panic(of)
    [] n.n = "call" -> CallFunction(s, n)
    [] n.n = "method" -> CallMethod(s, n)
    [] n.n = "apply" -> Calls(s)
    [] n.n = "do" -> Go(s, n.parts[1])
    [] n.n = "body" -> Body(s, n)
    [] n.n = "block" -> Exec(s, n.bodies[1])
    [] n.n = "declare" -> Fresh(s, n.names[1].name, Zero(n.names[1].type))
    [] n.n = "define" -> DefineAll(s, n.names, n.parts)
    [] n.n = "assign" -> AssignAll(s, SubSeq(n.parts, 1, n.v), SubSeq(n.parts, n.v + 1, Len(n.parts)))
    [] n.n = "update" -> UpdateOne(s, n)
    [] n.n = "if" -> LET test == Go(s, n.parts[1])
                     IN IF Going(test) THEN Exec(test, n.bodies[IF test.v = 1 THEN 1 ELSE 2]) ELSE test
    [] n.n = "for" -> Go(Exec([s EXCEPT !.label = ""], n.bodies[2]), [n EXCEPT !.n = "loop", !.x = s.label])
    [] n.n = "loop" -> Loop(s, n)
    [] n.n = "range" -> IF n.parts[1].type.kind = "func" THEN RangeFunction([s EXCEPT !.label = ""], n, s.label)
                        ELSE RangeLoop([s EXCEPT !.label = ""], n, s.label)
    [] n.n = "switch" -> Switches([s EXCEPT !.label = ""], n, s.label)
    [] n.n = "typeswitch" -> TypeSwitches([s EXCEPT !.label = ""], n, s.label)
    [] n.n = "labeled" -> LET of == n.bodies[1][1]
                          IN Go(IF of.n \in {"for", "range", "switch", "typeswitch"} THEN [s EXCEPT !.label = n.x] ELSE s, of)
    [] n.n \in {"break", "continue", "goto"} -> [s EXCEPT !.out = Out(n.n, n.x)]
    [] n.n = "fallthrough" -> [s EXCEPT !.out = Out("fallthrough", "")]
    [] n.n = "defer" -> DeferCall(s, n)
    [] n.n = "return" -> ReturnWith(s, n)
Go(s, n) == IF Going(s) THEN Step(s, n) ELSE s

\* An execution as those of the intermediate code are described; a panic
\* ends the callback, and reports first where checks notify.
Shown(end, panicked, notify) ==
  IF end.status = "exhausted" THEN [shown |-> end.shown, status |-> "exhausted"]
  ELSE [shown |-> end.shown \o (IF panicked /\ notify THEN <<<<"log", 0>>>> ELSE <<>>)
                            \o <<<<"return", {IF panicked THEN 0 ELSE end.v}>>>>, status |-> "returned"]
Described(end, panicked, checks) == [panicked |-> panicked, does |-> Shown(end, panicked, checks = "notify")]
Ended(end, checks) == Described(end, end.status = "panicked", checks)
Start(program, tape) ==
  [program |-> program, mem |-> <<>>, env |-> <<>>, shown |-> <<>>, tape |-> tape, status |-> "running",
   v |-> 0, out |-> Through, label |-> "", defers |-> <<>>, results |-> <<>>, f |-> NilFunc, args |-> <<>>]
CallbackOf(body) == [NilFunc EXCEPT !.op = "literal", !.node = Literal("", <<>>, <<Name("", Number)>>, body)]
Meaning(program, checks, tape) == Ended(Apply(Start(program, tape), CallbackOf(program.body), <<>>), checks)
=============================================================================
