------------------------------ MODULE GoSyntax ------------------------------
(***************************************************************************)
(* Go functions as they reach lowering: syntax trees with their types.     *)
(* Every node has the same fields: what it is, a word or number of its     *)
(* own, its type, its expressions, its lists of statements, and names.     *)
(* Names are unique in a program, as the objects of go/types are.          *)
(***************************************************************************)
EXTENDS Integers, Sequences, FiniteSets, SequencesExt, Iteration

---------------------------------------------------------------------------
(* Types: a number or a boolean takes one slot, an array those of its      *)
(* elements; pointers, interfaces and functions take none.                 *)

Type(kind, slots, n, name, of) == [kind |-> kind, slots |-> slots, n |-> n, name |-> name, of |-> of]
NoType == Type("none", 0, 0, "", <<>>)
Number == Type("number", 1, 0, "", <<>>)
Boolean == Type("boolean", 1, 0, "", <<>>)
Named(name) == Type("number", 1, 0, name, <<>>)  \* type name float64, with methods
Interface == Type("interface", 0, 0, "", <<>>)
Function == Type("func", 0, 0, "", <<>>)
PointerTo(t) == Type("pointer", 0, 0, "", <<t>>)
ArrayOf(n, t) == Type("array", n * t.slots, n, IF t.kind = "func" THEN "funcs" ELSE "", <<t>>)
Elem(t) == t.of[1]
\* Several results.
RECURSIVE SlotsOf(_)
SlotsOf(ts) == IF ts = <<>> THEN 0 ELSE Head(ts).slots + SlotsOf(Tail(ts))
Tuple(ts) == Type("tuple", SlotsOf(ts), Len(ts), "", ts)
ResultType(ts) == CASE ts = <<>> -> NoType [] Len(ts) = 1 -> ts[1] [] OTHER -> Tuple(ts)

---------------------------------------------------------------------------
(* Nodes. *)

Node(n, x, type, parts, bodies, names) ==
  [n |-> n, x |-> x, v |-> 0, type |-> type, parts |-> parts, bodies |-> bodies, names |-> names]
Plain(n, x, type, parts) == Node(n, x, type, parts, <<>>, <<>>)
Constant(type, v) == [Plain("const", "", type, <<>>) EXCEPT !.v = v]
Name(x, type) == [name |-> x, type |-> type]

Num(v) == Constant(Number, v)
Truth_(b) == Constant(Boolean, IF b THEN 1 ELSE 0)
Var(x, type) == Plain("ident", x, type, <<>>)
Func(x) == Plain("function", x, Function, <<>>)
NilOf(type) == Plain("nil", "", type, <<>>)  \* of an interface: without type
NoNode == Plain("none", "", NoType, <<>>)

Comparisons == {"==", "!=", "<", "<=", ">", ">="}
Bin(op, a, b) == Plain("binary", op, IF op \in Comparisons THEN Boolean ELSE a.type, <<a, b>>)
Both(a, b) == Plain("short", "&&", Boolean, <<a, b>>)
Either(a, b) == Plain("short", "||", Boolean, <<a, b>>)
Minus(a) == Plain("unary", "-", a.type, <<a>>)
Unless(a) == Plain("unary", "!", Boolean, <<a>>)

Addr(e) == Plain("address", "", PointerTo(e.type), <<e>>)
Deref(e) == Plain("deref", "", Elem(e.type), <<e>>)
At(e, i) == Plain("index", "", Elem(IF e.type.kind = "pointer" THEN Elem(e.type) ELSE e.type), <<e, i>>)
Elements(type, es) == Plain("composite", "", type, es)
New(type) == Plain("new", "", PointerTo(type), <<>>)

Random == Plain("runtime", "Random", Number, <<>>)
\* A conversion to an interface or to a type of the same layout.
Convert(type, e) == Plain("convert", "", type, <<e>>)
AssertTo(type, e) == Plain("assert", "", type, <<e>>)
\* A call of a function, or of a method, the receiver first; the result's type.
Call_(type, f, args) == Plain("call", "", type, <<f>> \o args)
Method(type, name, receiver, args) == Plain("method", name, type, <<receiver>> \o args)
Literal(id, params, results, body) == Node("literal", id, Function, <<>>, <<body>>, <<params, results>>)

---------------------------------------------------------------------------
(* Statements.  A definition's names have their types; a destination is an *)
(* expression.                                                             *)

Do(e) == Plain("do", "", NoType, <<e>>)
Log_(e) == Do(Plain("runtime", "DebugLog", NoType, <<e>>))
Define(names, es) == Node("define", "", NoType, es, <<>>, names)
Let(x, e) == Define(<<Name(x, e.type)>>, <<e>>)
Declare(x, type) == Node("declare", "", NoType, <<>>, <<>>, <<Name(x, type)>>)
SetAll(dsts, es) == [Plain("assign", "", NoType, dsts \o es) EXCEPT !.v = Len(dsts)]
Set(dst, e) == SetAll(<<dst>>, <<e>>)
Update(op, dst, e) == Plain("update", op, NoType, <<dst, e>>)
If(c, then, else) == Node("if", "", NoType, <<c>>, <<then, else>>, <<>>)
For(init, c, post, body) == Node("for", "", NoType, <<c>>, <<body, init, post>>, <<>>)
While(c, body) == For(<<>>, c, <<>>, body)
\* Ranges over a number, an array or a function; the names of key and value.
Range_(id, names, over, body) == Node("range", id, NoType, <<over>>, <<body>>, names)
Clause(values, body) == [values |-> values, body |-> body]
\* The tag and all values are parts; a clause names those of its own.  The
\* default clause has no values.
SwitchOn(tag, clauses) ==
  LET before(i) == FoldLeft(LAMBDA n, c : n + Len(c.values), 1, SubSeq(clauses, 1, i - 1))
  IN Node("switch", "", NoType, <<tag>> \o FlattenSeq([i \in DOMAIN clauses |-> clauses[i].values]),
          [i \in DOMAIN clauses |-> clauses[i].body],
          [i \in DOMAIN clauses |-> [j \in DOMAIN clauses[i].values |-> before(i) + j]])
\* Its values are types.
SwitchType(x, e, clauses) ==
  Node("typeswitch", x, NoType, <<e>>, [i \in DOMAIN clauses |-> clauses[i].body], [i \in DOMAIN clauses |-> clauses[i].values])
FallThrough == Plain("fallthrough", "", NoType, <<>>)
Labeled(label, statement) == Node("labeled", label, NoType, <<>>, <<<<statement>>>>, <<>>)
BreakTo(label) == Plain("break", label, NoType, <<>>)
ContinueTo(label) == Plain("continue", label, NoType, <<>>)
Goto(label) == Plain("goto", label, NoType, <<>>)
ReturnOf(es) == Plain("return", "", NoType, es)
Defer(id, call) == Plain("defer", id, NoType, <<call>>)
Group(body) == Node("block", "", NoType, <<>>, <<body>>, <<>>)

(* A program: its functions by name, its methods, each the function of a   *)
(* type and a name whose first parameter is the receiver, and the body of  *)
(* a callback without parameters that returns a number.                    *)
FuncDecl(params, results, body) == [params |-> params, results |-> results, body |-> body]
MethodDecl(type, name, f) == [type |-> type, name |-> name, f |-> f]
Program(funcs, methods, body) == [funcs |-> funcs, methods |-> methods, body |-> body]
MethodsOf(program, type, name) == {m \in Range(program.methods) : m.type = type /\ m.name = name}

---------------------------------------------------------------------------
(* What occurs in a tree, as ast.Inspect visits it. *)

RECURSIVE NodesOf(_)
AllNodes(body) == FlatMap(NodesOf, body)
NodesOf(node) == <<node>> \o AllNodes(node.parts) \o FlatMap(AllNodes, node.bodies)

\* The function literals and ranges over functions of a program, by name.
LiteralsOf(program) ==
  LET bodies == <<program.body>> \o SetToSeq({program.funcs[f].body : f \in DOMAIN program.funcs})
                \o [i \in DOMAIN program.methods |-> program.methods[i].f.body]
      found == SelectSeq(FlatMap(AllNodes, bodies), LAMBDA n : n.n \in {"literal", "range"})
  IN [x \in {found[i].x : i \in DOMAIN found} |-> found[CHOOSE i \in DOMAIN found : found[i].x = x]]
=============================================================================
