----------------------------- MODULE LoweringMC -----------------------------
(***************************************************************************)
(* Lowering of callbacks, with each of the levels of run-time checks,      *)
(* against what they do by the Go specification.                           *)
(*                                                                         *)
(* The callbacks of a family begin and end alike and have two different    *)
(* steps between, each a few statements: they leave values, addresses,     *)
(* functions and interfaces in the variables of the beginning, and the end *)
(* shows what these hold.  x and c are drawn, so a condition on c is       *)
(* decided when the callback runs.                                         *)
(***************************************************************************)
EXTENDS Lowering, Execution


WithSteps(family, one, two) == Program(family.funcs, family.methods, family.start \o one \o two \o family.end)
Pairs(family) ==
  LET others(n) == SelectSeq([m \in DOMAIN family.steps |-> m], LAMBDA m : m # n)
  IN FlattenSeq([n \in DOMAIN family.steps |->
       [k \in DOMAIN others(n) |-> WithSteps(family, family.steps[n], family.steps[others(n)[k]])]])

N(name) == Var(name, Number)
c == N("c")
x == N("x")
y == N("y")
Is(e, v) == Bin("==", e, Num(v))
Plus(a, b) == Bin("+", a, b)
Add1(e) == Update("+", e, Num(1))
When(then) == If(Is(c, 1), then, <<>>)
Apply_(f, args) == Call_(Number, Func(f), args)
Drawn == <<Let("x", Random), Let("c", Random), Let("y", Num(5))>>

---------------------------------------------------------------------------
(* Two pointers to two variables. *)

P == PointerTo(Number)
p == Var("p", P)
q == Var("q", P)
r == Var("r", P)
PointerFunctions == [
  bump |-> FuncDecl(<<Name("bp", P)>>, <<>>, <<Update("+", Deref(Var("bp", P)), Num(10))>>),
  pick |-> FuncDecl(<<Name("pa", P), Name("pb", P)>>, <<Name("", P)>>,
             <<If(Is(Deref(Var("pa", P)), 1), <<ReturnOf(<<Var("pa", P)>>)>>, <<>>), ReturnOf(<<Var("pb", P)>>)>>)]
Pointers == [
  funcs |-> PointerFunctions, methods |-> <<>>,
  start |-> Drawn \o <<Let("p", Addr(x)), Let("q", Addr(y))>>,
  end |-> <<Log_(x), Log_(y), Log_(Deref(p)), Log_(Deref(q)), ReturnOf(<<x>>)>>,
  steps |-> <<
    <<Set(p, Addr(y))>>, <<Set(q, p)>>, <<Set(Deref(p), Plus(Deref(p), Num(1)))>>, <<Set(Deref(q), Num(7))>>, <<Set(x, Num(3))>>,
    <<When(<<Set(p, q)>>)>>, <<If(Is(c, 1), <<Set(Deref(p), Num(2))>>, <<Set(q, Addr(x))>>)>>,
    <<SetAll(<<x, y>>, <<y, Deref(p)>>)>>,
    <<Do(Call_(NoType, Func("bump"), <<p>>))>>, <<Set(p, Call_(P, Func("pick"), <<q, p>>))>>,
    <<If(Bin("==", p, q), <<Set(Deref(p), Minus(y))>>, <<Update("-", Deref(q), c)>>)>>,
    <<Declare("r", P), When(<<Set(r, p)>>), If(Bin("!=", r, NilOf(P)), <<Set(Deref(r), Num(6))>>, <<>>)>>,
    <<Declare("r", P), When(<<Set(r, q)>>), Set(x, Deref(r))>>>>]

---------------------------------------------------------------------------
(* Functions as values: variables, an array, arguments and results, with   *)
(* what they capture.                                                      *)

f == Var("f", Function)
g == Var("g", Function)
fs == Var("fs", ArrayOf(2, Function))
Of(h, e) == Call_(Number, h, <<e>>)
OneNumber(n) == <<Name(n, Number)>>
FunctionFunctions == [
  inc |-> FuncDecl(OneNumber("n1"), OneNumber(""), <<ReturnOf(<<Plus(N("n1"), Num(1))>>)>>),
  dec |-> FuncDecl(OneNumber("n2"), OneNumber(""), <<ReturnOf(<<Bin("-", N("n2"), Num(1))>>)>>),
  twice |-> FuncDecl(<<Name("h1", Function), Name("n3", Number)>>, OneNumber(""),
              <<ReturnOf(<<Of(Var("h1", Function), Of(Var("h1", Function), N("n3")))>>)>>),
  choose |-> FuncDecl(<<Name("b1", Boolean), Name("h2", Function), Name("h3", Function)>>, <<Name("", Function)>>,
               <<If(Var("b1", Boolean), <<ReturnOf(<<Var("h2", Function)>>)>>, <<>>), ReturnOf(<<Var("h3", Function)>>)>>),
  all |-> FuncDecl(<<Name("hs", fs.type), Name("n13", Number)>>, OneNumber(""),
            <<Set(At(Var("hs", fs.type), Num(1)), Func("inc")),
              ReturnOf(<<Of(At(Var("hs", fs.type), Num(1)), Of(At(Var("hs", fs.type), Num(0)), N("n13")))>>)>>),
  both |-> FuncDecl(<<Name("h5", Function), Name("h6", Function)>>, <<Name("", fs.type)>>,
             <<ReturnOf(<<Elements(fs.type, <<Var("h5", Function), Var("h6", Function)>>)>>)>>),
  fact |-> FuncDecl(OneNumber("n4"), OneNumber(""),
             <<If(Is(N("n4"), 0), <<ReturnOf(<<Num(1)>>)>>, <<>>),
               ReturnOf(<<Bin("*", N("n4"), Apply_("fact", <<Bin("-", N("n4"), Num(1))>>))>>)>>)]
AddX == Literal("addX", OneNumber("v1"), OneNumber(""), <<ReturnOf(<<Plus(N("v1"), x)>>)>>)
CountY == Literal("countY", OneNumber("v2"), OneNumber(""), <<Add1(y), ReturnOf(<<Plus(N("v2"), y)>>)>>)
Functions == [
  funcs |-> FunctionFunctions, methods |-> <<>>,
  start |-> Drawn \o <<Let("f", Func("inc")), Let("g", AddX), Let("fs", Elements(ArrayOf(2, Function), <<Func("inc"), Func("dec")>>))>>,
  end |-> <<Log_(Of(f, Num(1))), Log_(Of(g, Num(1))), Log_(Of(At(fs, Num(0)), x)), Log_(y), ReturnOf(<<x>>)>>,
  steps |-> <<
    <<Set(f, g)>>, <<Set(g, CountY)>>, <<When(<<Set(f, Func("dec"))>>)>>, <<Set(x, Of(f, x))>>,
    <<Set(x, Apply_("twice", <<g, Num(3)>>))>>,
    <<Set(f, Call_(Function, Func("choose"), <<Is(c, 1), f, g>>))>>,
    <<Set(At(fs, Num(0)), g)>>, <<Set(At(fs, c), f)>>, <<Set(g, At(fs, c))>>,
    <<Range_("each", <<Name("_", Number), Name("h4", Function)>>, fs, <<Set(x, Of(Var("h4", Function), x))>>)>>,
    <<Set(y, Apply_("fact", <<Num(3)>>))>>,
    <<Declare("h", Function), When(<<Set(Var("h", Function), g)>>), Log_(Of(Var("h", Function), Num(2)))>>,
    <<Declare("gs", fs.type), Set(Var("gs", fs.type), fs), Set(At(Var("gs", fs.type), Num(1)), g), Set(x, Of(At(Var("gs", fs.type), c), x))>>,
    <<Set(x, Call_(Number, Func("all"), <<fs, x>>))>>, <<Set(fs, Call_(fs.type, Func("both"), <<g, f>>))>>>>]

---------------------------------------------------------------------------
(* Interfaces with two types: a number, whose method reads a copy, and the *)
(* address of another, whose methods change it.                            *)

A == Named("A")
B == Named("B")
a == Var("a", A)
b == Var("b", B)
i == Var("i", Interface)
j == Var("j", Interface)
ToInterface(e) == Convert(Interface, e)
Get(e) == Method(Number, "Get", e, <<>>)
SameNumber(e) == Convert(Number, e)
InterfaceMethods == <<
  MethodDecl(A, "Get", FuncDecl(<<Name("ra", A)>>, OneNumber(""), <<ReturnOf(<<Plus(SameNumber(Var("ra", A)), Num(1))>>)>>)),
  MethodDecl(A, "Grow", FuncDecl(<<Name("rg", A)>>, OneNumber(""),
    <<Update("*", Var("rg", A), Convert(A, Num(3))), ReturnOf(<<SameNumber(Var("rg", A))>>)>>)),
  MethodDecl(B, "Get", FuncDecl(<<Name("rb", PointerTo(B))>>, OneNumber(""),
    <<Update("+", Deref(Var("rb", PointerTo(B))), Convert(B, Num(2))), ReturnOf(<<SameNumber(Deref(Var("rb", PointerTo(B))))>>)>>))>>
InterfaceFunctions == [
  use |-> FuncDecl(<<Name("iu", Interface)>>, <<>>, <<Log_(Get(Var("iu", Interface)))>>),
  wrap |-> FuncDecl(<<Name("n5", Number), Name("iw", Interface)>>, <<Name("", Interface)>>,
             <<If(Is(N("n5"), 1), <<ReturnOf(<<ToInterface(Convert(A, Num(4)))>>)>>, <<>>), ReturnOf(<<Var("iw", Interface)>>)>>)]
Interfaces == [
  funcs |-> InterfaceFunctions, methods |-> InterfaceMethods,
  start |-> Drawn \o <<Let("a", Convert(A, x)), Let("b", Convert(B, Num(6))), Let("i", ToInterface(a)), Let("j", ToInterface(Addr(b)))>>,
  end |-> <<Log_(Get(i)), Log_(Get(j)), Log_(SameNumber(a)), Log_(SameNumber(b)), ReturnOf(<<Get(a)>>)>>,
  steps |-> <<
    <<Set(i, j)>>, <<Set(j, ToInterface(a))>>, <<When(<<Set(i, ToInterface(Addr(b)))>>)>>,
    <<Set(a, Convert(A, Num(9)))>>, <<Set(b, Convert(B, Num(7)))>>, <<Log_(Get(i))>>, <<Set(y, Get(b))>>, <<Set(y, Method(Number, "Grow", a, <<>>))>>,
    <<Define(<<Name("t1", A), Name("ok", Boolean)>>, <<AssertTo(A, i)>>), Log_(SameNumber(Var("t1", A))),
      If(Var("ok", Boolean), <<Add1(y)>>, <<>>)>>,
    <<Set(a, AssertTo(A, i))>>,
    <<SwitchType("t2", i, <<Clause(<<PointerTo(B)>>, <<Set(Deref(Var("t2", PointerTo(B))), Convert(B, Num(1)))>>),
                            Clause(<<A>>, <<Log_(SameNumber(Var("t2", A)))>>)>>)>>,
    <<Do(Call_(NoType, Func("use"), <<j>>))>>,
    <<Set(i, Call_(Interface, Func("wrap"), <<c, j>>))>>,
    <<Set(a, AssertTo(A, ToInterface(a))), Let("e", i), When(<<Set(Var("e", Interface), NilOf(NoType))>>),
      If(Bin("!=", Var("e", Interface), NilOf(NoType)), <<Add1(y)>>, <<Set(y, Num(0))>>), Log_(Get(Var("e", Interface)))>>>>]

---------------------------------------------------------------------------
(* Loops, switches and branches; a step may leave loops, clauses or the    *)
(* callback.                                                               *)

k == N("k")
v == N("v")
ar == Var("ar", ArrayOf(3, Number))
Yield == Var("yield", Function)
YieldOr(e) == If(Unless(Call_(Boolean, Yield, <<e>>)), <<ReturnOf(<<>>)>>, <<>>)
Numbers == Literal("numbers", <<Name("yield", Function)>>, <<>>, <<YieldOr(Num(1)), Add1(y), YieldOr(Num(2))>>)
To(n, body) == For(<<Let("k", Num(0))>>, Bin("<", k, Num(n)), <<Add1(k)>>, body)
Control == [
  funcs |-> <<>>, methods |-> <<>>,
  start |-> Drawn \o <<Let("ar", Elements(ArrayOf(3, Number), <<x, c, Num(2)>>))>>,
  end |-> <<Log_(x), Log_(y), Log_(At(ar, Num(1))), ReturnOf(<<c>>)>>,
  steps |-> <<
    <<To(3, <<If(Is(k, 1), <<ContinueTo("")>>, <<>>), Update("+", x, k), If(Bin(">", x, Num(3)), <<BreakTo("")>>, <<>>)>>)>>,
    <<Labeled("outer", While(NoNode, <<Add1(x),
        To(2, <<If(Bin(">", x, Num(3)), <<BreakTo("outer")>>, <<>>), If(Is(k, 1), <<ContinueTo("outer")>>, <<>>), Log_(k)>>)>>))>>,
    <<SwitchOn(c, <<Clause(<<Num(0)>>, <<Set(x, Num(1)), FallThrough>>), Clause(<<Num(1), Num(5)>>, <<Update("+", x, Num(2))>>),
                    Clause(<<>>, <<Set(x, Num(4))>>)>>)>>,
    <<SwitchOn(NoNode, <<Clause(<<Bin(">", x, Num(1))>>, <<Add1(y)>>), Clause(<<>>, <<Set(y, Num(0))>>), Clause(<<Is(c, 1)>>, <<Set(y, x)>>)>>)>>,
    <<SwitchOn(x, <<Clause(<<c, y>>, <<When(<<BreakTo("")>>), Add1(x)>>), Clause(<<Num(1)>>, <<Set(c, Num(3))>>)>>)>>,
    <<Range_("three", <<Name("k", Number)>>, Num(3), <<If(Bin("==", k, c), <<BreakTo("")>>, <<>>), Update("+", x, k), Set(k, Num(9))>>)>>,
    <<Range_("array", <<Name("k", Number), Name("v", Number)>>, ar, <<Set(At(ar, Num(1)), Num(9)), Update("+", x, v)>>)>>,
    <<Range_("place", <<Name("_", Number), Name("v", Number)>>, Addr(ar), <<Set(At(ar, Num(1)), Num(8)), Update("+", x, v)>>)>>,
    <<Range_("yields", <<Name("v", Number)>>, Numbers, <<If(Bin("==", v, c), <<ContinueTo("")>>, <<>>), Update("+", x, v),
                                                        If(Bin(">", x, Num(3)), <<BreakTo("")>>, <<>>)>>)>>,
    <<SwitchOn(Num(1), <<Clause(<<Num(2)>>, <<Add1(x)>>), Clause(<<Num(1)>>, <<Add1(y), When(<<BreakTo("")>>), Add1(y)>>)>>)>>,
    <<Labeled("each", Range_("four", <<Name("k", Number)>>, Num(4), <<
        Labeled("of", SwitchOn(Bin("%", k, Num(2)), <<
          Clause(<<Num(0)>>, <<If(Bin(">=", x, k), <<BreakTo("of")>>, <<>>), Add1(x)>>),
          Clause(<<>>, <<If(Bin("<=", c, k), <<ContinueTo("each")>>, <<>>), Add1(y)>>)>>)), Log_(k)>>))>>,
    <<Labeled("again", Add1(x)), If(Bin("<", x, Num(3)), <<Goto("again")>>, <<>>)>>,
    <<If(Is(c, 1), <<Log_(y), ReturnOf(<<y>>)>>, <<Group(<<Let("y", x), Add1(y), Log_(y)>>)>>)>>>>]

---------------------------------------------------------------------------
(* Calls: arguments and results, operands changed by calls, deferred calls *)
(* and named results.                                                      *)

n == N("n")
m == N("m")
One(name) == OneNumber(name)
Call1(name, e) == Apply_(name, <<e>>)
CallFunctions == [
  sq |-> FuncDecl(One("ns"), One(""), <<Let("ts", Bin("*", N("ns"), N("ns"))), ReturnOf(<<N("ts")>>)>>),
  add |-> FuncDecl(<<Name("a6", Number), Name("b6", Number)>>, One(""), <<ReturnOf(<<Plus(N("a6"), N("b6"))>>)>>),
  swap |-> FuncDecl(<<Name("a7", Number), Name("b7", Number)>>, <<Name("", Number), Name("", Number)>>, <<ReturnOf(<<N("b7"), N("a7")>>)>>),
  note |-> FuncDecl(One("n8"), <<>>, <<Log_(N("n8"))>>),
  named |-> FuncDecl(One("n9"), One("r9"),
    <<Defer("d9", Call_(NoType, Literal("more", <<>>, <<>>, <<Update("*", N("r9"), Num(2))>>), <<>>)),
      Defer("e9", Call_(NoType, Literal("plus", <<>>, <<>>, <<Add1(N("r9"))>>), <<>>)),
      If(Is(N("n9"), 1), <<ReturnOf(<<Num(5)>>)>>, <<>>), Set(N("r9"), N("n9")), ReturnOf(<<>>)>>),
  grow |-> FuncDecl(One("n10"), One(""), <<Add1(N("n10")), ReturnOf(<<Bin("*", N("n10"), N("n10"))>>)>>),
  early |-> FuncDecl(One("n11"), One(""),
    <<For(<<Let("k11", Num(0))>>, Bin("<", N("k11"), Num(3)), <<Add1(N("k11"))>>,
          <<If(Bin("==", N("k11"), N("n11")), <<ReturnOf(<<Plus(N("k11"), Num(10))>>)>>, <<>>)>>), ReturnOf(<<Num(7)>>)>>)]
OneMore == Literal("step", <<>>, One(""), <<Add1(x), ReturnOf(<<x>>)>>)
NextValue == Call_(Number, Var("next", Function), <<>>)
Calls == [
  funcs |-> CallFunctions, methods |-> <<>>,
  start |-> Drawn \o <<Let("next", OneMore)>>,
  end |-> <<Log_(x), Log_(y), ReturnOf(<<Call1("sq", c)>>)>>,
  steps |-> <<
    <<Set(x, Plus(Call1("sq", x), Call1("sq", y)))>>,
    <<Set(x, Apply_("add", <<Call1("sq", x), Apply_("add", <<x, Call1("sq", Num(2))>>)>>))>>,
    <<SetAll(<<x, y>>, <<Call_(Tuple(<<Number, Number>>), Func("swap"), <<x, Call1("grow", y)>>)>>)>>,
    <<Set(y, Plus(x, NextValue))>>, <<Set(y, Apply_("add", <<x, NextValue>>))>>,
    <<Log_(x), If(Both(Is(x, 1), Bin(">", NextValue, Num(1))), <<Add1(y)>>, <<>>)>>,
    <<If(Either(Is(c, 1), Is(NextValue, 3)), <<Set(y, x)>>, <<>>)>>,
    <<Defer("d1", Call_(NoType, Func("note"), <<x>>))>>, <<When(<<Defer("d2", Call_(NoType, Func("note"), <<NextValue>>))>>)>>,
    <<Set(y, Call1("named", c))>>, <<Set(x, Plus(Call1("grow", x), x))>>, <<Set(x, Call1("early", c))>>,
    <<Set(y, Bin("/", Num(6), c))>>>>]

---------------------------------------------------------------------------
(* Arrays: elements at an index that is decided when the callback runs,    *)
(* copies, and pointers to arrays and to elements.                         *)

Three == ArrayOf(3, Number)
PA == PointerTo(Three)
br == Var("br", Three)
pa == Var("pa", PA)
pe == Var("pe", P)
mat == Var("mat", ArrayOf(2, ArrayOf(2, Number)))
Sum(e) == Plus(At(e, Num(0)), Plus(At(e, Num(1)), At(e, Num(2))))
ArrayFunctions == [
  make |-> FuncDecl(One("n14"), <<Name("", Three)>>,
             <<Let("made", Elements(Three, <<Plus(N("n14"), Num(1)), N("n14"), Num(2)>>)), ReturnOf(<<Var("made", Three)>>)>>),
  sum |-> FuncDecl(<<Name("s1", Three)>>, One(""), <<Set(At(Var("s1", Three), Num(0)), Num(20)), ReturnOf(<<Sum(Var("s1", Three))>>)>>),
  fill |-> FuncDecl(<<Name("s2", PA), Name("n12", Number)>>, <<>>, <<Set(At(Var("s2", PA), N("n12")), Num(30))>>)]
Arrays == [
  funcs |-> ArrayFunctions, methods |-> <<>>,
  start |-> Drawn \o <<Let("ar", Elements(Three, <<x, c, Num(2)>>)), Let("br", ar), Let("pa", Addr(ar)), Let("pe", Addr(At(ar, Num(1)))),
                       Declare("mat", mat.type)>>,
  end |-> <<Log_(Sum(ar)), Log_(At(ar, Num(0))), Log_(Sum(br)), Log_(At(br, Num(1))), Log_(Deref(pe)), Log_(At(At(mat, Num(1)), Num(1))),
            ReturnOf(<<At(pa, Num(2))>>)>>,
  steps |-> <<
    <<Set(At(ar, c), Num(7))>>, <<Set(br, ar)>>, <<Set(At(br, c), At(ar, Num(1)))>>, <<Set(pa, Addr(br))>>, <<Set(At(pa, c), Num(4))>>,
    <<Set(Deref(pe), Num(8))>>, <<When(<<Set(pe, Addr(At(br, Num(1))))>>)>>, <<Set(pe, Addr(At(ar, c)))>>, <<Set(pe, Addr(At(pa, c)))>>,
    <<Set(Deref(pa), br)>>, <<Set(At(At(mat, c), Num(1)), At(At(mat, Num(1)), c))>>, <<Set(At(At(mat, Num(1)), c), At(ar, c))>>,
    <<Set(pe, New(Number))>>, <<Set(c, Num(0))>>,
    <<Set(x, At(Call_(Three, Func("make"), <<x>>), Bin("-", At(Call_(Three, Func("make"), <<y>>), Num(2)), Num(2))))>>, <<Set(At(br, Num(1)), Apply_("sum", <<ar>>))>>, <<Do(Call_(NoType, Func("fill"), <<pa, c>>))>>,
    <<If(Bin("==", ar, br), <<Set(At(Addr(ar), Num(0)), Num(6))>>, <<Set(At(Deref(pa), c), Minus(x))>>)>>,
    <<Range_("at", <<Name("_", Number), Name("v", Number)>>, pa, <<Set(At(ar, Num(2)), Num(3)), Update("+", x, v)>>)>>>>]

Families == Pairs(Pointers) \o Pairs(Functions) \o Pairs(Interfaces) \o Pairs(Control) \o Pairs(Calls) \o Pairs(Arrays)

---------------------------------------------------------------------------
(* The run.                                                                *)

CONSTANT Checks  \* levels of run-time checks

GoLanguage == INSTANCE GoMeaning

VARIABLES program, checks, lowered
vars == <<program, checks, lowered>>

Init == \E all \in {Families} : \E number \in DOMAIN all : program = all[number] /\ checks \in Checks /\ lowered = <<>>
LowerProgram == lowered = <<>> /\ lowered' = <<LowerCallback(program, checks)>> /\ UNCHANGED <<program, checks>>
Spec == Init /\ [][LowerProgram]_vars

\* Draws of x and c.
Tapes == {<<0, 1>>, <<1, 0>>, <<2, 1>>, <<1, 3>>}

\* Without checks nothing is promised of a callback that panics.
Agrees(does, meaning) == (checks = "none" /\ meaning.panicked) \/ does = meaning.does
MeansGo(function) == \A tape \in Tapes : Agrees(Run(function, tape), GoLanguage!Meaning(program, checks, tape))

\* A callback is lowered to a valid function with the effects that the Go
\* specification gives the callback, in their order, and with its result,
\* whatever is drawn: pointers, functions and interfaces keep aliasing and
\* copying as Go does, values survive the reuse of locals by later calls,
\* deferred calls run at the end, and a panic ends the callback.
Meant == \A one \in Range(lowered) : ~one.failed /\ Valid(one.function) /\ MeansGo(one.function)
=============================================================================
