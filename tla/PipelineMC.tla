----------------------------- MODULE PipelineMC -----------------------------
(***************************************************************************)
(* The callbacks of a mode on their way through the compiler: each is      *)
(* optimized pass by pass (Optimizer), finalized, simplified and appended  *)
(* to the one node list of the mode (Nodes), which the engine executes     *)
(* (Simulator).                                                            *)
(*                                                                         *)
(* The programs below are what lowering makes of small Go functions:       *)
(* scalars in locals of one slot, arrays in locals of several, draws       *)
(* stored before they are used, a block for every branch and loop.         *)
(***************************************************************************)
EXTENDS Optimizer, Simulator

CONSTANTS
  Modes,     \* every mode is a sequence of programs by their number
  Callbacks  \* what the first, second ... of them are

VARIABLES
  mode,   \* the mode being compiled
  list,   \* its nodes
  roots   \* of its callbacks, in order: which, the program and its node, 0 if left out

pipelineVars == <<vars, mode, list, roots>>

PipelineInit ==
  /\ mode \in DOMAIN Modes
  /\ program = Modes[mode][1]
  /\ level \in Levels
  /\ at = 1
  /\ function = Programs[program]
  /\ analyses = <<>>
  /\ outcome = "running"
  /\ list = <<>>
  /\ roots = <<>>

Compiled(f) == Simplify(Finalize(f))

Assemble ==
  /\ outcome = "done"
  /\ LET node == Compiled(function)
         callback == Callbacks[Len(roots) + 1]
         added == AppendNode(list, node)
         Rooted(index) == [callback |-> callback, program |-> program, node |-> index]
     IN IF Omitted(callback, node)
        THEN roots' = Append(roots, Rooted(0)) /\ UNCHANGED list
        ELSE roots' = Append(roots, Rooted(added.index)) /\ list' = added.list
  /\ outcome' = "assembled"
  /\ UNCHANGED <<program, level, at, function, analyses, mode>>

NextCallback ==
  /\ outcome = "assembled"
  /\ Len(roots) < Len(Modes[mode])
  /\ program' = Modes[mode][Len(roots) + 1]
  /\ at' = 1
  /\ function' = Programs[program']
  /\ outcome' = "running"
  /\ UNCHANGED <<level, analyses, mode, list, roots>>

PipelineNext ==
  \/ Optimize /\ UNCHANGED <<mode, list, roots>>
  \/ Assemble
  \/ NextCallback

PipelineSpec == PipelineInit /\ [][PipelineNext]_pipelineVars

\* What the engine takes for the value of a callback it is not given; of
\* the others it does not use the value.
ByDefault(callback, v) ==
  CASE callback = "shouldSpawn" -> v # 0
    [] callback \in {"spawnOrder", "spawnTime", "despawnTime", "updateSpawn"} -> v = 0
    [] OTHER -> TRUE

\* Every callback appended so far does, executed from the list as it is
\* now, what its program did before anything was compiled; one that was
\* left out did nothing but return what the engine goes by without it.
NodesDoTheSame ==
  outcome = "assembled" =>
    \A r \in Range(roots), tape \in Tapes :
      LET expected == Expected[r.program][tape]
      IN IF r.node # 0 THEN Does(expected, Simulate(list, r.node, tape))
         ELSE expected.status = "returned" =>
                Len(expected.shown) = 1 /\ ByDefault(r.callback, Value(expected.shown[1][2]))

---------------------------------------------------------------------------
(* Instances for TLC. *)

L(i) == Load(Local(i, 0))
S(i, e) == Store(Local(i, 0), e)
N(v) == Const(v)
Log(e) == EvalOf(Call("DebugLog", <<e>>))
Random == Call("Random", <<N(0), N(4)>>)
Drawn(i) == S(i, Random)
Op(fn, a, b) == Call(fn, <<a, b>>)
Add(a, b) == Op("Add", a, b)
Sub(a, b) == Op("Subtract", a, b)
Mul(a, b) == Op("Multiply", a, b)
Less(a, b) == Op("Less", a, b)
Eq(a, b) == Op("Equal", a, b)
Not(a) == Call("Not", <<a>>)
B(code, term) == Block(<<>>, code, term)
Fun(locals, result, blocks) ==
  [entry |-> 1, blocks |-> blocks, locals |-> locals, result |-> result, allocated |-> FALSE]
Slot(id, i) == Load(Indexed(id, i, 0, 2, 1, 0))
SetSlot(id, i, e) == Store(Indexed(id, i, 0, 2, 1, 0), e)
Ones(n) == [i \in 1..n |-> 1]

---------------------------------------------------------------------------
(* Branches. *)

Straight == Fun(Ones(2), 1, <<B(<<Drawn(1), S(2, Add(L(1), N(1))), Log(L(2))>>, Return(<<Mul(L(2), L(2))>>))>>)

Diamond == Fun(Ones(2), 1, <<
  B(<<Drawn(1)>>, Branch(Less(L(1), N(2)), 2, 3)),
  B(<<S(2, N(1))>>, Jump(4)),
  B(<<S(2, Add(L(1), N(1)))>>, Jump(4)),
  B(<<Log(L(2))>>, Return(<<Mul(L(2), N(2))>>))>>)

\* A value assigned on one way only, and used there only.
HalfDefined == Fun(Ones(3), 1, <<
  B(<<Drawn(1), Drawn(2)>>, Branch(Less(L(1), N(2)), 2, 3)),
  B(<<S(3, Add(L(2), N(1)))>>, Jump(3)),
  B(<<Log(L(1))>>, Branch(Less(L(1), N(2)), 4, 5)),
  B(<<>>, Return(<<L(3)>>)),
  B(<<>>, Return(<<L(2)>>))>>)

\* The same condition again after an empty block, and its negation.
Repeated == Fun(Ones(3), 1, <<
  B(<<Drawn(1), S(2, N(5))>>, Branch(Less(L(1), N(1)), 2, 3)),
  B(<<>>, Branch(Less(L(1), N(1)), 4, 5)),
  B(<<S(3, Not(Less(L(1), N(1))))>>, Jump(6)),
  B(<<S(3, Add(L(2), N(1)))>>, Jump(6)),
  B(<<S(3, N(9))>>, Jump(6)),
  B(<<>>, Return(<<L(3)>>))>>)

\* The negation where two edges meet.
SharedNegation == Fun(Ones(3), 1, <<
  B(<<Drawn(1), Drawn(2)>>, Branch(Less(L(1), N(1)), 2, 3)),
  B(<<Log(N(7))>>, Branch(Less(L(2), N(1)), 3, 4)),
  B(<<S(3, Not(Less(L(1), N(1))))>>, Return(<<L(3)>>)),
  B(<<>>, Return(<<N(4)>>))>>)

ConstantBranch == Fun(Ones(3), 1, <<
  B(<<S(1, N(1)), Drawn(2)>>, Branch(Eq(L(1), N(1)), 2, 3)),
  B(<<S(3, Add(L(2), L(1)))>>, Jump(4)),
  B(<<S(3, N(0)), S(1, N(7))>>, Jump(4)),
  B(<<Log(L(1))>>, Branch(Eq(L(1), N(1)), 5, 6)),
  B(<<>>, Return(<<L(3)>>)),
  B(<<>>, Return(<<N(3)>>))>>)

\* Two edges to one target, on a draw that must still be made.
DroppedDraw == Fun(Ones(1), 1, <<
  B(<<>>, Branch(Less(Random, N(1)), 2, 2)),
  B(<<Drawn(1)>>, Return(<<L(1)>>))>>)

---------------------------------------------------------------------------
(* Switches. *)

EqualityChain(first, second, third) == Fun(Ones(2), 1, <<
  B(<<Drawn(1), S(2, N(0))>>, Branch(Eq(L(1), N(first)), 2, 3)),
  B(<<S(2, N(5))>>, Jump(7)),
  B(<<>>, Branch(Eq(N(second), L(1)), 4, 5)),
  B(<<S(2, L(1))>>, Jump(7)),
  B(<<>>, Branch(Eq(L(1), N(third)), 7, 6)),
  B(<<S(2, N(6))>>, Jump(7)),
  B(<<Log(L(2)), Log(L(1))>>, Return(<<Add(L(2), L(1))>>))>>)

CaseSwitch(cases) == Fun(Ones(2), 1, <<
  B(<<Drawn(1)>>, Switch(L(1), cases, 4)),
  B(<<S(2, N(5))>>, Jump(5)),
  B(<<S(2, N(6))>>, Jump(5)),
  B(<<S(2, L(1))>>, Jump(5)),
  B(<<>>, Return(<<L(2)>>))>>)

---------------------------------------------------------------------------
(* Loops. *)

Count == Fun(Ones(2), 1, <<
  B(<<Drawn(1), S(2, N(0))>>, Jump(2)),
  B(<<>>, Branch(Less(L(2), L(1)), 3, 4)),
  B(<<Log(L(2)), S(2, Add(L(2), N(1)))>>, Jump(2)),
  B(<<>>, Return(<<L(2)>>))>>)

\* Two values swapped in every turn.
Swap == Fun(Ones(4), 1, <<
  B(<<Drawn(1), Drawn(2), S(3, N(0))>>, Jump(2)),
  B(<<>>, Branch(Less(L(3), L(1)), 3, 4)),
  B(<<S(4, L(1)), S(1, L(2)), S(2, L(4)), S(3, Add(L(3), N(1)))>>, Jump(2)),
  B(<<>>, Return(<<Sub(L(1), L(2))>>))>>)

\* Tested at the end; what was before the last turn is used after the loop.
LastTurn == Fun(Ones(3), 1, <<
  B(<<Drawn(1), S(2, N(0)), S(3, N(0))>>, Jump(2)),
  B(<<S(3, L(2)), S(2, Add(L(2), N(1)))>>, Branch(Less(L(2), L(1)), 2, 3)),
  B(<<>>, Return(<<L(3)>>))>>)

\* An expression over values of outside, of the loop, and of both.
Invariants == Fun(Ones(4), 1, <<
  B(<<Drawn(1), Drawn(2), S(3, N(0)), S(4, N(0))>>, Jump(2)),
  B(<<>>, Branch(Less(L(3), L(1)), 3, 4)),
  B(<<S(4, Add(L(4), Mul(Add(L(1), L(2)), Add(L(3), L(2))))), S(3, Add(L(3), N(1)))>>, Jump(2)),
  B(<<>>, Return(<<L(4)>>))>>)

\* Left in the middle, continued early.
BreakContinue == Fun(Ones(3), 1, <<
  B(<<Drawn(1), S(2, N(0)), S(3, N(0))>>, Jump(2)),
  B(<<>>, Branch(Less(L(2), N(3)), 3, 6)),
  B(<<S(2, Add(L(2), N(1)))>>, Branch(Eq(L(2), L(1)), 2, 4)),
  B(<<S(3, Add(L(3), L(2)))>>, Branch(Less(L(1), L(3)), 6, 5)),
  B(<<Log(L(3))>>, Jump(2)),
  B(<<>>, Return(<<L(3)>>))>>)

\* A loop in a loop, with a value of the outer one in the inner.
Nested == Fun(Ones(4), 1, <<
  B(<<Drawn(1), S(2, N(0)), S(4, N(0))>>, Jump(2)),
  B(<<S(3, N(0))>>, Branch(Less(L(2), L(1)), 3, 5)),
  B(<<>>, Branch(Less(L(3), L(2)), 4, 6)),
  B(<<S(4, Add(L(4), Mul(Add(L(2), L(1)), L(2)))), S(3, Add(L(3), N(1)))>>, Jump(3)),
  B(<<>>, Return(<<L(4)>>)),
  B(<<Log(L(4)), S(2, Add(L(2), N(1)))>>, Jump(2))>>)

\* Values that only feed each other, across blocks.
DeadCycle == Fun(Ones(5), 1, <<
  B(<<Drawn(1), S(2, N(0)), S(3, N(1)), S(4, N(2))>>, Jump(2)),
  B(<<S(5, Add(L(4), N(1)))>>, Branch(Less(L(2), L(1)), 3, 4)),
  B(<<S(3, L(5)), S(4, Add(L(3), L(4))), S(2, Add(L(2), N(1)))>>, Jump(2)),
  B(<<>>, Return(<<L(2)>>))>>)

\* The end of a chain is stored again before it is read.
DeadChain == Fun(<<2, 1, 1, 1>>, 1, <<
  B(<<Drawn(2), Store(Local(1, 0), L(2)), Store(Local(1, 1), N(3))>>, Branch(Less(L(2), N(2)), 2, 3)),
  B(<<S(3, Slot(1, L(2))), S(4, Add(L(3), N(1)))>>, Jump(3)),
  B(<<S(4, Slot(1, N(1)))>>, Return(<<L(4)>>))>>)

Forever == Fun(Ones(1), 1, <<
  B(<<Drawn(1)>>, Branch(Less(L(1), N(1)), 2, 4)),
  B(<<>>, Jump(3)),
  B(<<>>, Jump(2)),
  B(<<>>, Return(<<L(1)>>))>>)

---------------------------------------------------------------------------
(* Memory and arrays. *)

Mem(i) == Load(Memory("LevelMemory", i))
SetMem(i, e) == Store(Memory("LevelMemory", i), e)
Rom(i) == Load(Memory("EngineRom", i))

\* Read before the write, used after it; the write takes off what was there.
Snapshot == Fun(Ones(2), 1, <<
  B(<<Drawn(1), SetMem(N(0), L(1)), S(2, Mem(N(0))), SetMem(N(0), Sub(N(7), Mem(N(0))))>>, Return(<<Add(L(2), Mem(N(0)))>>))>>)

Shared == Fun(Ones(2), 1, <<
  B(<<Drawn(1), SetMem(N(0), Add(Add(Rom(N(1)), L(1)), Add(Rom(N(1)), L(1))))>>, Branch(Less(L(1), Rom(N(0))), 2, 3)),
  B(<<S(2, Mul(Add(Rom(N(1)), L(1)), N(3)))>>, Jump(4)),
  B(<<S(2, Mem(N(0)))>>, Jump(4)),
  B(<<Log(Add(Rom(N(1)), L(1)))>>, Return(<<L(2)>>))>>)

\* Filled by slots, read by an index; then another array in its place.
Arrays == Fun(<<2, 2, 1, 1>>, 1, <<
  B(<<Drawn(3), Store(Local(1, 0), L(3)), Store(Local(1, 1), N(4)), S(4, Slot(1, L(3)))>>,
    Branch(Less(L(4), N(4)), 2, 3)),
  B(<<Store(Local(2, 0), L(4)), Store(Local(2, 1), N(8)), S(4, Slot(2, L(3)))>>, Jump(3)),
  B(<<>>, Return(<<L(4)>>))>>)

\* Stored once by an index and read there, with another array alive.
OneStore == Fun(<<2, 1, 1, 2>>, 1, <<
  B(<<Drawn(2), Store(Local(4, 0), N(5)), Store(Local(4, 1), L(2)), S(3, Slot(4, L(2))),
      SetSlot(1, L(2), Add(L(3), N(1))), Log(Slot(1, L(2)))>>, Return(<<L(3)>>))>>)

\* One store in a loop fills the array; another array in every turn.
Filled == Fun(<<2, 1, 1, 2>>, 1, <<
  B(<<Drawn(2), S(3, N(0))>>, Jump(2)),
  B(<<>>, Branch(Less(L(3), N(2)), 3, 4)),
  B(<<Store(Local(4, 0), L(3)), Store(Local(4, 1), N(6)), Log(Slot(4, L(3))),
      SetSlot(1, L(3), Add(L(2), L(3))), S(3, Add(L(3), N(1)))>>, Jump(2)),
  B(<<S(3, Slot(1, N(0))), S(2, Slot(1, N(1)))>>, Return(<<Sub(L(3), L(2))>>))>>)

\* The same, read again after another instruction, and before and after it
\* arrays that fit only where it is not alive.
Fill(id, n, e) == [i \in 1..n |-> Store(Local(id, i - 1), e)]
Logged(between) == Fun(<<2, 1, 1, 4, 3, 1>>, 1, <<
  B(<<Drawn(2)>> \o Fill(4, 4, L(2))
      \o <<S(3, Slot(4, L(2))), SetSlot(1, L(2), Add(L(3), N(1))), Log(Slot(1, L(2))), between, S(3, Slot(1, L(2)))>>
      \o Fill(5, 3, L(3)) \o <<S(6, Slot(5, L(2)))>>,
    Return(<<Add(L(6), L(3))>>))>>)

\* An element stored by an index that changes before it is read: it is the
\* one of the turn before.
Alternating == Fun(<<2, 1, 1, 2, 1>>, 1, <<
  B(<<S(2, N(0)), S(3, N(0))>>, Jump(2)),
  B(<<>>, Branch(Less(L(3), N(3)), 3, 5)),
  B(<<SetSlot(1, L(2), Add(L(3), N(7))), S(2, Sub(N(1), L(2))), S(5, Slot(1, L(2))), S(3, Add(L(3), N(1)))>>
      \o Fill(4, 2, L(3)) \o <<Log(Slot(4, L(2)))>>,
    Branch(Less(N(1), L(3)), 4, 2)),
  B(<<Log(L(5))>>, Jump(2)),
  B(<<>>, Return(<<L(3)>>))>>)

\* Tables of constants, at an index that is drawn, known, or counts.
Tab(i) == Load(Memory("table", i))
TableReads == Fun(Ones(3), 1, <<
  B(<<Drawn(1), S(2, N(1)), S(3, N(0))>>, Branch(Less(L(1), N(3)), 2, 3)),
  B(<<S(3, Tab(L(1)))>>, Jump(3)),
  B(<<Log(L(3))>>, Branch(Eq(Tab(L(2)), N(4)), 4, 5)),
  B(<<>>, Return(<<Add(Tab(N(2)), Tab(L(2)))>>)),
  B(<<>>, Return(<<L(3)>>))>>)
TableLoop == Fun(Ones(1), 1, <<
  B(<<S(1, N(0))>>, Jump(2)),
  B(<<>>, Branch(Eq(Tab(L(1)), N(2)), 4, 3)),
  B(<<Log(L(1)), S(1, Add(L(1), N(1)))>>, Jump(2)),
  B(<<>>, Return(<<L(1)>>))>>)

Large == Fun(<<3, 3, 3, 1>>, 1, <<
  B(<<Drawn(4), Store(Local(1, 0), L(4)), Store(Local(2, 0), L(4)), Store(Local(3, 0), L(4))>>,
    Return(<<Add(Add(Load(Local(1, 0)), Load(Local(2, 0))), Load(Local(3, 0)))>>))>>)

Examples == <<
  Straight, Diamond, HalfDefined, Repeated, SharedNegation, ConstantBranch, DroppedDraw,
  EqualityChain(1, 2, 3), EqualityChain(0, 2, 2),
  CaseSwitch(<<Case(0, 2), Case(1, 3)>>), CaseSwitch(<<Case(2, 2), Case(0, 3)>>),
  CaseSwitch(<<Case(1, 2), Case(3, 3), Case(1, 3)>>), CaseSwitch(<<>>),
  Count, Swap, LastTurn, Invariants, BreakContinue, Nested, DeadCycle, DeadChain, Forever,
  Snapshot, Shared, Arrays, OneStore, Filled,
  Logged(Log(L(2))), Logged(Drawn(6)), Alternating, TableReads, TableLoop, Large>>

---------------------------------------------------------------------------
(* Families: two statements in the arms of a branch in a loop, and a value *)
(* with something that happens before it is used.                          *)

Statements == <<<<>>, <<S(1, L(2))>>, <<S(2, Add(L(1), N(1)))>>, <<S(1, N(2))>>, <<S(2, L(4)), S(4, L(1))>>, <<Log(L(4))>>>>
Arms(yes, no) == Fun(Ones(4), 1, <<
  B(<<Drawn(1), Drawn(2), S(3, N(0)), S(4, L(1))>>, Jump(2)),
  B(<<>>, Branch(Less(L(3), N(2)), 3, 7)),
  B(<<>>, Branch(Less(L(1), L(2)), 4, 5)),
  B(yes, Jump(6)),
  B(no, Jump(6)),
  B(<<S(3, Add(L(3), N(1)))>>, Jump(2)),
  B(<<Log(Sub(L(4), L(2)))>>, Return(<<L(1)>>))>>)

Values == <<Mem(N(0)), Rom(L(1)), Mul(Add(L(1), L(2)), L(1)), Slot(4, L(5))>>
Between == <<SetMem(N(0), L(2)), S(1, N(3)), SetSlot(4, L(5), L(2)), Log(L(1))>>
Later(value, between, again) == Fun(<<1, 1, 1, 2, 1>>, 1, <<
  B(<<Drawn(1), Drawn(2), S(5, N(0)), SetMem(N(0), L(1)), Store(Local(4, 0), L(1)), Store(Local(4, 1), N(1)),
      S(3, value), between>>, Branch(Less(L(3), L(2)), 2, 3)),
  B(<<Log(IF again THEN Add(value, L(3)) ELSE L(3))>>, Jump(3)),
  B(<<Log(Add(Mul(L(1), L(2)), L(3)))>>, Return(<<L(3)>>))>>)

Product(First, Second, F(_, _)) == FlattenSeq(MapSeq(LAMBDA a : MapSeq(LAMBDA b : F(a, b), Second), First))
Families ==
  Product(Statements, Statements, Arms)
  \o Product(Values, Between, LAMBDA v, b : Later(v, b, FALSE))
  \o Product(Values, Between, LAMBDA v, b : Later(v, b, TRUE))
\* Of callbacks that may be left out: 0 or 1 once it is computed.
Constants == <<Fun(Ones(1), 1, <<B(<<S(1, N(1))>>, Return(<<Sub(L(1), N(1))>>))>>),
               Fun(Ones(1), 1, <<B(<<S(1, N(1))>>, Return(<<Mul(L(1), N(1))>>))>>)>>
AllPrograms == Examples \o Families \o Constants

\* An element of an array chosen by an index is the condition:
\* flags := [2]bool{x < 1, x < 2}; if flags[i] { return 1 }; return 0
IndexedCondition == <<Fun(<<1, 1, 2>>, 1, <<
  B(<<Drawn(1), Drawn(2), Store(Local(3, 0), Less(L(1), N(1))), Store(Local(3, 1), Less(L(1), N(2)))>>,
    Branch(Slot(3, L(2)), 2, 3)),
  B(<<>>, Return(<<N(1)>>)),
  B(<<>>, Return(<<N(0)>>))>>)>>

AllTapes == {<<a, b, 1>> : a \in 0..3, b \in {0, 2}}
FewTapes == {<<a, b, 2>> : a \in 0..1, b \in 0..1} \cup {<<1, 2, 4>>, <<2, 1, 2>>}
MCLevels == {"minimal", "fast", "standard"}
StandardLevel == {"standard"}
\* Four programs are the callbacks of a mode.
RECURSIVE Grouped(_, _)
Grouped(from, n) ==
  IF from > n THEN <<>> ELSE <<SubSeq([i \in 1..n |-> i], from, IF from + 3 > n THEN n ELSE from + 3)>> \o Grouped(from + 4, n)
MCModes ==
  LET n == Len(AllPrograms) - 2
  IN Grouped(1, n) \o <<<<n + 1, n + 1, n + 2, n + 2>>, <<n + 2, n + 2, n + 1, n + 1>>>>
OneMode == <<<<1>>>>
MCCallbacks == <<"update", "shouldSpawn", "spawnOrder", "touch">>
=============================================================================
