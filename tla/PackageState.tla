---------------------------- MODULE PackageState ----------------------------
(***************************************************************************)
(* The objects of a package that callbacks reach through package variables *)
(* (frontend.go, level_global.go, lower.go).  The compiler lays them out   *)
(* in one block of the engine's memory, turns pointers into handles - the  *)
(* address plus 1, 0 for nil - and interfaces into a tag and a handle, and *)
(* lets the first preprocess callback write the initial values, behind a   *)
(* flag it sets last.  The module is a program running: the callbacks of   *)
(* its entities are called by the engine, and each carries out statements. *)
(***************************************************************************)
EXTENDS Integers, Sequences, FiniteSets, Functions

CONSTANTS
  PackagePrograms,  \* [mode, level, initial, variables, entities]
  Objects,          \* the objects of a program, and "mark" for a field of the singleton
  Nodes,            \* those that are Nodes, the others are Cells
  PackageValues     \* the numbers statements assign

\* The pointers of an object are typed, and Cells have none.  "preprocess" is
\* an entity that has that callback, "none" one the compiler makes up.
Owned == Objects \ {"mark"}
Initial == [value : Int, link : (Owned \ Nodes) \cup {"nil"}, shape : Owned \cup {"nil"}]
IsProgram(p) ==
  /\ p.mode \in {"play", "watch", "tutorial", "preview"} /\ p.level \in BOOLEAN
  /\ p.variables \in Seq(Owned)
  /\ p.initial \in [Owned -> Initial]
  /\ \A o \in Owned \ Nodes : p.initial[o].link = "nil" /\ p.initial[o].shape = "nil"
  /\ p.entities \in Seq({"preprocess", "none"})
ASSUME PackageAssumption ==
  /\ IsFiniteSet(Objects) /\ "nil" \notin Objects /\ "mark" \in Objects
  /\ Nodes \subseteq Owned /\ PackageValues \subseteq Int
  /\ \A p \in PackagePrograms : IsProgram(p)

VARIABLES
  source,   \* the program
  layout,   \* of its objects
  memory,   \* memory[storage][index]
  waiting,  \* entities whose preprocess has not been called
  answered  \* by the last statement: [statement, ended, value]

packageVars == <<source, layout, memory, waiting, answered>>

---------------------------------------------------------------------------
(* layout.  Of the program p, p.initial[o] = [value, link, shape] are the *)
(* initial values; p.variables the objects of the package variables, in    *)
(* the order of their names.  p.level says whether there is a singleton    *)
(* struct{ target *Cell; mark Cell }.                                      *)

\* Storage of a singleton for memory, or for data in preview mode.
LevelStorage(m) ==
  CASE m \in {"play", "watch"} -> "LevelMemory"
    [] m = "tutorial" -> "TutorialMemory"
    [] m = "preview" -> "PreviewData"
PackageStorage(m) == LevelStorage(m)

\* struct{ value } and struct{ link; shape; value }: an interface takes two.
Type(o) == IF o \in Nodes THEN "Node" ELSE "Cell"
SizeOf(o) == IF o \in Nodes THEN 4 ELSE 1
ValueAt == [Cell |-> 0, Node |-> 3]

\* The singletons come first; what they take is known by storage.
LevelGlobalOffset(p, storage) == IF p.level /\ LevelStorage(p.mode) = storage THEN 2 ELSE 0
PackageGlobalOffset(p) ==
  LevelGlobalOffset(p, IF p.mode = "preview" THEN "PreviewData" ELSE "LevelMemory")

\* The objects in the order they are registered: one, then what it points to.
\* r.done are registered, r.todo are still to visit; a step shortens
\* Len(todo) + 2 * the number of objects that are not done.
RegisterPackageObject(p, r) ==
  IF r.todo = <<>> THEN r
  ELSE LET o == Head(r.todo)
       IN IF o = "nil" \/ o \in Range(r.done) THEN [done |-> r.done, todo |-> Tail(r.todo)]
          ELSE [done |-> Append(r.done, o), todo |-> <<p.initial[o].link, p.initial[o].shape>> \o Tail(r.todo)]
Steps(p) == Len(p.variables) + 2 * Cardinality(Objects)
Registered(p) ==
  LET after[n \in 0..Steps(p)] ==
        IF n = 0 THEN [done |-> <<>>, todo |-> p.variables] ELSE RegisterPackageObject(p, after[n - 1])
  IN after
PackageGlobals(p) == Registered(p)[Steps(p)].done

RequiresInitialization(p, o) ==
  p.initial[o].link # "nil" \/ p.initial[o].shape # "nil" \/ p.initial[o].value # 0

\* Where the next object goes after n of the roots.
Offsets(p, roots) ==
  LET after[n \in 0..Len(roots)] ==
        IF n = 0 THEN PackageGlobalOffset(p) ELSE after[n - 1] + SizeOf(roots[n])
  IN after

\* The roots in order, their offsets, and that of the flag behind them.
Parse(p) ==
  LET roots == PackageGlobals(p)
      offsets == Offsets(p, roots)
  IN [roots |-> roots,
      offset |-> [o \in Range(roots) |-> offsets[(CHOOSE i \in DOMAIN roots : roots[i] = o) - 1]],
      flag |-> offsets[Len(roots)],
      initialize |-> \E o \in Range(roots) : RequiresInitialization(p, o)]

---------------------------------------------------------------------------
(* Handles and tags. *)

Block(m) == m[PackageStorage(source.mode)]
At(m, index) == Block(m)[index]
Put(m, index, v) == [m EXCEPT ![PackageStorage(source.mode)][index] = v]

Start(o) == layout.offset[o]
HandleOf(o) == CASE o = "nil" -> 0 [] o = "mark" -> 1 + 1 [] OTHER -> Start(o) + 1

\* The types that implement Shape, in the order of their names, from 1.
Candidates == <<"Cell", "Node">>
TagOf(type) == CHOOSE i \in DOMAIN Candidates : Candidates[i] = type

\* Where the pointer an object has is kept: "mark" stands for the singleton.
PlaceOf(o) == IF o = "mark" THEN 0 ELSE Start(o)

\* The handle a pointer expression evaluates to.
PersistentPointerAddress(m, ref) ==
  CASE ref[1] = "nil" -> 0
    [] ref[1] = "var" -> HandleOf(ref[2])
    [] ref[1] = "link" -> At(m, PlaceOf(ref[2]))
    [] ref[1] = "cast" -> IF At(m, Start(ref[2]) + 1) = TagOf("Cell") THEN At(m, Start(ref[2]) + 2) ELSE 0

\* The type of what it points to: only a variable can be of a Node.
TypeOf(ref) == IF ref[1] = "var" THEN Type(ref[2]) ELSE "Cell"
ValueIndex(handle, type) == handle - 1 + ValueAt[type]

---------------------------------------------------------------------------
(* The initialization at the head of a preprocess callback. *)

StorePersistentInterface(m, index, tag, handle) == Put(Put(m, index + 1, handle), index, tag)

InitialObject(m, o) ==
  LET x == source.initial[o]
      linked == IF x.link = "nil" THEN m ELSE Put(m, Start(o), HandleOf(x.link))
      shaped == IF x.shape = "nil" THEN linked
                ELSE StorePersistentInterface(linked, Start(o) + 1, TagOf(Type(x.shape)), HandleOf(x.shape))
  IN IF x.value = 0 THEN shaped ELSE Put(shaped, Start(o) + ValueAt[Type(o)], x.value)

\* The roots one after the other, then the flag.
InitializeRoots(m) ==
  LET after[n \in 0..Len(layout.roots)] ==
        IF n = 0 THEN m ELSE InitialObject(after[n - 1], layout.roots[n])
  IN Put(after[Len(layout.roots)], layout.flag, 1)

\* Every preprocess callback, not the first.
InitializesAgain(m) == IF layout.initialize THEN InitializeRoots(m) ELSE m
InitializePackageGlobals(m) ==
  IF layout.initialize /\ At(m, layout.flag) = 0 THEN InitializeRoots(m) ELSE m

---------------------------------------------------------------------------
(* Statements: the memory after one and what it answers, or that it ended  *)
(* the callback.                                                           *)

Result(m, value) == [memory |-> m, ended |-> FALSE, value |-> value]
Ended(m) == [memory |-> m, ended |-> TRUE, value |-> 0]

GetValue(m, ref) ==
  LET handle == PersistentPointerAddress(m, ref)
  IN IF handle = 0 THEN Ended(m) ELSE Result(m, At(m, ValueIndex(handle, TypeOf(ref))))
SetValue(m, ref, v) ==
  LET handle == PersistentPointerAddress(m, ref)
  IN IF handle = 0 THEN Ended(m) ELSE Result(Put(m, ValueIndex(handle, TypeOf(ref)), v), 0)
StorePersistentPointer(m, o, ref) ==
  Result(Put(m, PlaceOf(o), PersistentPointerAddress(m, ref)), 0)
StoreShape(m, o, ref) ==
  Result(IF ref[1] = "nil" THEN StorePersistentInterface(m, Start(o) + 1, 0, 0)
         ELSE StorePersistentInterface(m, Start(o) + 1, TagOf(TypeOf(ref)), PersistentPointerAddress(m, ref)), 0)
CopyShape(m, o, other) ==
  LET tag == At(m, Start(other) + 1)
  IN Result(IF tag = 0 THEN StorePersistentInterface(m, Start(o) + 1, 0, 0)
            ELSE StorePersistentInterface(m, Start(o) + 1, tag, At(m, Start(other) + 2)), 0)
CallShape(m, o) ==
  LET tag == At(m, Start(o) + 1)
  IN IF tag = 0 THEN Ended(m)
     ELSE Result(m, At(m, ValueIndex(At(m, Start(o) + 2), Candidates[tag])) + IF Candidates[tag] = "Node" THEN 10 ELSE 0)
PointerEqual(m, ref, other) ==
  Result(m, IF PersistentPointerAddress(m, ref) = PersistentPointerAddress(m, other) THEN 1 ELSE 0)

Execute(m, s) ==
  CASE s[1] = "get" -> GetValue(m, s[2])
    [] s[1] = "set" -> SetValue(m, s[2], s[3])
    [] s[1] = "link" -> StorePersistentPointer(m, s[2], s[3])
    [] s[1] = "shape" -> StoreShape(m, s[2], s[3])
    [] s[1] = "copy" -> CopyShape(m, s[2], s[3])
    [] s[1] = "call" -> CallShape(m, s[2])
    [] s[1] = "equal" -> PointerEqual(m, s[2], s[3])

Names == Range(layout.roots) \cup IF source.level THEN {"mark"} ELSE {}
NodeNames == Names \cap Nodes
\* What has a pointer to a Cell.
Linked == NodeNames \cup (Names \cap {"mark"})

\* Pointers to objects of one type compare and assign; those to any call.
CellRefs ==
  {<<"nil">>} \cup {<<"var", o>> : o \in Names \ NodeNames} \cup {<<"link", o>> : o \in Linked}
    \cup {<<"cast", o>> : o \in NodeNames}
NodeRefs == {<<"var", o>> : o \in NodeNames}

Reading ==
  {<<"get", ref>> : ref \in CellRefs \cup NodeRefs} \cup {<<"call", o>> : o \in NodeNames}
    \cup {<<"equal", ref, other>> : ref, other \in CellRefs}
Writing ==
  {<<"set", ref, v>> : ref \in CellRefs \cup NodeRefs, v \in PackageValues}
    \cup {<<"link", o, ref>> : o \in Linked, ref \in CellRefs}
    \cup {<<"shape", o, ref>> : o \in NodeNames, ref \in {<<"nil">>} \cup {<<"var", x>> : x \in Names}}
    \cup {<<"copy", o, other>> : o, other \in NodeNames}

\* The callbacks that may write to memory, or to data in preview mode.
LevelMemoryWritable(mode, phase) ==
  CASE mode = "play" -> phase \in {"preprocess", "updateSequential", "touch"}
    [] mode = "watch" -> phase \in {"preprocess", "updateSequential"}
    [] mode = "tutorial" -> phase \in {"preprocess", "navigate", "update"}
    [] mode = "preview" -> phase = "preprocess"
Statements(phase) == Reading \cup IF LevelMemoryWritable(source.mode, phase) THEN Writing ELSE {}

Phases ==
  CASE source.mode = "play" -> {"updateSequential", "touch", "updateParallel"}
    [] source.mode = "watch" -> {"updateSequential", "updateParallel"}
    [] source.mode = "tutorial" -> {"navigate", "update"}
    [] source.mode = "preview" -> {"render"}

\* The objects a reading statement names, not those it reaches through them.
Named(s) ==
  IF s[1] = "call" THEN {s[2]} ELSE UNION {IF Len(s[i]) = 2 THEN {s[i][2]} ELSE {} : i \in 2..Len(s)}

---------------------------------------------------------------------------
(* The engine calls preprocess of every entity before any other callback,  *)
(* in an order of its own; one the program does not have is made up by the *)
(* compiler and only initializes.  UpdateSpawn of watch mode it may call   *)
(* even before.                                                            *)

Carry(m, s) ==
  /\ memory' = Execute(m, s).memory
  /\ answered' = [statement |-> s, ended |-> Execute(m, s).ended, value |-> Execute(m, s).value]

Preprocess(entity) ==
  /\ entity \in waiting
  /\ LET m == InitializePackageGlobals(memory)
     IN IF source.entities[entity] = "preprocess"
        THEN \E s \in Statements("preprocess") : Carry(m, s)
        ELSE memory' = m /\ UNCHANGED answered
  /\ waiting' = waiting \ {entity}
  /\ UNCHANGED <<source, layout>>

Callback(phase) ==
  /\ waiting = {} /\ source.entities # <<>>
  /\ \E s \in Statements(phase) : Carry(memory, s)
  /\ UNCHANGED <<source, layout, waiting>>

\* A program whose UpdateSpawn names an object to initialize is refused.
UpdateSpawn ==
  /\ source.mode = "watch"
  /\ \E s \in Reading :
       /\ \A o \in Named(s) \ {"mark"} : ~RequiresInitialization(source, o)
       /\ Carry(memory, s)
  /\ UNCHANGED <<source, layout, waiting>>

PackageInit ==
  /\ source \in PackagePrograms
  /\ layout = Parse(source)
  /\ memory = [storage \in {"LevelMemory", "TutorialMemory", "PreviewData"} |-> [index \in 0..layout.flag + 1 |-> 0]]
  /\ waiting = DOMAIN source.entities
  /\ answered = [statement |-> <<"none">>, ended |-> FALSE, value |-> 0]

PackageNext ==
  \/ \E entity \in DOMAIN source.entities : Preprocess(entity)
  \/ \E phase \in Phases : Callback(phase)
  \/ UpdateSpawn

PackageSpec == PackageInit /\ [][PackageNext]_packageVars

---------------------------------------------------------------------------
(* The heap the memory stands for: the object at an address, before the    *)
(* initialization those it will write.                                     *)

Pending == layout.initialize /\ At(memory, layout.flag) = 0
Absent == [value |-> 0, link |-> "nil", shape |-> "nil"]
ObjectAt(handle) == IF handle = 0 THEN "nil" ELSE CHOOSE o \in Names : handle = HandleOf(o)
Decoded(o) ==
  CASE o \notin Names -> Absent
    [] o = "mark" /\ o \in Names -> [value |-> At(memory, 1), link |-> ObjectAt(At(memory, 0)), shape |-> "nil"]
    [] o \in Names \ {"mark"} /\ Pending -> source.initial[o]
    [] o \in NodeNames /\ ~Pending ->
         [value |-> At(memory, Start(o) + 3), link |-> ObjectAt(At(memory, Start(o))),
          shape |-> IF At(memory, Start(o) + 1) = 0 THEN "nil" ELSE ObjectAt(At(memory, Start(o) + 2))]
    [] o \in Names \ (NodeNames \cup {"mark"}) /\ ~Pending -> [Absent EXCEPT !.value = At(memory, Start(o))]

decoded == [o \in Objects |-> Decoded(o)]
Heap == INSTANCE PackageHeap WITH
  heap <- decoded, reply <- answered, Numbers <- PackageValues

HeapStart ==
  \A o \in Names : Decoded(o) = IF o = "mark" THEN Absent ELSE source.initial[o]

(* Whatever order the engine calls the callbacks in, every statement does  *)
(* to the memory what it does to the objects, which have their initial     *)
(* values from the start: nothing is initialized late or twice, a pointer  *)
(* leads to the same object from every callback, and a statement ends its  *)
(* callback when it uses nil and only then.                                *)
KeepsObjects == HeapStart /\ [][Heap!Next]_<<decoded, answered>>
=============================================================================
