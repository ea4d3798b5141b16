# Formal models of sonolus-go

TLA+ models of the sonolus-go tool chain, which compiles engines written in a subset of Go to
Sonolus engine data, together with model-checking configurations for TLC and proofs for TLAPS.
Everything here is translated from the Go source of the repository; paths below are relative to
its root.

1. [The system](#1-the-system)
2. [Modules](#2-modules)
3. [What the runs check](#3-what-the-runs-check)
4. [Bounds](#4-bounds)
5. [Fairness](#5-fairness)
6. [What is proved](#6-what-is-proved)
7. [What the models leave out](#7-what-the-models-leave-out)
8. [Disagreements found](#8-disagreements-found)
9. [Plan](#9-plan)

## 1. The system

A compilation goes through

    package patterns -> source.LoadMode -> frontend.Parser -> typed CFG IR
      -> optimize.Optimizer -> frontend.PlaceConstantTables -> backend -> Artifacts
      -> build.PackageArtifacts -> WriteAtomic (dist/<name>)   or   the development server

once for each of the modes play, watch, preview and tutorial, since one source tree is loaded with a
different build tag for each. `internal/compiler/sim` and `internal/simexec` execute the nodes of the
backend as the engine does.

| Component | State it keeps | Operations | Hard behaviour |
|---|---|---|---|
| `Compiler` (`internal/compiler/compiler.go`, `schema.go`) | packages by mode, packages loaded for the schema, last result, source files; a mutex | `Compile`, `Schema`, `SourceFiles`, `Stats` | one goroutine per mode reads the disk while it is edited; results are reused across calls; failures at any stage |
| Callback cache (`callback_cache.go`, `project_optimize.go`) | an immutable published generation; per session a base generation and pending entries | `begin`, `optimize`, `commit`; a worker pool over the callbacks | sessions of several compilers run concurrently; functions are shared by pointer and rewritten in place later; two limits on a generation |
| Output (`internal/build/package.go`, `cmd/sonolus-go/cmd.go`) | directories under `dist` | `build`, `Write`, `WriteAtomic` | failing calls, several processes, processes killed between two renames |
| Development server (`cmd/sonolus-go/devserver.go`) | snapshot behind an RWMutex, watched directories | event loop, `recompile`, requests, console | edits during a recompilation, bounded event queue, readers holding up the writer |
| Level loader (`internal/level`) | none | `LoadDevelopment`, `Validate` | reads the disk after the compilation it is validated against |
| Container code (`frontend/lower.go`, `container_sort.go`) | emitted code over a size slot and a backing of fixed capacity | the `VarArray`, `ArrayMap`, `ArraySet` operations, sorting, linked entity lists | loops moving cells, expressions evaluated more than once, user code running inside an operation |
| Frontend (`internal/compiler/frontend`) | one session per mode; per callback the graph being built, frames of the expanded calls, a pool of locals | declarations, layouts, lowering to the CFG | temporaries reused by the pool, aliases of pointers and captured variables, deferred calls, tags for what Go decides at run time |
| Package objects (`frontend.go`, `level_global.go`, `lower.go`) | objects reachable from package variables, in the engine's memory | layout, guarded initialization, access by handles | the engine calls the callbacks of many entities in an order nobody wrote down |
| Optimizer (`internal/compiler/optimize`, `internal/compiler/ir`) | the function being rewritten, the cached analyses | the passes of three levels, the validator | SSA construction and destruction, allocation of overlapping locals, threading of branches |
| Backend (`internal/compiler/backend`) | the node list of a mode | finalization, simplification, assembly of nodes | sharing of equal nodes between callbacks, compound assignments, jump tables |
| Replay streams (`frontend/stream.go`, `lower.go`, `simexec`) | entries by key in numbered streams, recorded by play and given to watch | typed writes, queries, ranges over keys; low-level calls by number | two modes number the same declaration on their own; neighbours at the ends and between keys |
| Simulator (`internal/compiler/sim`, `internal/simexec`) | memory, stacks, streams of a run | `Execute` | numeric edges of the runtime functions |
| Scaffolding (`internal/scaffold`) | files of a new project | `mod init`, `work init`, `init` | exclusive creation with rollback while others work in the same directory |
| Artifact cache (`cmd/sonolus-go/cache`) | one FIFO map per mode | Get and Put | eviction order; used by tests only |
| Source and tracer, catalog, directives, tags, pack, stubs | none that lives on | pure functions and sequential I/O | - |

How they meet: the command line and the development server make a new `Compiler` per compilation; the
server gives all of them one `CallbackCache`. A `Compiler` runs the loaders of its modes and the
optimizer's workers concurrently and everything else in order. The server's goroutine publishes artifacts,
packed engine and levels as one value, which the request handlers read under the read lock.

What makes each correct:

- *Compiler*: a stored result belongs to the packages stored with it; its modes agree on what they
  must share; two answers agree; a failing call changes nothing; every call returns.
- *Callback cache*: no cached function is ever rewritten; a generation is determined by the
  compilation that published it, within both limits; a compilation with the cache gives what it
  would give without.
- *Output*: an output directory is a whole package or absent; what was there is recoverable; nothing
  is left behind; no output is touched until all targets compile.
- *Development server*: what is served compiled, and its levels fit it; its files are watched; no edit
  of a watched file goes unnoticed; every request is answered.
- *Containers*: each operation does what the bounded sequence operation does, traps exactly where it
  is out of range, and sorting is a stable permutation in the space reserved.
- *Linked lists*: sorting keeps every entity, leaves both chains of links consistent, is stable, and returns
  for any comparator.
- *Maps and sets*: keys stay unique over any sequence of operations, removals keep the other entries.
- *Scaffolding*: a command makes all its files or none, and never touches a file somebody else made.
- *Package objects*: every object has its initial value before the first statement sees it, and keeps what was
  assigned last, by whatever way and from whatever callback.
- *Replay streams*: watch reads what play wrote, under the same field and key, and a range over keys misses and repeats none.
- *Lowering*: a callback does what the Go specification says of it.
- *Backend and simulator*: the nodes of a callback, executed, do what its graph does, whatever other callbacks share
  nodes with it.
- *Optimizer*: after every pass the function is valid and does what it did: the same draws, outputs and
  writes to shared memory in the same order, and the same value returned; in SSA form every value is
  defined on all ways to its uses; locals that share memory never lose a value that is still read.

## 2. Modules

| Module | Models | Extends it |
|---|---|---|
| `CallbackCache` | cache, worker pool, table placement, publication | `CallbackCacheMC`, `CallbackCacheProofs` |
| `UncachedCompile` | *abstract*: each session answers once with what its own project compiles to | implemented by `CallbackCache` |
| `Compiler` | one Compiler and its concurrent callers | `CompilerMC`, `CompilerProofs` |
| `EngineOutput` | `build` and `WriteAtomic` of several processes | `EngineOutputMC`, `EngineOutputProofs` |
| `DevServer` | event loop, watches, snapshot, requests | `DevServerMC`, `DevServerProofs` |
| `BoundedSequence` | *abstract*: a sequence of at most `Capacity` elements, one operation a step | implemented by `Containers` |
| `BoundedMap` | *abstract*: a map, or a set, of at most `Capacity` keys | implemented by `Containers` |
| `Containers` | the loops emitted for `VarArray`, and the code of `ArrayMap` and `ArraySet` in the cells of one | `ContainersMC`, `ContainersProofs` |
| `MergeSort` | the array sort emitted for capacities above 16 | `SortsMC`, `SortsProofs` |
| `LinkedSort` | the sort emitted for linked lists of entities | `SortsMC`, `SortsProofs` |
| `Scaffold` | the commands that create projects, and a user beside them | `ScaffoldMC`, `ScaffoldProofs` |
| `PackageHeap` | *abstract*: the objects of a package as Go has them | implemented by `PackageState` |
| `PackageState` | their layout, initialization and access | `StorageMC`, `StorageProofs` |
| `Streams` | replay streams: declarations of two modes, writes of play, queries and ranges of watch | `StorageMC`, `StorageProofs` |
| `IR` | the intermediate code, constant folding, the validator, walks over expressions and flow | `Execution`, `SSA`, `LoweringValues` |
| `Execution` | what a function does when it runs, after the interpreter of the optimizer's tests | `Optimizer`, `LoweringMC` |
| `Locals` | what becomes of the locals at the end: the copies of an edge, locals made one, addresses in Temporary Memory | `SSA`, `Optimizer`, `StorageProofs` |
| `SSA` | dominance, `ToSSA`, `FromSSA` | `Dataflow` |
| `Dataflow` | liveness, dead code, constant propagation, `InlineVars`, common subexpressions | `Simplify` |
| `Simplify` | flow coalescing, associative calls, switches, exit blocks, small conditional blocks, loop-invariant code motion | `Optimizer` |
| `Optimizer` | interference, copy coalescing and allocation of locals; the pass manager and the lists of the three levels | `PipelineMC` |
| `Nodes` | the backend: finalization, simplification and assembly of nodes | `Simulator` |
| `Simulator` | the execution of nodes | `PipelineMC` |
| `PipelineMC` | the callbacks of a mode through optimizer and backend, one after the other, and the programs that go through | |
| `GoSyntax` | syntax trees of callbacks | `GoMeaning`, `LoweringValues`, `LoweringMC` |
| `GoMeaning` | *abstract*: what a callback does by the Go specification | instance in `LoweringMC` |
| `LoweringValues` | the lowerer's values, builder, run-time checks, variants, pointers and interfaces, frames and parameters | `Lowering` |
| `Lowering` | expressions, calls, assignments and statements | `LoweringMC` |
| `Iteration` | folds used by the lowering | `GoSyntax` |

How state and actions correspond to the code:

**CallbackCache.** A session is a call of `Compiler.Compile` from `begin` on. Function objects are cells with an
owner (`session`, `job`) and a kind, so that a function handed out without a clone appears as one cell in two
places. `entries` is `CallbackCache.entries`, `base`, `pending` and `hits` are the fields of
`callbackCacheSession`. The worker pool is the set of jobs taken and not finished, at most `MaxWorkers`;
looking up, optimizing and storing are separate steps of a job. After all jobs have ended, placing tables
writes every result cell of the session; the backend may fail; `commit` chooses the survivors in key order
and replaces the generation. The refinement mapping to `UncachedCompile` is the answer of each session.

**Compiler.** `disk` is a version of the source tree. A call takes the mutex, forms `pending` as
`compiler.go:105-115` does, each mode is loaded in a step of its own that reads the version of that moment,
and the call ends by success (all of packages, result and files replaced) or in one of the failures: load,
frontend, comparison of the shared declarations, callbacks. `Schema` uses the same mutex and its own
packages.

**EngineOutput.** A process compiles its targets one by one, then for each target makes the
staging directory, writes the files in any order, reserves and frees the backup name, asks whether the
output exists, renames it away, renames the stage into place and removes the backup; `Rollback` and `CleanUp` are
the error return with its deferred removals. Contents are sets of pairs (file, writing process), so a
mixed or partial directory cannot pass for a package.

**DevServer.** A directory has a version; the version of the engine's own directory says which directories it
imports and which hold its level data. `loop` is the position of the goroutine in `recompile`; `pending` counts events
in the watcher's queue. `client` is the state of a request with respect to the RWMutex: a request that arrives while
the writer waits is `blocked` and is admitted by the unlock, as `sync.RWMutex` documents. `first` is a history variable, the snapshot a request found
when it was admitted: the handlers read the fields of the snapshot one by one, and all must be of that one.

**Containers**, arrays. `size` and `cells` are the slot and the backing. An operation that only reads is one step; one with a
loop that moves cells sets `run` and takes one step per iteration, its locals being fields of `run`. `Extend` takes
elements from an iterator between whose elements the environment may use the same array. Runtime checks are on: a failing
guard ends the callback. The refinement mapping to `BoundedSequence` shows the array as it was at the start of an
operation until the operation's last step.

**Containers**, maps and sets. An entry takes the place of an element of the array; a search reads and is part of the step of its operation, a removal
is the array's loop. `kind` says which container a behaviour is about, so that one run has all three. The refinement mapping to
`BoundedMap` takes the first entry of a key and shows a removal as done when its loop starts.

**MergeSort** and **LinkedSort.** One step is one basic block of the emitted graph, or a few that follow each other; `pc` and
`block` name it. `stack` holds the merges put off. The callables given to the linked sort are arrays: the links and the answers of the
comparator, which may be any relation, not only an order.

**Scaffold.** A command is a process whose `pc` goes from call to call of the operating system, each of which may fail, and which may
be killed at any of them; the user adds files and directories. `file` says who made a file and whether its
content is there; `created` is the list that the rollback works off. An existing directory is written in place, a
missing one under another name and renamed.

**PackageState.** `layout` is what the compiler decides: the objects in the order the walk of `RegisterPackageObject` meets them, as a list of
what is still to visit, and their offsets. `memory` are the blocks of the engine; a step is a callback of an entity that
carries out one statement, after the initialization if it is a preprocess; `answered` is that statement with its result, or that it
ended the callback on nil. Of the engine it is assumed that every preprocess is called before
the other callbacks, but `UpdateSpawn` of watch mode at any time. The mapping to `PackageHeap` decodes the memory, and shows the initial values
as long as they are still to be written.

**Streams.** `play` and `watch` are the declarations of the two modes as `parseStreams` records them; an initial state is a pair that
`compareStreams` accepts, since nothing else is compiled. A handle is a field with an index into its array; its identifiers are counted from 1, one for
each slot. `streams` is the executor's map, each a list of entries in the order of keys; `written` is a history variable, what play has written under
each handle and key. A step of play is one typed write, with the stores of all its slots, or one low-level write; `Replay` hands the recording to
watch, as `Options.Streams` of the simulator does. In watch every query is an operator on the state, and a range
statement is stepped through: `iterator` holds its locals, `Turn` is one execution of the body, after which it breaks, goes on or finds no
further key, and `seen` what the body has been given.

**Lowering.** The lowerer is sequential, so it is an operator from a lowerer and a node of the syntax tree to a lowerer; the
one action lowers a program. A call is expanded where it stands. What Go decides at run time about pointers, functions and
interfaces is a *variant*: a number, with a switch over the targets that were found so far. `GoMeaning` evaluates the
same trees directly, with variables as cells, pointers as paths and panics, and shares nothing with the lowering but the trees.

**PipelineMC.** `Optimizer`'s step is taken until the last pass has run; then `Assemble` finalizes, simplifies and appends the
callback to the `list` of its mode, where equal nodes are shared, and the next callback of the mode begins. `Simulator` evaluates a
root of the list on a tape of draws: each evaluation counts a step and fails at the limit, at a node that is not there or at a wrong
number of arguments; memory is kept in blocks of words that grow as they are written, and the words of the read-only block are given: those of
the engine's ROM and behind them the constant table, which has a storage of its own until all callbacks are optimized. `roots` says what
each callback of the mode is and where its node begins; one whose node is the constant the engine assumes anyway is left out
(`Omitted`), and then `NodesDoTheSame` compares the function with that constant.

**Optimizer.** The passes are sequential functions from a function to a function, so they are operators; the machine
around them is the loop of `Optimize` (`optimize.go:164-213`). Its state is the `function`, the position `at` in the list of
the `level`, the cache `analyses` and the `outcome`. The one action computes the analyses the next pass requires unless they
are cached, runs the pass on them, validates the result and drops what the pass does not preserve or destroys. The
program is chosen at the start. A failing allocation ends in "too large", a refused result in "invalid". Blocks are
records with phis, instructions and a terminator, expressions are trees of constants, loads and calls, and places are
locals, indexed locals, SSA values and memory cells. `Execution` runs a function on a tape of the values `Random` draws,
and differs from the interpreter of the tests in one point: a cell nobody wrote holds no value rather than 0, since locals
that share memory after the allocation do not read 0. An execution that shows or branches on such a value is undefined
and nothing is asked of it from there on. For `StoresReachTheirReads` the execution also keeps which instruction wrote each cell of a
local last: in the step of the allocation every read must still get its value from the same store. So an aggregate that is built slot by
slot, or by its only store, and read through an index while other locals are placed over it shows even where the values agree.
`Observe` follows `singleStoreAggregateDefinitions` in what ends such a sharing: a call with effects does after it has read its
arguments, effects within the arguments before, and a log does not.

## 3. What the runs check

| Run | Checks | Shows |
|---|---|---|
| `callback_cache` | `EntriesPristine`, `GenerationExact`, `WarmHits`, `CacheInvisible`, `SessionsEnd` | three concurrent compilations, one of any of six projects: a session reads a generation while others hit its entries or replace it |
| `compiler` | `ResultIsPackages`, `AnswersAgree`, `ResultShares`, `FailureAtomic`, `CallsReturn` | three concurrent calls during edits, with every kind of failure |
| `engine_output` | `NoPartialOutput`, `NoLitter`, `NothingBeforeAllCompile`, `OutputRecoverable` | two builds of two targets with failures and kills everywhere |
| `dev_server` | `ServedIsComplete`, `SnapshotWatched`, `EditsNoticed`, `ComesToRest`, `RequestsAnswered` | edits and requests during recompilations, overflowing event queue |
| `scaffold` | `AllOrNothing`, `NewDirectoryWhole`, `NothingOverwritten` | two commands of any kind in one directory, with failures, kills and a user who adds files |
| `containers` | `ArrayImplementsSequence`, `ImplementsMap`, `ImplementsSet` | every operation but `Pop` implements that of a sequence, a map or a set |
| `var_array_pop` | `PopReturnsRemoved` is violated | `Pop` returns the wrong element |
| `sorts` | `SortedStably`, `StackFits`, `NothingLost`, `SortedBothWays`, `OnlyListWritten`, `BothReturn` | all arrays of up to seven elements with three keys; all lists of up to five entities under every order of three levels and under every relation between three of them |
| `storage` | `KeepsObjects`, `ReadsBack`, `VisitsDue` | two entities and callbacks in every phase on the objects of seven programs in the four modes; every recording over four declarations of streams, read back and ranged over in every way |
| `lowering` | `Meant` | the callbacks of six families with and without run-time checks, executed on four tapes |
| `pipeline` | `SameExecution`, `NeverInvalid`, `StoresReachTheirReads`, `DeadStoresGone`, `NodesDoTheSame` | 103 programs at three levels, executed on eight tapes after every pass and again as nodes, four callbacks to a mode, some left out as the engine's default |
| `optimizer_index` | `SameExecution` is violated | an array indexed in a branch condition only is taken for scalars |

Every property of a passing run has a mutant in `PROJECT.json`: a plausible bug, written as an operator beside the
definition it would replace, under which that property fails in the same run. The operators marked `mutant` are used
nowhere else. For the optimizer one mutant per property is listed out of many that were tried: `SameExecution` also fails for a
dominance frontier that is not iterated, a critical edge that is not split, a Phi folded to its first constant, a negation told to a target
that other edges reach too, switch cases that are not scaled with their discriminant, values hoisted from the loop that defines them,
and neighbours of united locals that are not joined.

`CHECK_DEADLOCK FALSE` is set where the modelled program stops: all calls have been made, all builds or commands
have ended, all edits are spent, the last pass has run, the list is sorted, the callback is lowered. `containers` keeps the check on.

## 4. Bounds

- `callback_cache`: three sessions let one hit entries of a generation that the second is replacing
  after the first published it. The projects hold a
  callback twice, one that fails, one the encoder cannot encode, one larger than `MaxBytes`, the unset
  and the standard level (which must share entries), and more entries than `MaxEntries = 2`. `MaxBytes = 6` makes
  the byte limit skip an entry while a later one still fits.
- `compiler`: three modes (two read by `Schema`, one not), three callers, three versions of which the second fails to
  load or type-check for some modes and the third changes the shared declarations and does not compile.
- `engine_output`: two processes, two targets, packages of different file sets. `MaxFaults = 1` bounds renames that
  fail for an outside reason: a second one during the rollback loses the old output, because the error of the rollback
  is dropped (`package.go:168`) and the backup is then removed, so `OutputRecoverable` says "at most one".
- `dev_server`: one engine, one library that a later version imports, one level directory; three versions each; a queue of two
  events, so that it overflows; two clients, so that one can be blocked while the other reads.
- `containers`: capacity 3 gives empty, partly filled and full arrays and shifts of more than one cell; two
  of three elements compare equal. Maps and sets have four keys, one more than they hold, and two values.
- `sorts`: for arrays `Capacity = 7`, `Log = 3`; the code uses this algorithm for capacities
  above 16, but its control depends only on the size, and seven elements give three passes, unpaired runs, splits on both
  sides and a stack in use. For lists five entities give three passes with a short last run.
- `scaffold`: two commands, each of any kind, with at most two failures or kills and two edits of the user in all; the templates are cut to
  four files of a module (one in `.vscode`, and the pair `go.mod`, `go.sum` that other commands look for) and two of an engine.
- `storage`, objects: an object without pointers and two with a link and an interface, which point at each other in several ways; two
  entities of which one has a preprocess of its own; values 0 and 2. Seven programs cover the four modes, with and without a singleton,
  initial values or statements in the preprocess. The size of the memory follows from the layout. The view `Unanswered` leaves the last answer out of the states that are told apart:
  no action reads it, and the refinement is checked on every step.
- `storage`, streams: values of no, one and two slots, a stream beside data, an array of two streams; play and watch take any two of the four declarations, of
  which two differ in the slots of one field only. Three whole keys and two values per slot; questions and frames at keys, between them and beyond them. `MaxId = 3`
  leaves one identifier undeclared, so low-level writes hit a declared stream (refused), a free one, and one out of range.
  A behaviour is about objects or about streams: the two share no state.
- `lowering`: six families (pointers, functions, interfaces, control, calls, arrays). The callbacks of a family are all ordered pairs of
  different steps of the family between a common beginning and end, so that any two steps meet in both orders. Four tapes
  decide the conditions both ways. Checks `none` and `notify`; `Fuel = 200` blocks are enough for all. A callback that panics is compared only
  with checks, since without them nothing is promised.
- `pipeline`: 33 programs written for the passes (branches, switches, loops with a swap, a break, an invariant, a dead cycle,
  arrays, arrays that take turns in the same cells with a log or a draw in between, memory, reads of a constant table), two that do no more than
  return a constant, and 68 from two families: any two of six statements in the arms of a branch inside a loop, and any of
  four kinds of values with any of four effects between its definition and its use. All are in the form lowering gives. Eight tapes of three
  draws lie on both sides of the conditions. `Fuel = 40` blocks end every loop but the one meant not to end.
  `TemporaryMemorySlots = 8` stands for 4096, and one program has ten cells of locals, which fit only
  where locals are removed or share cells.
  Numbers are whole; a quotient that is not is a value of its own (`100000 + ...`) which no rewriting may confuse with another.
  Nodes are evaluated with infinities and NaN as well. `StepLimit = 1000` stands for the executor's million evaluations; only the program
  meant not to end reaches it.
  Modes are made of four consecutive programs, as `update`, `shouldSpawn`, `spawnOrder` and `touch`, so that callbacks share nodes;
  in two modes of constants some callbacks are left out and others, of the same constant, are not.
- `optimizer_index`: one program, the lowered form of the Go in the comment beside it.

## 5. Fairness

- `CallbackCache`: weak fairness of each session's and its workers' steps. They are goroutines that never block on anything
  but the job channel and two short mutexes.
- `Compiler`: strong fairness of each call's steps: `source.LoadMode` returns, the stages are sequential functions, and the
  mutex, free again and again, is granted (`sync.Mutex` hands it to a waiter of one millisecond); nothing is assumed of
  edits or of new calls.
- `DevServer`: weak fairness of the recompiling goroutine and of the end of each response (the client reads it or its
  connection ends). `RequestsAnswered` and `ComesToRest` fail without the latter: a client that never
  reads holds the read lock, and with it the writer, as the handlers write under the lock (`devserver.go:119-125`).
- `SortsMC`: weak fairness of the next block of either sort.

The other modules check safety only: their processes may be killed (`EngineOutput`, `Scaffold`), wait for the engine (`PackageState`, `Streams`), or run
alone to an end that `at` or the size of the operation bounds.

## 6. What is proved

The modules whose names end in `Proofs` hold machine-checked proofs for all values of the constants that satisfy the named
assumptions of the module they extend (`CacheAssumption`, `CompilerAssumption`, `OutputAssumption`, `DevServerAssumption`,
`NamesAssumption`, `PackageAssumption`, `StreamAssumption`, `SlotsAssumption`, `VarArrayAssumption`, `MergeSortAssumption` with `PowersAssumption`,
`LinkedSortAssumption`): any number of sessions, processes, files, entities, objects, streams, keys, locals and elements, any capacity, any comparator
of linked lists. In each, the theorem follows from an inductive invariant stated in the proof module and preserved by each action; those about
`Locals`, which has no actions, are about what its operators return.

| Theorem | States | Why an invariant is needed |
|---|---|---|
| `CallbackCacheProofs!TypeCorrect` | `TypeOK` | |
| `CallbackCacheProofs!Pristineness` | `EntriesPristine` | a cell is owned: what is in `entries`, in a base or pending is an `entry` cell, what is rewritten is a `result` cell; so no rewriting reaches a cached function |
| `CallbackCacheProofs!EntriesLimited` | `EntryLimit` | the survivors are chosen within the limit, and nothing else writes the generation |
| `CallbackCacheProofs!CacheRefinesUncached` | `CacheInvisible` | every result of a job is the optimizer's output for its own key, whether it was computed or cloned; it needs pristineness of base, pending and published entries together |
| `CallbackCacheProofs!GenerationsExact` | `GenerationExact` | the keys pending in a session are those of its ended jobs, and the commit has kept of the keys it has looked at what the fold keeps of them (`KeysInv`) |
| `CallbackCacheProofs!HitsExact` | `WarmHits` | a session's hits are the ended jobs whose key is in the generation it began with (`HitsOK`) |
| `CompilerProofs!TypeCorrect` | `TypeOK` | |
| `CompilerProofs!ReportsItsPackages` | `ResultIsPackages` | the candidate of a running call extends the stored packages |
| `CompilerProofs!NoDisagreement` | `AnswersAgree` | every answer is a part of the stored packages, which only grow |
| `CompilerProofs!SharedDeclarations` | `ResultShares` | |
| `CompilerProofs!FailuresChangeNothing` | `FailureAtomic` | an action property |
| `EngineOutputProofs!TypeCorrect` | `TypeOK` | |
| `EngineOutputProofs!OutputsAreWhole` | `NoPartialOutput` | a process that may install has a complete stage (`StageOK`), and one that may put back has an empty or complete backup (`BackupOK`) |
| `EngineOutputProofs!NothingLeftBehind` | `NoLitter` | |
| `EngineOutputProofs!CompileBeforeWrite` | `NothingBeforeAllCompile` | a process still compiling owns nothing on disk (`CompilingOK`) |
| `EngineOutputProofs!OutputsAreRecoverable` | `OutputRecoverable`, if `MaxFaults <= 1` | an output that is missing is in the backup of a process that will put it back, or that has been killed and keeps it for ever (`HolderOK`); packages are not empty (`NoPackageIsEmpty`), so an empty reserved backup is never taken for one |
| `DevServerProofs!TypeCorrect` | `TypeOK` | |
| `DevServerProofs!OnlyCompleteServed` | `ServedIsComplete` | what each stage of `recompile` has established about what it read (`WorkOK`); nobody reads while the state is replaced, and the waiting readers are admitted after it (`OneSnapshot`) |
| `DevServerProofs!NoEditMissed` | `EditsNoticed` | while the goroutine is not at rest, an edit it has not read left an event (`EditsQueued`) |
| `DevServerProofs!ServedIsWatched` | `SnapshotWatched` | `watched` lies in `watches` but for recreated directories (`WatchOK`); the exception is needed, since `devserver.go:106-116` adds a directory only once |
| `ContainersProofs!VarArrayIsSequence` | `ArrayImplementsSequence` | between two steps of a loop the moved cells and its locals fix the sequence there will be (`ArrayInv`); every iteration leaves it alone (the lemmas `...Stutters`), and the other steps change it as the abstract operation does |
| `ContainersProofs!ArrayMapIsMap` | `ImplementsMap` | the cells in use hold different keys, but for the one a removal is moving over (`MapInv`); so a search finds the one entry of its key, and a step of a removal changes nothing that a search could find |
| `ContainersProofs!ArraySetIsSet` | `ImplementsSet` | the same invariant |
| `SortsProofs!MergeSortInvariant` | `TypeOK` | |
| `SortsProofs!MergeSortSortsStably` | `SortedStably` | elements of one run are ordered; elements of two runs, unless a merge at hand or put off crosses both (`OrderOK`); the cuts of a search part what is less from what is not (`CutOK`); a rotation exchanges neighbouring stretches, and no element of the second equals one of the first (`ExchangeStable`) |
| `SortsProofs!MergeSortStack` | `StackFits` | the larger part of a merge is put off and the smaller taken next, so with `n` put off the one at hand spans at most a `2^n`-th of the array (`StackOK`) |
| `SortsProofs!ListInvariant` | `ListInv` | |
| `SortsProofs!NeverLost` | `NothingLost` | the merged part, the two runs and the rest are chains over sets of entities that share out the list (`MergeAt`) |
| `SortsProofs!Sorts` | `SortedBothWays` | what is merged precedes what is not in its region, and runs of the current width are in order (`OuterOrder`, `MergeOrder`); for a comparator that is no order, only the chains |
| `SortsProofs!OthersUntouched` | `OnlyListWritten` | every link is written through a local that is `Nil` or in one of the chains |
| `StorageProofs!ReplayReadsBack` | `ReadsBack` | every stream is in order, and the streams of a handle have exactly the keys written under it, each slot its value (`Recording`); the identifiers of two handles never meet (`HandlesApart`), and equal layouts give both modes the same |
| `StorageProofs!RangeVisitsDue` | `VisitsDue` | what has been yielded is everything due on the way from the start to the current key (`Ranging`) |
| `StorageProofs!PackageKeepsObjects` | `KeepsObjects`, if no tutorial program has a singleton (`NoTutorialSingleton`; section 8 says why) | the layout is that of the program, and as long as an entity may still have to initialize, every preprocess is to come and the memory is all zeros; from then on each field of each object is where the layout says, with a value, handle or tag of what the heap has there (`PackageInvariant`, `Represents`) |
| `StorageProofs!PlacedApart` | an accepted placement keeps locals that interfere apart and within Temporary Memory | so does each prefix of it, but for locals that are already past the end (`PlacedWell`) |
| `StorageProofs!SharingFits` | locals that fit one after the other fit when they share | what has been placed ends no later than if it stood one after the other (`PlacedWell`) |
| `StorageProofs!SequentialApart` | without sharing, no two locals meet | |
| `StorageProofs!CopiesAtOnce` | the copies of an edge do all its moves at once | after the snapshots each new local has the old value of its source; during the moves every local not yet written and every snapshot still has it (`Snapped`, `MovesRead`) |
| `StorageProofs!UnitedApart` | locals that interfere never become one | the representatives of locals that interfere do so in the graph kept so far, and each stands for itself (`Stands`) |
| `ScaffoldProofs!CommandsAllOrNothing` | `AllOrNothing` | what a command has on the disk is what its list of created files says, each there once (`FilesOK`, `OwnOK`) |
| `ScaffoldProofs!NewDirectoriesWhole` | `NewDirectoryWhole` | before its rename a staging command has files in its own directory only, where nobody else writes (`StageOK`) |
| `ScaffoldProofs!NothingIsOverwritten` | `NothingOverwritten` | a rename meets no file: a directory that looks empty has none in a directory below either (`DirsOK`, `NoTarget`) |

`TypeCorrect`, `EntriesLimited`, `MergeSortInvariant` and `ListInvariant` state invariants no run lists: the proofs rest on them, and the
runs check what follows from them.

Six arguments carry most of the weight.

- *Scans and folds.* A loop that only reads, and the choice of the survivors, are recursive functions. That such a function exists on all
  of its domain, and what it returns, is proved from the well-foundedness of the naturals: the functions that satisfy the equation up
  to `n` exist and are unique for every `n`, and together they satisfy it everywhere (`ScanExists`, `GenerationsExact`'s lemmas on `FiniteKeySets`,
  `ChainIs` for the chains of links). `FirstHitIs`, `LastHitIs`, `CountIs` and `LeastIs` then say what the scans of the containers find.
- *The insertion sort.* The abstract sort is given by ranks: an element's place is the number of those that precede it. Ranks of different elements
  differ, so every place is taken (`RanksDiffer`, `EveryRank`); a sequence in order is its own sort (`SortedAlready`); and the exchange of two neighbours out of order
  leaves the sort what it was (`SortKeptByExchange`), which is what one shift of the emitted loop does.
- *Chains.* A list in memory is a sequence of distinct entities with the links running through it. Cutting a run, appending the
  entity at the tail and taking the head are lemmas about such sequences (`CutRun`, `AppendedTo`, `TakeLeft`), so that the steps of the sort are
  steps on sequences, and disjointness says that a link written for one chain is of no other.
- *Streams.* What a store does to the list of one stream is said by keys and values, not by places: it keeps the order, adds its key and no other, and
  changes the value of no other (`StoreIs`). From the order alone follow what the neighbours of a key are and what lies between them
  (`NeighbourIs`, `ValueIs`), and that sorting a recording changes nothing (`InOrderSame`). The layout is a sum over the fields, so the identifiers of two
  handles differ (`HandlesApart`), and fields that compare equal are as wide in both modes (`SameDeclarations`).
- *Package objects.* The walk that registers them ends because each step shortens a number: what is to visit, and two for each object not yet met
  (`Remaining`, `RegisterKeeps`). So it meets each object once and all that can be reached (`RootsAre`), offsets grow by the sizes (`OffsetsGrow`), and no
  two fields of any objects have one address (`PlacesApart`). A write to a field therefore changes that field and no other (`PutField`, `Within`), an
  address names one object (`HandlesAre`), and a pointer expression evaluated in the memory leads to the object it leads to in the heap (`RefLeads`).
  Each statement then does the same in both (`GetReplies`, `SetDone` and so on). The initialization, object by object, turns zeros into the
  initial values (`InitializeRootsIs`); which preprocess comes first makes no difference (`PreprocessKeeps`), and
  `UpdateSpawn` before it reads only objects whose initial values are zeros (`EarlyDone`).
- *Locals.* The three are loops over a list, so `ScanExists` gives the state after each step, and an invariant of the step carries to the end. First fit
  looks at the neighbours placed so far only; that this is enough is `FirstFitIs` with `ConflictsAre`. It never goes further than the sum of what is
  placed, behind which nothing is occupied, and that makes `SharingFits` true although the placements leave holes. A move reads a snapshot exactly
  if its source is the target of a move (`SnapshotsAre`); the targets of one edge differ, since each Phi of a block defines its own value.
  Interference is an input here: that it is computed right is part of what `pipeline` checks.

Only model-checked:

- the liveness properties (`SessionsEnd`, `CallsReturn`, `ComesToRest`, `RequestsAnswered`, `BothReturn`), which need `ENABLED`;
- the properties of the lowering, the optimizer, the backend and the simulator (`Meant`, `SameExecution`, `NeverInvalid`,
  `StoresReachTheirReads`, `DeadStoresGone`, `NodesDoTheSame`), whose expressions are trees that only recursive operators can walk. What `Locals` holds of these needs no
  recursion; its theorems say of all functions what those properties show of the programs of `pipeline`.

## 7. What the models leave out

- *CallbackCache*: the optimizer is a deterministic function of its whole input that may reject it; SHA-256 keys are taken to be distinct;
  the place of a table is opaque.
- *Compiler*: the load of one mode reads one version; in the code `go/packages` reads many files, so that even one mode may mix
  versions. Statistics, `cloneArtifacts` and source file lists are data.
- *EngineOutput*: files are written whole; `RemoveAll` succeeds; the renames are atomic; power loss is not modelled.
- *DevServer*: a compilation reads all modes at once (the mixture of modes is `Compiler`'s subject); events of the kind `Chmod`,
  which the loop ignores, do not exist; two clients stand for all.
- *Containers*: iterators over containers (`lower.go:8375-8432`; an iterator binds a yielded value that is read once as an alias, not
  as a copy), containers chosen at run time (`lower.go:5794-5928`), builds without runtime checks, which leave
  out-of-range behaviour undefined; values are atoms.
- *LinkedSort*: the callables are pure; they may be any code in a program.
- *Scaffold*: a removal that fails in the rollback; the making of directories above the target; a user who deletes files while a
  command runs; a target that is replaced by something else after it was looked at. Seen while modelling: two commands at once may both
  fail, as one's rollback removes the empty `.vscode` the other is about to use, and `init` may rely on the `go.mod` and `go.sum` of
  a `mod init` that later takes them back.
- *PackageState*: pointer types that refer to themselves, on which the layout recurses without bound (`level_global.go:226-239`);
  pointers to parts of an object; parallel assignments of pointer fields.
- *Streams*: interpolation is kept as the two entries it is between, keys are multiples of one half; identifiers the executor refuses (`execute.go:1351`), on which an
  execution fails; keys that are not finite; arrays of arrays of streams; queries by number; what a body does beyond leaving its loop (it cannot write, so it cannot disturb it).
- *Lowering*: struct fields other than as elements, containers, entities, streams, records in memory, package state, generics, methods as
  values, variadic calls, `len`, `cap`, `min` and `max`, intrinsics but `Random` and `DebugLog`. The callbacks also avoid what
  section 8 lists, and forms the frontend refuses or the model has no values for: dynamic indices into constant arrays,
  names declared again by `:=`, folded constants as case values, types that do not implement an interface they are asserted to, value receivers through
  a pointer in an interface, tuples of pointers, quotients that are not whole, `f == nil` for functions, deferred
  calls in loops or beside `goto`.
- *Nodes* and *Simulator*: remainders and powers, `While` bodies, exported memory, stride and offset of memory places, resources, the encoding of
  constant tables and their order in the ROM (there is one, at a fixed place behind the rest), the grouping of tutorial callbacks, diagnostics; of the simulator
  the values memory begins with, the stack, streams (a module of their own), pointed access, copies and increments, `While` and `DoWhile`, the mathematical and easing
  functions, the host's handlers, entities, and the report of the path to a node that failed.
- *Optimizer*: the budgets of 16384 and 256 copies of inlined expressions, which the programs do not reach; numbers that are not whole, NaN
  and infinities; runtime functions beyond `Add`, `Subtract`, `Multiply`, `Divide`, `Negate`, `Not`, `Equal`, `Less`, `Random`, `DebugLog`
  and `Execute`, whose treatment stands for the other pure, commutative, associative or effectful ones; stride and offset of memory
  places; types, names and source positions; timing.
- Not modelled: the artifact cache of the command (a first-in first-out map behind a mutex, used by its tests only) and the parts without
  state: tracer, catalog, directives, tags, pack, API stubs, the Godori example.

## 8. Disagreements found

Two have a run that ends in a counterexample; `PROJECT.json` quotes the lines. Most of the documents are in
Chinese; the quotations here are translated.

1. `VarArray.Pop` returns the element below the one it removes (`lower.go:6038-6039`): the index is an expression over the
   size slot, evaluated again after the slot was stored.
2. "Dynamically indexed aggregates stay in memory" (`docs/optimization.md:77`): not if the only index is in a terminator, which
   `eligibleScalarLocals` (`ssa.go:191`) does not visit; `if flags[i]` then reads cells that are never written.

Met while modelling and not shown by a run. Where the models could meet one, its line says how they avoid it.

*Containers.*
- `Shuffle` draws its second index twice (`lower.go:6134`), so a step overwrites one element with another. `Containers` does the same, and
  `BoundedSequence` promises no more of `Shuffle` than that.
- `docs/performance.md:45` names a stable insertion sort; capacities above 16 get the merge sort.

*Optimizer.*
- "Empty successors reuse an already evaluated pure condition" (`internal/compiler/optimize/PIPELINE.md:18`): `exprKey`
  (`dataflow.go:1340`) gives `(a+b+c)*a < 9` and `(a+b)*c*a < 9` one key once calls have more than two arguments, and the second is
  threaded along the first (`coalesce.go:152`). No program of `pipeline` has such a pair, and no property covers it.
- Common subexpression elimination may swap the arguments of a commutative call even where they have effects; `ToSSA`
  puts no Phi at an entry block with a single back edge; the copies of `FromSSA` come before the discriminant of a branch with
  one target. None of the programs shows these; whether lowering can make one that does is open.
- No pass of the standard list finds an analysis in the cache that an earlier one left, as each is dropped before; and
  `CombineExitBlocks` declares liveness preserved though it coalesces flow. With these lists it cannot show, so no property
  asks whether a cached analysis is current.

*Lowering.* The callbacks of `LoweringMC` avoid all of these.
- A pointer or function variable that gets a new target later in a loop body: the switch emitted earlier in the body does not have
  it (`lower.go:3228-3237`; `docs/dsl-reference.md:361`, `:365`).
- The comparison of two interface values is the constant true (`lower.go:3604-3613`).
- Parallel assignments of pointers, `p, q = q, p` and `p, *p = &b, 5`, assign one after the other (`docs/dsl-reference.md:351`, `:365`).
- A return out of, or a labelled branch across, a range over a function skips the rest of the producer and its deferred calls
  (`docs/dsl-reference.md:357`); a label in such a body has one block though the producer may yield at two places.
- `&a[i] == &a[i]` is false for a dynamic index; an assertion with two results, or a type switch, on a nil interface ends the callback
  instead of taking the `default` (`docs/dsl-reference.md:369`); the variable of a type switch aliases the value in the interface.
- The pool takes back the local of a closure or helper whose address or capture went to a variable outside, and gives it out again.
- A loop has one variable for all iterations; `x += f()` reads `x` after `f` changed it; a named interface result that only one branch assigns, and a
  pointer parameter that is nil for certain, are mishandled or refused.

*Elsewhere.*
- "After a file changes [...] compiles again" (`docs/cli.md:115`): not if it changes between being read and being watched
  (`devserver.go:57`), nor after its directory was removed and created again. `SnapshotWatched` says what is left.
- "A single source snapshot" (`docs/architecture.md:38`): each mode is loaded on its own, so the modes of one answer may
  be from different versions. `AnswersAgree` is stated of versions of modes, not of one version.
- "Atomic directory replacement" (`docs/cli.md:71`): between the two renames of `package.go` there is no output.
- The objects of a tutorial package are laid out over the singletons of its level (`frontend.go:220`): `PackageGlobalOffset` asks for
  the storage of another mode. The tutorial programs of `storage` have no singleton, and `PackageKeepsObjects` excepts those that do.

*Streams.*
- A frame that starts exactly at the last key of a stream yields that key again, though the frame before yielded it: the next key of the last is itself
  (`execute.go:1396`), and `inlineStreamIterator` asks only whether it is there (`lower.go:8334`). `Due` says so.
- A declaration of more than 65535 slots compiles, and the executor refuses the identifiers above (`execute.go:1351`): in the example, `EmptyLanes` comes after
  `Reserved [99999]` and is out of its reach (`godori/play.go:14`).
- The values of two fields are compared by the name of their type and by their slots (`stream.go:92`): types of one name with other fields in
  play and watch pass.

## 9. Plan

Done so far: the concurrent parts, the containers, the sorts, scaffolding, package objects, replay streams and the locals of the optimizer, each with its
proofs; the passes of the optimizer, the lowering of statements, the backend with the simulator. What is left, in this order:

1. Structs and entities in the lowering; containers as values of callbacks.
2. The node functions that the backend makes of the intrinsics (remainders, powers, stacks, pointed access).
3. Archetype layout and inheritance, resource identifiers, level validation: tables that are functions of the declarations.
4. Proofs: dominance and liveness, which need no recursion and could move to modules of their own; then that the interference
   `Locals` is given is that of the function.
