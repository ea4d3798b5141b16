--------------------------- MODULE CallbackCache ---------------------------
(***************************************************************************)
(* The optimized-callback cache shared by Compiler instances               *)
(* (internal/compiler/callback_cache.go), together with the part of a      *)
(* compilation that uses it: the worker pool of project_optimize.go, the   *)
(* placement of constant tables, which rewrites the optimized functions in *)
(* place, and the order in which Compile publishes what it made.           *)
(*                                                                         *)
(* A session is one call of Compiler.Compile.  Sessions run concurrently   *)
(* and share `entries'; within a session the workers run concurrently.     *)
(* Functions are heap objects: the cells below are the *ir.Function values *)
(* the code holds pointers to, so that a missing clone shows as two owners *)
(* of one cell.                                                            *)
(***************************************************************************)
EXTENDS Naturals, FiniteSets

CONSTANTS
  Sessions,       \* calls of Compile sharing one CallbackCache
  Bodies,         \* typed IR of a callback with its mode and name
  NoBody,         \* a job slot the project does not use
  Fails,          \* bodies the optimizer rejects
  Encodable,      \* bodies cacheEncoder can encode
  Levels,         \* optimization levels; 0 is the unset one
  LevelStandard,
  Layouts,        \* where PlaceConstantTables puts a table in EngineRom
  MaxJobs,        \* callbacks of a project
  MaxWorkers,     \* GOMAXPROCS
  MaxEntries,     \* maxCallbackCacheEntries
  MaxBytes,       \* maxCallbackCacheBytes
  Size,           \* encoded size of the optimized function of a key
  Hash,           \* order of the SHA-256 keys
  Workloads,      \* what the sessions may be asked to compile, together
  Unplaced, NoCell, NoSession

Jobs == 1..MaxJobs
Keys == [body : Bodies, level : Levels \ {0}]
Objects == [of : Keys, place : Layouts \cup {Unplaced}]
Cells == [kind : {"result", "entry"}, session : Sessions, job : Jobs]

ASSUME CacheAssumption ==
  /\ MaxJobs \in Nat /\ MaxWorkers \in Nat \ {0}
  /\ MaxEntries \in Nat /\ MaxBytes \in Nat
  /\ NoBody \notin Bodies
  /\ Levels \subseteq Nat /\ LevelStandard \in Levels \ {0}
  /\ Size \in [Keys -> Nat]
  /\ Hash \in [Keys -> Nat] /\ \A k, l \in Keys : Hash[k] = Hash[l] => k = l
  /\ Workloads \subseteq
       [Sessions -> [plan : [Jobs -> Bodies \cup {NoBody}], level : Levels, layout : Layouts]]
  /\ Unplaced \notin Layouts
  /\ NoCell \notin Cells
  /\ NoSession \notin Sessions

VARIABLES
  project,     \* what each session compiles
  entries,     \* CallbackCache.entries: key -> cell of the cached function
  pc,          \* where each session is
  job,         \* state of each callback of the session
  free,        \* workers of the session waiting on jobQueue
  base,        \* callbackCacheSession.base
  pending,     \* callbackCacheSession.pending
  hits,        \* callbackCacheSession.hits
  out,         \* the cell of the function each job returned
  heap,        \* contents of the cells
  todo,        \* keys the commit loop has still to look at
  built,       \* keys the commit loop has put in the new generation
  used,        \* their encoded size
  generation,  \* history: the session that published `entries'
  origin       \* history: the generation each session began from

sessionVars == <<job, free, base, pending, hits, out, todo, built, used>>
vars == <<project, entries, pc, heap, generation, origin, sessionVars>>

(***************************************************************************)
(* optimize.NewOptimizer and CallbackCache.begin both read level 0 as      *)
(* LevelStandard, so that the key names the level the passes run at.       *)
(***************************************************************************)
OptimizerLevel(l) == IF l = 0 THEN LevelStandard ELSE l
CacheLevel(l) == IF l = 0 THEN LevelStandard ELSE l

Present(s) == {j \in Jobs : project[s].plan[j] # NoBody}

\* The key of a job: the structural hash of its IR, mode, name and level.
KeyOf(s, j) == [body |-> project[s].plan[j], level |-> CacheLevel(project[s].level)]

\* What the optimizer itself returns for a job: a new, unplaced function.
Optimized(s, j) ==
  [of |-> [body |-> project[s].plan[j], level |-> OptimizerLevel(project[s].level)],
   place |-> Unplaced]

Cacheable(s, j) == project[s].plan[j] \in Encodable
Hit(s, j) == Cacheable(s, j) /\ base[s][KeyOf(s, j)] # NoCell

ResultCell(s, j) == [kind |-> "result", session |-> s, job |-> j]
EntryIsResult(s, j) == ResultCell(s, j) \* mutant: the entry is not a clone
EntryCell(s, j) == [kind |-> "entry", session |-> s, job |-> j]

\* The function a hit hands out: CloneFunction of the cached one.
HitIsEntry(s, j) == base[s][KeyOf(s, j)] \* mutant: the hit is not cloned
HitCell(s, j) == ResultCell(s, j)

Queued(s) == {j \in Jobs : job[s][j] = "queued"}
\* jobQueue is unbuffered and fed in project order: the next job is the least.
Next1(s, j) == j \in Queued(s) /\ \A i \in Queued(s) : j <= i

EmptyMap == [k \in Keys |-> NoCell]

Init ==
  /\ project \in Workloads
  /\ entries = EmptyMap
  /\ pc = [s \in Sessions |-> "idle"]
  /\ job = [s \in Sessions |-> [j \in Jobs |-> IF j \in Present(s) THEN "queued" ELSE "absent"]]
  /\ free = [s \in Sessions |-> 0]
  /\ base = [s \in Sessions |-> EmptyMap]
  /\ pending = [s \in Sessions |-> EmptyMap]
  /\ hits = [s \in Sessions |-> 0]
  /\ out = [s \in Sessions |-> [j \in Jobs |-> NoCell]]
  /\ heap = [c \in Cells |-> NoCell]
  /\ todo = [s \in Sessions |-> {}]
  /\ built = [s \in Sessions |-> {}]
  /\ used = [s \in Sessions |-> 0]
  /\ generation = NoSession
  /\ origin = [s \in Sessions |-> NoSession]

-----------------------------------------------------------------------------
(***************************************************************************)
(* CallbackCache.begin, then the start of the worker pool.  The generation *)
(* is read once, under the mutex.                                          *)
(***************************************************************************)
Begin(s) ==
  /\ pc[s] = "idle"
  /\ pc' = [pc EXCEPT ![s] = "optimizing"]
  /\ base' = [base EXCEPT ![s] = entries]
  /\ origin' = [origin EXCEPT ![s] = generation]
  /\ free' = [free EXCEPT ![s] =
       IF MaxWorkers < Cardinality(Present(s)) THEN MaxWorkers ELSE Cardinality(Present(s))]
  /\ UNCHANGED <<project, entries, job, pending, hits, out, heap, todo, built, used, generation>>

\* A worker receives a job whose key is in the generation the session began
\* from: the entry joins the pending generation and its clone is the result.
TakeHit(s, j) ==
  /\ pc[s] = "optimizing" /\ free[s] > 0 /\ Next1(s, j)
  /\ Hit(s, j)
  /\ pending' = [pending EXCEPT ![s][KeyOf(s, j)] = base[s][KeyOf(s, j)]]
  /\ hits' = [hits EXCEPT ![s] = @ + 1]
  /\ heap' = [heap EXCEPT ![HitCell(s, j)] = heap[base[s][KeyOf(s, j)]]]
  /\ out' = [out EXCEPT ![s][j] = HitCell(s, j)]
  /\ job' = [job EXCEPT ![s][j] = "done"]
  /\ UNCHANGED <<project, entries, pc, free, base, todo, built, used, generation, origin>>

\* A worker receives a job the cache cannot answer and starts the optimizer.
TakeMiss(s, j) ==
  /\ pc[s] = "optimizing" /\ free[s] > 0 /\ Next1(s, j)
  /\ ~Hit(s, j)
  /\ job' = [job EXCEPT ![s][j] = "running"]
  /\ free' = [free EXCEPT ![s] = @ - 1]
  /\ UNCHANGED <<project, entries, pc, base, pending, hits, out, heap, todo, built, used, generation, origin>>

\* The optimizer returns: the result goes to the project and, when it can be
\* encoded and is small enough, a clone of it goes to the pending generation.
Optimize(s, j) ==
  /\ pc[s] = "optimizing" /\ job[s][j] = "running"
  /\ project[s].plan[j] \notin Fails
  /\ out' = [out EXCEPT ![s][j] = ResultCell(s, j)]
  /\ IF Cacheable(s, j) /\ Size[KeyOf(s, j)] <= MaxBytes
     THEN /\ pending' = [pending EXCEPT ![s][KeyOf(s, j)] = EntryCell(s, j)]
          /\ heap' = [heap EXCEPT ![ResultCell(s, j)] = Optimized(s, j),
                                  ![EntryCell(s, j)] = Optimized(s, j)]
     ELSE /\ heap' = [heap EXCEPT ![ResultCell(s, j)] = Optimized(s, j)]
          /\ UNCHANGED pending
  /\ job' = [job EXCEPT ![s][j] = "done"]
  /\ free' = [free EXCEPT ![s] = @ + 1]
  /\ UNCHANGED <<project, entries, pc, base, hits, todo, built, used, generation, origin>>

\* Mutant: the worker returns on an error instead of going back to the queue.
WorkerDies(s, j) ==
  /\ pc[s] = "optimizing" /\ job[s][j] = "running"
  /\ project[s].plan[j] \in Fails
  /\ job' = [job EXCEPT ![s][j] = "failed"]
  /\ UNCHANGED <<project, entries, pc, free, base, pending, hits, out, heap, todo, built, used, generation, origin>>

\* The optimizer rejects the callback: the worker records the error and goes
\* back to the queue, so that the feeding loop never blocks.
OptimizeFails(s, j) ==
  /\ pc[s] = "optimizing" /\ job[s][j] = "running"
  /\ project[s].plan[j] \in Fails
  /\ job' = [job EXCEPT ![s][j] = "failed"]
  /\ free' = [free EXCEPT ![s] = @ + 1]
  /\ UNCHANGED <<project, entries, pc, base, pending, hits, out, heap, todo, built, used, generation, origin>>

\* wg.Wait returned: any error of any job fails the compilation.
Collect(s) ==
  /\ pc[s] = "optimizing"
  /\ \A j \in Jobs : job[s][j] \notin {"queued", "running"}
  /\ pc' = [pc EXCEPT ![s] = IF \E j \in Jobs : job[s][j] = "failed" THEN "failed" ELSE "placing"]
  /\ UNCHANGED <<project, entries, heap, generation, origin, sessionVars>>

\* Where rewriting the places of a function moves its constant tables: a
\* place that is already in EngineRom does not name a table any more.
Placed(object, layout) ==
  IF object.place = Unplaced THEN [object EXCEPT !.place = layout] ELSE object

\* PlaceConstantTables rewrites every callback of the project in place.
PlaceConstantTables(s) ==
  /\ pc[s] = "placing"
  /\ heap' = [c \in Cells |-> IF \E j \in Present(s) : out[s][j] = c
                              THEN Placed(heap[c], project[s].layout) ELSE heap[c]]
  /\ pc' = [pc EXCEPT ![s] = "backend"]
  /\ UNCHANGED <<project, entries, generation, origin, sessionVars>>

\* PlaceConstantTables or backend.Compile returns an error (a ROM whose length
\* is not a multiple of 4, a diagnostics collision).
CompileFails(s) ==
  /\ pc[s] \in {"placing", "backend"}
  /\ pc' = [pc EXCEPT ![s] = "failed"]
  /\ UNCHANGED <<project, entries, heap, generation, origin, sessionVars>>

\* backend.Compile succeeded; commit collects the keys of pending.
StartCommit(s) ==
  /\ pc[s] = "backend"
  /\ todo' = [todo EXCEPT ![s] = {k \in Keys : pending[s][k] # NoCell}]
  /\ pc' = [pc EXCEPT ![s] = "committing"]
  /\ UNCHANGED <<project, entries, heap, generation, origin, job, free, base, pending, hits, out, built, used>>

\* commit goes through the keys in the order of their bytes.
AnyKey(s, k) == k \in todo[s] \* mutant: map iteration order
NextKey(s, k) == k \in todo[s] /\ \A l \in todo[s] : Hash[k] <= Hash[l]

\* Whether the new generation has room for the entry of k.
Fits(s, k) == Cardinality(built[s]) < MaxEntries /\ used[s] + Size[k] <= MaxBytes

\* One iteration of the commit loop: an entry that exceeds a limit is
\* skipped, and the loop continues with the next one.
CommitKey(s) ==
  /\ pc[s] = "committing"
  /\ \E k \in Keys :
       /\ NextKey(s, k)
       /\ todo' = [todo EXCEPT ![s] = @ \ {k}]
       /\ IF Fits(s, k)
          THEN /\ built' = [built EXCEPT ![s] = @ \cup {k}]
               /\ used' = [used EXCEPT ![s] = @ + Size[k]]
          ELSE UNCHANGED <<built, used>>
  /\ UNCHANGED <<project, entries, pc, heap, generation, origin, job, free, base, pending, hits, out>>

\* The new generation replaces the published one, whoever published that.
Publish(s) ==
  /\ pc[s] = "committing" /\ todo[s] = {}
  /\ entries' = [k \in Keys |-> IF k \in built[s] THEN pending[s][k] ELSE NoCell]
  /\ generation' = s
  /\ pc' = [pc EXCEPT ![s] = "done"]
  /\ UNCHANGED <<project, heap, origin, sessionVars>>

\* A goroutine that can run is run: every step of a session that has begun.
SessionStep(s) ==
  \/ Collect(s) \/ PlaceConstantTables(s) \/ CompileFails(s)
  \/ StartCommit(s) \/ CommitKey(s) \/ Publish(s)
  \/ \E j \in Jobs : TakeHit(s, j) \/ TakeMiss(s, j) \/ Optimize(s, j) \/ OptimizeFails(s, j)

Next == \E s \in Sessions : Begin(s) \/ SessionStep(s)

Spec == Init /\ [][Next]_vars
FairSpec == Spec /\ \A s \in Sessions : WF_vars(SessionStep(s))

-----------------------------------------------------------------------------
PartialMaps == [Keys -> Cells \cup {NoCell}]

\* Type invariant.
TypeOK ==
  /\ project \in Workloads
  /\ entries \in PartialMaps
  /\ pc \in [Sessions -> {"idle", "optimizing", "placing", "backend", "committing", "done", "failed"}]
  /\ job \in [Sessions -> [Jobs -> {"absent", "queued", "running", "done", "failed"}]]
  /\ free \in [Sessions -> Nat]
  /\ base \in [Sessions -> PartialMaps]
  /\ pending \in [Sessions -> PartialMaps]
  /\ hits \in [Sessions -> Nat]
  /\ out \in [Sessions -> [Jobs -> Cells \cup {NoCell}]]
  /\ heap \in [Cells -> Objects \cup {NoCell}]
  /\ todo \in [Sessions -> SUBSET Keys]
  /\ built \in [Sessions -> SUBSET Keys]
  /\ used \in [Sessions -> Nat]
  /\ generation \in Sessions \cup {NoSession}
  /\ origin \in [Sessions -> Sessions \cup {NoSession}]

\* What the optimizer makes of key k, before any ROM layout is chosen.
Fresh(k) == [of |-> k, place |-> Unplaced]

Pristine(map) == \A k \in Keys : map[k] # NoCell => heap[map[k]] = Fresh(k)

(***************************************************************************)
(* A published, inherited or pending entry always holds the function the   *)
(* optimizer made for its key, with its constant tables unplaced: no       *)
(* session's placement of its own results reaches an entry, and no session *)
(* overwrites an entry another one has read.  (callback_cache.go:17-20,    *)
(* "source-independent IR", "safe to share between concurrent compilers".) *)
(***************************************************************************)
EntriesPristine ==
  /\ Pristine(entries)
  /\ \A s \in Sessions : Pristine(base[s]) /\ Pristine(pending[s])

(***************************************************************************)
(* The cache implements its absence: seen through the results its sessions *)
(* hand to the backend, every run is one of UncachedCompile.               *)
(***************************************************************************)
CompiledAlone(p) ==
  [status |-> "done",
   code |-> [j \in {i \in Jobs : p.plan[i] # NoBody} |->
     [of |-> [body |-> p.plan[j], level |-> OptimizerLevel(p.level)], place |-> p.layout]]]

WithoutCode(status) == [status |-> status, code |-> <<>>]

Outcome(s) ==
  CASE pc[s] = "done"   -> [status |-> "done", code |-> [j \in Present(s) |-> heap[out[s][j]]]]
    [] pc[s] = "failed" -> WithoutCode("failed")
    [] OTHER            -> WithoutCode("unfinished")

Uncached == INSTANCE UncachedCompile WITH
  Compiled <- CompiledAlone,
  Unfinished <- WithoutCode("unfinished"), Failed <- WithoutCode("failed"),
  outcome <- [s \in Sessions |-> Outcome(s)]

CacheInvisible == Uncached!Spec

(***************************************************************************)
(* A reference for commit: of a finite set of keys, what the limits leave  *)
(* when the keys are looked at from the least hash to the greatest.        *)
(***************************************************************************)
FiniteKeySets == {keys \in SUBSET Keys : IsFiniteSet(keys)}

LastKey(keys) == CHOOSE k \in keys : \A l \in keys : Hash[l] <= Hash[k]

Kept[keys \in FiniteKeySets] ==
  IF keys = {} THEN [keys |-> {}, bytes |-> 0]
  ELSE LET k == LastKey(keys)
           before == Kept[keys \ {k}]
       IN IF Cardinality(before.keys) < MaxEntries /\ before.bytes + Size[k] <= MaxBytes
          THEN [keys |-> before.keys \cup {k}, bytes |-> before.bytes + Size[k]]
          ELSE before

Survivors(keys) == Kept[keys].keys

\* The keys commit may publish for session s: those of its jobs that hit or
\* whose optimized function was small enough to be stored.
StoredKeys(s) ==
  {KeyOf(s, j) : j \in {i \in Present(s) : Cacheable(s, i) /\ Size[KeyOf(s, i)] <= MaxBytes}}

(***************************************************************************)
(* The published generation is the one the last successful session must    *)
(* leave, whatever its workers' order and whatever other sessions did:     *)
(* "Worker completion order must not determine which entries survive       *)
(* limits" (callback_cache.go:100) and "Successful compilations replace    *)
(* the previous generation; failed compilations do not publish" (18-19).   *)
(***************************************************************************)
GenerationExact ==
  {k \in Keys : entries[k] # NoCell} =
    IF generation = NoSession THEN {} ELSE Survivors(StoredKeys(generation))

(***************************************************************************)
(* The cache does what it is for: a session that succeeds was answered     *)
(* from the cache for exactly the callbacks that survived the limits in    *)
(* the generation it began from, however that session was interleaved with *)
(* the one that published it (CompileStats.CallbackCacheHits).             *)
(***************************************************************************)
WarmHits ==
  \A s \in Sessions : pc[s] = "done" =>
    hits[s] = IF origin[s] = NoSession THEN 0
              ELSE Cardinality({j \in Present(s) :
                     Cacheable(s, j) /\ KeyOf(s, j) \in Survivors(StoredKeys(origin[s]))})

\* A published generation never exceeds maxCallbackCacheEntries.
EntryLimit == Cardinality({k \in Keys : entries[k] # NoCell}) <= MaxEntries

(***************************************************************************)
(* The worker pool and the feeding loop cannot block each other: every     *)
(* session that begins ends, whichever callbacks fail.                     *)
(***************************************************************************)
SessionsEnd == \A s \in Sessions : pc[s] = "optimizing" ~> pc[s] \in {"done", "failed"}
=============================================================================
