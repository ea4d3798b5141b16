------------------------ MODULE CallbackCacheProofs ------------------------
(***************************************************************************)
(* Proofs about CallbackCache for every set of sessions, projects, sizes   *)
(* and limits: entries stay pristine, a generation stays within its entry  *)
(* limit, the cache implements UncachedCompile, a generation holds what    *)
(* the reference computation of commit leaves, and a session hits for      *)
(* exactly the callbacks of the generation it began from.                  *)
(***************************************************************************)
EXTENDS CallbackCache, FiniteSetTheorems, WellFoundedInduction, TLAPS

-----------------------------------------------------------------------------
(***************************************************************************)
(* The inductive invariant.  What protects an entry is ownership: an entry *)
(* cell is written once, by the job it is named for, before that job is    *)
(* done, and only cells of done jobs are referred to; results live in      *)
(* cells of the other kind, which no map refers to.                        *)
(***************************************************************************)
Settled(map) ==
  \A k \in Keys : map[k] # NoCell =>
    /\ map[k].kind = "entry"
    /\ job[map[k].session][map[k].job] = "done"
    /\ heap[map[k]] = Fresh(k)

Owned ==
  /\ Settled(entries)
  /\ \A s \in Sessions : Settled(base[s]) /\ Settled(pending[s])

JobsOK ==
  \A s \in Sessions : \A j \in Jobs :
    /\ job[s][j] # "absent" => j \in Present(s)
    /\ j \in Present(s) => job[s][j] # "absent"
    /\ out[s][j] = IF job[s][j] = "done" THEN ResultCell(s, j) ELSE NoCell
    /\ pc[s] \in {"placing", "backend", "committing", "done"} => job[s][j] \in {"absent", "done"}

ResultsOK ==
  \A s \in Sessions : \A j \in Jobs : job[s][j] = "done" =>
    /\ pc[s] \in {"optimizing", "placing"} => heap[ResultCell(s, j)] = Optimized(s, j)
    /\ pc[s] \in {"backend", "committing", "done"} =>
         heap[ResultCell(s, j)] = Placed(Optimized(s, j), project[s].layout)

Started ==
  \A s \in Sessions : pc[s] = "idle" => \A j \in Jobs : job[s][j] # "done"

Limited ==
  /\ \A s \in Sessions : IsFiniteSet(built[s]) /\ Cardinality(built[s]) <= MaxEntries
  /\ EntryLimit

IInv == TypeOK /\ Owned /\ JobsOK /\ ResultsOK /\ Started /\ Limited

-----------------------------------------------------------------------------
\* The key of a job that exists is a key, and it is the key of what the
\* optimizer makes of that job: both sides resolve the unset level alike.
LEMMA KeyIsKey ==
  ASSUME TypeOK, NEW s \in Sessions, NEW j \in Present(s)
  PROVE  /\ j \in Jobs
         /\ KeyOf(s, j) \in Keys
         /\ Optimized(s, j) = Fresh(KeyOf(s, j))
         /\ Fresh(KeyOf(s, j)) \in Objects
<1>1. /\ project[s].plan \in [Jobs -> Bodies \cup {NoBody}]
      /\ project[s].level \in Levels
  BY CacheAssumption DEF TypeOK
<1>2. j \in Jobs /\ project[s].plan[j] \in Bodies
  BY <1>1 DEF Present
<1>3. CacheLevel(project[s].level) \in Levels \ {0}
  BY <1>1, CacheAssumption DEF CacheLevel
<1>4. KeyOf(s, j) \in Keys
  BY <1>2, <1>3 DEF KeyOf, Keys
<1>5. Optimized(s, j) = Fresh(KeyOf(s, j))
  BY DEF Optimized, Fresh, KeyOf, CacheLevel, OptimizerLevel
<1>6. Fresh(KeyOf(s, j)) \in Objects
  BY <1>4 DEF Fresh, Objects
<1> QED
  BY <1>2, <1>4, <1>5, <1>6

LEMMA CellsDiffer ==
  ASSUME NEW s \in Sessions, NEW j \in Jobs
  PROVE  /\ ResultCell(s, j) \in Cells /\ EntryCell(s, j) \in Cells
         /\ ResultCell(s, j) # NoCell /\ EntryCell(s, j) # NoCell
         /\ HitCell(s, j) = ResultCell(s, j)
         /\ \A t \in Sessions, i \in Jobs :
              /\ ResultCell(s, j) = ResultCell(t, i) <=> s = t /\ j = i
              /\ EntryCell(s, j) # ResultCell(t, i)
BY CacheAssumption DEF ResultCell, EntryCell, HitCell, Cells

LEMMA InitIInv == Init => IInv
<1> SUFFICES ASSUME Init PROVE IInv
  OBVIOUS
<1> USE DEF Init
<1>1. TypeOK
  <2>1. EmptyMap \in PartialMaps
    BY DEF EmptyMap, PartialMaps
  <2> QED
    BY <2>1 DEF TypeOK
<1>2. Owned
  BY DEF Owned, Settled, EmptyMap
<1>3. JobsOK
  BY DEF JobsOK
<1>4. ResultsOK /\ Started
  BY DEF ResultsOK, Started
<1>5. Limited
  <2>1. {k \in Keys : entries[k] # NoCell} = {}
    BY DEF EmptyMap
  <2>2. IsFiniteSet({}) /\ Cardinality({}) = 0
    BY FS_EmptySet
  <2>3. 0 <= MaxEntries
    BY CacheAssumption
  <2>4. EntryLimit
    BY <2>1, <2>2, <2>3 DEF EntryLimit
  <2>5. \A s \in Sessions : built[s] = {}
    OBVIOUS
  <2>6. \A s \in Sessions : IsFiniteSet(built[s]) /\ Cardinality(built[s]) <= MaxEntries
    <3> HIDE DEF Init
    <3> QED
      BY <2>2, <2>3, <2>5
  <2> QED
    BY <2>4, <2>6 DEF Limited
<1> QED
  BY <1>1, <1>2, <1>3, <1>4, <1>5 DEF IInv

LEMMA JobsKept ==
  ASSUME JobsOK, UNCHANGED <<project, out>>,
         \A t \in Sessions : \A i \in Jobs :
           /\ job'[t][i] = "done" <=> job[t][i] = "done"
           /\ job'[t][i] = "absent" <=> job[t][i] = "absent"
           /\ pc'[t] \in {"placing", "backend", "committing", "done"} =>
                job'[t][i] \in {"absent", "done"}
  PROVE  JobsOK'
<1>1. \A t \in Sessions : Present(t)' = Present(t)
  BY DEF Present
<1>2. ASSUME NEW t \in Sessions, NEW i \in Jobs
      PROVE  /\ job'[t][i] # "absent" => i \in Present(t)
             /\ i \in Present(t) => job'[t][i] # "absent"
             /\ out'[t][i] = IF job'[t][i] = "done" THEN ResultCell(t, i) ELSE NoCell
  BY DEF JobsOK
<1> QED
  BY <1>1, <1>2 DEF JobsOK

-----------------------------------------------------------------------------
(***************************************************************************)
(* Steps that touch neither the heap nor the maps that refer to it.        *)
(***************************************************************************)
LEMMA QuietStep ==
  ASSUME IInv, TypeOK',
         UNCHANGED <<project, entries, base, pending, heap, out, built>>,
         NEW s \in Sessions,
         \A t \in Sessions \ {s} : pc'[t] = pc[t] /\ job'[t] = job[t],
         \A i \in Jobs : job'[s][i] = "done" <=> job[s][i] = "done",
         \A i \in Jobs : job'[s][i] = "absent" <=> job[s][i] = "absent",
         pc'[s] \in {"placing", "backend", "committing", "done"} =>
           \A i \in Jobs : job'[s][i] \in {"absent", "done"},
         \A i \in Jobs : job'[s][i] = "done" =>
           /\ pc'[s] \in {"optimizing", "placing"} => pc[s] \in {"optimizing", "placing"}
           /\ pc'[s] \in {"backend", "committing", "done"} => pc[s] \in {"backend", "committing", "done"},
         pc'[s] = "idle" => pc[s] = "idle"
  PROVE  IInv'
<1>0. \A t \in Sessions : \A i \in Jobs :
        /\ job'[t][i] = "done" <=> job[t][i] = "done"
        /\ job'[t][i] = "absent" <=> job[t][i] = "absent"
  OBVIOUS
<1>1. Owned'
  <2>1. \A map \in PartialMaps : Settled(map) =>
          \A k \in Keys : map[k] # NoCell =>
            /\ map[k].kind = "entry"
            /\ job'[map[k].session][map[k].job] = "done"
            /\ heap'[map[k]] = Fresh(k)
    BY <1>0 DEF Settled, PartialMaps, Cells
  <2>2. entries \in PartialMaps /\ \A t \in Sessions : base[t] \in PartialMaps /\ pending[t] \in PartialMaps
    BY DEF IInv, TypeOK
  <2> QED
    BY <2>1, <2>2 DEF IInv, Owned, Settled, Fresh
<1>2. JobsOK'
  <2>1. ASSUME NEW t \in Sessions, NEW i \in Jobs
        PROVE  pc'[t] \in {"placing", "backend", "committing", "done"} =>
                 job'[t][i] \in {"absent", "done"}
    BY <1>0 DEF IInv, JobsOK
  <2> QED
    BY <1>0, <2>1, JobsKept DEF IInv
<1>3. ResultsOK'
  BY <1>0 DEF IInv, ResultsOK, ResultCell, Optimized, Placed
<1>4. Started'
  BY <1>0 DEF IInv, Started
<1>5. Limited'
  BY DEF IInv, Limited, EntryLimit
<1> QED
  BY <1>1, <1>2, <1>3, <1>4, <1>5 DEF IInv

LEMMA TakeMissIInv ==
  ASSUME IInv, NEW s \in Sessions, NEW j \in Jobs, TakeMiss(s, j)
  PROVE  IInv'
<1>1. TypeOK'
  BY DEF IInv, TypeOK, TakeMiss
<1>2. /\ UNCHANGED <<project, entries, pc, base, pending, heap, out, built>>
      /\ pc[s] = "optimizing"
      /\ job[s][j] = "queued"
      /\ job' = [job EXCEPT ![s][j] = "running"]
  BY DEF TakeMiss, Next1, Queued
<1>3. job \in [Sessions -> [Jobs -> {"absent", "queued", "running", "done", "failed"}]]
  BY DEF IInv, TypeOK
<1>4. /\ \A t \in Sessions \ {s} : job'[t] = job[t]
      /\ \A i \in Jobs : job'[s][i] = IF i = j THEN "running" ELSE job[s][i]
  BY <1>2, <1>3
<1> QED
  BY <1>1, <1>2, <1>4, QuietStep

LEMMA OptimizeFailsIInv ==
  ASSUME IInv, NEW s \in Sessions, NEW j \in Jobs, OptimizeFails(s, j)
  PROVE  IInv'
<1>1. TypeOK'
  BY DEF IInv, TypeOK, OptimizeFails
<1>2. /\ UNCHANGED <<project, entries, pc, base, pending, heap, out, built>>
      /\ pc[s] = "optimizing"
      /\ job[s][j] = "running"
      /\ job' = [job EXCEPT ![s][j] = "failed"]
  BY DEF OptimizeFails
<1>3. job \in [Sessions -> [Jobs -> {"absent", "queued", "running", "done", "failed"}]]
  BY DEF IInv, TypeOK
<1>4. /\ \A t \in Sessions \ {s} : job'[t] = job[t]
      /\ \A i \in Jobs : job'[s][i] = IF i = j THEN "failed" ELSE job[s][i]
  BY <1>2, <1>3
<1> QED
  BY <1>1, <1>2, <1>4, QuietStep

LEMMA CollectIInv ==
  ASSUME IInv, NEW s \in Sessions, Collect(s)
  PROVE  IInv'
<1>1. TypeOK'
  BY DEF IInv, TypeOK, Collect, sessionVars
<1>2. pc'[s] = "placing" => \A i \in Jobs : job'[s][i] \in {"absent", "done"}
  BY DEF IInv, TypeOK, Collect, sessionVars
<1> QED
  BY <1>1, <1>2, QuietStep DEF Collect, sessionVars, IInv, TypeOK

LEMMA CompileFailsIInv ==
  ASSUME IInv, NEW s \in Sessions, CompileFails(s)
  PROVE  IInv'
<1>1. TypeOK'
  BY DEF IInv, TypeOK, CompileFails, sessionVars
<1> QED
  BY <1>1, QuietStep DEF CompileFails, sessionVars, IInv, TypeOK

LEMMA StartCommitIInv ==
  ASSUME IInv, NEW s \in Sessions, StartCommit(s)
  PROVE  IInv'
<1>1. TypeOK'
  BY DEF IInv, TypeOK, StartCommit
<1> QED
  BY <1>1, QuietStep DEF StartCommit, IInv, TypeOK, JobsOK

\* Starting a session copies the published generation, whose entries are settled.
LEMMA BeginIInv ==
  ASSUME IInv, NEW s \in Sessions, Begin(s)
  PROVE  IInv'
<1>1. UNCHANGED <<project, entries, job, pending, heap, out, built>>
  BY DEF Begin
<1>2. /\ pc[s] = "idle"
      /\ pc' = [pc EXCEPT ![s] = "optimizing"]
      /\ base' = [base EXCEPT ![s] = entries]
  BY DEF Begin
<1>3. TypeOK'
  <2>1. free' \in [Sessions -> Nat]
    <3>1. IsFiniteSet(Jobs)
      <4>1. 1 \in Int /\ MaxJobs \in Int
        BY CacheAssumption
      <4> QED
        BY <4>1, FS_Interval DEF Jobs
    <3>2. Present(s) \subseteq Jobs
      BY DEF Present
    <3>3. Cardinality(Present(s)) \in Nat
      BY <3>1, <3>2, FS_Subset, FS_CardinalityType
    <3> DEFINE n == IF MaxWorkers < Cardinality(Present(s))
                    THEN MaxWorkers ELSE Cardinality(Present(s))
    <3>4. n \in Nat
      BY <3>3, CacheAssumption
    <3>5. free \in [Sessions -> Nat] /\ free' = [free EXCEPT ![s] = n]
      BY DEF IInv, TypeOK, Begin
    <3> HIDE DEF n
    <3> QED
      BY <3>4, <3>5
  <2> QED
    BY <1>1, <1>2, <2>1 DEF Begin, IInv, TypeOK
<1>4. pc \in [Sessions -> {"idle", "optimizing", "placing", "backend", "committing", "done", "failed"}]
      /\ base \in [Sessions -> PartialMaps]
  BY DEF IInv, TypeOK
<1>5. \A t \in Sessions :
        /\ pc'[t] = IF t = s THEN "optimizing" ELSE pc[t]
        /\ base'[t] = IF t = s THEN entries ELSE base[t]
  BY <1>2, <1>4
<1>6. Owned'
  BY <1>1, <1>5 DEF IInv, Owned, Settled, Fresh
<1>7. JobsOK'
  <2>1. \A t \in Sessions :
          pc'[t] \in {"placing", "backend", "committing", "done"} => pc'[t] = pc[t]
    BY <1>5
  <2>2. ASSUME NEW t \in Sessions, NEW i \in Jobs
        PROVE  pc'[t] \in {"placing", "backend", "committing", "done"} =>
                 job[t][i] \in {"absent", "done"}
    BY <2>1 DEF IInv, JobsOK
  <2> QED
    BY <1>1, <2>2, JobsKept DEF IInv
<1>8. Started' /\ \A i \in Jobs : job[s][i] # "done"
  BY <1>1, <1>2, <1>5 DEF IInv, Started
<1>10. ResultsOK'
  <2> SUFFICES ASSUME NEW t \in Sessions, NEW i \in Jobs, job[t][i] = "done"
               PROVE  /\ pc'[t] \in {"optimizing", "placing"} => heap[ResultCell(t, i)] = Optimized(t, i)
                      /\ pc'[t] \in {"backend", "committing", "done"} =>
                           heap[ResultCell(t, i)] = Placed(Optimized(t, i), project[t].layout)
    BY <1>1 DEF ResultsOK, ResultCell, Optimized, Placed
  <2>1. t # s
    BY <1>8
  <2> QED
    BY <1>5, <2>1 DEF IInv, ResultsOK
<1>9. Limited'
  BY <1>1 DEF IInv, Limited, EntryLimit
<1> QED
  BY <1>3, <1>6, <1>7, <1>8, <1>9, <1>10 DEF IInv

-----------------------------------------------------------------------------
(***************************************************************************)
(* Steps that write the heap.  What a map refers to survives a step that   *)
(* leaves alone the entry cells of the jobs that are done.                 *)
(***************************************************************************)
SettledNext(map) ==
  \A k \in Keys : map[k] # NoCell =>
    /\ map[k].kind = "entry"
    /\ job'[map[k].session][map[k].job] = "done"
    /\ heap'[map[k]] = Fresh(k)

LEMMA RefsKept ==
  ASSUME \A t \in Sessions, i \in Jobs : job[t][i] = "done" =>
           job'[t][i] = "done" /\ heap'[EntryCell(t, i)] = heap[EntryCell(t, i)],
         NEW map \in PartialMaps, Settled(map)
  PROVE  SettledNext(map)
<1> SUFFICES ASSUME NEW k \in Keys, map[k] # NoCell
             PROVE  /\ map[k].kind = "entry"
                    /\ job'[map[k].session][map[k].job] = "done"
                    /\ heap'[map[k]] = Fresh(k)
  BY DEF SettledNext
<1>1. map[k] \in Cells /\ map[k].kind = "entry" /\ heap[map[k]] = Fresh(k)
      /\ job[map[k].session][map[k].job] = "done"
  BY DEF Settled, PartialMaps
<1>2. map[k].session \in Sessions /\ map[k].job \in Jobs
      /\ map[k] = EntryCell(map[k].session, map[k].job)
  BY <1>1 DEF Cells, EntryCell
<1> QED
  BY <1>1, <1>2

LEMMA OwnedNext ==
  ASSUME SettledNext(entries'),
         \A t \in Sessions : SettledNext(base'[t]) /\ SettledNext(pending'[t])
  PROVE  Owned'
BY DEF Owned, Settled, SettledNext, Fresh

\* A job that ends well: it wrote its own result cell and no other cell that
\* is a result or belongs to a job that is done.
LEMMA JobEnds ==
  ASSUME IInv, TypeOK', NEW s \in Sessions, NEW j \in Jobs,
         UNCHANGED <<project, entries, pc, base, built>>,
         pc[s] = "optimizing", job[s][j] \in {"queued", "running"},
         job' = [job EXCEPT ![s][j] = "done"],
         out' = [out EXCEPT ![s][j] = ResultCell(s, j)],
         heap'[ResultCell(s, j)] = Optimized(s, j),
         \A c \in Cells \ {ResultCell(s, j), EntryCell(s, j)} : heap'[c] = heap[c],
         \A t \in Sessions : t # s => pending'[t] = pending[t],
         SettledNext(pending'[s])
  PROVE  IInv'
<1>1. /\ job \in [Sessions -> [Jobs -> {"absent", "queued", "running", "done", "failed"}]]
      /\ out \in [Sessions -> [Jobs -> Cells \cup {NoCell}]]
      /\ entries \in PartialMaps
      /\ \A t \in Sessions : base[t] \in PartialMaps /\ pending[t] \in PartialMaps
  BY DEF IInv, TypeOK
<1>2. \A t \in Sessions, i \in Jobs :
        /\ job'[t][i] = IF t = s /\ i = j THEN "done" ELSE job[t][i]
        /\ out'[t][i] = IF t = s /\ i = j THEN ResultCell(s, j) ELSE out[t][i]
  BY <1>1
<1>3. \A t \in Sessions, i \in Jobs : job[t][i] = "done" =>
        job'[t][i] = "done" /\ heap'[EntryCell(t, i)] = heap[EntryCell(t, i)]
  <2> SUFFICES ASSUME NEW t \in Sessions, NEW i \in Jobs, job[t][i] = "done"
               PROVE  job'[t][i] = "done" /\ heap'[EntryCell(t, i)] = heap[EntryCell(t, i)]
    OBVIOUS
  <2>1. ~(t = s /\ i = j)
    OBVIOUS
  <2>2. EntryCell(t, i) \in Cells \ {ResultCell(s, j), EntryCell(s, j)}
    BY <2>1, CellsDiffer DEF EntryCell
  <2> QED
    BY <1>2, <2>1, <2>2
<1>4. Owned'
  <2>1. SettledNext(entries')
    BY <1>1, <1>3, RefsKept DEF IInv, Owned
  <2>2. \A t \in Sessions : SettledNext(base'[t]) /\ SettledNext(pending'[t])
    BY <1>1, <1>3, RefsKept DEF IInv, Owned
  <2> QED
    BY <2>1, <2>2, OwnedNext
<1>5. JobsOK'
  <2>1. ASSUME NEW t \in Sessions, NEW i \in Jobs
        PROVE  /\ job'[t][i] # "absent" => i \in Present(t)
               /\ i \in Present(t) => job'[t][i] # "absent"
               /\ out'[t][i] = IF job'[t][i] = "done" THEN ResultCell(t, i) ELSE NoCell
               /\ pc[t] \in {"placing", "backend", "committing", "done"} =>
                    job'[t][i] \in {"absent", "done"}
    <3>1. CASE t = s /\ i = j
      BY <1>2, <3>1 DEF IInv, JobsOK
    <3>2. CASE ~(t = s /\ i = j)
      BY <1>2, <3>2 DEF IInv, JobsOK
    <3> QED
      BY <3>1, <3>2
  <2>2. \A t \in Sessions : Present(t)' = Present(t) /\ pc'[t] = pc[t]
    BY DEF Present
  <2>3. \A t \in Sessions, i \in Jobs : ResultCell(t, i)' = ResultCell(t, i)
    BY DEF ResultCell
  <2> QED
    BY <2>1, <2>2, <2>3 DEF JobsOK
<1>6. ResultsOK'
  <2>1. ASSUME NEW t \in Sessions, NEW i \in Jobs, job'[t][i] = "done"
        PROVE  /\ pc[t] \in {"optimizing", "placing"} => heap'[ResultCell(t, i)] = Optimized(t, i)
               /\ pc[t] \in {"backend", "committing", "done"} =>
                    heap'[ResultCell(t, i)] = Placed(Optimized(t, i), project[t].layout)
    <3>1. CASE t = s /\ i = j
      BY <3>1
    <3>2. CASE ~(t = s /\ i = j)
      <4>1. ResultCell(t, i) \in Cells \ {ResultCell(s, j), EntryCell(s, j)}
        BY <3>2, CellsDiffer
      <4>2. job[t][i] = "done" /\ heap'[ResultCell(t, i)] = heap[ResultCell(t, i)]
        BY <1>2, <2>1, <3>2, <4>1
      <4> QED
        BY <4>2 DEF IInv, ResultsOK
    <3> QED
      BY <3>1, <3>2
  <2>2. \A t \in Sessions, i \in Jobs : Optimized(t, i)' = Optimized(t, i)
    BY DEF Optimized
  <2>3. \A t \in Sessions : project'[t].layout = project[t].layout /\ pc'[t] = pc[t]
    OBVIOUS
  <2>4. \A t \in Sessions, i \in Jobs : ResultCell(t, i)' = ResultCell(t, i)
    BY DEF ResultCell
  <2>5. \A t \in Sessions, i \in Jobs :
          Placed(Optimized(t, i), project[t].layout)' = Placed(Optimized(t, i), project[t].layout)
    BY DEF Optimized, Placed
  <2> QED
    BY <2>1, <2>2, <2>3, <2>4, <2>5 DEF ResultsOK
<1>7. Started'
  BY <1>2 DEF IInv, Started
<1>8. Limited'
  BY DEF IInv, Limited, EntryLimit
<1> QED
  BY <1>4, <1>5, <1>6, <1>7, <1>8 DEF IInv

LEMMA TakeHitIInv ==
  ASSUME IInv, NEW s \in Sessions, NEW j \in Jobs, TakeHit(s, j)
  PROVE  IInv'
<1> DEFINE k == KeyOf(s, j)
<1>1. /\ UNCHANGED <<project, entries, pc, base, built>>
      /\ pc[s] = "optimizing" /\ job[s][j] = "queued"
      /\ base[s][k] # NoCell
      /\ pending' = [pending EXCEPT ![s][k] = base[s][k]]
      /\ heap' = [heap EXCEPT ![ResultCell(s, j)] = heap[base[s][k]]]
      /\ out' = [out EXCEPT ![s][j] = ResultCell(s, j)]
      /\ job' = [job EXCEPT ![s][j] = "done"]
  BY DEF TakeHit, Next1, Queued, Hit, HitCell
<1>2. j \in Present(s) /\ k \in Keys /\ Optimized(s, j) = Fresh(k) /\ Fresh(k) \in Objects
  BY <1>1, KeyIsKey DEF IInv, JobsOK
<1>3. /\ base[s] \in PartialMaps /\ base[s][k] \in Cells
      /\ heap \in [Cells -> Objects \cup {NoCell}]
      /\ pending \in [Sessions -> PartialMaps]
  BY <1>1, <1>2 DEF IInv, TypeOK, PartialMaps
<1>4. Settled(base[s]) /\ Settled(pending[s]) /\ heap[base[s][k]] = Fresh(k)
  BY <1>1, <1>2 DEF IInv, Owned, Settled
<1>5. ResultCell(s, j) \in Cells
  BY CellsDiffer
<1> HIDE DEF k
<1>6. TypeOK'
  <2>1. pending' \in [Sessions -> PartialMaps]
    BY <1>1, <1>2, <1>3 DEF PartialMaps
  <2>2. heap' \in [Cells -> Objects \cup {NoCell}]
    BY <1>1, <1>2, <1>3, <1>4
  <2> QED
    BY <1>1, <1>5, <2>1, <2>2 DEF TakeHit, IInv, TypeOK
<1>7. heap'[ResultCell(s, j)] = Optimized(s, j)
  BY <1>1, <1>2, <1>3, <1>4, <1>5
<1>8. \A c \in Cells \ {ResultCell(s, j), EntryCell(s, j)} : heap'[c] = heap[c]
  BY <1>1, <1>3
<1>9. SettledNext(pending'[s])
  <2>1. \A t \in Sessions, i \in Jobs : job[t][i] = "done" =>
          job'[t][i] = "done" /\ heap'[EntryCell(t, i)] = heap[EntryCell(t, i)]
    <3>1. job \in [Sessions -> [Jobs -> {"absent", "queued", "running", "done", "failed"}]]
      BY DEF IInv, TypeOK
    <3> QED
      BY <1>1, <1>3, <3>1, CellsDiffer
  <2>2. SettledNext(base[s]) /\ SettledNext(pending[s])
    BY <1>3, <1>4, <2>1, RefsKept
  <2>3. \A l \in Keys : pending'[s][l] = IF l = k THEN base[s][k] ELSE pending[s][l]
    BY <1>1, <1>3 DEF PartialMaps
  <2> QED
    BY <2>2, <2>3 DEF SettledNext
<1>10. \A t \in Sessions : t # s => pending'[t] = pending[t]
  BY <1>1, <1>3
<1> QED
  BY <1>1, <1>6, <1>7, <1>8, <1>9, <1>10, JobEnds

LEMMA OptimizeIInv ==
  ASSUME IInv, NEW s \in Sessions, NEW j \in Jobs, Optimize(s, j)
  PROVE  IInv'
<1> DEFINE k == KeyOf(s, j)
           stored == Cacheable(s, j) /\ Size[k] <= MaxBytes
<1>1. /\ UNCHANGED <<project, entries, pc, base, built>>
      /\ pc[s] = "optimizing" /\ job[s][j] = "running"
      /\ pending' = IF stored THEN [pending EXCEPT ![s][k] = EntryCell(s, j)] ELSE pending
      /\ heap' = IF stored THEN [heap EXCEPT ![ResultCell(s, j)] = Optimized(s, j),
                                             ![EntryCell(s, j)] = Optimized(s, j)]
                 ELSE [heap EXCEPT ![ResultCell(s, j)] = Optimized(s, j)]
      /\ out' = [out EXCEPT ![s][j] = ResultCell(s, j)]
      /\ job' = [job EXCEPT ![s][j] = "done"]
  BY DEF Optimize
<1>2. j \in Present(s) /\ k \in Keys /\ Optimized(s, j) = Fresh(k) /\ Optimized(s, j) \in Objects
  BY <1>1, KeyIsKey DEF IInv, JobsOK
<1>3. /\ heap \in [Cells -> Objects \cup {NoCell}]
      /\ pending \in [Sessions -> PartialMaps]
      /\ job \in [Sessions -> [Jobs -> {"absent", "queued", "running", "done", "failed"}]]
  BY DEF IInv, TypeOK
<1>4. Settled(pending[s])
  BY DEF IInv, Owned
<1>5. /\ ResultCell(s, j) \in Cells /\ EntryCell(s, j) \in Cells
      /\ ResultCell(s, j) # EntryCell(s, j)
      /\ EntryCell(s, j).kind = "entry" /\ EntryCell(s, j).session = s /\ EntryCell(s, j).job = j
  BY CellsDiffer DEF EntryCell
<1> HIDE DEF k, stored
<1>6. /\ heap'[ResultCell(s, j)] = Optimized(s, j)
      /\ stored => heap'[EntryCell(s, j)] = Optimized(s, j)
      /\ \A c \in Cells \ {ResultCell(s, j), EntryCell(s, j)} : heap'[c] = heap[c]
      /\ heap' \in [Cells -> Objects \cup {NoCell}]
  BY <1>1, <1>2, <1>3, <1>5
<1>7. \A l \in Keys : pending'[s][l] = IF stored /\ l = k THEN EntryCell(s, j) ELSE pending[s][l]
  BY <1>1, <1>2, <1>3 DEF PartialMaps
<1>8. pending' \in [Sessions -> PartialMaps] /\ \A t \in Sessions : t # s => pending'[t] = pending[t]
  BY <1>1, <1>2, <1>3, <1>5 DEF PartialMaps
<1>9. TypeOK'
  <2>1. /\ project' \in Workloads /\ entries' \in PartialMaps
        /\ pc' = pc /\ base' = base /\ built' = built
    BY <1>1 DEF IInv, TypeOK
  <2>2. job' \in [Sessions -> [Jobs -> {"absent", "queued", "running", "done", "failed"}]]
    BY <1>1, <1>3
  <2>3. /\ free' \in [Sessions -> Nat] /\ hits' \in [Sessions -> Nat]
        /\ todo' = todo /\ used' = used /\ generation' = generation /\ origin' = origin
    BY DEF Optimize, IInv, TypeOK
  <2>4. out' \in [Sessions -> [Jobs -> Cells \cup {NoCell}]]
    BY <1>1, <1>5 DEF IInv, TypeOK
  <2> QED
    BY <1>6, <1>8, <2>1, <2>2, <2>3, <2>4 DEF IInv, TypeOK
<1>10. SettledNext(pending'[s])
  <2>1. \A t \in Sessions, i \in Jobs : job[t][i] = "done" =>
          job'[t][i] = "done" /\ heap'[EntryCell(t, i)] = heap[EntryCell(t, i)]
    <3> SUFFICES ASSUME NEW t \in Sessions, NEW i \in Jobs, job[t][i] = "done"
                 PROVE  job'[t][i] = "done" /\ heap'[EntryCell(t, i)] = heap[EntryCell(t, i)]
      OBVIOUS
    <3>1. ~(t = s /\ i = j)
      BY <1>1
    <3>2. EntryCell(t, i) \in Cells \ {ResultCell(s, j), EntryCell(s, j)}
      BY <3>1, CellsDiffer DEF EntryCell
    <3> QED
      BY <1>1, <1>3, <1>6, <3>1, <3>2
  <2>2. SettledNext(pending[s])
    BY <1>3, <1>4, <2>1, RefsKept
  <2>3. job'[s][j] = "done"
    BY <1>1, <1>3
  <2> QED
    BY <1>2, <1>5, <1>6, <1>7, <2>2, <2>3 DEF SettledNext
<1> QED
  BY <1>1, <1>6, <1>8, <1>9, <1>10, JobEnds

-----------------------------------------------------------------------------
\* Placement rewrites the cells of the session's own results, which no map
\* refers to, and moves the session past the point where they are unplaced.
LEMMA PlaceIInv ==
  ASSUME IInv, NEW s \in Sessions, PlaceConstantTables(s)
  PROVE  IInv'
<1>1. /\ UNCHANGED <<project, entries, job, base, pending, out, built>>
      /\ pc[s] = "placing" /\ pc' = [pc EXCEPT ![s] = "backend"]
      /\ heap' = [c \in Cells |-> IF \E j \in Present(s) : out[s][j] = c
                                  THEN Placed(heap[c], project[s].layout) ELSE heap[c]]
  BY DEF PlaceConstantTables, sessionVars
<1>2. \A t \in Sessions : pc'[t] = IF t = s THEN "backend" ELSE pc[t]
  BY <1>1 DEF IInv, TypeOK
<1>3. \A j \in Present(s) :
        /\ j \in Jobs /\ job[s][j] = "done" /\ out[s][j] = ResultCell(s, j)
        /\ heap[ResultCell(s, j)] = Optimized(s, j)
  BY <1>1 DEF IInv, JobsOK, ResultsOK, Present
<1>4. \A j \in Jobs : job[s][j] = "done" => j \in Present(s)
  BY DEF IInv, JobsOK
<1>5. \A j \in Present(s) :
        heap'[ResultCell(s, j)] = Placed(Optimized(s, j), project[s].layout)
  BY <1>1, <1>3, CellsDiffer
<1>6. \A c \in Cells : (\A j \in Present(s) : c # ResultCell(s, j)) => heap'[c] = heap[c]
  BY <1>1, <1>3
<1>7. TypeOK'
  <2>1. heap' \in [Cells -> Objects \cup {NoCell}]
    <3> SUFFICES ASSUME NEW c \in Cells PROVE heap'[c] \in Objects \cup {NoCell}
      BY <1>1
    <3>1. CASE \E j \in Present(s) : c = ResultCell(s, j)
      <4>1. PICK j \in Present(s) : c = ResultCell(s, j)
        BY <3>1
      <4>2. KeyOf(s, j) \in Keys /\ Optimized(s, j) = Fresh(KeyOf(s, j))
        BY KeyIsKey DEF IInv
      <4>3. project[s].layout \in Layouts
        BY CacheAssumption DEF IInv, TypeOK
      <4>4. heap'[c] = [of |-> KeyOf(s, j), place |-> project[s].layout]
        BY <1>5, <4>1, <4>2 DEF Placed, Fresh
      <4> QED
        BY <4>2, <4>3, <4>4 DEF Objects
    <3>2. CASE ~\E j \in Present(s) : c = ResultCell(s, j)
      BY <1>6, <3>2 DEF IInv, TypeOK
    <3> QED
      BY <3>1, <3>2
  <2> QED
    BY <1>1, <2>1 DEF PlaceConstantTables, sessionVars, IInv, TypeOK
<1>8. Owned'
  <2>1. \A t \in Sessions, i \in Jobs : job[t][i] = "done" =>
          job'[t][i] = "done" /\ heap'[EntryCell(t, i)] = heap[EntryCell(t, i)]
    BY <1>1, <1>3, <1>6, CellsDiffer
  <2>2. entries \in PartialMaps /\ \A t \in Sessions : base[t] \in PartialMaps /\ pending[t] \in PartialMaps
    BY DEF IInv, TypeOK
  <2>3. SettledNext(entries) /\ \A t \in Sessions : SettledNext(base[t]) /\ SettledNext(pending[t])
    BY <2>1, <2>2, RefsKept DEF IInv, Owned
  <2> QED
    BY <1>1, <2>3, OwnedNext
<1>9. JobsOK'
  <2>1. \A t \in Sessions : Present(t)' = Present(t)
    BY <1>1 DEF Present
  <2>2. \A t \in Sessions, i \in Jobs : ResultCell(t, i)' = ResultCell(t, i)
    BY DEF ResultCell
  <2> QED
    BY <1>1, <1>2, <2>1, <2>2 DEF IInv, JobsOK
<1>10. ResultsOK'
  <2>1. ASSUME NEW t \in Sessions, NEW i \in Jobs, job[t][i] = "done"
        PROVE  /\ pc'[t] \in {"optimizing", "placing"} => heap'[ResultCell(t, i)] = Optimized(t, i)
               /\ pc'[t] \in {"backend", "committing", "done"} =>
                    heap'[ResultCell(t, i)] = Placed(Optimized(t, i), project[t].layout)
    <3>1. CASE t = s
      BY <1>2, <1>4, <1>5, <2>1, <3>1
    <3>2. CASE t # s
      <4>1. heap'[ResultCell(t, i)] = heap[ResultCell(t, i)]
        BY <1>3, <1>6, <3>2, CellsDiffer
      <4> QED
        BY <1>2, <2>1, <3>2, <4>1 DEF IInv, ResultsOK
    <3> QED
      BY <3>1, <3>2
  <2>2. \A t \in Sessions, i \in Jobs :
          /\ Optimized(t, i)' = Optimized(t, i)
          /\ Placed(Optimized(t, i), project[t].layout)' = Placed(Optimized(t, i), project[t].layout)
    BY <1>1 DEF Optimized, Placed
  <2>3. \A t \in Sessions, i \in Jobs : ResultCell(t, i)' = ResultCell(t, i)
    BY DEF ResultCell
  <2> QED
    BY <1>1, <2>1, <2>2, <2>3 DEF ResultsOK
<1>11. Started' /\ Limited'
  BY <1>1, <1>2 DEF IInv, Started, Limited, EntryLimit
<1> QED
  BY <1>7, <1>8, <1>9, <1>10, <1>11 DEF IInv

LEMMA CommitKeyIInv ==
  ASSUME IInv, NEW s \in Sessions, CommitKey(s)
  PROVE  IInv'
<1>1. /\ UNCHANGED <<project, entries, pc, job, base, pending, heap, out>>
      /\ UNCHANGED <<generation, origin, free, hits>>
      /\ todo' \in [Sessions -> SUBSET Keys]
  BY DEF CommitKey, IInv, TypeOK
<1>2. PICK k \in Keys : IF Fits(s, k)
                        THEN /\ built' = [built EXCEPT ![s] = @ \cup {k}]
                             /\ used' = [used EXCEPT ![s] = @ + Size[k]]
                        ELSE UNCHANGED <<built, used>>
  BY DEF CommitKey
<1>3. /\ built \in [Sessions -> SUBSET Keys] /\ used \in [Sessions -> Nat]
      /\ Size[k] \in Nat
  BY CacheAssumption DEF IInv, TypeOK
<1>4. \A t \in Sessions : IsFiniteSet(built[t]) /\ Cardinality(built[t]) <= MaxEntries
  BY DEF IInv, Limited
<1>5. TypeOK'
  <2>1. built' \in [Sessions -> SUBSET Keys] /\ used' \in [Sessions -> Nat]
    BY <1>2, <1>3
  <2> QED
    BY <1>1, <2>1 DEF IInv, TypeOK
<1>6. \A t \in Sessions : IsFiniteSet(built'[t]) /\ Cardinality(built'[t]) <= MaxEntries
  <2>1. CASE Fits(s, k)
    <3>1. IsFiniteSet(built[s] \cup {k})
          /\ Cardinality(built[s] \cup {k}) \in {Cardinality(built[s]), Cardinality(built[s]) + 1}
      BY <1>4, FS_AddElement
    <3>2. Cardinality(built[s]) < MaxEntries /\ Cardinality(built[s]) \in Nat
      BY <1>4, <2>1, FS_CardinalityType DEF Fits
    <3>3. Cardinality(built[s] \cup {k}) <= MaxEntries
      BY <3>1, <3>2, CacheAssumption
    <3>4. \A t \in Sessions : built'[t] = IF t = s THEN built[s] \cup {k} ELSE built[t]
      BY <1>2, <1>3, <2>1
    <3> QED
      BY <1>4, <3>1, <3>3, <3>4
  <2>2. CASE ~Fits(s, k)
    BY <1>2, <1>4, <2>2
  <2> QED
    BY <2>1, <2>2
<1>7. Owned'
  BY <1>1 DEF IInv, Owned, Settled, Fresh
<1>8. JobsOK'
  BY <1>1 DEF IInv, JobsOK, Present, ResultCell
<1>9. ResultsOK'
  <2>1. \A t \in Sessions, i \in Jobs :
          /\ Optimized(t, i)' = Optimized(t, i)
          /\ Placed(Optimized(t, i), project[t].layout)' = Placed(Optimized(t, i), project[t].layout)
    BY <1>1 DEF Optimized, Placed
  <2> QED
    BY <1>1, <2>1 DEF IInv, ResultsOK, ResultCell
<1>10. Started' /\ Limited'
  BY <1>1, <1>6 DEF IInv, Started, Limited, EntryLimit
<1> QED
  BY <1>5, <1>7, <1>8, <1>9, <1>10 DEF IInv

\* The published generation is a part of what the session had pending, of no
\* more keys than the commit loop let in.
LEMMA PublishIInv ==
  ASSUME IInv, NEW s \in Sessions, Publish(s)
  PROVE  IInv'
<1>1. /\ UNCHANGED <<project, job, base, pending, heap, out, built, todo, used, free, hits, origin>>
      /\ pc[s] = "committing" /\ pc' = [pc EXCEPT ![s] = "done"]
      /\ entries' = [k \in Keys |-> IF k \in built[s] THEN pending[s][k] ELSE NoCell]
      /\ generation' = s
  BY DEF Publish, sessionVars
<1>2. /\ pending[s] \in PartialMaps
      /\ pc \in [Sessions -> {"idle", "optimizing", "placing", "backend", "committing", "done", "failed"}]
  BY DEF IInv, TypeOK
<1>3. \A t \in Sessions : pc'[t] = IF t = s THEN "done" ELSE pc[t]
  BY <1>1, <1>2
<1>4. TypeOK'
  <2>1. entries' \in PartialMaps
    BY <1>1, <1>2 DEF PartialMaps
  <2> QED
    BY <1>1, <2>1 DEF IInv, TypeOK
<1>5. Owned'
  <2>1. Settled(pending[s])
    BY DEF IInv, Owned
  <2>2. Settled(entries')
    BY <1>1, <2>1 DEF Settled
  <2> QED
    BY <1>1, <2>2 DEF IInv, Owned, Settled, Fresh
<1>6. JobsOK'
  <2>1. \A t \in Sessions : pc'[t] \in {"placing", "backend", "committing", "done"} =>
          pc[t] \in {"placing", "backend", "committing", "done"}
    BY <1>1, <1>3
  <2>2. ASSUME NEW t \in Sessions, NEW i \in Jobs
        PROVE  pc'[t] \in {"placing", "backend", "committing", "done"} =>
                 job[t][i] \in {"absent", "done"}
    BY <2>1 DEF IInv, JobsOK
  <2> QED
    BY <1>1, <2>2, JobsKept DEF IInv
<1>7. ResultsOK'
  <2>1. \A t \in Sessions, i \in Jobs :
          /\ Optimized(t, i)' = Optimized(t, i)
          /\ Placed(Optimized(t, i), project[t].layout)' = Placed(Optimized(t, i), project[t].layout)
    BY <1>1 DEF Optimized, Placed
  <2>2. \A t \in Sessions :
          /\ pc'[t] \in {"optimizing", "placing"} => pc[t] \in {"optimizing", "placing"}
          /\ pc'[t] \in {"backend", "committing", "done"} => pc[t] \in {"backend", "committing", "done"}
    BY <1>1, <1>3
  <2> QED
    BY <1>1, <2>1, <2>2 DEF IInv, ResultsOK, ResultCell
<1>8. Started'
  BY <1>1, <1>3 DEF IInv, Started
<1>9. Limited'
  <2>1. {k \in Keys : entries'[k] # NoCell} \subseteq built[s]
    BY <1>1
  <2>2. IsFiniteSet(built[s]) /\ Cardinality(built[s]) <= MaxEntries
    BY DEF IInv, Limited
  <2>3. /\ IsFiniteSet({k \in Keys : entries'[k] # NoCell})
        /\ Cardinality({k \in Keys : entries'[k] # NoCell}) <= Cardinality(built[s])
    BY <2>1, <2>2, FS_Subset
  <2>4. /\ Cardinality({k \in Keys : entries'[k] # NoCell}) \in Nat
        /\ Cardinality(built[s]) \in Nat
    BY <2>2, <2>3, FS_CardinalityType
  <2>5. Cardinality({k \in Keys : entries'[k] # NoCell}) <= MaxEntries
    BY <2>2, <2>3, <2>4, CacheAssumption
  <2> QED
    BY <1>1, <2>5 DEF IInv, Limited, EntryLimit
<1> QED
  BY <1>4, <1>5, <1>6, <1>7, <1>8, <1>9 DEF IInv

LEMMA StutterIInv == IInv /\ UNCHANGED vars => IInv'
<1> SUFFICES ASSUME IInv, UNCHANGED vars PROVE IInv'
  OBVIOUS
<1> USE DEF vars, sessionVars
<1>1. TypeOK' /\ Owned' /\ JobsOK'
  BY DEF IInv, TypeOK, Owned, Settled, Fresh, JobsOK, Present, ResultCell
<1>2. ResultsOK'
  <2>1. \A t \in Sessions, i \in Jobs :
          /\ Optimized(t, i)' = Optimized(t, i)
          /\ Placed(Optimized(t, i), project[t].layout)' = Placed(Optimized(t, i), project[t].layout)
    BY DEF Optimized, Placed
  <2> QED
    BY <2>1 DEF IInv, ResultsOK, ResultCell
<1>3. Started' /\ Limited'
  BY DEF IInv, Started, Limited, EntryLimit
<1> QED
  BY <1>1, <1>2, <1>3 DEF IInv

-----------------------------------------------------------------------------
LEMMA NextIInv == IInv /\ [Next]_vars => IInv'
<1> SUFFICES ASSUME IInv, [Next]_vars PROVE IInv'
  OBVIOUS
<1>1. CASE UNCHANGED vars
  BY <1>1, StutterIInv
<1>2. ASSUME NEW s \in Sessions, Begin(s) PROVE IInv'
  BY <1>2, BeginIInv
<1>3. ASSUME NEW s \in Sessions, SessionStep(s) PROVE IInv'
  <2>1. CASE Collect(s)
    BY <2>1, CollectIInv
  <2>2. CASE PlaceConstantTables(s)
    BY <2>2, PlaceIInv
  <2>3. CASE CompileFails(s)
    BY <2>3, CompileFailsIInv
  <2>4. CASE StartCommit(s)
    BY <2>4, StartCommitIInv
  <2>5. CASE CommitKey(s)
    BY <2>5, CommitKeyIInv
  <2>6. CASE Publish(s)
    BY <2>6, PublishIInv
  <2>7. ASSUME NEW j \in Jobs, TakeHit(s, j) PROVE IInv'
    BY <2>7, TakeHitIInv
  <2>8. ASSUME NEW j \in Jobs, TakeMiss(s, j) PROVE IInv'
    BY <2>8, TakeMissIInv
  <2>9. ASSUME NEW j \in Jobs, Optimize(s, j) PROVE IInv'
    BY <2>9, OptimizeIInv
  <2>10. ASSUME NEW j \in Jobs, OptimizeFails(s, j) PROVE IInv'
    BY <2>10, OptimizeFailsIInv
  <2> QED
    BY <1>3, <2>1, <2>2, <2>3, <2>4, <2>5, <2>6, <2>7, <2>8, <2>9, <2>10 DEF SessionStep
<1> QED
  BY <1>1, <1>2, <1>3 DEF Next

LEMMA Invariance == Spec => []IInv
<1>1. Init => IInv
  BY InitIInv
<1>2. IInv /\ [Next]_vars => IInv'
  BY NextIInv
<1> QED
  BY <1>1, <1>2, PTL DEF Spec

\* Every reachable state of the cache and its sessions is well typed.
THEOREM TypeCorrect == Spec => []TypeOK
<1>1. IInv => TypeOK
  BY DEF IInv
<1> QED
  BY <1>1, Invariance, PTL

\* No session's placement of its own results reaches a published, inherited
\* or pending entry, and no entry is overwritten (callback_cache.go:70-88).
THEOREM Pristineness == Spec => []EntriesPristine
<1>1. IInv => EntriesPristine
  BY DEF IInv, Owned, Settled, EntriesPristine, Pristine
<1> QED
  BY <1>1, Invariance, PTL

\* commit never publishes more than maxCallbackCacheEntries entries
\* (callback_cache.go:105).
THEOREM EntriesLimited == Spec => []EntryLimit
<1>1. IInv => EntryLimit
  BY DEF IInv, Limited
<1> QED
  BY <1>1, Invariance, PTL

-----------------------------------------------------------------------------
(***************************************************************************)
(* The refinement.  In a state of the invariant the outcome of a session   *)
(* is a function of where it is and of its project alone, so that a step   *)
(* changes an outcome only by ending its session.                          *)
(***************************************************************************)
ByStatus(status, p) ==
  IF status = "done" THEN CompiledAlone(p)
  ELSE IF status = "failed" THEN WithoutCode("failed") ELSE WithoutCode("unfinished")

LEMMA OutcomeByStatus ==
  ASSUME IInv, NEW t \in Sessions
  PROVE  Outcome(t) = ByStatus(pc[t], project[t])
<1>1. CASE pc[t] = "done"
  <2>1. ASSUME NEW j \in Present(t)
        PROVE  heap[out[t][j]] = [of |-> [body |-> project[t].plan[j],
                                          level |-> OptimizerLevel(project[t].level)],
                                  place |-> project[t].layout]
    <3>1. j \in Jobs /\ job[t][j] = "done"
      BY <1>1 DEF IInv, JobsOK, Present
    <3>2. heap[out[t][j]] = Placed(Optimized(t, j), project[t].layout)
      BY <1>1, <3>1 DEF IInv, JobsOK, ResultsOK
    <3>3. Optimized(t, j).place = Unplaced
      BY DEF Optimized
    <3>4. Placed(Optimized(t, j), project[t].layout) =
            [Optimized(t, j) EXCEPT !.place = project[t].layout]
      BY <3>3 DEF Placed
    <3> QED
      BY <3>2, <3>4 DEF Optimized
  <2>2. Present(t) = {i \in Jobs : project[t].plan[i] # NoBody}
    BY DEF Present
  <2>3. Outcome(t) = [status |-> "done", code |-> [j \in Present(t) |-> heap[out[t][j]]]]
    BY <1>1 DEF Outcome
  <2>4. [j \in Present(t) |-> heap[out[t][j]]] =
          [j \in Present(t) |-> [of |-> [body |-> project[t].plan[j],
                                         level |-> OptimizerLevel(project[t].level)],
                                 place |-> project[t].layout]]
    BY <2>1
  <2> QED
    BY <1>1, <2>2, <2>3, <2>4 DEF ByStatus, CompiledAlone
<1>2. CASE pc[t] = "failed"
  BY <1>2 DEF Outcome, ByStatus
<1>3. CASE pc[t] \notin {"done", "failed"}
  BY <1>3 DEF Outcome, ByStatus
<1> QED
  BY <1>1, <1>2, <1>3

OutcomesByStatus == \A t \in Sessions : Outcome(t) = ByStatus(pc[t], project[t])

LEMMA OutcomesNext == (IInv => OutcomesByStatus)'
<1>1. IInv => OutcomesByStatus
  BY OutcomeByStatus DEF OutcomesByStatus
<1> QED
  BY <1>1, PTL

\* A step moves at most one session, and none that has ended.
LEMMA OneMoves ==
  ASSUME IInv, [Next]_vars
  PROVE  /\ project' = project
         /\ \/ pc' = pc
            \/ \E s \in Sessions :
                 /\ pc[s] \notin {"done", "failed"}
                 /\ \A t \in Sessions : t # s => pc'[t] = pc[t]
<1>0. pc \in [Sessions -> {"idle", "optimizing", "placing", "backend", "committing", "done", "failed"}]
  BY DEF IInv, TypeOK
<1>1. CASE UNCHANGED vars
  BY <1>1 DEF vars
<1>2. ASSUME NEW s \in Sessions, Begin(s) \/ Collect(s) \/ PlaceConstantTables(s)
              \/ CompileFails(s) \/ StartCommit(s) \/ Publish(s)
      PROVE  /\ project' = project
             /\ pc[s] \notin {"done", "failed"}
             /\ \A t \in Sessions : t # s => pc'[t] = pc[t]
  BY <1>0, <1>2 DEF Begin, Collect, PlaceConstantTables, CompileFails, StartCommit, Publish
<1>3. ASSUME NEW s \in Sessions, CommitKey(s) PROVE project' = project /\ pc' = pc
  BY <1>3 DEF CommitKey
<1>4. ASSUME NEW s \in Sessions, NEW j \in Jobs,
             TakeHit(s, j) \/ TakeMiss(s, j) \/ Optimize(s, j) \/ OptimizeFails(s, j)
      PROVE  project' = project /\ pc' = pc
  BY <1>4 DEF TakeHit, TakeMiss, Optimize, OptimizeFails
<1> QED
  BY <1>1, <1>2, <1>3, <1>4 DEF Next, SessionStep

LEMMA StepRefines == IInv /\ IInv' /\ [Next]_vars => [Uncached!Next]_(Uncached!vars)
<1> SUFFICES ASSUME IInv, IInv', [Next]_vars
             PROVE  Uncached!Next \/ UNCHANGED Uncached!vars
  OBVIOUS
<1> DEFINE before == [t \in Sessions |-> Outcome(t)]
           after  == [t \in Sessions |-> Outcome(t)']
<1>1. project' = project
  BY OneMoves
<1>2. \A t \in Sessions : Outcome(t) = ByStatus(pc[t], project[t])
  BY OutcomeByStatus
<1>3. \A t \in Sessions : Outcome(t)' = ByStatus(pc'[t], project[t])
  BY <1>1, OutcomesNext DEF OutcomesByStatus, ByStatus
<1>4. CASE \A t \in Sessions : ByStatus(pc'[t], project[t]) = ByStatus(pc[t], project[t])
  <2>1. before = after
    BY <1>2, <1>3, <1>4
  <2> QED
    BY <1>1, <2>1 DEF Uncached!vars
<1>5. CASE ~\A t \in Sessions : ByStatus(pc'[t], project[t]) = ByStatus(pc[t], project[t])
  <2>1. PICK s \in Sessions :
          /\ pc[s] \notin {"done", "failed"}
          /\ \A t \in Sessions : t # s => pc'[t] = pc[t]
    BY <1>5, OneMoves
  <2>2. pc'[s] \in {"done", "failed"}
    BY <1>5, <2>1 DEF ByStatus
  <2>3. before[s] = WithoutCode("unfinished")
    BY <1>2, <2>1 DEF ByStatus
  <2>4. after[s] = ByStatus(pc'[s], project[s])
    BY <1>3
  <2>5. \A t \in Sessions : t # s => after[t] = before[t]
    BY <1>2, <1>3, <2>1
  <2>6. after = [before EXCEPT ![s] = ByStatus(pc'[s], project[s])]
    BY <2>4, <2>5
  <2>7. CASE pc'[s] = "done"
    <3>1. ByStatus(pc'[s], project[s]) = CompiledAlone(project[s])
      BY <2>7 DEF ByStatus
    <3>2. Uncached!Succeed(s)
      BY <1>1, <2>3, <2>6, <3>1 DEF Uncached!Succeed
    <3> QED
      BY <3>2 DEF Uncached!Next
  <2>8. CASE pc'[s] = "failed"
    <3>1. ByStatus(pc'[s], project[s]) = WithoutCode("failed")
      BY <2>8 DEF ByStatus
    <3>2. Uncached!Fail(s)
      BY <1>1, <2>3, <2>6, <3>1 DEF Uncached!Fail
    <3> QED
      BY <3>2 DEF Uncached!Next
  <2> QED
    BY <2>2, <2>7, <2>8
<1> QED
  BY <1>4, <1>5

\* The cache is invisible: whatever sessions share it and however they are
\* interleaved, each session's functions are those it would have optimized
\* and placed alone (callback_cache.go:51-89, constrom.go:56-111).
THEOREM CacheRefinesUncached == Spec => CacheInvisible
<1>1. Init => Uncached!Init
  <2> SUFFICES ASSUME Init PROVE Uncached!Init
    OBVIOUS
  <2>1. \A t \in Sessions : Outcome(t) = WithoutCode("unfinished")
    BY DEF Init, Outcome
  <2> QED
    BY <2>1 DEF Init, Uncached!Init
<1>2. IInv /\ IInv' /\ [Next]_vars => [Uncached!Next]_(Uncached!vars)
  BY StepRefines
<1> QED
  BY <1>1, <1>2, Invariance, PTL DEF Spec, CacheInvisible, Uncached!Spec

-----------------------------------------------------------------------------
(***************************************************************************)
(* The reference is a recursive function, which TLA+ defines as some       *)
(* function satisfying its equation: that there is one is proved by        *)
(* induction on the number of keys.  Induction over the naturals is used   *)
(* in the form "a set with 0 and closed under successor has every natural" *)
(* and follows from the minimum that a well-founded order provides.        *)
(***************************************************************************)
LessThan == {pair \in Nat \X Nat : pair[1] < pair[2]}

LEMMA LessThanWellFounded == IsWellFoundedOn(LessThan, Nat)
BY NatLessThanWellFounded DEF OpToRel, LessThan

LEMMA LeastNat ==
  ASSUME NEW T, T \subseteq Nat, T # {}
  PROVE  \E n \in T : \A m \in T : n <= m
<1>1. PICK n \in T : \A m \in T : ~(<<m, n>> \in LessThan)
  BY LessThanWellFounded, WFMin
<1>2. \A x, y \in Nat : <<y, x>> \in LessThan <=> y < x
  BY DEF LessThan
<1>3. ASSUME NEW m \in T PROVE n <= m
  <2>1. m \in Nat /\ n \in Nat
    OBVIOUS
  <2>2. ~(m < n)
    BY <1>1, <1>2, <2>1
  <2> QED
    BY <2>1, <2>2
<1> QED
  BY <1>3

LEMMA SetInduction ==
  ASSUME NEW S, 0 \in S, \A n \in Nat : n \in S => n + 1 \in S
  PROVE  \A n \in Nat : n \in S
<1> SUFFICES ASSUME Nat \ S # {} PROVE FALSE
  OBVIOUS
<1>1. PICK n \in Nat \ S : \A m \in Nat \ S : n <= m
  BY LeastNat
<1>2. n # 0
  OBVIOUS
<1>3. n - 1 \in Nat /\ n - 1 \in S
  BY <1>1, <1>2
<1>4. (n - 1) + 1 \in S
  BY <1>3
<1> QED
  BY <1>1, <1>4

-----------------------------------------------------------------------------
\* Taking one key from a finite set of n + 1 keys leaves a finite set of n.
LEMMA OneKeyLess ==
  ASSUME NEW keys \in FiniteKeySets, NEW k \in keys
  PROVE  /\ Cardinality(keys) \in Nat /\ Cardinality(keys) # 0
         /\ keys \ {k} \in FiniteKeySets
         /\ Cardinality(keys \ {k}) \in Nat
         /\ Cardinality(keys) = Cardinality(keys \ {k}) + 1
<1>1. IsFiniteSet(keys) /\ keys \in SUBSET Keys
  BY DEF FiniteKeySets
<1>2. IsFiniteSet(keys \ {k}) /\ Cardinality(keys \ {k}) = Cardinality(keys) - 1
  BY <1>1, FS_RemoveElement
<1>3. Cardinality(keys) \in Nat /\ Cardinality(keys \ {k}) \in Nat
  BY <1>1, <1>2, FS_CardinalityType
<1> QED
  BY <1>1, <1>2, <1>3 DEF FiniteKeySets

LEMMA NoKeys ==
  /\ {} \in FiniteKeySets
  /\ \A keys \in FiniteKeySets : Cardinality(keys) \in Nat /\ (Cardinality(keys) = 0 <=> keys = {})
BY FS_EmptySet, FS_CardinalityType DEF FiniteKeySets

LEMMA LastKeyExists ==
  ASSUME NEW keys \in FiniteKeySets, keys # {}
  PROVE  LastKey(keys) \in keys /\ \A l \in keys : Hash[l] <= Hash[LastKey(keys)]
<1> DEFINE HasLast(some) == \E k \in some : \A l \in some : Hash[l] <= Hash[k]
           S == {n \in Nat : \A some \in FiniteKeySets : Cardinality(some) = n /\ some # {} => HasLast(some)}
<1>1. 0 \in S
  BY NoKeys
<1>2. ASSUME NEW n \in Nat, n \in S PROVE n + 1 \in S
  <2> SUFFICES ASSUME NEW some \in FiniteKeySets, Cardinality(some) = n + 1, some # {}
               PROVE  HasLast(some)
    OBVIOUS
  <2>1. PICK x \in some : TRUE
    OBVIOUS
  <2>2. some \ {x} \in FiniteKeySets /\ Cardinality(some \ {x}) = n
    BY <2>1, OneKeyLess
  <2>3. some \subseteq Keys /\ \A l \in some : Hash[l] \in Nat
    BY CacheAssumption DEF FiniteKeySets
  <2>4. CASE some \ {x} = {}
    <3>1. some = {x}
      BY <2>1, <2>4
    <3> QED
      BY <2>3, <3>1
  <2>5. CASE some \ {x} # {}
    <3>1. PICK k \in some \ {x} : \A l \in some \ {x} : Hash[l] <= Hash[k]
      BY <1>2, <2>2, <2>5
    <3>2. CASE Hash[x] <= Hash[k]
      BY <3>1, <3>2
    <3>3. CASE ~(Hash[x] <= Hash[k])
      BY <2>1, <2>3, <3>1, <3>3
    <3> QED
      BY <3>2, <3>3
  <2> QED
    BY <2>4, <2>5
<1> HIDE DEF S
<1>3. Cardinality(keys) \in S
  BY <1>1, <1>2, SetInduction, NoKeys
<1>4. HasLast(keys)
  BY <1>3 DEF S
<1> QED
  BY <1>4 DEF LastKey

-----------------------------------------------------------------------------
KeptStep(f, keys) ==
  IF keys = {} THEN [keys |-> {}, bytes |-> 0]
  ELSE LET k == LastKey(keys)
           before == f[keys \ {k}]
       IN IF Cardinality(before.keys) < MaxEntries /\ before.bytes + Size[k] <= MaxBytes
          THEN [keys |-> before.keys \cup {k}, bytes |-> before.bytes + Size[k]]
          ELSE before

UpTo(n) == {keys \in FiniteKeySets : Cardinality(keys) <= n}

\* f is what the reference computes of the sets of at most n keys.
Computes(n, f) == f = [keys \in UpTo(n) |-> KeptStep(f, keys)]

LEMMA KeptStepLocal ==
  ASSUME NEW f, NEW g, NEW keys, keys # {} => f[keys \ {LastKey(keys)}] = g[keys \ {LastKey(keys)}]
  PROVE  KeptStep(f, keys) = KeptStep(g, keys)
<1>1. CASE keys = {}
  BY <1>1 DEF KeptStep
<1>2. CASE keys # {}
  <2>1. f[keys \ {LastKey(keys)}] = g[keys \ {LastKey(keys)}]
    BY <1>2
  <2> QED
    BY <2>1 DEF KeptStep
<1> QED
  BY <1>1, <1>2

\* What is computed of smaller sets does not depend on the larger ones.
LEMMA ComputesLess ==
  ASSUME NEW n \in Nat, NEW m \in Nat, m <= n, NEW g, Computes(n, g)
  PROVE  Computes(m, [keys \in UpTo(m) |-> g[keys]])
<1> DEFINE h == [keys \in UpTo(m) |-> g[keys]]
<1>1. ASSUME NEW keys \in UpTo(m) PROVE h[keys] = KeptStep(h, keys)
  <2>1. keys \in FiniteKeySets /\ keys \in UpTo(n)
    BY NoKeys DEF UpTo
  <2>2. keys # {} => keys \ {LastKey(keys)} \in UpTo(m)
    BY <2>1, LastKeyExists, OneKeyLess DEF UpTo
  <2>3. KeptStep(h, keys) = KeptStep(g, keys)
    BY <2>2, KeptStepLocal
  <2>4. g[keys] = KeptStep(g, keys)
    BY <2>1 DEF Computes
  <2> QED
    BY <2>3, <2>4
<1>2. h = [keys \in UpTo(m) |-> h[keys]]
  OBVIOUS
<1> HIDE DEF h
<1>3. h = [keys \in UpTo(m) |-> KeptStep(h, keys)]
  BY <1>1, <1>2
<1> QED
  BY <1>3 DEF Computes, h

\* For every n there is exactly one such function.
LEMMA OneComputes ==
  ASSUME NEW n \in Nat
  PROVE  \E f : Computes(n, f) /\ \A g : Computes(n, g) => g = f
<1> DEFINE S == {i \in Nat : \E f : Computes(i, f) /\ \A g : Computes(i, g) => g = f}
<1>1. 0 \in S
  <2> DEFINE f == [keys \in UpTo(0) |-> [keys |-> {}, bytes |-> 0]]
  <2>1. UpTo(0) = {{}}
    BY NoKeys DEF UpTo
  <2>2. \A g : KeptStep(g, {}) = [keys |-> {}, bytes |-> 0]
    BY DEF KeptStep
  <2>3. Computes(0, f)
    BY <2>1, <2>2 DEF Computes
  <2>4. \A g : Computes(0, g) => g = f
    BY <2>1, <2>2 DEF Computes
  <2> QED
    BY <2>3, <2>4
<1>2. ASSUME NEW i \in Nat, i \in S PROVE i + 1 \in S
  <2>1. PICK f : Computes(i, f) /\ \A g : Computes(i, g) => g = f
    BY <1>2
  <2> DEFINE h == [keys \in UpTo(i + 1) |-> KeptStep(f, keys)]
  <2>2. \A keys \in UpTo(i) : f[keys] = KeptStep(f, keys)
    BY <2>1 DEF Computes
  <2>3. \A keys \in UpTo(i) : keys \in UpTo(i + 1) /\ h[keys] = f[keys]
    <3>1. \A keys \in UpTo(i) : keys \in UpTo(i + 1)
      BY NoKeys DEF UpTo
    <3> QED
      BY <2>2, <3>1
  <2>4. \A keys \in UpTo(i + 1) : keys # {} => keys \ {LastKey(keys)} \in UpTo(i)
    <3> SUFFICES ASSUME NEW keys \in UpTo(i + 1), keys # {}
                 PROVE  keys \ {LastKey(keys)} \in UpTo(i)
      OBVIOUS
    <3>1. keys \in FiniteKeySets /\ Cardinality(keys) <= i + 1
      BY DEF UpTo
    <3> QED
      BY <3>1, LastKeyExists, OneKeyLess DEF UpTo
  <2>5. Computes(i + 1, h)
    <3>1. \A keys \in UpTo(i + 1) : KeptStep(h, keys) = KeptStep(f, keys)
      <4> HIDE DEF h
      <4> QED
        BY <2>3, <2>4, KeptStepLocal
    <3>2. h = [keys \in UpTo(i + 1) |-> KeptStep(h, keys)]
      BY <3>1
    <3> QED
      BY <3>2 DEF Computes
  <2>6. ASSUME NEW g, Computes(i + 1, g) PROVE g = h
    <3>1. Computes(i, [keys \in UpTo(i) |-> g[keys]])
      BY <2>6, ComputesLess
    <3>2. [keys \in UpTo(i) |-> g[keys]] = f
      BY <2>1, <3>1
    <3>3. \A keys \in UpTo(i) : g[keys] = f[keys]
      BY <3>2
    <3>4. \A keys \in UpTo(i + 1) : KeptStep(g, keys) = KeptStep(f, keys)
      BY <2>4, <3>3, KeptStepLocal
    <3>5. g = [keys \in UpTo(i + 1) |-> KeptStep(g, keys)]
      BY <2>6 DEF Computes
    <3> QED
      BY <3>4, <3>5
  <2> HIDE DEF h
  <2> QED
    BY <2>5, <2>6
<1> HIDE DEF S
<1>3. n \in S
  BY <1>1, <1>2, SetInduction
<1> QED
  BY <1>3 DEF S

\* The reference satisfies its equation on every finite set of keys.
LEMMA KeptEquation == \A keys \in FiniteKeySets : Kept[keys] = KeptStep(Kept, keys)
<1> DEFINE Part(n) == CHOOSE f : Computes(n, f)
           F == [keys \in FiniteKeySets |-> Part(Cardinality(keys))[keys]]
<1>1. \A n \in Nat : Computes(n, Part(n)) /\ \A g : Computes(n, g) => g = Part(n)
  BY OneComputes
<1> HIDE DEF Part
<1>2. ASSUME NEW n \in Nat, NEW keys \in UpTo(n) PROVE Part(n)[keys] = F[keys]
  <2> DEFINE m == Cardinality(keys)
  <2>1. keys \in FiniteKeySets /\ m \in Nat /\ m <= n
    BY NoKeys DEF UpTo
  <2>2. keys \in UpTo(m)
    BY <2>1 DEF UpTo
  <2>3. Computes(m, [some \in UpTo(m) |-> Part(n)[some]])
    BY <1>1, <2>1, ComputesLess
  <2>4. [some \in UpTo(m) |-> Part(n)[some]] = Part(m)
    BY <1>1, <2>1, <2>3
  <2> QED
    BY <2>1, <2>2, <2>4
<1>3. ASSUME NEW keys \in FiniteKeySets PROVE F[keys] = KeptStep(F, keys)
  <2> DEFINE n == Cardinality(keys)
  <2>1. n \in Nat /\ keys \in UpTo(n)
    BY NoKeys DEF UpTo
  <2>2. F[keys] = Part(n)[keys]
    OBVIOUS
  <2>3. Part(n)[keys] = KeptStep(Part(n), keys)
    BY <1>1, <2>1 DEF Computes
  <2>4. keys # {} => keys \ {LastKey(keys)} \in UpTo(n)
    BY <2>1, LastKeyExists, OneKeyLess DEF UpTo
  <2>5. keys # {} => Part(n)[keys \ {LastKey(keys)}] = F[keys \ {LastKey(keys)}]
    BY <1>2, <2>1, <2>4
  <2> HIDE DEF F, n
  <2>6. KeptStep(Part(n), keys) = KeptStep(F, keys)
    BY <2>5, KeptStepLocal
  <2> QED
    BY <2>2, <2>3, <2>6
<1>4. F = [keys \in FiniteKeySets |-> F[keys]]
  OBVIOUS
<1> HIDE DEF F
<1>5. F = [keys \in FiniteKeySets |-> KeptStep(F, keys)]
  BY <1>3, <1>4
<1>6. Kept = [keys \in FiniteKeySets |-> KeptStep(Kept, keys)]
  <2>1. Kept = CHOOSE f : f = [keys \in FiniteKeySets |-> KeptStep(f, keys)]
    BY DEF Kept, KeptStep
  <2> QED
    BY <1>5, <2>1
<1> QED
  BY <1>6

\* What is kept is a part of the keys, and its size is a natural number.
LEMMA KeptType ==
  ASSUME NEW keys \in FiniteKeySets
  PROVE  Kept[keys] \in [keys : SUBSET keys, bytes : Nat]
<1> DEFINE S == {n \in Nat : \A some \in FiniteKeySets :
                   Cardinality(some) = n => Kept[some] \in [keys : SUBSET some, bytes : Nat]}
<1>1. 0 \in S
  <2>1. Kept[{}] = [keys |-> {}, bytes |-> 0]
    BY NoKeys, KeptEquation DEF KeptStep
  <2>2. Kept[{}] \in [keys : SUBSET {}, bytes : Nat]
    BY <2>1
  <2>3. \A some \in FiniteKeySets : Cardinality(some) = 0 => some = {}
    BY NoKeys
  <2> QED
    BY <2>2, <2>3
<1>2. ASSUME NEW n \in Nat, n \in S PROVE n + 1 \in S
  <2> SUFFICES ASSUME NEW some \in FiniteKeySets, Cardinality(some) = n + 1
               PROVE  Kept[some] \in [keys : SUBSET some, bytes : Nat]
    OBVIOUS
  <2> DEFINE k == LastKey(some)
             before == Kept[some \ {k}]
  <2>1. some # {}
    BY NoKeys
  <2>2. k \in some /\ some \ {k} \in FiniteKeySets /\ Cardinality(some \ {k}) = n
    BY <2>1, LastKeyExists, OneKeyLess
  <2>3. before \in [keys : SUBSET (some \ {k}), bytes : Nat]
    BY <1>2, <2>2
  <2>4. Size[k] \in Nat
    BY <2>2, CacheAssumption DEF FiniteKeySets
  <2>5. Kept[some] = IF Cardinality(before.keys) < MaxEntries /\ before.bytes + Size[k] <= MaxBytes
                     THEN [keys |-> before.keys \cup {k}, bytes |-> before.bytes + Size[k]]
                     ELSE before
    BY <2>1, KeptEquation DEF KeptStep
  <2> HIDE DEF k, before
  <2> QED
    BY <2>2, <2>3, <2>4, <2>5
<1> HIDE DEF S
<1>3. Cardinality(keys) \in S
  BY <1>1, <1>2, SetInduction, NoKeys
<1> QED
  BY <1>3 DEF S

\* The commit loop computes the reference one key at a time.
LEMMA KeptNext ==
  ASSUME NEW keys \in FiniteKeySets, NEW k \in Keys \ keys, \A l \in keys : Hash[l] < Hash[k]
  PROVE  Kept[keys \cup {k}] =
           IF Cardinality(Kept[keys].keys) < MaxEntries /\ Kept[keys].bytes + Size[k] <= MaxBytes
           THEN [keys |-> Kept[keys].keys \cup {k}, bytes |-> Kept[keys].bytes + Size[k]]
           ELSE Kept[keys]
<1> DEFINE more == keys \cup {k}
<1>1. more \in FiniteKeySets
  BY FS_AddElement DEF FiniteKeySets
<1>2. LastKey(more) \in more /\ Hash[k] <= Hash[LastKey(more)]
  BY <1>1, LastKeyExists
<1>3. Hash[k] \in Nat /\ \A l \in keys : Hash[l] \in Nat
  BY CacheAssumption DEF FiniteKeySets
<1>4. LastKey(more) = k
  BY <1>2, <1>3
<1>5. more \ {k} = keys /\ more # {}
  OBVIOUS
<1> HIDE DEF more
<1>6. Kept[more] = KeptStep(Kept, more)
  BY <1>1, KeptEquation
<1> QED
  BY <1>4, <1>5, <1>6 DEF KeptStep, more
-----------------------------------------------------------------------------
(***************************************************************************)
(* What a generation holds.  The second inductive invariant follows a key  *)
(* from the job it belongs to, through pending and the commit loop, to the *)
(* published generation and to the sessions that begin from it.            *)
(***************************************************************************)
KeysIn(map) == {k \in Keys : map[k] # NoCell}

KeyFor(p, j) == [body |-> p.plan[j], level |-> CacheLevel(p.level)]
Storable(p, j) == p.plan[j] \in Encodable /\ Size[KeyFor(p, j)] <= MaxBytes
KeysOf(p, jobs) == {KeyFor(p, j) : j \in {i \in jobs : Storable(p, i)}}
Done(states) == {j \in Jobs : states[j] = "done"}
Planned(p) == {j \in Jobs : p.plan[j] # NoBody}
InCache(p, map, j) == p.plan[j] \in Encodable /\ map[KeyFor(p, j)] # NoCell

\* The keys of the generation that session g published.
GenerationOf(projects, g) ==
  IF g = NoSession THEN {} ELSE Survivors(KeysOf(projects[g], Planned(projects[g])))

GenerationsOK ==
  /\ KeysIn(entries) = GenerationOf(project, generation)
  /\ \A s \in Sessions : KeysIn(base[s]) = GenerationOf(project, origin[s])

PendingOK == \A s \in Sessions : KeysIn(pending[s]) = KeysOf(project[s], Done(job[s]))

HitsOK ==
  \A s \in Sessions :
    /\ hits[s] = Cardinality({j \in Done(job[s]) : InCache(project[s], base[s], j)})
    /\ \A j \in Jobs : job[s][j] = "running" => ~InCache(project[s], base[s], j)
    /\ pc[s] = "idle" => \A j \in Jobs : job[s][j] \in {"absent", "queued"}

\* The commit loop has kept what the reference keeps of the keys it has seen,
\* and those come before the keys it has still to look at.
CommitOK ==
  \A s \in Sessions :
    /\ pc[s] \in {"idle", "optimizing", "placing", "backend"} => built[s] = {} /\ used[s] = 0
    /\ pc[s] = "committing" =>
         /\ todo[s] \subseteq KeysIn(pending[s])
         /\ \A k \in KeysIn(pending[s]) \ todo[s], l \in todo[s] : Hash[k] < Hash[l]
         /\ Kept[KeysIn(pending[s]) \ todo[s]] = [keys |-> built[s], bytes |-> used[s]]

KeysInv == GenerationsOK /\ PendingOK /\ HitsOK /\ CommitOK

LEMMA KeyForIsKey ==
  ASSUME TypeOK, NEW s \in Sessions, NEW j \in Planned(project[s])
  PROVE  /\ j \in Jobs /\ KeyFor(project[s], j) \in Keys
         /\ Size[KeyFor(project[s], j)] \in Nat
<1>1. j \in Present(s)
  BY DEF Planned, Present
<1>2. KeyFor(project[s], j) = KeyOf(s, j)
  BY DEF KeyFor, KeyOf
<1> QED
  BY <1>1, <1>2, KeyIsKey, CacheAssumption

LEMMA JobsFinite == \A jobs \in SUBSET Jobs : IsFiniteSet(jobs)
<1>1. 1 \in Int /\ MaxJobs \in Int
  BY CacheAssumption
<1>2. IsFiniteSet(Jobs)
  BY <1>1, FS_Interval DEF Jobs
<1> QED
  BY <1>2, FS_Subset

LEMMA KeysOfFinite ==
  ASSUME TypeOK, NEW s \in Sessions, NEW jobs, jobs \subseteq Planned(project[s])
  PROVE  /\ KeysOf(project[s], jobs) \in FiniteKeySets
         /\ \A k \in KeysOf(project[s], jobs) : Size[k] \in Nat /\ Size[k] <= MaxBytes
<1> DEFINE kept == {i \in jobs : Storable(project[s], i)}
           f == [i \in kept |-> KeyFor(project[s], i)]
<1>1. kept \in SUBSET Jobs
  BY DEF Planned
<1>2. IsFiniteSet(kept)
  BY <1>1, JobsFinite
<1>3. f \in Surjection(kept, KeysOf(project[s], jobs))
  BY DEF KeysOf, Surjection
<1>4. IsFiniteSet(KeysOf(project[s], jobs))
  BY <1>2, <1>3, FS_Surjection
<1>5. \A k \in KeysOf(project[s], jobs) : k \in Keys /\ Size[k] \in Nat /\ Size[k] <= MaxBytes
  BY KeyForIsKey DEF KeysOf, Storable
<1> QED
  BY <1>4, <1>5 DEF FiniteKeySets

\* A generation is made of keys that can be stored.
LEMMA GenerationSmall ==
  ASSUME TypeOK, NEW g \in Sessions \cup {NoSession}, NEW k \in GenerationOf(project, g)
  PROVE  k \in Keys /\ Size[k] <= MaxBytes
<1>1. g # NoSession /\ g \in Sessions
  BY DEF GenerationOf
<1> DEFINE stored == KeysOf(project[g], Planned(project[g]))
<1>2. stored \in FiniteKeySets /\ \A l \in stored : Size[l] <= MaxBytes
  BY <1>1, KeysOfFinite
<1>3. k \in Kept[stored].keys
  BY <1>1 DEF GenerationOf, Survivors
<1> HIDE DEF stored
<1>4. Kept[stored].keys \subseteq stored
  BY <1>2, KeptType
<1> QED
  BY <1>2, <1>3, <1>4 DEF FiniteKeySets

\* The vocabulary of the actions is that of the invariant.
LEMMA SameKeys ==
  ASSUME NEW s \in Sessions, NEW j \in Jobs
  PROVE  /\ KeyOf(s, j) = KeyFor(project[s], j)
         /\ Hit(s, j) <=> InCache(project[s], base[s], j)
         /\ Cacheable(s, j) /\ Size[KeyOf(s, j)] <= MaxBytes <=> Storable(project[s], j)
         /\ Present(s) = Planned(project[s])
BY DEF KeyOf, KeyFor, Hit, InCache, Cacheable, Storable, Present, Planned

LEMMA StoredKeysOf == \A s \in Sessions : StoredKeys(s) = KeysOf(project[s], Planned(project[s]))
BY DEF StoredKeys, KeysOf, KeyOf, KeyFor, Cacheable, Storable, Present, Planned

-----------------------------------------------------------------------------
LEMMA InitKeysInv == Init => KeysInv
<1> SUFFICES ASSUME Init PROVE KeysInv
  OBVIOUS
<1>1. \A s \in Sessions :
        /\ entries = EmptyMap /\ base[s] = EmptyMap /\ pending[s] = EmptyMap
        /\ generation = NoSession /\ origin[s] = NoSession /\ hits[s] = 0
        /\ pc[s] = "idle" /\ built[s] = {} /\ used[s] = 0
        /\ \A j \in Jobs : job[s][j] \in {"absent", "queued"}
  BY DEF Init
<1>2. entries = EmptyMap /\ generation = NoSession
  BY DEF Init
<1>3. KeysIn(EmptyMap) = {}
  BY DEF KeysIn, EmptyMap
<1>4. \A s \in Sessions : Done(job[s]) = {}
  BY <1>1 DEF Done
<1>5. GenerationsOK
  BY <1>1, <1>2, <1>3 DEF GenerationsOK, GenerationOf
<1>6. PendingOK
  BY <1>1, <1>3, <1>4 DEF PendingOK, KeysOf
<1>7. HitsOK
  BY <1>1, <1>4, FS_EmptySet DEF HitsOK
<1>8. CommitOK
  BY <1>1 DEF CommitOK
<1> QED
  BY <1>5, <1>6, <1>7, <1>8 DEF KeysInv

-----------------------------------------------------------------------------
(***************************************************************************)
(* Steps that leave the keys of the session's results alone: they change   *)
(* where the session is and neither the cache nor what it stored.          *)
(***************************************************************************)
LEMMA OnlyMoves ==
  ASSUME KeysInv, UNCHANGED <<project, entries, base, pending, hits, todo, built, used, generation, origin>>,
         \A s \in Sessions : Done(job'[s]) = Done(job[s]),
         \A s \in Sessions, j \in Jobs :
           job'[s][j] = "running" => job[s][j] = "running" \/ ~InCache(project[s], base[s], j),
         \A s \in Sessions : pc'[s] = "idle" => pc[s] = "idle" /\ job'[s] = job[s],
         \A s \in Sessions :
           pc'[s] \in {"idle", "optimizing", "placing", "backend"} =>
             pc[s] \in {"idle", "optimizing", "placing", "backend"},
         \A s \in Sessions : pc'[s] = "committing" => pc[s] = "committing"
  PROVE  KeysInv'
<1>1. GenerationsOK'
  BY DEF KeysInv, GenerationsOK
<1>2. PendingOK'
  BY DEF KeysInv, PendingOK
<1>3. HitsOK'
  BY DEF KeysInv, HitsOK
<1>4. CommitOK'
  BY DEF KeysInv, CommitOK
<1> QED
  BY <1>1, <1>2, <1>3, <1>4 DEF KeysInv

LEMMA MovesKeysInv ==
  ASSUME IInv, KeysInv, NEW s \in Sessions,
         Collect(s) \/ PlaceConstantTables(s) \/ CompileFails(s)
  PROVE  KeysInv'
<1>1. pc \in [Sessions -> {"idle", "optimizing", "placing", "backend", "committing", "done", "failed"}]
  BY DEF IInv, TypeOK
<1>2. /\ UNCHANGED <<project, entries, generation, origin, sessionVars>>
      /\ pc[s] \in {"optimizing", "placing", "backend"}
      /\ \E there \in {"failed", "placing", "backend"} : pc' = [pc EXCEPT ![s] = there]
  BY DEF Collect, PlaceConstantTables, CompileFails
<1>3. /\ \A t \in Sessions \ {s} : pc'[t] = pc[t]
      /\ pc'[s] \in {"failed", "placing", "backend"}
  BY <1>1, <1>2
<1> QED
  BY <1>2, <1>3, OnlyMoves DEF sessionVars

LEMMA TakeMissKeysInv ==
  ASSUME IInv, KeysInv, NEW s \in Sessions, NEW j \in Jobs, TakeMiss(s, j)
  PROVE  KeysInv'
<1>1. job \in [Sessions -> [Jobs -> {"absent", "queued", "running", "done", "failed"}]]
  BY DEF IInv, TypeOK
<1>2. /\ UNCHANGED <<project, entries, pc, base, pending, hits, todo, built, used, generation, origin>>
      /\ pc[s] = "optimizing" /\ job[s][j] = "queued"
      /\ job' = [job EXCEPT ![s][j] = "running"]
      /\ ~InCache(project[s], base[s], j)
  BY SameKeys DEF TakeMiss, Next1, Queued
<1>3. /\ \A t \in Sessions \ {s} : job'[t] = job[t]
      /\ \A i \in Jobs : job'[s][i] = IF i = j THEN "running" ELSE job[s][i]
  BY <1>1, <1>2
<1>4. \A t \in Sessions : Done(job'[t]) = Done(job[t])
  BY <1>2, <1>3 DEF Done
<1> QED
  BY <1>2, <1>3, <1>4, OnlyMoves

LEMMA OptimizeFailsKeysInv ==
  ASSUME IInv, KeysInv, NEW s \in Sessions, NEW j \in Jobs, OptimizeFails(s, j)
  PROVE  KeysInv'
<1>1. job \in [Sessions -> [Jobs -> {"absent", "queued", "running", "done", "failed"}]]
  BY DEF IInv, TypeOK
<1>2. /\ UNCHANGED <<project, entries, pc, base, pending, hits, todo, built, used, generation, origin>>
      /\ pc[s] = "optimizing" /\ job[s][j] = "running"
      /\ job' = [job EXCEPT ![s][j] = "failed"]
  BY DEF OptimizeFails
<1>3. /\ \A t \in Sessions \ {s} : job'[t] = job[t]
      /\ \A i \in Jobs : job'[s][i] = IF i = j THEN "failed" ELSE job[s][i]
  BY <1>1, <1>2
<1>4. \A t \in Sessions : Done(job'[t]) = Done(job[t])
  BY <1>2, <1>3 DEF Done
<1> QED
  BY <1>2, <1>3, <1>4, OnlyMoves

\* A session begins from the published generation, with no job taken yet.
LEMMA BeginKeysInv ==
  ASSUME IInv, KeysInv, NEW s \in Sessions, Begin(s)
  PROVE  KeysInv'
<1>1. /\ UNCHANGED <<project, entries, job, pending, hits, todo, built, used, generation>>
      /\ pc[s] = "idle" /\ pc' = [pc EXCEPT ![s] = "optimizing"]
      /\ base' = [base EXCEPT ![s] = entries]
      /\ origin' = [origin EXCEPT ![s] = generation]
  BY DEF Begin
<1>2. \A t \in Sessions :
        /\ pc'[t] = IF t = s THEN "optimizing" ELSE pc[t]
        /\ base'[t] = IF t = s THEN entries ELSE base[t]
        /\ origin'[t] = IF t = s THEN generation ELSE origin[t]
  BY <1>1 DEF IInv, TypeOK
<1>3. GenerationsOK'
  BY <1>1, <1>2 DEF KeysInv, GenerationsOK
<1>4. PendingOK'
  BY <1>1 DEF KeysInv, PendingOK
<1>5. HitsOK'
  <2>1. \A j \in Jobs : job[s][j] \in {"absent", "queued"}
    BY <1>1 DEF KeysInv, HitsOK
  <2>2. Done(job[s]) = {}
    BY <2>1 DEF Done
  <2>3. ASSUME NEW t \in Sessions
        PROVE  /\ hits[t] = Cardinality({j \in Done(job[t]) : InCache(project[t], base'[t], j)})
               /\ \A j \in Jobs : job[t][j] = "running" => ~InCache(project[t], base'[t], j)
               /\ pc'[t] = "idle" => \A j \in Jobs : job[t][j] \in {"absent", "queued"}
    <3>1. CASE t = s
      <4>1. {j \in Done(job[t]) : InCache(project[t], base'[t], j)} =
              {j \in Done(job[t]) : InCache(project[t], base[t], j)}
        BY <2>2, <3>1
      <4> QED
        BY <1>2, <2>1, <3>1, <4>1 DEF KeysInv, HitsOK
    <3>2. CASE t # s
      BY <1>2, <3>2 DEF KeysInv, HitsOK
    <3> QED
      BY <3>1, <3>2
  <2> QED
    BY <1>1, <2>3 DEF HitsOK
<1>6. CommitOK'
  BY <1>1, <1>2 DEF KeysInv, CommitOK
<1> QED
  BY <1>3, <1>4, <1>5, <1>6 DEF KeysInv

\* A job that ends well adds its key to pending when it can be stored, and
\* counts as a hit when its key was in the generation the session began from.
LEMMA JobDone ==
  ASSUME IInv, KeysInv, NEW s \in Sessions, NEW j \in Jobs,
         UNCHANGED <<project, entries, pc, base, todo, built, used, generation, origin>>,
         pc[s] = "optimizing", job[s][j] \in {"queued", "running"},
         job' = [job EXCEPT ![s][j] = "done"],
         \A t \in Sessions : t # s => pending'[t] = pending[t],
         \A k \in Keys : pending'[s][k] # NoCell <=>
           pending[s][k] # NoCell \/ (Storable(project[s], j) /\ k = KeyFor(project[s], j)),
         hits' = [hits EXCEPT ![s] = IF InCache(project[s], base[s], j) THEN @ + 1 ELSE @]
  PROVE  KeysInv'
<1>1. \A t \in Sessions, i \in Jobs : job'[t][i] = IF t = s /\ i = j THEN "done" ELSE job[t][i]
  BY DEF IInv, TypeOK
<1>2. /\ j \in Planned(project[s]) /\ j \notin Done(job[s])
      /\ \A t \in Sessions : Done(job'[t]) = IF t = s THEN Done(job[t]) \cup {j} ELSE Done(job[t])
  BY <1>1 DEF Done, Planned, Present, IInv, JobsOK
<1>3. GenerationsOK'
  BY DEF KeysInv, GenerationsOK
<1>4. PendingOK'
  <2>1. KeyFor(project[s], j) \in Keys
    BY <1>2, KeyForIsKey DEF IInv
  <2>2. KeysOf(project[s], Done(job[s]) \cup {j}) =
          KeysOf(project[s], Done(job[s])) \cup
            {k \in Keys : Storable(project[s], j) /\ k = KeyFor(project[s], j)}
    BY <2>1 DEF KeysOf
  <2>3. KeysIn(pending'[s]) =
          KeysIn(pending[s]) \cup {k \in Keys : Storable(project[s], j) /\ k = KeyFor(project[s], j)}
    BY DEF KeysIn
  <2>4. \A t \in Sessions : KeysIn(pending[t]) = KeysOf(project[t], Done(job[t]))
    BY DEF KeysInv, PendingOK
  <2>5. \A t \in Sessions : KeysIn(pending'[t]) = KeysOf(project[t], Done(job'[t]))
    BY <1>2, <2>2, <2>3, <2>4
  <2> QED
    BY <2>5 DEF PendingOK
<1>5. HitsOK'
  <2>1. ASSUME NEW t \in Sessions
        PROVE  hits'[t] = Cardinality({i \in Done(job'[t]) : InCache(project[t], base[t], i)})
    <3> DEFINE before == {i \in Done(job[t]) : InCache(project[t], base[t], i)}
               after == {i \in Done(job'[t]) : InCache(project[t], base[t], i)}
    <3>1. hits[t] = Cardinality(before) /\ hits \in [Sessions -> Nat]
      BY DEF KeysInv, HitsOK, IInv, TypeOK
    <3>2. IsFiniteSet(before)
      BY JobsFinite DEF Done
    <3>3. CASE t # s
      BY <1>2, <3>1, <3>3
    <3>4. CASE t = s /\ InCache(project[s], base[s], j)
      <4>0. Done(job'[t]) = Done(job[t]) \cup {j} /\ j \notin Done(job[t])
        BY <1>2, <3>4
      <4>1. after = before \cup {j} /\ j \notin before
        BY <3>4, <4>0
      <4>2. Cardinality(after) = Cardinality(before) + 1
        BY <3>2, <4>1, FS_AddElement
      <4>3. hits'[t] = hits[t] + 1
        BY <3>1, <3>4
      <4> QED
        BY <3>1, <4>2, <4>3
    <3>5. CASE t = s /\ ~InCache(project[s], base[s], j)
      <4>0. Done(job'[t]) = Done(job[t]) \cup {j}
        BY <1>2, <3>5
      <4>1. after = before
        BY <3>5, <4>0
      <4>2. hits'[t] = hits[t]
        BY <3>1, <3>5
      <4> QED
        BY <3>1, <4>1, <4>2
    <3> QED
      BY <3>3, <3>4, <3>5
  <2>2. ASSUME NEW t \in Sessions, NEW i \in Jobs
        PROVE  /\ job'[t][i] = "running" => ~InCache(project[t], base[t], i)
               /\ pc[t] = "idle" => job'[t][i] \in {"absent", "queued"}
    <3>1. /\ job[t][i] = "running" => ~InCache(project[t], base[t], i)
          /\ pc[t] = "idle" => job[t][i] \in {"absent", "queued"}
      BY DEF KeysInv, HitsOK
    <3>2. CASE t = s /\ i = j
      BY <1>1, <3>2
    <3>3. CASE ~(t = s /\ i = j)
      BY <1>1, <3>1, <3>3
    <3> QED
      BY <3>2, <3>3
  <2> QED
    BY <2>1, <2>2 DEF HitsOK
<1>6. CommitOK'
  BY DEF KeysInv, CommitOK
<1> QED
  BY <1>3, <1>4, <1>5, <1>6 DEF KeysInv

LEMMA TakeHitKeysInv ==
  ASSUME IInv, KeysInv, NEW s \in Sessions, NEW j \in Jobs, TakeHit(s, j)
  PROVE  KeysInv'
<1> DEFINE k == KeyFor(project[s], j)
<1>1. /\ UNCHANGED <<project, entries, pc, base, todo, built, used, generation, origin>>
      /\ pc[s] = "optimizing" /\ job[s][j] = "queued"
      /\ job' = [job EXCEPT ![s][j] = "done"]
      /\ pending' = [pending EXCEPT ![s][k] = base[s][k]]
      /\ hits' = [hits EXCEPT ![s] = @ + 1]
      /\ InCache(project[s], base[s], j)
  BY SameKeys DEF TakeHit, Next1, Queued
<1>2. k \in Keys
  BY <1>1, KeyForIsKey DEF IInv, JobsOK, Planned, Present
<1>3. base[s][k] # NoCell /\ project[s].plan[j] \in Encodable
  BY <1>1 DEF InCache
<1>4. k \in GenerationOf(project, origin[s])
  BY <1>2, <1>3 DEF KeysInv, GenerationsOK, KeysIn
<1>5. Storable(project[s], j)
  <2>1. origin[s] \in Sessions \cup {NoSession} /\ TypeOK
    BY DEF IInv, TypeOK
  <2> QED
    BY <1>3, <1>4, <2>1, GenerationSmall DEF Storable
<1> HIDE DEF k
<1>6. /\ \A t \in Sessions : t # s => pending'[t] = pending[t]
      /\ \A l \in Keys : pending'[s][l] = IF l = k THEN base[s][k] ELSE pending[s][l]
  BY <1>1, <1>2 DEF IInv, TypeOK, PartialMaps
<1>7. \A l \in Keys : pending'[s][l] # NoCell <=>
        pending[s][l] # NoCell \/ (Storable(project[s], j) /\ l = k)
  BY <1>3, <1>5, <1>6
<1> QED
  BY <1>1, <1>6, <1>7, JobDone DEF k

LEMMA OptimizeKeysInv ==
  ASSUME IInv, KeysInv, NEW s \in Sessions, NEW j \in Jobs, Optimize(s, j)
  PROVE  KeysInv'
<1> DEFINE k == KeyFor(project[s], j)
<1>1. /\ UNCHANGED <<project, entries, pc, base, hits, todo, built, used, generation, origin>>
      /\ pc[s] = "optimizing" /\ job[s][j] = "running"
      /\ job' = [job EXCEPT ![s][j] = "done"]
      /\ pending' = IF Storable(project[s], j) THEN [pending EXCEPT ![s][k] = EntryCell(s, j)] ELSE pending
  BY SameKeys DEF Optimize
<1>2. k \in Keys
  BY <1>1, KeyForIsKey DEF IInv, JobsOK, Planned, Present
<1>3. EntryCell(s, j) # NoCell
  BY CellsDiffer
<1>4. ~InCache(project[s], base[s], j)
  BY <1>1 DEF KeysInv, HitsOK
<1> HIDE DEF k
<1>5. /\ \A t \in Sessions : t # s => pending'[t] = pending[t]
      /\ \A l \in Keys : pending'[s][l] =
           IF Storable(project[s], j) /\ l = k THEN EntryCell(s, j) ELSE pending[s][l]
  BY <1>1, <1>2 DEF IInv, TypeOK, PartialMaps
<1>6. \A l \in Keys : pending'[s][l] # NoCell <=>
        pending[s][l] # NoCell \/ (Storable(project[s], j) /\ l = k)
  BY <1>3, <1>5
<1>7. hits' = [hits EXCEPT ![s] = IF InCache(project[s], base[s], j) THEN @ + 1 ELSE @]
  BY <1>1, <1>4 DEF IInv, TypeOK
<1> QED
  BY <1>1, <1>5, <1>6, <1>7, JobDone DEF k

-----------------------------------------------------------------------------
\* Steps of the commit: neither the cache nor what the session stored changes.
LEMMA OnlyCommits ==
  ASSUME KeysInv, UNCHANGED <<project, entries, job, base, pending, hits, generation, origin>>,
         \A s \in Sessions : pc'[s] = "idle" => pc[s] = "idle",
         CommitOK'
  PROVE  KeysInv'
<1>1. GenerationsOK' /\ PendingOK'
  BY DEF KeysInv, GenerationsOK, PendingOK
<1>2. HitsOK'
  BY DEF KeysInv, HitsOK
<1> QED
  BY <1>1, <1>2 DEF KeysInv

LEMMA PendingFinite ==
  ASSUME IInv, KeysInv, NEW s \in Sessions
  PROVE  KeysIn(pending[s]) \in FiniteKeySets
<1>1. Done(job[s]) \subseteq Planned(project[s])
  BY DEF IInv, JobsOK, Done, Planned, Present
<1> QED
  BY <1>1, KeysOfFinite DEF IInv, KeysInv, PendingOK

LEMMA StartCommitKeysInv ==
  ASSUME IInv, KeysInv, NEW s \in Sessions, StartCommit(s)
  PROVE  KeysInv'
<1>1. /\ UNCHANGED <<project, entries, job, base, pending, hits, built, used, generation, origin>>
      /\ pc[s] = "backend" /\ pc' = [pc EXCEPT ![s] = "committing"]
      /\ todo' = [todo EXCEPT ![s] = KeysIn(pending[s])]
  BY DEF StartCommit, KeysIn
<1>2. \A t \in Sessions :
        /\ pc'[t] = IF t = s THEN "committing" ELSE pc[t]
        /\ todo'[t] = IF t = s THEN KeysIn(pending[s]) ELSE todo[t]
  BY <1>1 DEF IInv, TypeOK
<1>3. Kept[{}] = [keys |-> {}, bytes |-> 0]
  BY NoKeys, KeptEquation DEF KeptStep
<1>4. built[s] = {} /\ used[s] = 0
  BY <1>1 DEF KeysInv, CommitOK
<1>5. CommitOK'
  <2>1. ASSUME NEW t \in Sessions
        PROVE  /\ pc'[t] \in {"idle", "optimizing", "placing", "backend"} => built[t] = {} /\ used[t] = 0
               /\ pc'[t] = "committing" =>
                    /\ todo'[t] \subseteq KeysIn(pending[t])
                    /\ \A l \in KeysIn(pending[t]) \ todo'[t], m \in todo'[t] : Hash[l] < Hash[m]
                    /\ Kept[KeysIn(pending[t]) \ todo'[t]] = [keys |-> built[t], bytes |-> used[t]]
    <3>1. CASE t = s
      <4>1. pc'[t] = "committing" /\ todo'[t] = KeysIn(pending[t])
        BY <1>2, <3>1
      <4>2. KeysIn(pending[t]) \ todo'[t] = {}
        BY <4>1
      <4> QED
        BY <1>3, <1>4, <3>1, <4>1, <4>2
    <3>2. CASE t # s
      BY <1>2, <3>2 DEF KeysInv, CommitOK
    <3> QED
      BY <3>1, <3>2
  <2> QED
    BY <1>1, <2>1 DEF CommitOK
<1> QED
  BY <1>1, <1>2, <1>5, OnlyCommits

LEMMA CommitKeyKeysInv ==
  ASSUME IInv, KeysInv, NEW s \in Sessions, CommitKey(s)
  PROVE  KeysInv'
<1> DEFINE all == KeysIn(pending[s])
           seen == all \ todo[s]
<1>1. /\ UNCHANGED <<project, entries, pc, job, base, pending, hits, generation, origin>>
      /\ pc[s] = "committing"
  BY DEF CommitKey
<1>2. PICK k \in Keys :
        /\ NextKey(s, k)
        /\ todo' = [todo EXCEPT ![s] = @ \ {k}]
        /\ IF Fits(s, k)
           THEN /\ built' = [built EXCEPT ![s] = @ \cup {k}]
                /\ used' = [used EXCEPT ![s] = @ + Size[k]]
           ELSE UNCHANGED <<built, used>>
  BY DEF CommitKey
<1>3. /\ todo[s] \subseteq all
      /\ \A l \in seen, m \in todo[s] : Hash[l] < Hash[m]
      /\ Kept[seen] = [keys |-> built[s], bytes |-> used[s]]
  BY <1>1 DEF KeysInv, CommitOK
<1>4. all \in FiniteKeySets /\ all \subseteq Keys
  BY PendingFinite DEF KeysIn
<1>5. k \in todo[s] /\ \A l \in todo[s] : Hash[k] <= Hash[l]
  BY <1>2 DEF NextKey
<1>6. /\ todo \in [Sessions -> SUBSET Keys] /\ built \in [Sessions -> SUBSET Keys]
      /\ used \in [Sessions -> Nat]
  BY DEF IInv, TypeOK
<1>7. \A t \in Sessions :
        /\ todo'[t] = IF t = s THEN todo[s] \ {k} ELSE todo[t]
        /\ built'[t] = IF t = s /\ Fits(s, k) THEN built[s] \cup {k} ELSE built[t]
        /\ used'[t] = IF t = s /\ Fits(s, k) THEN used[s] + Size[k] ELSE used[t]
  BY <1>2, <1>6
<1> HIDE DEF all
<1>8. all \ (todo[s] \ {k}) = seen \cup {k} /\ k \notin seen
  BY <1>3, <1>5
<1>9. seen \in FiniteKeySets
  BY <1>4, FS_Subset DEF FiniteKeySets
<1> HIDE DEF seen
<1>10. Kept[seen \cup {k}] = [keys |-> built'[s], bytes |-> used'[s]]
  <2>1. \A l \in seen : Hash[l] < Hash[k]
    BY <1>3, <1>5
  <2>2. Kept[seen].keys = built[s] /\ Kept[seen].bytes = used[s]
    BY <1>3
  <2>3. Kept[seen \cup {k}] = IF Fits(s, k) THEN [keys |-> built[s] \cup {k}, bytes |-> used[s] + Size[k]]
                              ELSE Kept[seen]
    BY <1>8, <1>9, <2>1, <2>2, KeptNext DEF Fits
  <2> QED
    BY <1>3, <1>7, <2>3
<1>11. \A l \in seen \cup {k}, m \in todo[s] \ {k} : Hash[l] < Hash[m]
  <2>1. \A m \in todo[s] \ {k} : Hash[k] < Hash[m]
    BY <1>5, <1>6, CacheAssumption
  <2> QED
    BY <1>3, <2>1
<1>12. CommitOK'
  <2>1. ASSUME NEW t \in Sessions
        PROVE  /\ pc[t] \in {"idle", "optimizing", "placing", "backend"} => built'[t] = {} /\ used'[t] = 0
               /\ pc[t] = "committing" =>
                    /\ todo'[t] \subseteq KeysIn(pending[t])
                    /\ \A l \in KeysIn(pending[t]) \ todo'[t], m \in todo'[t] : Hash[l] < Hash[m]
                    /\ Kept[KeysIn(pending[t]) \ todo'[t]] = [keys |-> built'[t], bytes |-> used'[t]]
    <3>1. CASE t = s
      <4>1. todo'[t] = todo[s] \ {k}
        BY <1>7, <3>1
      <4>2. KeysIn(pending[t]) = all
        BY <3>1 DEF all
      <4> QED
        BY <1>1, <1>3, <1>8, <1>10, <1>11, <3>1, <4>1, <4>2
    <3>2. CASE t # s
      BY <1>7, <3>2 DEF KeysInv, CommitOK
    <3> QED
      BY <3>1, <3>2
  <2> QED
    BY <1>1, <2>1 DEF CommitOK
<1> QED
  BY <1>1, <1>12, OnlyCommits

\* The loop is through: what it built is what the reference keeps of all the
\* keys the session stored, and those are the keys of all its jobs.
LEMMA PublishKeysInv ==
  ASSUME IInv, KeysInv, NEW s \in Sessions, Publish(s)
  PROVE  KeysInv'
<1>1. /\ UNCHANGED <<project, job, base, pending, hits, todo, built, used, origin>>
      /\ pc[s] = "committing" /\ todo[s] = {} /\ pc' = [pc EXCEPT ![s] = "done"]
      /\ entries' = [k \in Keys |-> IF k \in built[s] THEN pending[s][k] ELSE NoCell]
      /\ generation' = s
  BY DEF Publish, sessionVars
<1>2. \A t \in Sessions : pc'[t] = IF t = s THEN "done" ELSE pc[t]
  BY <1>1 DEF IInv, TypeOK
<1>3. KeysIn(pending[s]) = KeysOf(project[s], Planned(project[s]))
  <2>1. Done(job[s]) = Planned(project[s])
    BY <1>1 DEF IInv, JobsOK, Done, Planned, Present
  <2> QED
    BY <2>1 DEF KeysInv, PendingOK
<1>4. built[s] = Survivors(KeysIn(pending[s]))
  <2>1. Kept[KeysIn(pending[s]) \ todo[s]] = [keys |-> built[s], bytes |-> used[s]]
    BY <1>1 DEF KeysInv, CommitOK
  <2>2. KeysIn(pending[s]) \ todo[s] = KeysIn(pending[s])
    BY <1>1
  <2> QED
    BY <2>1, <2>2 DEF Survivors
<1>5. built[s] \subseteq KeysIn(pending[s])
  <2>1. Kept[KeysIn(pending[s])].keys \subseteq KeysIn(pending[s])
    BY PendingFinite, KeptType
  <2> QED
    BY <1>4, <2>1 DEF Survivors
<1>6. KeysIn(entries') = built[s]
  BY <1>1, <1>5 DEF KeysIn
<1>7. GenerationOf(project, s) = built[s]
  BY <1>3, <1>4, CacheAssumption DEF GenerationOf
<1>8. GenerationsOK'
  BY <1>1, <1>6, <1>7 DEF KeysInv, GenerationsOK
<1>9. PendingOK'
  BY <1>1 DEF KeysInv, PendingOK
<1>10. HitsOK'
  BY <1>1, <1>2 DEF KeysInv, HitsOK
<1>11. CommitOK'
  <2>1. ASSUME NEW t \in Sessions
        PROVE  /\ pc'[t] \in {"idle", "optimizing", "placing", "backend"} => built[t] = {} /\ used[t] = 0
               /\ pc'[t] = "committing" =>
                    /\ todo[t] \subseteq KeysIn(pending[t])
                    /\ \A l \in KeysIn(pending[t]) \ todo[t], m \in todo[t] : Hash[l] < Hash[m]
                    /\ Kept[KeysIn(pending[t]) \ todo[t]] = [keys |-> built[t], bytes |-> used[t]]
    BY <1>2 DEF KeysInv, CommitOK
  <2> QED
    BY <1>1, <2>1 DEF CommitOK
<1> QED
  BY <1>8, <1>9, <1>10, <1>11 DEF KeysInv

LEMMA NextKeysInv == IInv /\ KeysInv /\ [Next]_vars => KeysInv'
<1> SUFFICES ASSUME IInv, KeysInv, [Next]_vars PROVE KeysInv'
  OBVIOUS
<1>1. CASE UNCHANGED vars
  <2>1. UNCHANGED <<project, entries, job, base, pending, hits, generation, origin>>
        /\ UNCHANGED <<pc, todo, built, used>>
    BY <1>1 DEF vars, sessionVars
  <2>2. CommitOK'
    BY <2>1 DEF KeysInv, CommitOK
  <2> QED
    BY <2>1, <2>2, OnlyCommits
<1>2. ASSUME NEW s \in Sessions, Begin(s) PROVE KeysInv'
  BY <1>2, BeginKeysInv
<1>3. ASSUME NEW s \in Sessions, SessionStep(s) PROVE KeysInv'
  <2>1. CASE Collect(s) \/ PlaceConstantTables(s) \/ CompileFails(s)
    BY <2>1, MovesKeysInv
  <2>2. CASE StartCommit(s)
    BY <2>2, StartCommitKeysInv
  <2>3. CASE CommitKey(s)
    BY <2>3, CommitKeyKeysInv
  <2>4. CASE Publish(s)
    BY <2>4, PublishKeysInv
  <2>5. ASSUME NEW j \in Jobs, TakeHit(s, j) PROVE KeysInv'
    BY <2>5, TakeHitKeysInv
  <2>6. ASSUME NEW j \in Jobs, TakeMiss(s, j) PROVE KeysInv'
    BY <2>6, TakeMissKeysInv
  <2>7. ASSUME NEW j \in Jobs, Optimize(s, j) PROVE KeysInv'
    BY <2>7, OptimizeKeysInv
  <2>8. ASSUME NEW j \in Jobs, OptimizeFails(s, j) PROVE KeysInv'
    BY <2>8, OptimizeFailsKeysInv
  <2> QED
    BY <1>3, <2>1, <2>2, <2>3, <2>4, <2>5, <2>6, <2>7, <2>8 DEF SessionStep
<1> QED
  BY <1>1, <1>2, <1>3 DEF Next

LEMMA KeysInvariance == Spec => [](IInv /\ KeysInv)
<1>1. Init => KeysInv
  BY InitKeysInv
<1>2. IInv /\ KeysInv /\ [Next]_vars => KeysInv'
  BY NextKeysInv
<1> QED
  BY <1>1, <1>2, Invariance, PTL DEF Spec

\* A published generation is what the last successful session leaves,
\* whatever the order of its workers and whatever other sessions did
\* (callback_cache.go:18-19, 94-113).
THEOREM GenerationsExact == Spec => []GenerationExact
<1>1. IInv /\ KeysInv => GenerationExact
  <2> SUFFICES ASSUME IInv, KeysInv PROVE GenerationExact
    OBVIOUS
  <2>1. generation \in Sessions \cup {NoSession}
    BY DEF IInv, TypeOK
  <2>2. {k \in Keys : entries[k] # NoCell} = GenerationOf(project, generation)
    BY DEF KeysInv, GenerationsOK, KeysIn
  <2>3. GenerationOf(project, generation) =
          IF generation = NoSession THEN {} ELSE Survivors(StoredKeys(generation))
    BY <2>1, StoredKeysOf DEF GenerationOf
  <2> QED
    BY <2>2, <2>3 DEF GenerationExact
<1> QED
  BY <1>1, KeysInvariance, PTL

\* A session that succeeds was answered from the cache for exactly the
\* callbacks that survived in the generation it began from
\* (callback_cache.go:43-50, 72-78).
THEOREM HitsExact == Spec => []WarmHits
<1>1. IInv /\ KeysInv => WarmHits
  <2> SUFFICES ASSUME IInv, KeysInv, NEW s \in Sessions, pc[s] = "done"
               PROVE  hits[s] = IF origin[s] = NoSession THEN 0
                                ELSE Cardinality({j \in Present(s) :
                                       Cacheable(s, j) /\ KeyOf(s, j) \in Survivors(StoredKeys(origin[s]))})
    BY DEF WarmHits
  <2>1. origin[s] \in Sessions \cup {NoSession}
    BY DEF IInv, TypeOK
  <2>2. Done(job[s]) = Present(s)
    BY DEF IInv, JobsOK, Done, Present
  <2>3. \A j \in Present(s) :
          InCache(project[s], base[s], j) <=> Cacheable(s, j) /\ KeyOf(s, j) \in KeysIn(base[s])
    BY KeyIsKey DEF IInv, InCache, Cacheable, KeyOf, KeyFor, KeysIn
  <2>4. hits[s] = Cardinality({j \in Present(s) : Cacheable(s, j) /\ KeyOf(s, j) \in KeysIn(base[s])})
    <3>1. {j \in Present(s) : InCache(project[s], base[s], j)} =
            {j \in Present(s) : Cacheable(s, j) /\ KeyOf(s, j) \in KeysIn(base[s])}
      BY <2>3
    <3> QED
      BY <2>2, <3>1 DEF KeysInv, HitsOK
  <2>5. KeysIn(base[s]) = GenerationOf(project, origin[s])
    BY DEF KeysInv, GenerationsOK
  <2>6. CASE origin[s] = NoSession
    <3>1. {j \in Present(s) : Cacheable(s, j) /\ KeyOf(s, j) \in KeysIn(base[s])} = {}
      BY <2>5, <2>6 DEF GenerationOf
    <3> QED
      BY <2>4, <2>6, <3>1, FS_EmptySet
  <2>7. CASE origin[s] # NoSession
    <3>1. KeysIn(base[s]) = Survivors(StoredKeys(origin[s]))
      BY <2>1, <2>5, <2>7, StoredKeysOf DEF GenerationOf
    <3> QED
      BY <2>4, <2>7, <3>1
  <2> QED
    BY <2>6, <2>7
<1> QED
  BY <1>1, KeysInvariance, PTL

=============================================================================
