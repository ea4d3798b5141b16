------------------------------ MODULE Compiler ------------------------------
(***************************************************************************)
(* One Compiler instance (internal/compiler/compiler.go, schema.go) called *)
(* from several goroutines while the user edits the sources: the modes it  *)
(* has compiled, the packages Schema has loaded, the last result, and the  *)
(* mutex that every call holds from its first look at them to its return.  *)
(*                                                                         *)
(* The source tree is a version number that edits increase.  A loaded      *)
(* package is the version its LoadMode read; 0 is the nil package.         *)
(***************************************************************************)
EXTENDS Naturals, FiniteSets

CONSTANTS
  Modes,        \* play, watch, preview, tutorial
  SchemaModes,  \* the modes Schema reads: play, watch, preview
  Callers,      \* goroutines, each making one call
  Requests,     \* sets of modes Compile may be asked for
  MaxVersion,   \* bound on edits
  Unloadable,   \* <<mode, version>> that source.LoadMode rejects
  Untypable,    \* <<mode, version>> whose declarations the frontend rejects
  Uncompilable, \* <<mode, version>> whose callbacks do not lower or optimize
  Shared,       \* configuration, ROM and streams declared by a version
  NoOne

Versions == 1..MaxVersion
Loads == [Modes -> 0..MaxVersion]

ASSUME CompilerAssumption ==
  /\ SchemaModes \subseteq Modes
  /\ Requests \subseteq SUBSET Modes
  /\ MaxVersion \in Nat \ {0}
  /\ DOMAIN Shared = Versions
  /\ NoOne \notin Callers

VARIABLES
  disk,            \* version of the source tree
  holder,          \* owner of Compiler.mu
  packages,        \* Compiler.packages
  schemaPackages,  \* Compiler.schemaPackages
  schemaResult,    \* Compiler.schemaResult: what the schema was built from
  result,          \* Compiler.result: what the artifacts were built from
  files,           \* Compiler.files: the source files of those versions
  pc,              \* where each call is
  op,              \* Compile or Schema
  asked,           \* the modes it asked for
  answer,          \* what it returned
  candidate,       \* the holder's candidate packages
  loading,         \* modes whose load goroutine has not sent its result
  broken           \* some load of the holder failed

vars == <<disk, holder, packages, schemaPackages, schemaResult, result, files,
          pc, op, asked, answer, candidate, loading, broken>>
call == <<op, asked>>
published == <<packages, schemaPackages, schemaResult, result, files>>

Nothing == [m \in Modes |-> 0]
ErrorAnswer == [status |-> "error", view |-> Nothing]
OK(view) == [status |-> "ok", view |-> view]

\* sourceFiles: the Go and embed files of every package of the candidate.
SourceFiles(loads) == {<<m, loads[m]>> : m \in {n \in Modes : loads[n] # 0}}

Init ==
  /\ disk = 1
  /\ holder = NoOne
  /\ packages = Nothing /\ schemaPackages = Nothing
  /\ schemaResult = Nothing /\ result = Nothing /\ files = {}
  /\ pc = [c \in Callers |-> "idle"]
  /\ op = [c \in Callers |-> "none"]
  /\ asked = [c \in Callers |-> {}]
  /\ answer = [c \in Callers |-> [status |-> "none", view |-> Nothing]]
  /\ candidate = Nothing /\ loading = {} /\ broken = FALSE

\* The user saves a file.
Edit ==
  /\ disk < MaxVersion
  /\ disk' = disk + 1
  /\ UNCHANGED <<holder, published, pc, call, answer, candidate, loading, broken>>

\* normalizeModes runs before the lock: a request without modes fails there.
CallCompile(c) ==
  /\ pc[c] = "idle"
  /\ op' = [op EXCEPT ![c] = "compile"]
  /\ \E modes \in Requests :
       /\ asked' = [asked EXCEPT ![c] = modes]
       /\ IF modes = {}
          THEN /\ pc' = [pc EXCEPT ![c] = "returned"]
               /\ answer' = [answer EXCEPT ![c] = ErrorAnswer]
          ELSE /\ pc' = [pc EXCEPT ![c] = "waiting"]
               /\ UNCHANGED answer
  /\ UNCHANGED <<disk, holder, published, candidate, loading, broken>>

CallSchema(c) ==
  /\ pc[c] = "idle"
  /\ op' = [op EXCEPT ![c] = "schema"]
  /\ asked' = [asked EXCEPT ![c] = SchemaModes]
  /\ pc' = [pc EXCEPT ![c] = "waiting"]
  /\ UNCHANGED <<disk, holder, published, answer, candidate, loading, broken>>

\* Mutant: an early return on an error path that forgets the mutex.
ReturnLocked(c, value) ==
  /\ pc' = [pc EXCEPT ![c] = "returned"]
  /\ answer' = [answer EXCEPT ![c] = value]
  /\ UNCHANGED <<holder, candidate, loading, broken>>

\* Every return path unlocks: Unlock is deferred.
Return(c, value) ==
  /\ holder' = NoOne
  /\ pc' = [pc EXCEPT ![c] = "returned"]
  /\ answer' = [answer EXCEPT ![c] = value]
  /\ candidate' = Nothing /\ loading' = {} /\ broken' = FALSE

Fail(c) == Return(c, ErrorAnswer) /\ UNCHANGED <<disk, published, call>>

\* The packages a Compile starts from: those compiled before, and those
\* Schema loaded for the modes now requested.
IgnoreSchema(modes) == packages \* mutant: load again what Schema has loaded
CompileCandidate(modes) ==
  [m \in Modes |-> IF packages[m] = 0 /\ m \in modes THEN schemaPackages[m] ELSE packages[m]]

Cached(modes) == (\A m \in modes : packages[m] # 0) /\ result # Nothing

\* The packages a Schema starts from.
SchemaCandidate ==
  [m \in Modes |-> IF m \notin SchemaModes THEN 0
                   ELSE IF packages[m] # 0 THEN packages[m] ELSE schemaPackages[m]]

\* The lock is taken; a call that the instance can answer returns at once.
AnswerCached(c) ==
  /\ pc[c] = "waiting" /\ holder = NoOne
  /\ \/ op[c] = "schema" /\ schemaResult # Nothing
        /\ Return(c, OK(schemaResult))
     \/ op[c] = "compile" /\ Cached(asked[c])
        /\ Return(c, OK(result))
  /\ UNCHANGED <<disk, published, call>>

StartLoading(c, start, wanted) ==
  /\ pc[c] = "waiting" /\ holder = NoOne
  /\ holder' = c
  /\ pc' = [pc EXCEPT ![c] = "loading"]
  /\ candidate' = start
  /\ loading' = {m \in wanted : start[m] = 0}
  /\ broken' = FALSE
  /\ UNCHANGED <<disk, published, call, answer>>

StartCompile(c) ==
  /\ op[c] = "compile" /\ ~Cached(asked[c])
  /\ StartLoading(c, CompileCandidate(asked[c]), asked[c])

StartSchema(c) ==
  /\ op[c] = "schema" /\ schemaResult = Nothing
  /\ StartLoading(c, SchemaCandidate, SchemaModes)

\* One goroutine of loadModes reads the source tree for its mode, whatever
\* has happened to the tree since the others did.
LoadMode(c, m) ==
  /\ pc[c] = "loading" /\ m \in loading
  /\ loading' = loading \ {m}
  /\ IF <<m, disk>> \in Unloadable
     THEN broken' = TRUE /\ UNCHANGED candidate
     ELSE candidate' = [candidate EXCEPT ![m] = disk] /\ UNCHANGED broken
  /\ UNCHANGED <<disk, holder, published, pc, call, answer>>

\* wg.Wait returned: one failed load fails the call.
Loaded(c) ==
  /\ pc[c] = "loading" /\ loading = {}
  /\ IF broken THEN Fail(c)
     ELSE /\ pc' = [pc EXCEPT ![c] = "loaded"]
          /\ UNCHANGED <<disk, holder, published, call, answer, candidate, loading, broken>>

Present(loads) == {m \in Modes : loads[m] # 0}

\* GetProject: validateShared compares configuration, ROM and streams of all
\* the modes of the candidate, old and new.
SharedNew(loads) == \* mutant: compares the modes of this request only
  \A m, n \in Present(loads) \ Present(packages) : Shared[loads[m]] = Shared[loads[n]]
SharedAgree(loads) ==
  \A m, n \in Present(loads) : Shared[loads[m]] = Shared[loads[n]]

Accepted(loads) ==
  /\ \A m \in Present(loads) : <<m, loads[m]>> \notin Untypable \cup Uncompilable
  /\ SharedAgree(loads)

\* Frontend, optimizer and backend ran on every mode of the candidate, the
\* modes compiled before included; the commit comes after the last error path.
Compile(c) ==
  /\ pc[c] = "loaded" /\ op[c] = "compile"
  /\ Accepted(candidate)
  /\ packages' = candidate
  /\ result' = candidate
  /\ files' = SourceFiles(candidate)
  /\ Return(c, OK(candidate))
  /\ UNCHANGED <<disk, call, schemaPackages, schemaResult>>

\* Mutant: the packages are committed before the frontend has accepted them.
EarlyCommit(c) ==
  /\ pc[c] = "loaded" /\ op[c] = "compile"
  /\ ~Accepted(candidate)
  /\ packages' = candidate
  /\ Return(c, ErrorAnswer)
  /\ UNCHANGED <<disk, call, schemaPackages, schemaResult, result, files>>

CompileFails(c) ==
  /\ pc[c] = "loaded" /\ op[c] = "compile"
  /\ ~Accepted(candidate)
  /\ Fail(c)

Declared(loads) == \A m \in SchemaModes : <<m, loads[m]>> \notin Untypable

BuildSchema(c) ==
  /\ pc[c] = "loaded" /\ op[c] = "schema"
  /\ Declared(candidate)
  /\ schemaPackages' = candidate
  /\ schemaResult' = candidate
  /\ Return(c, OK(candidate))
  /\ UNCHANGED <<disk, call, packages, result, files>>

SchemaFails(c) ==
  /\ pc[c] = "loaded" /\ op[c] = "schema"
  /\ ~Declared(candidate)
  /\ Fail(c)

CallStep(c) ==
  \/ AnswerCached(c) \/ StartCompile(c) \/ StartSchema(c)
  \/ \E m \in Modes : LoadMode(c, m)
  \/ Loaded(c) \/ Compile(c) \/ CompileFails(c) \/ BuildSchema(c) \/ SchemaFails(c)

Next == Edit \/ \E c \in Callers : CallCompile(c) \/ CallSchema(c) \/ CallStep(c)

Spec == Init /\ [][Next]_vars
\* Goroutines run, LoadMode returns, and sync.Mutex does not starve a waiter.
FairSpec == Spec /\ \A c \in Callers : SF_vars(CallStep(c))

-----------------------------------------------------------------------------
Answers == [status : {"none", "ok", "error"}, view : Loads]

\* Type invariant.
TypeOK ==
  /\ disk \in Versions
  /\ holder \in Callers \cup {NoOne}
  /\ packages \in Loads /\ schemaPackages \in Loads
  /\ schemaResult \in Loads /\ result \in Loads
  /\ files \subseteq Modes \X Versions
  /\ pc \in [Callers -> {"idle", "waiting", "loading", "loaded", "returned"}]
  /\ op \in [Callers -> {"none", "compile", "schema"}]
  /\ asked \in [Callers -> SUBSET Modes]
  /\ answer \in [Callers -> Answers]
  /\ candidate \in Loads /\ loading \subseteq Modes /\ broken \in BOOLEAN

(***************************************************************************)
(* What the instance reports is what it holds: the result and the list of  *)
(* source files that dev watches belong to exactly the packages committed, *)
(* also after failed calls (docs/architecture.md:43, :46).                 *)
(***************************************************************************)
ResultIsPackages == result = packages /\ files = SourceFiles(packages)

(***************************************************************************)
(* Whatever calls are answered, in whatever order and with whatever edits  *)
(* in between, two answers never disagree on the source version of a mode: *)
(* the schema a level was validated with is the schema of the artifacts    *)
(* (docs/architecture.md:38, :42).                                         *)
(***************************************************************************)
AnswersAgree ==
  \A c, d \in Callers : \A m \in Modes :
    answer[c].view[m] # 0 /\ answer[d].view[m] # 0 => answer[c].view[m] = answer[d].view[m]

(***************************************************************************)
(* The modes of one set of artifacts declare the same configuration, ROM   *)
(* and streams, also when they were compiled by calls far apart            *)
(* (frontend.go:404, validateShared).                                      *)
(***************************************************************************)
ResultShares ==
  \A m, n \in Present(result) : Shared[result[m]] = Shared[result[n]]

\* A call that returns an error leaves the instance as it found it, whichever
\* stage failed (docs/architecture.md:43, "atomically committed only after ...").
FailureAtomic ==
  [][\A c \in Callers : answer'[c] # answer[c] /\ answer'[c].status = "error" =>
       UNCHANGED published]_vars

\* The mutex is released on every path: every call returns.
CallsReturn == \A c \in Callers : pc[c] = "waiting" ~> pc[c] = "returned"
=============================================================================
