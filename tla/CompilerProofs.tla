--------------------------- MODULE CompilerProofs ---------------------------
(***************************************************************************)
(* Proofs about Compiler for every set of modes, callers, requests and     *)
(* source versions: what an instance reports belongs to its packages, and  *)
(* no two of its answers disagree on the source version of a mode.         *)
(***************************************************************************)
EXTENDS Compiler, TLAPS

Agree(a, b) == \A m \in Modes : a[m] # 0 /\ b[m] # 0 => a[m] = b[m]

\* The mutex is held from the first look at the instance to the return.
Holding == \A c \in Callers : pc[c] \in {"loading", "loaded"} <=> holder = c

(***************************************************************************)
(* The candidate of the holder extends what is committed: it agrees with   *)
(* both stores, a Compile keeps every mode compiled before, a Schema runs  *)
(* only while no schema exists, and a mode is loaded only if neither store *)
(* has it.                                                                 *)
(***************************************************************************)
CandidateOK ==
  \A c \in Callers : pc[c] \in {"loading", "loaded"} =>
    /\ op[c] \in {"compile", "schema"}
    /\ Agree(candidate, packages) /\ Agree(candidate, schemaPackages)
    /\ op[c] = "compile" => \A m \in Modes : packages[m] # 0 => candidate[m] = packages[m]
    /\ op[c] = "schema" => schemaPackages = Nothing
    /\ \A m \in loading : candidate[m] = 0 /\ packages[m] = 0 /\ schemaPackages[m] = 0

\* An answer is made of committed packages.
AnswersCommitted ==
  \A c \in Callers : \A m \in Modes :
    answer[c].view[m] # 0 => answer[c].view[m] \in {packages[m], schemaPackages[m]}

IInv ==
  /\ TypeOK
  /\ ResultIsPackages
  /\ schemaResult = schemaPackages
  /\ Agree(packages, schemaPackages)
  /\ Holding
  /\ CandidateOK
  /\ AnswersCommitted
  /\ ResultShares

LEMMA NothingLoads == Nothing \in Loads /\ \A m \in Modes : Nothing[m] = 0
BY CompilerAssumption DEF Nothing, Loads

LEMMA InitIInv == Init => IInv
<1> SUFFICES ASSUME Init PROVE IInv
  OBVIOUS
<1> USE NothingLoads DEF Init
<1>1. TypeOK
  <2>1. disk \in Versions /\ holder \in Callers \cup {NoOne}
    BY CompilerAssumption DEF Versions
  <2>2. [status |-> "none", view |-> Nothing] \in Answers
    BY DEF Answers
  <2>3. answer \in [Callers -> Answers]
    BY <2>2
  <2> QED
    BY <2>1, <2>3 DEF TypeOK
<1>2. ResultIsPackages
  BY DEF ResultIsPackages, SourceFiles
<1>3. Agree(packages, schemaPackages)
  BY DEF Agree
<1>4. Holding /\ CandidateOK
  BY CompilerAssumption DEF Holding, CandidateOK
<1>5. AnswersCommitted
  BY DEF AnswersCommitted
<1>6. ResultShares
  BY DEF ResultShares, Present
<1> QED
  BY <1>1, <1>2, <1>3, <1>4, <1>5, <1>6 DEF IInv

-----------------------------------------------------------------------------
\* Steps that leave the stores, the answers and the holder's work alone.
LEMMA QuietStep ==
  ASSUME IInv, TypeOK', UNCHANGED <<published, holder, candidate, loading>>,
         \A c \in Callers : \A m \in Modes : answer'[c].view[m] # 0 => answer'[c].view[m] = answer[c].view[m],
         \A c \in Callers : pc'[c] \in {"loading", "loaded"} <=> pc[c] \in {"loading", "loaded"},
         \A c \in Callers : pc[c] \in {"loading", "loaded"} => op'[c] = op[c]
  PROVE  IInv'
<1> USE DEF published
<1>1. ResultIsPackages' /\ ResultShares' /\ schemaResult' = schemaPackages'
  BY DEF IInv, ResultIsPackages, ResultShares, SourceFiles, Present
<1>2. Agree(packages, schemaPackages)'
  BY DEF IInv, Agree
<1>3. Holding'
  BY DEF IInv, Holding
<1>4. CandidateOK'
  BY DEF IInv, CandidateOK, Agree
<1>5. AnswersCommitted'
  BY DEF IInv, AnswersCommitted
<1> QED
  BY <1>1, <1>2, <1>3, <1>4, <1>5 DEF IInv

\* A return that publishes nothing: the answer is an error or what is cached.
LEMMA PlainReturn ==
  ASSUME IInv, NEW c \in Callers, NEW v, v \in Answers, Return(c, v),
         UNCHANGED <<published, disk, call>>,
         holder \in {c, NoOne},
         \A m \in Modes : v.view[m] # 0 => v.view[m] \in {packages[m], schemaPackages[m]}
  PROVE  IInv'
<1>1. TypeOK'
  BY NothingLoads DEF IInv, TypeOK, Return, published, call
<1>2. /\ pc \in [Callers -> {"idle", "waiting", "loading", "loaded", "returned"}]
      /\ answer \in [Callers -> Answers]
  BY DEF IInv, TypeOK
<1>3. /\ \A d \in Callers : pc'[d] = IF d = c THEN "returned" ELSE pc[d]
      /\ \A d \in Callers : answer'[d] = IF d = c THEN v ELSE answer[d]
      /\ holder' = NoOne
  BY <1>2 DEF Return
<1>4. \A d \in Callers : pc'[d] \notin {"loading", "loaded"}
  BY <1>3, CompilerAssumption DEF IInv, Holding
<1>5. Holding' /\ CandidateOK'
  BY <1>3, <1>4, CompilerAssumption DEF Holding, CandidateOK
<1>6. AnswersCommitted'
  BY <1>3 DEF IInv, AnswersCommitted, published
<1>7. ResultIsPackages' /\ ResultShares' /\ schemaResult' = schemaPackages'
      /\ Agree(packages, schemaPackages)'
  BY DEF IInv, ResultIsPackages, ResultShares, SourceFiles, Present, Agree, published
<1> QED
  BY <1>1, <1>5, <1>6, <1>7 DEF IInv

LEMMA FailIInv ==
  ASSUME IInv, NEW c \in Callers, holder = c, Fail(c)
  PROVE  IInv'
<1>1. ErrorAnswer \in Answers /\ \A m \in Modes : ErrorAnswer.view[m] = 0
  BY NothingLoads DEF ErrorAnswer, Answers
<1> QED
  BY <1>1, PlainReturn DEF Fail

LEMMA EditIInv == ASSUME IInv, Edit PROVE IInv'
<1>1. TypeOK'
  <2>1. disk' \in Versions
    BY CompilerAssumption DEF Edit, IInv, TypeOK, Versions
  <2> QED
    BY <2>1 DEF Edit, IInv, TypeOK, published, call
<1> QED
  BY <1>1, QuietStep DEF Edit, published, call

LEMMA CallIInv ==
  ASSUME IInv, NEW c \in Callers, CallCompile(c) \/ CallSchema(c)
  PROVE  IInv'
<1>1. /\ pc \in [Callers -> {"idle", "waiting", "loading", "loaded", "returned"}]
      /\ answer \in [Callers -> Answers]
      /\ op \in [Callers -> {"none", "compile", "schema"}]
      /\ asked \in [Callers -> SUBSET Modes]
  BY DEF IInv, TypeOK
<1>2. ErrorAnswer \in Answers /\ \A m \in Modes : ErrorAnswer.view[m] = 0
  BY NothingLoads DEF ErrorAnswer, Answers
<1>3. /\ UNCHANGED <<published, holder, candidate, loading, disk, broken>>
      /\ pc[c] = "idle"
      /\ pc' = [pc EXCEPT ![c] = "returned"] \/ pc' = [pc EXCEPT ![c] = "waiting"]
      /\ answer' = answer \/ answer' = [answer EXCEPT ![c] = ErrorAnswer]
      /\ op' = [op EXCEPT ![c] = "compile"] \/ op' = [op EXCEPT ![c] = "schema"]
      /\ \E modes \in SUBSET Modes : asked' = [asked EXCEPT ![c] = modes]
  BY CompilerAssumption DEF CallCompile, CallSchema
<1>4. TypeOK'
  BY <1>1, <1>2, <1>3 DEF IInv, TypeOK, published
<1>5. \A d \in Callers : \A m \in Modes : answer'[d].view[m] # 0 => answer'[d].view[m] = answer[d].view[m]
  BY <1>1, <1>2, <1>3
<1>6. \A d \in Callers :
        /\ pc'[d] \in {"loading", "loaded"} <=> pc[d] \in {"loading", "loaded"}
        /\ pc[d] \in {"loading", "loaded"} => op'[d] = op[d]
  BY <1>1, <1>3
<1> QED
  BY <1>3, <1>4, <1>5, <1>6, QuietStep

LEMMA AnswerCachedIInv ==
  ASSUME IInv, NEW c \in Callers, AnswerCached(c)
  PROVE  IInv'
<1>1. UNCHANGED <<published, disk, call>> /\ holder = NoOne
  BY DEF AnswerCached
<1>2. PICK view \in {schemaResult, result} : Return(c, OK(view))
  BY DEF AnswerCached
<1>3. OK(view) \in Answers /\ OK(view).view = view
  BY <1>2 DEF IInv, TypeOK, OK, Answers
<1>4. \A m \in Modes : view[m] \in {packages[m], schemaPackages[m]}
  BY <1>2 DEF IInv, ResultIsPackages
<1> QED
  BY <1>1, <1>2, <1>3, <1>4, PlainReturn

\* Taking the lock: the candidate and the modes to load come from the stores.
LEMMA StartIInv ==
  ASSUME IInv, NEW c \in Callers, NEW start \in Loads, NEW wanted \in SUBSET Modes,
         StartLoading(c, start, wanted),
         op[c] \in {"compile", "schema"},
         Agree(start, packages), Agree(start, schemaPackages),
         op[c] = "compile" => \A m \in Modes : packages[m] # 0 => start[m] = packages[m],
         op[c] = "schema" => schemaPackages = Nothing,
         \A m \in wanted : start[m] = 0 => packages[m] = 0 /\ schemaPackages[m] = 0
  PROVE  IInv'
<1>1. /\ UNCHANGED <<disk, published, call, answer>>
      /\ holder = NoOne /\ holder' = c
      /\ pc' = [pc EXCEPT ![c] = "loading"]
      /\ candidate' = start
      /\ loading' = {m \in wanted : start[m] = 0}
      /\ broken' = FALSE
  BY DEF StartLoading
<1>2. pc \in [Callers -> {"idle", "waiting", "loading", "loaded", "returned"}]
  BY DEF IInv, TypeOK
<1>3. \A d \in Callers : pc'[d] = IF d = c THEN "loading" ELSE pc[d]
  BY <1>1, <1>2
<1>4. \A d \in Callers : pc'[d] \in {"loading", "loaded"} <=> d = c
  BY <1>1, <1>3, CompilerAssumption DEF IInv, Holding
<1>5. TypeOK'
  BY <1>1 DEF IInv, TypeOK, published, call
<1>6. Holding'
  BY <1>1, <1>4 DEF Holding
<1>7. CandidateOK'
  BY <1>1, <1>4 DEF CandidateOK, Agree, published, call
<1>8. ResultIsPackages' /\ ResultShares' /\ schemaResult' = schemaPackages'
      /\ Agree(packages, schemaPackages)' /\ AnswersCommitted'
  BY <1>1 DEF IInv, ResultIsPackages, ResultShares, SourceFiles, Present, Agree, AnswersCommitted, published
<1> QED
  BY <1>5, <1>6, <1>7, <1>8 DEF IInv

LEMMA StartCompileIInv ==
  ASSUME IInv, NEW c \in Callers, StartCompile(c)
  PROVE  IInv'
<1> DEFINE start == CompileCandidate(asked[c])
<1>1. op[c] = "compile" /\ StartLoading(c, start, asked[c])
  BY DEF StartCompile
<1>2. asked[c] \in SUBSET Modes /\ packages \in Loads /\ schemaPackages \in Loads
  BY DEF IInv, TypeOK
<1>3. start \in Loads
      /\ \A m \in Modes : start[m] = IF packages[m] = 0 /\ m \in asked[c]
                                     THEN schemaPackages[m] ELSE packages[m]
  BY <1>2 DEF CompileCandidate, Loads
<1>4. Agree(packages, schemaPackages)
  BY DEF IInv
<1> HIDE DEF start
<1>5. Agree(start, packages) /\ Agree(start, schemaPackages)
  BY <1>3, <1>4 DEF Agree
<1>6. \A m \in asked[c] : start[m] = 0 => packages[m] = 0 /\ schemaPackages[m] = 0
  BY <1>2, <1>3
<1>7. \A m \in Modes : packages[m] # 0 => start[m] = packages[m]
  BY <1>3
<1> QED
  BY <1>1, <1>2, <1>3, <1>5, <1>6, <1>7, StartIInv

LEMMA StartSchemaIInv ==
  ASSUME IInv, NEW c \in Callers, StartSchema(c)
  PROVE  IInv'
<1>1. /\ op[c] = "schema" /\ StartLoading(c, SchemaCandidate, SchemaModes)
      /\ schemaResult = Nothing
  BY DEF StartSchema
<1>2. packages \in Loads /\ schemaPackages = Nothing /\ SchemaModes \in SUBSET Modes
  BY <1>1, CompilerAssumption DEF IInv, TypeOK
<1>3. SchemaCandidate \in Loads
      /\ \A m \in Modes : SchemaCandidate[m] = IF m \in SchemaModes THEN packages[m] ELSE 0
  BY <1>2, NothingLoads DEF SchemaCandidate, Loads
<1>4. Agree(SchemaCandidate, packages) /\ Agree(SchemaCandidate, schemaPackages)
  BY <1>2, <1>3, NothingLoads DEF Agree
<1>5. \A m \in SchemaModes : SchemaCandidate[m] = 0 => packages[m] = 0 /\ schemaPackages[m] = 0
  BY <1>2, <1>3, NothingLoads
<1> QED
  BY <1>1, <1>2, <1>3, <1>4, <1>5, StartIInv

LEMMA LoadModeIInv ==
  ASSUME IInv, NEW c \in Callers, NEW m \in Modes, LoadMode(c, m)
  PROVE  IInv'
<1>1. /\ UNCHANGED <<disk, holder, published, pc, call, answer>>
      /\ pc[c] = "loading" /\ m \in loading
      /\ loading' = loading \ {m}
      /\ candidate' = candidate \/ candidate' = [candidate EXCEPT ![m] = disk]
      /\ broken' \in BOOLEAN
  BY DEF LoadMode, IInv, TypeOK
<1>2. candidate \in Loads /\ disk \in 0..MaxVersion /\ packages \in Loads /\ schemaPackages \in Loads
  BY CompilerAssumption DEF IInv, TypeOK, Versions
<1>3. /\ candidate' \in Loads
      /\ \A n \in Modes : n # m => candidate'[n] = candidate[n]
  BY <1>1, <1>2 DEF Loads
<1>4. TypeOK'
  BY <1>1, <1>3 DEF IInv, TypeOK, published, call
<1>5. candidate[m] = 0 /\ packages[m] = 0 /\ schemaPackages[m] = 0
  BY <1>1 DEF IInv, CandidateOK
<1>6. CandidateOK'
  <2>1. ASSUME NEW d \in Callers, pc[d] \in {"loading", "loaded"}
        PROVE  /\ op[d] \in {"compile", "schema"}
               /\ Agree(candidate', packages) /\ Agree(candidate', schemaPackages)
               /\ op[d] = "compile" => \A n \in Modes : packages[n] # 0 => candidate'[n] = packages[n]
               /\ op[d] = "schema" => schemaPackages = Nothing
               /\ \A n \in loading' : candidate'[n] = 0 /\ packages[n] = 0 /\ schemaPackages[n] = 0
    <3>1. /\ op[d] \in {"compile", "schema"}
          /\ Agree(candidate, packages) /\ Agree(candidate, schemaPackages)
          /\ op[d] = "compile" => \A n \in Modes : packages[n] # 0 => candidate[n] = packages[n]
          /\ op[d] = "schema" => schemaPackages = Nothing
          /\ \A n \in loading : candidate[n] = 0 /\ packages[n] = 0 /\ schemaPackages[n] = 0
      BY <2>1 DEF IInv, CandidateOK
    <3>2. loading \subseteq Modes
      BY DEF IInv, TypeOK
    <3> QED
      BY <1>1, <1>3, <1>5, <3>1, <3>2 DEF Agree
  <2> QED
    BY <1>1, <2>1 DEF CandidateOK, Agree, published, call
<1>7. ResultIsPackages' /\ ResultShares' /\ schemaResult' = schemaPackages'
      /\ Agree(packages, schemaPackages)' /\ AnswersCommitted' /\ Holding'
  BY <1>1 DEF IInv, ResultIsPackages, ResultShares, SourceFiles, Present, Agree,
              AnswersCommitted, Holding, published
<1> QED
  BY <1>4, <1>6, <1>7 DEF IInv

LEMMA LoadedIInv ==
  ASSUME IInv, NEW c \in Callers, Loaded(c)
  PROVE  IInv'
<1>1. holder = c
  BY DEF Loaded, IInv, Holding
<1>2. CASE Fail(c)
  BY <1>1, <1>2, FailIInv
<1>3. CASE ~Fail(c)
  <2>1. /\ pc[c] = "loading" /\ pc' = [pc EXCEPT ![c] = "loaded"]
        /\ UNCHANGED <<disk, holder, published, call, answer, candidate, loading, broken>>
    BY <1>3 DEF Loaded
  <2>2. pc \in [Callers -> {"idle", "waiting", "loading", "loaded", "returned"}]
    BY DEF IInv, TypeOK
  <2>3. TypeOK'
    BY <2>1 DEF IInv, TypeOK, published, call
  <2> QED
    BY <2>1, <2>2, <2>3, QuietStep DEF call
<1> QED
  BY <1>2, <1>3

\* The commit of a Compile: the candidate kept every mode compiled before, so
\* what earlier answers reported is still there.
LEMMA CompileIInv ==
  ASSUME IInv, NEW c \in Callers, Compile(c)
  PROVE  IInv'
<1>1. /\ UNCHANGED <<disk, call, schemaPackages, schemaResult>>
      /\ pc[c] = "loaded" /\ op[c] = "compile" /\ Accepted(candidate)
      /\ packages' = candidate /\ result' = candidate /\ files' = SourceFiles(candidate)
      /\ Return(c, OK(candidate))
  BY DEF Compile
<1>2. /\ pc \in [Callers -> {"idle", "waiting", "loading", "loaded", "returned"}]
      /\ answer \in [Callers -> Answers]
      /\ candidate \in Loads
  BY DEF IInv, TypeOK
<1>3. OK(candidate) \in Answers /\ OK(candidate).view = candidate
  BY <1>2 DEF OK, Answers
<1>4. /\ holder' = NoOne
      /\ \A d \in Callers : pc'[d] = IF d = c THEN "returned" ELSE pc[d]
      /\ \A d \in Callers : answer'[d] = IF d = c THEN OK(candidate) ELSE answer[d]
  BY <1>1, <1>2 DEF Return
<1>5. /\ Agree(candidate, schemaPackages)
      /\ \A m \in Modes : packages[m] # 0 => candidate[m] = packages[m]
  BY <1>1 DEF IInv, CandidateOK
<1>6. \A d \in Callers : pc'[d] \notin {"loading", "loaded"}
  BY <1>1, <1>4, CompilerAssumption DEF IInv, Holding
<1>7. TypeOK'
  <2>1. SourceFiles(candidate) \subseteq Modes \X Versions
    BY <1>2 DEF SourceFiles, Loads, Versions
  <2> QED
    BY <1>1, <1>2, <1>3, <2>1, NothingLoads DEF Return, IInv, TypeOK, call
<1>8. Holding' /\ CandidateOK'
  BY <1>4, <1>6, CompilerAssumption DEF Holding, CandidateOK
<1>9. ResultIsPackages' /\ schemaResult' = schemaPackages' /\ Agree(packages, schemaPackages)'
  BY <1>1, <1>5 DEF IInv, ResultIsPackages, SourceFiles, Agree
<1>10. ResultShares'
  BY <1>1 DEF Accepted, SharedAgree, ResultShares, Present
<1>11. AnswersCommitted'
  <2>1. ASSUME NEW d \in Callers, NEW m \in Modes, answer'[d].view[m] # 0
        PROVE  answer'[d].view[m] \in {candidate[m], schemaPackages[m]}
    <3>1. CASE d = c
      BY <1>3, <1>4, <3>1
    <3>2. CASE d # c
      BY <1>4, <1>5, <2>1, <3>2 DEF IInv, AnswersCommitted
    <3> QED
      BY <3>1, <3>2
  <2> QED
    BY <1>1, <2>1 DEF AnswersCommitted
<1> QED
  BY <1>7, <1>8, <1>9, <1>10, <1>11 DEF IInv

\* The commit of a Schema: nothing was in its store, so nothing is replaced.
LEMMA BuildSchemaIInv ==
  ASSUME IInv, NEW c \in Callers, BuildSchema(c)
  PROVE  IInv'
<1>1. /\ UNCHANGED <<disk, call, packages, result, files>>
      /\ pc[c] = "loaded" /\ op[c] = "schema"
      /\ schemaPackages' = candidate /\ schemaResult' = candidate
      /\ Return(c, OK(candidate))
  BY DEF BuildSchema
<1>2. /\ pc \in [Callers -> {"idle", "waiting", "loading", "loaded", "returned"}]
      /\ answer \in [Callers -> Answers]
      /\ candidate \in Loads
  BY DEF IInv, TypeOK
<1>3. OK(candidate) \in Answers /\ OK(candidate).view = candidate
  BY <1>2 DEF OK, Answers
<1>4. /\ holder' = NoOne
      /\ \A d \in Callers : pc'[d] = IF d = c THEN "returned" ELSE pc[d]
      /\ \A d \in Callers : answer'[d] = IF d = c THEN OK(candidate) ELSE answer[d]
  BY <1>1, <1>2 DEF Return
<1>5. Agree(candidate, packages) /\ \A m \in Modes : schemaPackages[m] = 0
  BY <1>1, NothingLoads DEF IInv, CandidateOK
<1>6. \A d \in Callers : pc'[d] \notin {"loading", "loaded"}
  BY <1>1, <1>4, CompilerAssumption DEF IInv, Holding
<1>7. TypeOK'
  BY <1>1, <1>2, <1>3, NothingLoads DEF Return, IInv, TypeOK, call
<1>8. Holding' /\ CandidateOK'
  BY <1>4, <1>6, CompilerAssumption DEF Holding, CandidateOK
<1>9. ResultIsPackages' /\ ResultShares' /\ schemaResult' = schemaPackages'
      /\ Agree(packages, schemaPackages)'
  BY <1>1, <1>5 DEF IInv, ResultIsPackages, ResultShares, SourceFiles, Present, Agree
<1>10. AnswersCommitted'
  <2>1. ASSUME NEW d \in Callers, NEW m \in Modes, answer'[d].view[m] # 0
        PROVE  answer'[d].view[m] \in {packages[m], candidate[m]}
    <3>1. CASE d = c
      BY <1>3, <1>4, <3>1
    <3>2. CASE d # c
      BY <1>4, <1>5, <2>1, <3>2 DEF IInv, AnswersCommitted
    <3> QED
      BY <3>1, <3>2
  <2> QED
    BY <1>1, <2>1 DEF AnswersCommitted
<1> QED
  BY <1>7, <1>8, <1>9, <1>10 DEF IInv

LEMMA StutterIInv == ASSUME IInv, UNCHANGED vars PROVE IInv'
<1>1. TypeOK' /\ ResultIsPackages' /\ schemaResult' = schemaPackages' /\ Agree(packages, schemaPackages)'
  BY DEF vars, IInv, TypeOK, ResultIsPackages, SourceFiles, Agree
<1>2. Holding' /\ CandidateOK' /\ AnswersCommitted' /\ ResultShares'
  BY DEF vars, IInv, Holding, CandidateOK, Agree, AnswersCommitted, ResultShares, Present
<1> QED
  BY <1>1, <1>2 DEF IInv

LEMMA NextIInv == IInv /\ [Next]_vars => IInv'
<1> SUFFICES ASSUME IInv, [Next]_vars PROVE IInv'
  OBVIOUS
<1>1. CASE UNCHANGED vars
  BY <1>1, StutterIInv
<1>2. CASE Edit
  BY <1>2, EditIInv
<1>3. ASSUME NEW c \in Callers, CallCompile(c) \/ CallSchema(c) PROVE IInv'
  BY <1>3, CallIInv
<1>4. ASSUME NEW c \in Callers, CallStep(c) PROVE IInv'
  <2>1. CASE AnswerCached(c)
    BY <2>1, AnswerCachedIInv
  <2>2. CASE StartCompile(c)
    BY <2>2, StartCompileIInv
  <2>3. CASE StartSchema(c)
    BY <2>3, StartSchemaIInv
  <2>4. ASSUME NEW m \in Modes, LoadMode(c, m) PROVE IInv'
    BY <2>4, LoadModeIInv
  <2>5. CASE Loaded(c)
    BY <2>5, LoadedIInv
  <2>6. CASE Compile(c)
    BY <2>6, CompileIInv
  <2>7. CASE BuildSchema(c)
    BY <2>7, BuildSchemaIInv
  <2>8. CASE CompileFails(c) \/ SchemaFails(c)
    <3>1. holder = c /\ Fail(c)
      BY <2>8 DEF CompileFails, SchemaFails, IInv, Holding
    <3> QED
      BY <3>1, FailIInv
  <2> QED
    BY <1>4, <2>1, <2>2, <2>3, <2>4, <2>5, <2>6, <2>7, <2>8 DEF CallStep
<1> QED
  BY <1>1, <1>2, <1>3, <1>4 DEF Next

LEMMA Invariance == Spec => []IInv
<1>1. Init => IInv
  BY InitIInv
<1> QED
  BY <1>1, NextIInv, PTL DEF Spec

\* Every variable of an instance keeps its type, for all requests.
THEOREM TypeCorrect == Spec => []TypeOK
<1>1. IInv => TypeOK
  BY DEF IInv
<1> QED
  BY <1>1, Invariance, PTL

\* The result and the file list of an instance belong to its packages
\* (compiler.go:174-177).
THEOREM ReportsItsPackages == Spec => []ResultIsPackages
<1>1. IInv => ResultIsPackages
  BY DEF IInv
<1> QED
  BY <1>1, Invariance, PTL

\* Two answers of one instance never disagree on the version of a mode,
\* whichever of Compile and Schema loaded it (compiler.go:101-115, schema.go:28-37).
THEOREM NoDisagreement == Spec => []AnswersAgree
<1>1. IInv => AnswersAgree
  BY DEF IInv, AnswersAgree, AnswersCommitted, Agree
<1> QED
  BY <1>1, Invariance, PTL

\* The modes of a result share configuration, ROM and streams, also when
\* they were compiled by different calls (frontend.go:440).
THEOREM SharedDeclarations == Spec => []ResultShares
<1>1. IInv => ResultShares
  BY DEF IInv
<1> QED
  BY <1>1, Invariance, PTL

\* A call that returns an error changes nothing that later calls can see
\* (compiler.go:126-173, every error return precedes the commit).
THEOREM FailuresChangeNothing == Spec => FailureAtomic
<1> DEFINE A == \A c \in Callers : answer'[c] # answer[c] /\ answer'[c].status = "error" =>
                  UNCHANGED published
<1>1. IInv /\ [Next]_vars => A \/ UNCHANGED vars
  <2> SUFFICES ASSUME IInv, Next PROVE A
    BY DEF A
  <2>1. answer \in [Callers -> Answers]
    BY DEF IInv, TypeOK
  <2>2. CASE UNCHANGED published
    BY <2>2
  <2>3. CASE ~UNCHANGED published
    <3>1. PICK c \in Callers : Compile(c) \/ BuildSchema(c)
      BY <2>3 DEF Next, Edit, CallCompile, CallSchema, CallStep, AnswerCached, StartCompile,
                  StartSchema, StartLoading, LoadMode, Loaded, CompileFails, SchemaFails, Fail
    <3>2. answer' = [answer EXCEPT ![c] = OK(candidate)]
      BY <3>1 DEF Compile, BuildSchema, Return
    <3>3. \A d \in Callers : answer'[d] # answer[d] => answer'[d].status = "ok"
      BY <2>1, <3>2 DEF OK
    <3> QED
      BY <3>3
  <2> QED
    BY <2>2, <2>3
<1> QED
  BY <1>1, Invariance, PTL DEF Spec, FailureAtomic, A

=============================================================================
