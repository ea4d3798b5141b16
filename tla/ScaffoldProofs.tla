--------------------------- MODULE ScaffoldProofs ---------------------------
(***************************************************************************)
(* Proofs about Scaffold for every set of commands and every template.     *)
(***************************************************************************)
EXTENDS Scaffold, SequenceTheorems, TLAPS

Before == {"start", "module", "find go.mod", "find go.sum", "root", "above", "validate", "stage"}
Writing == {"mkdir", "create", "write"}
Labels == Before \cup Writing \cup {"rollback", "lookup", "rename", "unstage"} \cup Ended

\* Type invariant.
TypeOK ==
  /\ kind \in [Commands -> {"module", "engine", "work"}]
  /\ pc \in [Commands -> Labels]
  /\ next \in [Commands -> Nat]
  /\ created \in [Commands -> Seq(Paths)]
  /\ into \in [Commands -> Roots]
  /\ file \in [Paths -> [by : Commands \cup {"user", "nobody"}, whole : BOOLEAN]]

\* What a command remembers: it has created the first files of its template.
LocalOK(c) ==
  /\ into[c] \in {"target", "parent", c}
  /\ pc[c] \in Before => into[c] = "target" /\ next[c] = 1 /\ created[c] = <<>>
  /\ pc[c] \in Before \ {"start"} => (kind[c] = "work" <=> pc[c] = "module")
  /\ pc[c] \in Writing \cup {"lookup", "rename", "done"} => (kind[c] = "work" <=> into[c] = "parent")
  /\ pc[c] \in Writing =>
       /\ next[c] \in 1..Len(Template(c))
       /\ Len(created[c]) = IF pc[c] = "write" THEN next[c] ELSE next[c] - 1
  /\ pc[c] \in Writing \cup {"rollback"} =>
       \A i \in 1..Len(created[c]) : i <= Len(Template(c)) /\ created[c][i] = <<into[c], Template(c)[i]>>
  /\ pc[c] \in {"lookup", "rename", "unstage"} => into[c] = c

\* What is on the disk of it: those files, and no others are its own.
Whole(c) == [by |-> c, whole |-> TRUE]
FilesOK(c) ==
  /\ pc[c] \in Writing \cup {"rollback"} =>
       \A i \in 1..Len(created[c]) :
         /\ file[created[c][i]].by = c
         /\ \A j \in 1..Len(created[c]) : created[c][i] = created[c][j] => i = j
  /\ pc[c] \in Writing =>
       \A i \in 1..Len(created[c]) : i < next[c] => file[created[c][i]].whole
  /\ pc[c] \in {"lookup", "rename"} => \A n \in Range(Template(c)) : file[<<c, n>>] = Whole(c)
  /\ pc[c] = "done" => \A n \in Range(Template(c)) :
                         file[<<IF kind[c] = "work" THEN "parent" ELSE "target", n>>] = Whole(c)

OwnOK(c) ==
  \A p \in Paths : file[p].by = c =>
    /\ pc[c] \notin Before \cup {"failed"}
    /\ pc[c] \in Writing \cup {"rollback"} => \E i \in 1..Len(created[c]) : p = created[c][i]
    /\ into[c] = c /\ pc[c] # "done" => p[1] = c

\* Nobody else writes to its staging directory, which is gone if it failed.
StageOK(c) ==
  /\ \A p \in Paths : p[1] = c => file[p].by \in {c, "nobody"}
  /\ Top(c) \in dirs => into[c] = c /\ pc[c] # "failed"

\* A file is in a directory that exists.
DirsOK ==
  /\ \A p \in Paths : Exists(p) => Dir(p) \in dirs
  /\ \A d \in Roots : Inner(d) \in dirs => Top(d) \in dirs

CommandOK(c) == LocalOK(c) /\ FilesOK(c) /\ OwnOK(c) /\ StageOK(c)
IInv == TypeOK /\ DirsOK /\ \A c \in Commands : CommandOK(c)

\* Nothing a command keeps, and no file of it, changes in a step of another.
Undisturbed(x) ==
  /\ kind' = kind /\ pc'[x] = pc[x] /\ next'[x] = next[x]
  /\ created'[x] = created[x] /\ into'[x] = into[x]
  /\ \A p \in Paths :
       /\ file[p].by = x => file'[p] = file[p]
       /\ file'[p].by = x => file[p].by = x
       /\ p[1] = x => file'[p].by \in {x, "nobody"}
  /\ Top(x) \in dirs' => Top(x) \in dirs

---------------------------------------------------------------------------
(* Directories, paths and templates. *)

LEMMA DirectoryFacts ==
  ASSUME NEW a, NEW b
  PROVE  /\ Top(a) = Top(b) <=> a = b
         /\ Inner(a) = Inner(b) <=> a = b
         /\ Top(a) # Inner(b)
BY DEF Top, Inner

LEMMA PathFacts ==
  /\ \A r \in Roots, n \in Names : <<r, n>> \in Paths
  /\ \A p \in Paths : p[1] \in Roots /\ p[2] \in Names /\ p = <<p[1], p[2]>>
  /\ \A p \in Paths : Dir(p) \in {Top(p[1]), Inner(p[1])}
  /\ \A p \in Paths : Dir(p) = Inner(p[1]) => p[2] = "settings.json"
BY DirectoryFacts DEF Paths, Dir

LEMMA RootFacts ==
  ASSUME NEW c \in Commands
  PROVE  /\ c \in Roots /\ "target" \in Roots /\ "parent" \in Roots
         /\ c # "target" /\ c # "parent" /\ c # "user" /\ c # "nobody"
BY NamesAssumption DEF Roots

LEMMA TemplateFacts ==
  ASSUME TypeOK, NEW c \in Commands
  PROVE  /\ Len(Template(c)) \in Nat \ {0} /\ DOMAIN Template(c) = 1..Len(Template(c))
         /\ \A i \in 1..Len(Template(c)) : Template(c)[i] \in Names
         /\ Range(Template(c)) \subseteq Names /\ Template(c)[1] \in Range(Template(c))
         /\ \A n \in Range(Template(c)) : \E i \in 1..Len(Template(c)) : Template(c)[i] = n
<1>1. Len(Template(c)) \in Nat \ {0} /\ DOMAIN Template(c) = 1..Len(Template(c))
  <2>1. Len(<<"go.work">>) = 1 /\ DOMAIN <<"go.work">> = 1..1
    OBVIOUS
  <2>2. \A t \in {ModuleFiles, EngineFiles} : Len(t) \in Nat \ {0} /\ DOMAIN t = 1..Len(t)
    BY NamesAssumption, EmptySeq, LenProperties
  <2>3. Template(c) \in {ModuleFiles, EngineFiles, <<"go.work">>}
    BY DEF Template
  <2> QED
    BY <2>1, <2>2, <2>3
<1>2. Range(Template(c)) \subseteq Names
  <2>1. CASE kind[c] = "module"
    BY <2>1 DEF Template, Names
  <2>2. CASE kind[c] = "engine"
    BY <2>2 DEF Template, Names
  <2>3. CASE kind[c] = "work"
    BY <2>3 DEF Template, Names, Range
  <2> QED
    BY <2>1, <2>2, <2>3 DEF TypeOK
<1> QED
  BY <1>1, <1>2 DEF Range

\* Where a command that writes is.
LEMMA WritingFacts ==
  ASSUME TypeOK, NEW c \in Commands, LocalOK(c), pc[c] \in Writing
  PROVE  /\ Path(c) \in Paths /\ Path(c)[1] = into[c] /\ into[c] \in {"target", "parent", c}
         /\ next[c] \in 1..Len(Template(c)) /\ Path(c) = <<into[c], Template(c)[next[c]]>>
<1>1. into[c] \in Roots /\ next[c] \in 1..Len(Template(c)) /\ into[c] \in {"target", "parent", c}
  BY DEF TypeOK, LocalOK
<1>2. Template(c)[next[c]] \in Names
  BY <1>1, TemplateFacts
<1> QED
  BY <1>1, <1>2, PathFacts DEF Path

\* The file it writes the content of is its own.
LEMMA WritingOwn ==
  ASSUME TypeOK, NEW c \in Commands, LocalOK(c), FilesOK(c), pc[c] = "write"
  PROVE  /\ Len(created[c]) = next[c] /\ created[c][next[c]] = Path(c)
         /\ file[Path(c)].by = c
<1>1. Len(created[c]) = next[c] /\ next[c] \in 1..Len(created[c]) /\ created[c][next[c]] = Path(c)
  <2>1. Len(created[c]) = next[c] /\ next[c] \in 1..Len(Template(c))
    BY DEF LocalOK, Writing
  <2>2. next[c] \in 1..Len(created[c])
    BY <2>1
  <2>3. created[c][next[c]] = <<into[c], Template(c)[next[c]]>>
    BY <2>2 DEF LocalOK, Writing
  <2> QED
    BY <2>1, <2>2, <2>3 DEF Path
<1> QED
  BY <1>1 DEF FilesOK, Writing

\* os.Rename goes ahead only where there is no file.
LEMMA NoTarget ==
  ASSUME TypeOK, DirsOK, Top("target") \notin dirs \/ Holds("target") = {}, NEW p \in Paths, p[1] = "target"
  PROVE  file[p] = NoFile
<1> SUFFICES ASSUME Exists(p) PROVE FALSE
  BY DEF Exists
<1>1. Dir(p) \in dirs /\ Dir(p) \in {Top("target"), Inner("target")}
  BY PathFacts DEF DirsOK
<1>2. Top("target") \in dirs
  BY <1>1 DEF DirsOK, Roots
<1>3. Inner("target") \notin dirs
  BY <1>2 DEF Holds
<1>4. Dir(p) = Top("target")
  BY <1>1, <1>3
<1> QED
  BY <1>2, <1>4 DEF Holds

LEMMA SequenceEnds ==
  ASSUME NEW S, NEW s \in Seq(S), s # <<>>
  PROVE  /\ Len(s) \in Nat \ {0} /\ Last(s) = s[Len(s)] /\ Last(s) \in S
         /\ Front(s) \in Seq(S) /\ Len(Front(s)) = Len(s) - 1
         /\ \A i \in 1..Len(s) - 1 : Front(s)[i] = s[i]
<1>1. Len(s) \in Nat \ {0} /\ s \in [1..Len(s) -> S] /\ Last(s) = s[Len(s)]
  BY EmptySeq, LenProperties DEF Last
<1>2. \A i \in 1..Len(s) - 1 : s[i] \in S
  BY <1>1
<1>3. /\ Front(s) \in Seq(S) /\ Len(Front(s)) = Len(s) - 1
      /\ \A i \in 1..Len(s) - 1 : Front(s)[i] = s[i]
  BY <1>1, <1>2, SubSeqProperties DEF Front
<1> QED
  BY <1>1, <1>3

---------------------------------------------------------------------------
(* The invariant holds initially. *)

LEMMA InitIInv == Init => IInv
<1> SUFFICES ASSUME Init PROVE IInv
  OBVIOUS
<1>1. /\ kind \in [Commands -> {"module", "engine", "work"}]
      /\ pc = [c \in Commands |-> "start"] /\ next = [c \in Commands |-> 1]
      /\ created = [c \in Commands |-> <<>>] /\ into = [c \in Commands |-> "target"]
  BY DEF Init
<1>2. /\ file \in [Paths -> [by : {"user", "nobody"}, whole : BOOLEAN]]
      /\ \A p \in Paths : Exists(p) => p[1] = "target"
      /\ Top("target") \notin dirs => \A p \in Paths : ~Exists(p)
      /\ Inner("target") \notin dirs => \A p \in Paths : p[2] = "settings.json" => ~Exists(p)
      /\ dirs \subseteq {Top("parent"), Top("target"), Inner("target")}
      /\ Inner("target") \in dirs => Top("target") \in dirs
  <2> USE DirectoryFacts, PathFacts DEF Put, Exists, NoFile
  <2>1. CASE dirs = {Top("parent")} /\ file = Put({})
    BY <2>1
  <2>2. CASE dirs = {Top("parent"), Top("target")} /\ file \in {Put({}), Put({<<"target", "source">>})}
    <3>1. file \in {Put({}), Put({<<"target", "source">>})}
      BY <2>2
    <3>2. \A p \in {<<"target", "source">>} : p[1] = "target" /\ p[2] # "settings.json"
      OBVIOUS
    <3>3. /\ file \in [Paths -> [by : {"user", "nobody"}, whole : BOOLEAN]]
          /\ \A p \in Paths : Exists(p) => p[1] = "target" /\ p[2] # "settings.json"
      <4>1. CASE file = Put({})
        BY <4>1
      <4>2. CASE file = Put({<<"target", "source">>})
        BY <4>2, <3>2
      <4> QED
        BY <3>1, <4>1, <4>2
    <3> QED
      BY <2>2, <3>3
  <2>3. CASE dirs = {Top("parent"), Top("target"), Inner("target")} /\ file = Put(AModule)
    <3>1. \A p \in AModule : p[1] = "target"
      BY DEF AModule
    <3> QED
      BY <2>3, <3>1
  <2> QED
    BY <2>1, <2>2, <2>3 DEF Init
<1>3. TypeOK
  BY <1>1, <1>2 DEF TypeOK, Labels, Before, Roots
<1>4. DirsOK
  <2>1. ASSUME NEW p \in Paths, Exists(p) PROVE Dir(p) \in dirs
    BY <1>2, <2>1, PathFacts
  <2>2. ASSUME NEW d \in Roots, Inner(d) \in dirs PROVE Top(d) \in dirs
    BY <1>2, <2>2, DirectoryFacts
  <2> QED
    BY <2>1, <2>2 DEF DirsOK
<1>5. ASSUME NEW c \in Commands PROVE CommandOK(c)
  <2> USE <1>1, RootFacts
  <2>1. LocalOK(c)
    BY DEF LocalOK, Before, Writing
  <2>2. FilesOK(c)
    BY DEF FilesOK, Writing
  <2>3. OwnOK(c)
    BY <1>2 DEF OwnOK
  <2>4. StageOK(c)
    BY <1>2, DirectoryFacts DEF StageOK, Exists, NoFile
  <2> QED
    BY <2>1, <2>2, <2>3, <2>4 DEF CommandOK
<1> QED
  BY <1>3, <1>4, <1>5 DEF IInv

---------------------------------------------------------------------------
(* What a step leaves alone. *)

LEMMA StepTypeOK ==
  ASSUME TypeOK, \A c \in Commands : CommandOK(c), [Next]_vars
  PROVE  TypeOK'
<1> USE DEF TypeOK
<1>1. CASE UNCHANGED vars
  BY <1>1 DEF vars
<1>2. ASSUME NEW c \in Commands, Step(c) \/ Fault(c) \/ Kill(c)
      PROVE  TypeOK'
  <2>1. LocalOK(c) /\ c \in Roots /\ "parent" \in Roots
    BY RootFacts DEF CommandOK
  <2>2. pc[c] \in Writing => Path(c) \in Paths
    BY <2>1, WritingFacts
  <2>3. created[c] # <<>> => Last(created[c]) \in Paths /\ Front(created[c]) \in Seq(Paths)
    BY SequenceEnds
  <2>4. kind' = kind
    <3>1. CASE UNCHANGED local
      BY <3>1 DEF local
    <3>2. CASE ~UNCHANGED local
      BY <1>2, <3>2 DEF Step, Inspect, ReadModule, FindMod, FindSum, FindFile, FindRoot, FindAbove, Validate, Stage,
         MakeDirectory, Create, Write, Rollback, Lookup, Rename, Unstage, Fault, Kill
    <3> QED
      BY <3>1, <3>2
  <2>5. pc' \in [Commands -> Labels]
    <3> USE DEF Goto, Labels, Before, Writing, Ended
    <3>1. CASE Inspect(c)
      BY <3>1 DEF Inspect
    <3>2. CASE ReadModule(c)
      BY <3>2 DEF ReadModule
    <3>3. CASE FindMod(c) \/ FindSum(c)
      BY <3>3 DEF FindMod, FindSum, FindFile
    <3>4. CASE FindRoot(c) \/ FindAbove(c) \/ Validate(c) \/ Stage(c)
      BY <3>4 DEF FindRoot, FindAbove, Validate, Stage
    <3>5. CASE MakeDirectory(c) \/ Create(c) \/ Write(c) \/ Rollback(c)
      BY <3>5 DEF MakeDirectory, Create, Write, Rollback
    <3>6. CASE Lookup(c) \/ Rename(c) \/ Unstage(c) \/ Fault(c) \/ Kill(c)
      BY <3>6 DEF Lookup, Rename, Unstage, Fault, Kill
    <3> QED
      BY <1>2, <3>1, <3>2, <3>3, <3>4, <3>5, <3>6 DEF Step
  <2>6. next' \in [Commands -> Nat]
    <3>1. CASE Write(c)
      BY <3>1 DEF Write
    <3>2. CASE ~Write(c)
      BY <1>2, <3>2 DEF Step, Inspect, ReadModule, FindMod, FindSum, FindFile, FindRoot, FindAbove, Validate, Stage,
         MakeDirectory, Create, Rollback, Lookup, Rename, Unstage, Fault, Kill, local
    <3> QED
      BY <3>1, <3>2
  <2>9. into' \in [Commands -> Roots]
    BY <1>2, <2>1 DEF Step, Inspect, ReadModule, FindMod, FindSum, FindFile, FindRoot, FindAbove, Validate, Stage,
       MakeDirectory, Create, Write, Rollback, Lookup, Rename, Unstage, Fault, Kill, local
  <2>7. created' \in [Commands -> Seq(Paths)]
    <3>1. CASE Create(c)
      <4>1. Append(created[c], Path(c)) \in Seq(Paths)
        BY <3>1, <2>2, AppendProperties DEF Create, Writing
      <4> QED
        BY <3>1, <4>1 DEF Create
    <3>2. CASE ~Create(c)
      BY <1>2, <3>2, <2>3 DEF Step, Inspect, ReadModule, FindMod, FindSum, FindFile, FindRoot, FindAbove, Validate, Stage,
         MakeDirectory, Write, Rollback, Lookup, Rename, Unstage, Fault, Kill, local
    <3> QED
      BY <3>1, <3>2
  <2>8. file' \in [Paths -> [by : Commands \cup {"user", "nobody"}, whole : BOOLEAN]]
    <3> DEFINE Owned == [by : Commands \cup {"user", "nobody"}, whole : BOOLEAN]
    <3>1. NoFile \in Owned /\ \A b \in BOOLEAN : [by |-> c, whole |-> b] \in Owned
      BY DEF NoFile
    <3>2. CASE Create(c)
      BY <3>1, <3>2, <2>2 DEF Create, Writing
    <3>3. CASE Write(c)
      BY <3>3, <2>2 DEF Write, Writing
    <3>4. CASE Rollback(c)
      BY <3>1, <3>4, <2>3 DEF Rollback
    <3>5. \A p \in Paths : <<c, p[2]>> \in Paths
      BY <2>1, PathFacts
    <3>6. CASE Rename(c)
      <4> HIDE DEF Owned
      <4>1. CASE UNCHANGED file
        BY <4>1 DEF Owned
      <4>2. CASE file' = [p \in Paths |-> IF p[1] = "target" THEN file[<<c, p[2]>>] ELSE IF p[1] = c THEN NoFile ELSE file[p]]
        <5>1. \A p \in Paths : file[p] \in Owned /\ file[<<c, p[2]>>] \in Owned
          BY <3>5 DEF Owned
        <5> QED
          BY <3>1, <4>2, <5>1 DEF Owned
      <4> QED
        BY <3>6, <4>1, <4>2 DEF Rename
    <3>7. CASE Unstage(c)
      BY <3>1, <3>7 DEF Unstage
    <3>8. CASE ~(Create(c) \/ Write(c) \/ Rollback(c) \/ Rename(c) \/ Unstage(c))
      BY <1>2, <3>8 DEF Step, Inspect, ReadModule, FindMod, FindSum, FindFile, FindRoot, FindAbove, Validate, Stage,
         MakeDirectory, Lookup, Fault, Kill, disk
    <3> QED
      BY <3>2, <3>3, <3>4, <3>6, <3>7, <3>8
  <2> QED
    BY <2>4, <2>5, <2>6, <2>7, <2>8, <2>9
<1>3. CASE UserDirectory
  BY <1>3 DEF UserDirectory, local
<1>4. ASSUME NEW name \in Names, UserFile(name)
      PROVE  TypeOK'
  BY <1>4, PathFacts DEF UserFile, local, Roots
<1> QED
  BY <1>1, <1>2, <1>3, <1>4 DEF Next

LEMMA UndisturbedOK ==
  ASSUME TypeOK, NEW x \in Commands, CommandOK(x), Undisturbed(x)
  PROVE  CommandOK(x)'
<1> USE DEF CommandOK, Undisturbed
<1>1. Template(x)' = Template(x)
  BY DEF Template
<1>2. LocalOK(x)'
  BY <1>1 DEF LocalOK
<1>3. FilesOK(x)'
  <2>1. \A i \in 1..Len(created[x]) : created[x][i] \in Paths
    BY DEF TypeOK
  <2>2. \A r \in Roots, n \in Range(Template(x)) : <<r, n>> \in Paths
    BY TemplateFacts, PathFacts
  <2>3. x \in Roots /\ "target" \in Roots /\ "parent" \in Roots
    BY RootFacts
  <2>4. \A p \in Paths : file[p] = Whole(x) => file'[p] = Whole(x)
    BY DEF Whole
  <2>5. (pc[x] \in {"lookup", "rename"} => \A n \in Range(Template(x)) : file[<<x, n>>] = Whole(x))'
    BY <1>1, <2>2, <2>3, <2>4 DEF FilesOK, Whole
  <2>6. (pc[x] = "done" => \A n \in Range(Template(x)) :
           file[<<IF kind[x] = "work" THEN "parent" ELSE "target", n>>] = Whole(x))'
    BY <1>1, <2>2, <2>3, <2>4 DEF FilesOK, Whole
  <2>7. (pc[x] \in Writing \cup {"rollback"} => \A i \in 1..Len(created[x]) :
           /\ file[created[x][i]].by = x
           /\ \A j \in 1..Len(created[x]) : created[x][i] = created[x][j] => i = j)'
    BY <2>1 DEF FilesOK
  <2>8. (pc[x] \in Writing => \A i \in 1..Len(created[x]) : i < next[x] => file[created[x][i]].whole)'
    BY <2>1 DEF FilesOK
  <2> QED
    BY <2>5, <2>6, <2>7, <2>8 DEF FilesOK
<1>4. OwnOK(x)'
  BY DEF OwnOK
<1>5. StageOK(x)'
  BY DEF StageOK
<1> QED
  BY <1>2, <1>3, <1>4, <1>5

\* A step of a command changes no file that another made.
LEMMA StepKeepsOthers ==
  ASSUME TypeOK, DirsOK, NEW c \in Commands, CommandOK(c), Step(c) \/ Fault(c) \/ Kill(c),
         NEW p \in Paths, file[p].by \notin {c, "nobody"}
  PROVE  file'[p] = file[p]
<1> USE DEF TypeOK
<1>1. LocalOK(c) /\ FilesOK(c) /\ \A q \in Paths : q[1] = c => file[q].by \in {c, "nobody"}
  BY DEF CommandOK, StageOK
<1>2. CASE Create(c)
  <2>1. ~Exists(Path(c)) => Path(c) # p
    BY DEF Exists, NoFile
  <2> QED
    BY <1>2, <2>1 DEF Create
<1>3. CASE Write(c)
  <2>1. Path(c) # p
    BY <1>1, <1>3, WritingOwn DEF Write
  <2> QED
    BY <1>3, <2>1 DEF Write
<1>4. CASE Rollback(c)
  <2>1. ASSUME created[c] # <<>> PROVE Last(created[c]) # p
    <3>1. Len(created[c]) \in Nat \ {0} /\ Last(created[c]) = created[c][Len(created[c])]
      BY <2>1, SequenceEnds
    <3>2. file[created[c][Len(created[c])]].by = c
      BY <1>1, <1>4, <3>1 DEF FilesOK, Rollback
    <3> QED
      BY <3>1, <3>2
  <2> QED
    BY <1>4, <2>1 DEF Rollback
<1>5. CASE Rename(c)
  <2>1. Top("target") \notin dirs \/ Holds("target") = {} => p[1] # "target"
    BY NoTarget DEF NoFile
  <2> QED
    BY <1>1, <1>5, <2>1 DEF Rename
<1>6. CASE Unstage(c)
  BY <1>1, <1>6 DEF Unstage
<1>7. CASE ~(Create(c) \/ Write(c) \/ Rollback(c) \/ Rename(c) \/ Unstage(c))
  BY <1>7 DEF Step, Inspect, ReadModule, FindMod, FindSum, FindFile, FindRoot, FindAbove, Validate, Stage,
     MakeDirectory, Lookup, Fault, Kill, disk
<1> QED
  BY <1>2, <1>3, <1>4, <1>5, <1>6, <1>7

\* A step of one command leaves every other one undisturbed.
LEMMA OthersUndisturbed ==
  ASSUME TypeOK, DirsOK, NEW c \in Commands, CommandOK(c), Step(c) \/ Fault(c) \/ Kill(c),
         NEW x \in Commands, x # c, StageOK(x)
  PROVE  Undisturbed(x)
<1> USE DEF TypeOK, Undisturbed
<1>1. \A p \in Paths : p[1] = x => file[p].by \in {x, "nobody"}
  BY DEF StageOK
<1>2. LocalOK(c) /\ FilesOK(c) /\ StageOK(c) /\ into[c] # x /\ x # "target"
  BY RootFacts DEF CommandOK, LocalOK
<1>3. CASE UNCHANGED <<local, disk>> /\ \E label : Goto(c, label)
  BY <1>1, <1>3 DEF local, disk, Goto
<1>4. CASE FindMod(c) \/ FindSum(c)
  BY <1>1, <1>4 DEF FindMod, FindSum, FindFile, disk, Goto
<1>5. CASE ReadModule(c)
  BY <1>1, <1>5 DEF ReadModule, disk, Goto
<1>6. CASE Stage(c)
  BY <1>1, <1>6, DirectoryFacts DEF Stage, Goto
<1>7. CASE MakeDirectory(c)
  <2>1. Path(c) \in Paths /\ Path(c)[1] = into[c]
    BY <1>2, <1>7, WritingFacts DEF MakeDirectory, Writing
  <2>2. Dir(Path(c)) \in {Top(into[c]), Inner(into[c])}
    BY <2>1, PathFacts
  <2>3. Top(x) \notin {Top(into[c]), Dir(Path(c))}
    BY <1>2, <2>2, DirectoryFacts
  <2> QED
    BY <1>1, <1>7, <2>3 DEF MakeDirectory, Goto, local
<1>8. CASE Create(c)
  <2>1. Path(c) \in Paths /\ Path(c)[1] # x
    BY <1>2, <1>8, WritingFacts DEF Create, Writing
  <2>2. CASE UNCHANGED <<file, created>>
    BY <1>1, <1>8, <2>2 DEF Create, Goto
  <2>3. CASE ~UNCHANGED <<file, created>>
    <3>1. file[Path(c)].by = "nobody" /\ "nobody" # x
      BY <1>8, <2>3, RootFacts DEF Create, Exists, NoFile
    <3> QED
      BY <1>1, <1>8, <2>1, <2>3, <3>1 DEF Create, Goto
  <2> QED
    BY <2>2, <2>3
<1>9. CASE Write(c)
  <2>1. Path(c) \in Paths /\ Path(c)[1] # x
    BY <1>2, <1>9, WritingFacts DEF Write, Writing
  <2>2. file[Path(c)].by = c
    BY <1>2, <1>9, WritingOwn DEF Write
  <2>3. file'[Path(c)].by = c /\ \A p \in Paths : p # Path(c) => file'[p] = file[p]
    BY <1>9, <2>1, <2>2 DEF Write
  <2> QED
    BY <1>1, <1>9, <2>1, <2>2, <2>3 DEF Write, Goto
<1>10. CASE Rollback(c)
  <2>1. CASE created[c] # <<>>
    <3>1. Len(created[c]) \in Nat \ {0} /\ Last(created[c]) = created[c][Len(created[c])] /\ Last(created[c]) \in Paths
      BY <2>1, SequenceEnds
    <3>2. file[Last(created[c])].by = c /\ NoFile.by \notin {c, x}
      BY <1>2, <1>10, <3>1, RootFacts DEF FilesOK, Rollback, NoFile
    <3>3. UNCHANGED <<kind, next, into, dirs, pc>> /\ created'[x] = created[x]
      BY <1>10, <2>1 DEF Rollback
    <3>4. /\ file'[Last(created[c])] = NoFile
          /\ \A p \in Paths : p # Last(created[c]) => file'[p] = file[p]
      BY <1>10, <2>1, <3>1 DEF Rollback
    <3> QED
      BY <1>1, <3>2, <3>3, <3>4 DEF NoFile
  <2>2. CASE created[c] = <<>>
    BY <1>1, <1>10, <2>2 DEF Rollback, Goto
  <2> QED
    BY <2>1, <2>2
<1>11. CASE Rename(c)
  <2>1. CASE UNCHANGED <<dirs, file>>
    BY <1>1, <1>11, <2>1 DEF Rename, Goto, local
  <2>2. CASE ~UNCHANGED <<dirs, file>>
    <3>1. \A p \in Paths : p[1] = "target" => file[p] = NoFile
      BY <1>11, <2>2, NoTarget DEF Rename
    <3>2. \A p \in Paths : <<c, p[2]>> \in Paths /\ file[<<c, p[2]>>].by \in {c, "nobody"}
      BY <1>2, PathFacts, RootFacts DEF StageOK
    <3>3. \A p \in Paths : p[1] = c => file[p].by \in {c, "nobody"}
      BY <1>2 DEF StageOK
    <3>4. NoFile.by = "nobody" /\ "nobody" # x
      BY RootFacts DEF NoFile
    <3>5. \A p \in Paths : file'[p] = IF p[1] = "target" THEN file[<<c, p[2]>>] ELSE IF p[1] = c THEN NoFile ELSE file[p]
      BY <1>11, <2>2 DEF Rename
    <3>6. Top(x) \in dirs' => Top(x) \in dirs
      <4>1. Top(x) # Top("target") /\ Top(x) # Inner("target")
        BY <1>2, DirectoryFacts
      <4> QED
        BY <1>11, <2>2, <4>1 DEF Rename
    <3>7. UNCHANGED local /\ pc'[x] = pc[x]
      BY <1>11 DEF Rename, Goto
    <3>8. ASSUME NEW p \in Paths
          PROVE  /\ file[p].by = x => file'[p] = file[p]
                 /\ file'[p].by = x => file[p].by = x
                 /\ p[1] = x => file'[p].by \in {x, "nobody"}
      BY <1>1, <1>2, <3>1, <3>2, <3>3, <3>4, <3>5
    <3> QED
      BY <3>6, <3>7, <3>8 DEF local
  <2> QED
    BY <2>1, <2>2
<1>12. CASE Unstage(c)
  <2>1. \A p \in Paths : p[1] = c => file[p].by \in {c, "nobody"}
    BY <1>2 DEF StageOK
  <2>2. NoFile.by = "nobody" /\ "nobody" # x
    BY RootFacts DEF NoFile
  <2> QED
    BY <1>1, <1>12, <2>1, <2>2 DEF Unstage, Goto, local
<1> QED
  BY <1>3, <1>4, <1>5, <1>6, <1>7, <1>8, <1>9, <1>10, <1>11, <1>12 DEF Step, Inspect, FindRoot,
     FindAbove, Validate, Lookup, Fault, Kill

\* Neither does the user disturb a command.
LEMMA UserUndisturbed ==
  ASSUME TypeOK, UserDirectory \/ \E name \in Names : UserFile(name), NEW x \in Commands, StageOK(x)
  PROVE  Undisturbed(x)
<1> USE DEF TypeOK, Undisturbed
<1>1. \A p \in Paths : p[1] = x => file[p].by \in {x, "nobody"}
  BY DEF StageOK
<1>2. CASE UserDirectory
  BY <1>1, <1>2, DirectoryFacts, RootFacts DEF UserDirectory, local
<1>3. ASSUME NEW name \in Names, UserFile(name)
      PROVE  Undisturbed(x)
  <2> DEFINE q == <<"target", name>>
  <2>1. q \in Paths /\ q[1] = "target"
    BY PathFacts, RootFacts
  <2>2. file[q].by = "nobody"
    BY <1>3 DEF UserFile, Exists, NoFile
  <2>3. "nobody" # x /\ "user" # x /\ "target" # x
    BY RootFacts
  <2>4. file'[q].by = "user" /\ \A p \in Paths : p # q => file'[p] = file[p]
    BY <1>3, <2>1 DEF UserFile
  <2>5. UNCHANGED <<kind, next, created, into, pc, dirs>>
    BY <1>3 DEF UserFile, local
  <2> HIDE DEF q
  <2> QED
    BY <1>1, <2>1, <2>2, <2>3, <2>4, <2>5
<1> QED
  BY <1>2, <1>3

---------------------------------------------------------------------------
(* The steps of a command preserve its own part of the invariant. *)

\* Before its first file a command has nothing on the disk.
LEMMA BeforeFacts ==
  ASSUME TypeOK, NEW c \in Commands, CommandOK(c), pc[c] \in Before
  PROVE  /\ into[c] = "target" /\ next[c] = 1 /\ created[c] = <<>> /\ Top(c) \notin dirs
         /\ \A p \in Paths : file[p].by # c
         /\ 1 \in 1..Len(Template(c)) /\ Len(<<>>) = 0
BY TemplateFacts, RootFacts DEF CommandOK, LocalOK, OwnOK, StageOK

LEMMA SearchOK ==
  ASSUME TypeOK, DirsOK, NEW c \in Commands, CommandOK(c),
         \/ Inspect(c) \/ ReadModule(c) \/ FindMod(c) \/ FindSum(c) \/ FindRoot(c)
         \/ FindAbove(c) \/ Validate(c)
  PROVE  CommandOK(c)' /\ DirsOK'
<1> USE DEF TypeOK
<1>1. pc[c] \in Before /\ UNCHANGED <<kind, next, created, dirs, file>>
  BY DEF Before, local, disk, Inspect, ReadModule, FindMod, FindSum, FindFile, FindRoot, FindAbove, Validate
<1>2. /\ into[c] = "target" /\ next[c] = 1 /\ created[c] = <<>> /\ Top(c) \notin dirs
      /\ \A p \in Paths : file[p].by # c
      /\ 1 \in 1..Len(Template(c)) /\ Len(<<>>) = 0
  BY <1>1, BeforeFacts
<1>3. pc[c] # "start" => (kind[c] = "work" <=> pc[c] = "module")
  BY <1>1 DEF CommandOK, LocalOK
<1>4. \/ pc'[c] = "failed" /\ into'[c] = into[c]
      \/ pc'[c] = "module" /\ kind[c] = "work" /\ into'[c] = into[c]
      \/ pc'[c] \in Before \ {"start", "module"} /\ kind[c] # "work" /\ into'[c] = into[c]
      \/ pc'[c] = "mkdir" /\ kind[c] # "work" /\ into'[c] = into[c]
      \/ pc'[c] = "mkdir" /\ kind[c] = "work" /\ into'[c] = "parent"
  <2> USE <1>3 DEF Before, Goto, local
  <2>1. CASE Inspect(c)
    BY <2>1 DEF Inspect
  <2>2. CASE ReadModule(c)
    BY <2>2 DEF ReadModule
  <2>3. CASE FindMod(c) \/ FindSum(c)
    BY <2>3 DEF FindMod, FindSum, FindFile
  <2>4. CASE FindRoot(c) \/ FindAbove(c) \/ Validate(c)
    BY <2>4 DEF FindRoot, FindAbove, Validate
  <2> QED
    BY <2>1, <2>2, <2>3, <2>4
<1>5. Template(c)' = Template(c)
  BY <1>1 DEF Template
<1>6. /\ next'[c] = 1 /\ created'[c] = <<>> /\ kind'[c] = kind[c] /\ "parent" # "target"
      /\ \A p \in Paths : file'[p].by # c
  BY <1>1, <1>2
<1>7. LocalOK(c)'
  <2>1. CASE pc'[c] \in Before \cup {"failed"}
    BY <1>2, <1>4, <1>6, <2>1 DEF LocalOK, Before, Writing
  <2>2. CASE pc'[c] = "mkdir"
    <3>1. into'[c] \in {"target", "parent"} /\ (kind'[c] = "work" <=> into'[c] = "parent")
      BY <1>2, <1>4, <1>6, <2>2 DEF Before
    <3>2. next'[c] \in 1..Len(Template(c)') /\ Len(created'[c]) = next'[c] - 1
      BY <1>2, <1>5, <1>6
    <3> QED
      BY <1>2, <1>6, <2>2, <3>1, <3>2 DEF LocalOK, Before, Writing
  <2> QED
    BY <1>4, <2>1, <2>2 DEF Before
<1>8. FilesOK(c)' /\ OwnOK(c)'
  <2>1. FilesOK(c)'
    <3>1. 1..Len(created'[c]) = {}
      BY <1>2, <1>6
    <3>2. pc'[c] \notin {"lookup", "rename", "done"}
      BY <1>4 DEF Before
    <3> QED
      BY <3>1, <3>2 DEF FilesOK
  <2>2. OwnOK(c)'
    BY <1>6 DEF OwnOK
  <2> QED
    BY <2>1, <2>2
<1>9. StageOK(c)'
  BY <1>1, <1>2, <1>4 DEF CommandOK, StageOK
<1> QED
  BY <1>1, <1>7, <1>8, <1>9 DEF CommandOK, DirsOK, Exists

\* A failing call and a kill leave the disk as it is.
LEMMA FaultOK ==
  ASSUME TypeOK, DirsOK, NEW c \in Commands, CommandOK(c), Fault(c) \/ Kill(c)
  PROVE  CommandOK(c)' /\ DirsOK'
<1> USE DEF TypeOK
<1>1. UNCHANGED <<kind, next, created, into, dirs, file>>
  BY DEF Fault, Kill, local, disk
<1>2. LocalOK(c) /\ FilesOK(c) /\ OwnOK(c) /\ StageOK(c) /\ c # "target"
  BY RootFacts DEF CommandOK
<1>3. \/ pc[c] \in Before /\ pc'[c] = "failed"
      \/ pc[c] \in Writing /\ pc'[c] = "rollback"
      \/ pc[c] \in {"lookup", "rename"} /\ pc'[c] = "unstage"
      \/ pc[c] # "done" /\ pc'[c] = "killed"
  BY DEF Fault, Kill, Goto, Labels, Before, Writing, Ended
<1>4. Template(c)' = Template(c)
  BY <1>1 DEF Template
<1>5. LocalOK(c)'
  BY <1>1, <1>2, <1>3, <1>4 DEF LocalOK, Before, Writing
<1>6. FilesOK(c)'
  BY <1>1, <1>2, <1>3, <1>4 DEF FilesOK, Before, Writing
<1>7. OwnOK(c)'
  BY <1>1, <1>2, <1>3 DEF OwnOK, Before, Writing
<1>8. StageOK(c)'
  BY <1>1, <1>2, <1>3 DEF StageOK, LocalOK, Before, Writing
<1> QED
  BY <1>1, <1>5, <1>6, <1>7, <1>8 DEF CommandOK, DirsOK, Exists

LEMMA StageStepOK ==
  ASSUME TypeOK, DirsOK, NEW c \in Commands, CommandOK(c), Stage(c)
  PROVE  CommandOK(c)' /\ DirsOK'
<1> USE DEF TypeOK
<1>1. /\ pc[c] = "stage" /\ pc'[c] = "mkdir" /\ into'[c] = c /\ dirs' = dirs \cup {Top(c)}
      /\ UNCHANGED <<kind, next, created, file>>
  BY DEF Stage, Goto
<1>2. /\ next[c] = 1 /\ created[c] = <<>> /\ kind[c] # "work" /\ c # "parent"
      /\ \A p \in Paths : file[p].by # c
      /\ 1 \in 1..Len(Template(c)) /\ Len(<<>>) = 0
  BY <1>1, BeforeFacts, RootFacts DEF Before, CommandOK, LocalOK
<1>3. Template(c)' = Template(c)
  BY <1>1 DEF Template
<1>4. LocalOK(c)'
  BY <1>1, <1>2, <1>3 DEF LocalOK, Before, Writing
<1>5. FilesOK(c)' /\ OwnOK(c)'
  BY <1>1, <1>2, <1>3 DEF FilesOK, OwnOK, Before, Writing
<1>6. StageOK(c)'
  BY <1>1 DEF CommandOK, StageOK
<1>7. DirsOK'
  BY <1>1, DirectoryFacts DEF DirsOK, Exists
<1> QED
  BY <1>4, <1>5, <1>6, <1>7 DEF CommandOK

LEMMA MakeDirectoryOK ==
  ASSUME TypeOK, DirsOK, NEW c \in Commands, CommandOK(c), MakeDirectory(c)
  PROVE  CommandOK(c)' /\ DirsOK'
<1> USE DEF TypeOK
<1>1. /\ pc[c] = "mkdir" /\ pc'[c] = "create" /\ dirs' = dirs \cup {Top(into[c]), Dir(Path(c))}
      /\ UNCHANGED <<kind, next, created, into, file>>
  BY DEF MakeDirectory, Goto, local
<1>2. LocalOK(c) /\ FilesOK(c) /\ OwnOK(c) /\ StageOK(c)
  BY DEF CommandOK
<1>3. Dir(Path(c)) \in {Top(into[c]), Inner(into[c])}
  <2>1. Path(c) \in Paths /\ Path(c)[1] = into[c]
    BY <1>1, <1>2, WritingFacts DEF Writing
  <2> QED
    BY <2>1, PathFacts
<1>4. Template(c)' = Template(c)
  BY <1>1 DEF Template
<1>5. LocalOK(c)'
  BY <1>1, <1>2, <1>4 DEF LocalOK, Before, Writing
<1>6. FilesOK(c)' /\ OwnOK(c)'
  <2>1. FilesOK(c)'
    BY <1>1, <1>2 DEF FilesOK, Writing
  <2>2. OwnOK(c)'
    BY <1>1, <1>2 DEF OwnOK, Before, Writing
  <2> QED
    BY <2>1, <2>2
<1>7. StageOK(c)'
  <2>1. Top(c) \in dirs' => Top(c) \in dirs \/ into[c] = c
    BY <1>1, <1>3, DirectoryFacts
  <2> QED
    BY <1>1, <1>2, <2>1 DEF StageOK
<1>8. DirsOK'
  BY <1>1, <1>3, DirectoryFacts DEF DirsOK, Exists
<1> QED
  BY <1>5, <1>6, <1>7, <1>8 DEF CommandOK

\* A call that fails in writeFiles starts the rollback.
LEMMA CreateOK ==
  ASSUME TypeOK, DirsOK, NEW c \in Commands, CommandOK(c), Create(c)
  PROVE  CommandOK(c)' /\ DirsOK'
<1> USE DEF TypeOK
<1> DEFINE q == Path(c)
           n == next[c]
<1>1. pc[c] = "create" /\ UNCHANGED <<kind, next, into, dirs>>
  BY DEF Create
<1>2. LocalOK(c) /\ FilesOK(c) /\ OwnOK(c) /\ StageOK(c)
  BY DEF CommandOK
<1>3. q \in Paths /\ q[1] = into[c] /\ n \in 1..Len(Template(c)) /\ q = <<into[c], Template(c)[n]>>
  BY <1>1, <1>2, WritingFacts DEF Writing
<1>4. Template(c)' = Template(c) /\ Len(Template(c)) \in Nat
  BY <1>1, TemplateFacts DEF Template
<1>5. Len(created[c]) = n - 1 /\ into[c] \in {"target", "parent", c} /\ (kind[c] = "work" <=> into[c] = "parent")
  BY <1>1, <1>2 DEF LocalOK, Writing
<1>6. ASSUME NEW i \in 1..Len(created[c])
      PROVE  /\ created[c][i] \in Paths /\ i <= Len(Template(c)) /\ created[c][i] = <<into[c], Template(c)[i]>>
             /\ file[created[c][i]].by = c /\ file[created[c][i]].whole
             /\ \A j \in 1..Len(created[c]) : created[c][i] = created[c][j] => i = j
  BY <1>1, <1>2, <1>5 DEF LocalOK, FilesOK, Writing
<1>7. StageOK(c)'
  <2>1. \A r \in Paths : file'[r] = file[r] \/ file'[r].by = c
    <3>1. CASE UNCHANGED file
      BY <3>1
    <3>2. CASE file' = [file EXCEPT ![q] = [by |-> c, whole |-> FALSE]]
      <4> HIDE DEF q
      <4>1. file'[q] = [by |-> c, whole |-> FALSE] /\ \A r \in Paths : r # q => file'[r] = file[r]
        BY <1>3, <3>2
      <4> QED
        BY <4>1
    <3> QED
      BY <3>1, <3>2 DEF Create
  <2>2. pc'[c] # "failed"
    BY <1>1 DEF Create, Goto
  <2> QED
    BY <1>1, <1>2, <2>1, <2>2 DEF StageOK
<1> HIDE DEF q, n
<1>8. CASE pc'[c] = "rollback" /\ UNCHANGED <<file, created>>
  <2>1. LocalOK(c)'
    BY <1>1, <1>2, <1>4, <1>5, <1>8 DEF LocalOK, Before, Writing
  <2>2. FilesOK(c)'
    BY <1>1, <1>2, <1>8 DEF FilesOK, Writing
  <2>3. OwnOK(c)'
    BY <1>1, <1>2, <1>8 DEF OwnOK, Before, Writing
  <2> QED
    BY <1>1, <1>7, <1>8, <2>1, <2>2, <2>3 DEF CommandOK, DirsOK, Exists
<1>9. CASE /\ Dir(q) \in dirs /\ ~Exists(q) /\ pc'[c] = "write"
           /\ file' = [file EXCEPT ![q] = [by |-> c, whole |-> FALSE]]
           /\ created' = [created EXCEPT ![c] = Append(@, q)]
  <2>1. /\ Len(created'[c]) = n /\ created'[c][n] = q
        /\ \A i \in 1..Len(created[c]) : created'[c][i] = created[c][i]
    BY <1>3, <1>5, <1>9, AppendProperties
  <2>2. /\ file[q].by # c /\ file'[q] = [by |-> c, whole |-> FALSE]
        /\ \A r \in Paths : r # q => file'[r] = file[r]
    BY <1>3, <1>9, RootFacts DEF Exists, NoFile
  <2>3. ASSUME NEW i \in 1..Len(created'[c])
        PROVE  \/ i = n /\ created'[c][i] = q
               \/ i \in 1..Len(created[c]) /\ i < n /\ created'[c][i] = created[c][i]
    <3>1. i = n \/ i \in 1..Len(created[c])
      BY <1>3, <1>5, <2>1
    <3> QED
      BY <1>5, <2>1, <3>1
  <2>4. LocalOK(c)'
    <3>1. ASSUME NEW i \in 1..Len(created'[c])
          PROVE  i <= Len(Template(c)') /\ created'[c][i] = <<into'[c], Template(c)'[i]>>
      <4>1. CASE i = n /\ created'[c][i] = q
        BY <1>1, <1>3, <1>4, <4>1
      <4>2. CASE i \in 1..Len(created[c]) /\ created'[c][i] = created[c][i]
        BY <1>1, <1>4, <1>6, <4>2
      <4> QED
        BY <2>3, <4>1, <4>2
    <3>2. next'[c] \in 1..Len(Template(c)') /\ Len(created'[c]) = next'[c]
      BY <1>1, <1>3, <1>4, <2>1 DEF n
    <3> QED
      BY <1>1, <1>5, <1>9, <3>1, <3>2 DEF LocalOK, Before, Writing
  <2>5. FilesOK(c)'
    <3>1. ASSUME NEW i \in 1..Len(created'[c])
          PROVE  /\ file'[created'[c][i]].by = c /\ (i < n => file'[created'[c][i]].whole)
                 /\ \A j \in 1..Len(created'[c]) : created'[c][i] = created'[c][j] => i = j
      <4>1. ASSUME NEW k \in 1..Len(created[c])
            PROVE  created[c][k] # q /\ file'[created[c][k]] = file[created[c][k]]
        <5>1. created[c][k] \in Paths /\ file[created[c][k]].by = c
          BY <1>6
        <5> QED
          BY <2>2, <5>1
      <4>2. file'[created'[c][i]].by = c /\ (i < n => file'[created'[c][i]].whole)
        <5>1. n \in Int
          BY <1>3, <1>4
        <5>2. CASE i = n /\ created'[c][i] = q
          BY <2>2, <5>1, <5>2
        <5>3. CASE i \in 1..Len(created[c]) /\ created'[c][i] = created[c][i]
          BY <1>6, <4>1, <5>3
        <5> QED
          BY <2>3, <5>2, <5>3
      <4>3. ASSUME NEW j \in 1..Len(created'[c]), created'[c][i] = created'[c][j]
            PROVE  i = j
        <5>1. CASE i = n /\ created'[c][i] = q
          BY <2>3, <4>1, <4>3, <5>1
        <5>2. CASE i \in 1..Len(created[c]) /\ created'[c][i] = created[c][i]
          <6>1. CASE j = n /\ created'[c][j] = q
            BY <4>1, <4>3, <5>2, <6>1
          <6>2. CASE j \in 1..Len(created[c]) /\ created'[c][j] = created[c][j]
            BY <1>6, <4>3, <5>2, <6>2
          <6> QED
            BY <2>3, <6>1, <6>2
        <5> QED
          BY <2>3, <5>1, <5>2
      <4> QED
        BY <4>2, <4>3
    <3> QED
      BY <1>1, <1>9, <3>1 DEF FilesOK, Writing, n
  <2>6. OwnOK(c)'
    <3>1. ASSUME NEW r \in Paths, file'[r].by = c
          PROVE  (\E i \in 1..Len(created'[c]) : r = created'[c][i]) /\ (into'[c] = c => r[1] = c)
      <4>1. CASE r = q
        <5>1. n \in 1..Len(created'[c])
          BY <1>3, <1>4, <2>1
        <5> QED
          BY <1>1, <1>3, <2>1, <4>1, <5>1
      <4>2. CASE r # q
        <5>1. file[r].by = c
          BY <2>2, <3>1, <4>2
        <5>2. PICK i \in 1..Len(created[c]) : r = created[c][i]
          BY <1>1, <1>2, <5>1 DEF OwnOK, Writing
        <5>3. i \in 1..Len(created'[c]) /\ r = created'[c][i]
          BY <1>3, <1>5, <2>1, <5>2
        <5> QED
          BY <1>1, <1>2, <5>1, <5>3 DEF OwnOK
      <4> QED
        BY <4>1, <4>2
    <3> QED
      BY <1>9, <3>1 DEF OwnOK, Before
  <2>7. DirsOK'
    <3>1. \A r \in Paths : Exists(r)' => r = q \/ Exists(r)
      BY <2>2 DEF Exists
    <3> QED
      BY <1>1, <1>9, <3>1 DEF DirsOK
  <2> QED
    BY <1>7, <2>4, <2>5, <2>6, <2>7 DEF CommandOK
<1> QED
  BY <1>8, <1>9 DEF Create, Goto, q

LEMMA WriteOK ==
  ASSUME TypeOK, DirsOK, NEW c \in Commands, CommandOK(c), Write(c)
  PROVE  CommandOK(c)' /\ DirsOK'
<1> USE DEF TypeOK
<1> DEFINE q == Path(c)
           n == next[c]
<1>1. /\ pc[c] = "write" /\ UNCHANGED <<kind, created, into, dirs>> /\ next'[c] = n + 1
      /\ pc'[c] = IF n < Len(Template(c)) THEN "mkdir" ELSE IF into[c] = c THEN "lookup" ELSE "done"
  BY DEF Write, Goto
<1>2. LocalOK(c) /\ FilesOK(c) /\ OwnOK(c) /\ StageOK(c) /\ c \in Roots
  BY RootFacts DEF CommandOK
<1>3. q \in Paths /\ n \in 1..Len(Template(c)) /\ Len(created[c]) = n /\ created[c][n] = q /\ file[q].by = c
  BY <1>1, <1>2, WritingFacts, WritingOwn DEF Writing
<1>4. Template(c)' = Template(c) /\ Len(Template(c)) \in Nat
  BY <1>1, TemplateFacts DEF Template
<1>5. into[c] \in {"target", "parent", c} /\ (kind[c] = "work" <=> into[c] = "parent")
  BY <1>1, <1>2 DEF LocalOK, Writing
<1>6. /\ file'[q] = Whole(c) /\ \A r \in Paths : r # q => file'[r] = file[r]
      /\ \A r \in Paths : file'[r].by = file[r].by
  <2>1. file[q] \in [by : Commands \cup {"user", "nobody"}, whole : BOOLEAN]
    BY <1>3
  <2> QED
    BY <1>3, <2>1 DEF Write, Whole
<1> HIDE DEF q, n
<1>7. ASSUME NEW i \in 1..Len(created[c])
      PROVE  /\ created[c][i] \in Paths /\ i <= Len(Template(c)) /\ created[c][i] = <<into[c], Template(c)[i]>>
             /\ file'[created[c][i]] = Whole(c)
             /\ \A j \in 1..Len(created[c]) : created[c][i] = created[c][j] => i = j
  <2>1. /\ created[c][i] \in Paths /\ i <= Len(Template(c)) /\ created[c][i] = <<into[c], Template(c)[i]>>
        /\ file[created[c][i]].by = c
        /\ \A j \in 1..Len(created[c]) : created[c][i] = created[c][j] => i = j
    BY <1>1, <1>2 DEF LocalOK, FilesOK, Writing
  <2>2. CASE created[c][i] = q
    BY <1>6, <2>1, <2>2
  <2>3. CASE created[c][i] # q
    <3>1. i < n
      BY <1>3, <2>3
    <3>2. file[created[c][i]].whole
      BY <1>1, <1>2, <3>1 DEF FilesOK, Writing, n
    <3>3. file[created[c][i]] \in [by : Commands \cup {"user", "nobody"}, whole : BOOLEAN]
      BY <2>1
    <3> QED
      BY <1>6, <2>1, <2>3, <3>2, <3>3 DEF Whole
  <2> QED
    BY <2>1, <2>2, <2>3
<1>8. LocalOK(c)'
  <2>1. CASE pc'[c] = "mkdir"
    <3>1. next'[c] \in 1..Len(Template(c)') /\ Len(created'[c]) = next'[c] - 1
      BY <1>1, <1>3, <1>4, <2>1
    <3> QED
      BY <1>1, <1>4, <1>5, <1>7, <2>1, <3>1 DEF LocalOK, Before, Writing
  <2>2. CASE pc'[c] \in {"lookup", "done"}
    BY <1>1, <1>5, <2>2 DEF LocalOK, Before, Writing
  <2> QED
    BY <1>1, <2>1, <2>2
<1>9. FilesOK(c)'
  <2>1. CASE pc'[c] = "mkdir"
    BY <1>1, <1>7, <2>1 DEF FilesOK, Writing, Whole
  <2>2. CASE pc'[c] \in {"lookup", "done"}
    <3>1. n = Len(Template(c))
      BY <1>1, <1>3, <1>4, <2>2
    <3>2. ASSUME NEW m \in Range(Template(c)) PROVE file'[<<into[c], m>>] = Whole(c)
      <4>1. PICK i \in 1..Len(Template(c)) : Template(c)[i] = m
        BY TemplateFacts
      <4> QED
        BY <1>3, <1>7, <3>1, <4>1
    <3>3. pc'[c] = "done" => into[c] = IF kind[c] = "work" THEN "parent" ELSE "target"
      BY <1>1, <1>5, <2>2
    <3>4. pc'[c] = "lookup" => into[c] = c
      BY <1>1, <2>2
    <3> QED
      BY <1>1, <1>4, <2>2, <3>2, <3>3, <3>4 DEF FilesOK, Writing, Whole
  <2> QED
    BY <1>1, <2>1, <2>2
<1>10. OwnOK(c)'
  BY <1>1, <1>2, <1>6 DEF OwnOK, Before, Writing
<1>11. StageOK(c)'
  BY <1>1, <1>2, <1>6 DEF StageOK
<1>12. DirsOK'
  <2>1. \A r \in Paths : Exists(r)' => Exists(r)
    <3>1. file[q] # NoFile
      BY <1>3, RootFacts DEF NoFile
    <3> QED
      BY <1>6, <3>1 DEF Exists
  <2> QED
    BY <1>1, <2>1 DEF DirsOK
<1> QED
  BY <1>8, <1>9, <1>10, <1>11, <1>12 DEF CommandOK

LEMMA RollbackOK ==
  ASSUME TypeOK, DirsOK, NEW c \in Commands, CommandOK(c), Rollback(c)
  PROVE  CommandOK(c)' /\ DirsOK'
<1> USE DEF TypeOK
<1>1. pc[c] = "rollback" /\ UNCHANGED <<kind, next, into>>
  BY DEF Rollback
<1>2. LocalOK(c) /\ FilesOK(c) /\ OwnOK(c) /\ StageOK(c)
  BY DEF CommandOK
<1>3. Template(c)' = Template(c)
  BY <1>1 DEF Template
<1>4. into[c] \in {"target", "parent", c} /\ NoFile.by # c
  BY <1>1, <1>2, RootFacts DEF LocalOK, NoFile
<1>5. CASE created[c] # <<>>
  <2> DEFINE q == Last(created[c])
             len == Len(created[c])
  <2>1. /\ len \in Nat \ {0} /\ q = created[c][len] /\ q \in Paths
        /\ Len(Front(created[c])) = len - 1 /\ \A i \in 1..len - 1 : Front(created[c])[i] = created[c][i]
    <3>1. created[c] \in Seq(Paths)
      OBVIOUS
    <3> HIDE DEF TypeOK
    <3> QED
      BY <1>5, <3>1, SequenceEnds
  <2>2. /\ UNCHANGED <<dirs, pc>> /\ created'[c] = Front(created[c])
        /\ file' = [file EXCEPT ![q] = NoFile]
    BY <1>5 DEF Rollback
  <2> HIDE DEF q, len
  <2>3. file'[q] = NoFile /\ \A r \in Paths : r # q => file'[r] = file[r]
    BY <2>1, <2>2
  <2>4. ASSUME NEW i \in 1..Len(created'[c])
        PROVE  i \in 1..len - 1 /\ i \in 1..len /\ created'[c][i] = created[c][i]
    BY <2>1, <2>2
  <2>5. ASSUME NEW i \in 1..len
        PROVE  /\ created[c][i] \in Paths /\ i <= Len(Template(c)) /\ created[c][i] = <<into[c], Template(c)[i]>>
               /\ file[created[c][i]].by = c
               /\ \A j \in 1..len : created[c][i] = created[c][j] => i = j
    BY <1>1, <1>2 DEF LocalOK, FilesOK, len
  <2>6. LocalOK(c)'
    <3>1. \A i \in 1..Len(created'[c]) : i <= Len(Template(c)') /\ created'[c][i] = <<into'[c], Template(c)'[i]>>
      BY <1>1, <1>3, <2>4, <2>5
    <3> QED
      BY <1>1, <1>4, <2>2, <3>1 DEF LocalOK, Before, Writing
  <2>7. FilesOK(c)'
    <3>1. ASSUME NEW i \in 1..Len(created'[c])
          PROVE  file'[created'[c][i]].by = c
      <4>1. created[c][i] # q
        BY <2>1, <2>4, <2>5
      <4> QED
        BY <2>3, <2>4, <2>5, <4>1
    <3>2. \A i, j \in 1..Len(created'[c]) : created'[c][i] = created'[c][j] => i = j
      BY <2>4, <2>5
    <3> QED
      BY <1>1, <2>2, <3>1, <3>2 DEF FilesOK, Writing
  <2>8. OwnOK(c)'
    <3>1. ASSUME NEW r \in Paths, file'[r].by = c
          PROVE  (\E i \in 1..Len(created'[c]) : r = created'[c][i]) /\ (into'[c] = c => r[1] = c)
      <4>1. r # q /\ file[r].by = c
        BY <1>4, <2>3, <3>1
      <4>2. PICK i \in 1..len : r = created[c][i]
        BY <1>1, <1>2, <4>1 DEF OwnOK, len
      <4>3. i \in 1..len - 1
        BY <2>1, <4>1, <4>2
      <4>4. i \in 1..Len(created'[c]) /\ r = created'[c][i]
        BY <2>1, <2>2, <4>2, <4>3
      <4> QED
        BY <1>1, <1>2, <4>1, <4>4 DEF OwnOK
    <3> QED
      BY <1>1, <2>2, <3>1 DEF OwnOK, Before
  <2>9. StageOK(c)'
    BY <1>1, <1>2, <2>2, <2>3 DEF StageOK, NoFile
  <2>10. DirsOK'
    <3>1. \A r \in Paths : Exists(r)' => Exists(r)
      BY <2>3 DEF Exists
    <3> QED
      BY <2>2, <3>1 DEF DirsOK
  <2> QED
    BY <2>6, <2>7, <2>8, <2>9, <2>10 DEF CommandOK
<1>6. CASE created[c] = <<>>
  <2>1. /\ UNCHANGED <<file, created>> /\ pc'[c] = IF into[c] = c THEN "unstage" ELSE "failed"
        /\ dirs' = dirs \ {d \in {Inner(into[c])} : kind[c] = "module" /\ ~Exists(<<into[c], "settings.json">>)}
    BY <1>6 DEF Rollback, Goto
  <2>2. \A p \in Paths : file[p].by # c
    <3>1. 1..Len(created[c]) = {}
      BY <1>6
    <3> QED
      BY <1>1, <1>2, <3>1 DEF OwnOK
  <2>3. LocalOK(c)' /\ FilesOK(c)' /\ OwnOK(c)'
    <3>1. 1..Len(created'[c]) = {} /\ pc'[c] \in {"unstage", "failed"} /\ into'[c] = into[c]
      BY <1>1, <1>6, <2>1
    <3>2. LocalOK(c)'
      BY <1>4, <2>1, <3>1 DEF LocalOK, Before, Writing
    <3>3. FilesOK(c)'
      BY <3>1 DEF FilesOK, Writing
    <3>4. OwnOK(c)'
      BY <2>1, <2>2 DEF OwnOK
    <3> QED
      BY <3>2, <3>3, <3>4
  <2>4. StageOK(c)'
    BY <1>1, <1>2, <2>1 DEF StageOK
  <2>5. DirsOK'
    <3>1. ASSUME NEW p \in Paths, Exists(p), Dir(p) \notin dirs'
          PROVE  FALSE
      <4>1. Dir(p) = Inner(into[c]) /\ ~Exists(<<into[c], "settings.json">>)
        BY <2>1, <3>1 DEF DirsOK
      <4>2. Dir(p) = Inner(p[1]) /\ p[1] = into[c]
        BY <4>1, PathFacts, DirectoryFacts
      <4>3. p = <<into[c], "settings.json">>
        BY <4>2, PathFacts
      <4> QED
        BY <3>1, <4>1, <4>3
    <3>2. \A d \in Roots : Inner(d) \in dirs' => Top(d) \in dirs'
      BY <2>1, DirectoryFacts DEF DirsOK
    <3> QED
      BY <2>1, <3>1, <3>2 DEF DirsOK, Exists
  <2> QED
    BY <2>3, <2>4, <2>5 DEF CommandOK
<1> QED
  BY <1>5, <1>6

LEMMA LookupOK ==
  ASSUME TypeOK, DirsOK, NEW c \in Commands, CommandOK(c), Lookup(c)
  PROVE  CommandOK(c)' /\ DirsOK'
<1> USE DEF TypeOK
<1>1. /\ pc[c] = "lookup" /\ pc'[c] \in {"rename", "unstage"}
      /\ UNCHANGED <<kind, next, created, into, dirs, file>>
  BY DEF Lookup, Goto, local, disk
<1>2. LocalOK(c) /\ FilesOK(c) /\ OwnOK(c) /\ StageOK(c)
  BY DEF CommandOK
<1>3. Template(c)' = Template(c)
  BY <1>1 DEF Template
<1>4. LocalOK(c)' /\ OwnOK(c)' /\ StageOK(c)'
  BY <1>1, <1>2 DEF LocalOK, OwnOK, StageOK, Before, Writing
<1>5. FilesOK(c)'
  BY <1>1, <1>2, <1>3 DEF FilesOK, Writing
<1> QED
  BY <1>1, <1>4, <1>5 DEF CommandOK, DirsOK, Exists

LEMMA RenameOK ==
  ASSUME TypeOK, DirsOK, NEW c \in Commands, CommandOK(c), Rename(c)
  PROVE  CommandOK(c)' /\ DirsOK'
<1> USE DEF TypeOK
<1>1. pc[c] = "rename" /\ UNCHANGED <<kind, next, created, into>>
  BY DEF Rename, local
<1>2. LocalOK(c) /\ FilesOK(c) /\ OwnOK(c) /\ StageOK(c)
  BY DEF CommandOK
<1>3. Template(c)' = Template(c)
  BY <1>1 DEF Template
<1>4. into[c] = c /\ kind[c] # "work" /\ c # "target" /\ c # "parent" /\ c \in Roots /\ "target" \in Roots
  BY <1>1, <1>2, RootFacts DEF LocalOK
<1>5. CASE pc'[c] = "unstage" /\ UNCHANGED <<dirs, file>>
  <2>1. LocalOK(c)' /\ FilesOK(c)' /\ OwnOK(c)' /\ StageOK(c)'
    BY <1>1, <1>2, <1>4, <1>5 DEF LocalOK, FilesOK, OwnOK, StageOK, Before, Writing
  <2> QED
    BY <1>5, <2>1 DEF CommandOK, DirsOK, Exists
<1>6. CASE /\ pc'[c] = "done"
           /\ dirs' = (dirs \ {Top(c), Inner(c)}) \cup {Top("target")} \cup {d \in {Inner("target")} : Inner(c) \in dirs}
           /\ file' = [p \in Paths |-> IF p[1] = "target" THEN file[<<c, p[2]>>] ELSE IF p[1] = c THEN NoFile ELSE file[p]]
           /\ Top("target") \notin dirs \/ Holds("target") = {}
  <2>1. \A p \in Paths : file'[p] = IF p[1] = "target" THEN file[<<c, p[2]>>] ELSE IF p[1] = c THEN NoFile ELSE file[p]
    BY <1>6
  <2>2. LocalOK(c)'
    BY <1>1, <1>4, <1>6 DEF LocalOK, Before, Writing
  <2>3. FilesOK(c)'
    <3>1. \A n \in Range(Template(c)) : file'[<<"target", n>>] = file[<<c, n>>] /\ file[<<c, n>>] = Whole(c)
      <4>1. \A n \in Range(Template(c)) : <<"target", n>> \in Paths
        BY <1>4, TemplateFacts, PathFacts
      <4> QED
        BY <1>1, <1>2, <2>1, <4>1 DEF FilesOK
    <3> QED
      BY <1>1, <1>3, <1>4, <1>6, <3>1 DEF FilesOK, Writing, Whole
  <2>4. OwnOK(c)'
    BY <1>6 DEF OwnOK, Before, Writing
  <2>5. StageOK(c)'
    BY <1>4, <1>6, <2>1, DirectoryFacts DEF StageOK, NoFile
  <2>6. ASSUME NEW p \in Paths, Exists(p)'
        PROVE  Dir(p) \in dirs'
    <3>1. CASE p[1] = "target"
      <4> DEFINE q == <<c, p[2]>>
      <4>1. q \in Paths /\ q[1] = c /\ q[2] = p[2]
        BY <1>4, PathFacts
      <4>2. Dir(q) \in dirs
        BY <2>1, <2>6, <3>1, <4>1 DEF DirsOK, Exists
      <4>3. \/ Dir(p) = Top("target")
            \/ Dir(p) = Inner("target") /\ Dir(q) = Inner(c)
        BY <3>1, <4>1 DEF Dir
      <4> HIDE DEF q
      <4> QED
        BY <1>6, <4>2, <4>3
    <3>2. CASE p[1] # "target"
      <4>1. Exists(p) /\ p[1] # c
        BY <2>1, <2>6, <3>2 DEF Exists
      <4>2. Dir(p) \in dirs /\ Dir(p) \in {Top(p[1]), Inner(p[1])}
        BY <4>1, PathFacts DEF DirsOK
      <4>3. Dir(p) \notin {Top(c), Inner(c)}
        BY <4>1, <4>2, DirectoryFacts
      <4> QED
        BY <1>6, <4>2, <4>3
    <3> QED
      BY <3>1, <3>2
  <2>7. \A d \in Roots : Inner(d) \in dirs' => Top(d) \in dirs'
    BY <1>6, DirectoryFacts DEF DirsOK
  <2> QED
    BY <2>2, <2>3, <2>4, <2>5, <2>6, <2>7 DEF CommandOK, DirsOK
<1> QED
  BY <1>5, <1>6 DEF Rename, Goto

LEMMA UnstageOK ==
  ASSUME TypeOK, DirsOK, NEW c \in Commands, CommandOK(c), Unstage(c)
  PROVE  CommandOK(c)' /\ DirsOK'
<1> USE DEF TypeOK
<1>1. /\ pc[c] = "unstage" /\ pc'[c] = "failed" /\ UNCHANGED <<kind, next, created, into>>
      /\ dirs' = dirs \ {Top(c), Inner(c)}
      /\ \A p \in Paths : file'[p] = IF p[1] = c THEN NoFile ELSE file[p]
  BY DEF Unstage, local, Goto
<1>2. LocalOK(c) /\ OwnOK(c) /\ StageOK(c) /\ into[c] = c /\ NoFile.by = "nobody" /\ "nobody" # c
  BY <1>1, RootFacts DEF CommandOK, LocalOK, NoFile
<1>3. \A p \in Paths : file'[p].by # c
  BY <1>1, <1>2 DEF OwnOK
<1>4. LocalOK(c)' /\ FilesOK(c)' /\ OwnOK(c)'
  BY <1>1, <1>2, <1>3 DEF LocalOK, FilesOK, OwnOK, Before, Writing
<1>5. StageOK(c)'
  BY <1>1, <1>2 DEF StageOK
<1>6. DirsOK'
  <2>1. ASSUME NEW p \in Paths, Exists(p)'
        PROVE  Dir(p) \in dirs'
    <3>1. Exists(p) /\ p[1] # c
      BY <1>1, <2>1 DEF Exists
    <3>2. Dir(p) \in dirs /\ Dir(p) \in {Top(p[1]), Inner(p[1])}
      BY <3>1, PathFacts DEF DirsOK
    <3>3. Dir(p) \notin {Top(c), Inner(c)}
      BY <3>1, <3>2, DirectoryFacts
    <3> QED
      BY <1>1, <3>2, <3>3
  <2>2. \A d \in Roots : Inner(d) \in dirs' => Top(d) \in dirs'
    BY <1>1, DirectoryFacts DEF DirsOK
  <2> QED
    BY <2>1, <2>2 DEF DirsOK
<1> QED
  BY <1>4, <1>5, <1>6 DEF CommandOK

LEMMA UserOK ==
  ASSUME TypeOK, DirsOK, UserDirectory \/ \E name \in Names : UserFile(name)
  PROVE  DirsOK'
<1> USE DEF TypeOK
<1>1. CASE UserDirectory
  BY <1>1, DirectoryFacts DEF UserDirectory, DirsOK, Exists
<1>2. ASSUME NEW name \in Names, UserFile(name)
      PROVE  DirsOK'
  <2> DEFINE q == <<"target", name>>
  <2>1. q \in Paths /\ Dir(q) \in dirs /\ UNCHANGED dirs
    BY <1>2, PathFacts DEF UserFile, Roots
  <2>2. \A p \in Paths : p # q => file'[p] = file[p]
    BY <1>2 DEF UserFile
  <2> HIDE DEF q
  <2> QED
    BY <2>1, <2>2 DEF DirsOK, Exists
<1> QED
  BY <1>1, <1>2

---------------------------------------------------------------------------
(* The theorems. *)

LEMMA StepIInv == IInv /\ [Next]_vars => IInv'
<1> SUFFICES ASSUME IInv, [Next]_vars PROVE IInv'
  OBVIOUS
<1>1. TypeOK /\ DirsOK /\ \A c \in Commands : CommandOK(c) /\ StageOK(c)
  BY DEF IInv, CommandOK
<1>2. TypeOK'
  BY <1>1, StepTypeOK
<1>3. CASE UNCHANGED vars
  <2>1. \A c \in Commands : Undisturbed(c)
    BY <1>1, <1>3 DEF vars, Undisturbed, StageOK
  <2>2. \A c \in Commands : CommandOK(c)'
    BY <1>1, <2>1, UndisturbedOK
  <2> QED
    BY <1>1, <1>2, <1>3, <2>2 DEF IInv, DirsOK, Exists, vars
<1>4. ASSUME NEW c \in Commands, Step(c) \/ Fault(c) \/ Kill(c)
      PROVE  IInv'
  <2>1. CommandOK(c)' /\ DirsOK'
    BY <1>1, <1>4, SearchOK, FaultOK, StageStepOK, MakeDirectoryOK, CreateOK, WriteOK, RollbackOK, LookupOK,
       RenameOK, UnstageOK DEF Step
  <2>2. \A x \in Commands : x # c => CommandOK(x)'
    BY <1>1, <1>4, OthersUndisturbed, UndisturbedOK
  <2> QED
    BY <1>2, <2>1, <2>2 DEF IInv
<1>5. CASE UserDirectory \/ \E name \in Names : UserFile(name)
  <2>1. \A x \in Commands : CommandOK(x)'
    BY <1>1, <1>5, UserUndisturbed, UndisturbedOK
  <2> QED
    BY <1>1, <1>2, <1>5, <2>1, UserOK DEF IInv
<1> QED
  BY <1>3, <1>4, <1>5 DEF Next

THEOREM Invariant == Spec => []IInv
<1>1. Init => IInv
  BY InitIInv
<1>2. IInv /\ [Next]_vars => IInv'
  BY StepIInv
<1> QED
  BY <1>1, <1>2, PTL DEF Spec

\* Whatever calls fail, whoever is killed and whatever the user makes in the
\* meantime, a command that reports success has made every file of its
\* template, one that reports an error has left none.
THEOREM CommandsAllOrNothing == Spec => []AllOrNothing
<1>1. IInv => AllOrNothing
  <2> SUFFICES ASSUME IInv, NEW c \in Commands
               PROVE  /\ pc[c] = "done" => \A n \in Range(Template(c)) :
                           file[<<IF kind[c] = "work" THEN "parent" ELSE "target", n>>] = [by |-> c, whole |-> TRUE]
                      /\ pc[c] = "failed" => Top(c) \notin dirs /\ \A p \in Paths : file[p].by # c
    BY DEF AllOrNothing
  <2>1. FilesOK(c) /\ OwnOK(c) /\ StageOK(c)
    BY DEF IInv, CommandOK
  <2> QED
    BY <2>1 DEF FilesOK, OwnOK, StageOK, Whole
<1> QED
  BY <1>1, Invariant, PTL

\* A directory of that name never holds some of the files of a command that
\* makes a new one: they come with the rename, which only ever replaces an
\* empty directory.
THEOREM NewDirectoriesWhole == Spec => []NewDirectoryWhole
<1>1. IInv => NewDirectoryWhole
  <2> SUFFICES ASSUME IInv, NEW c \in Commands, into[c] = c,
                      NEW p \in Paths, p[1] = "target", file[p].by = c
               PROVE  \A n \in Range(Template(c)) : file[<<"target", n>>] = [by |-> c, whole |-> TRUE]
    BY DEF NewDirectoryWhole
  <2>1. LocalOK(c) /\ FilesOK(c) /\ OwnOK(c) /\ c # "target" /\ c # "parent"
    BY RootFacts DEF IInv, CommandOK
  <2>2. pc[c] = "done"
    BY <2>1 DEF OwnOK
  <2>3. kind[c] # "work"
    BY <2>1, <2>2 DEF LocalOK
  <2> QED
    BY <2>1, <2>2, <2>3 DEF FilesOK, Whole
<1> QED
  BY <1>1, Invariant, PTL

\* What the user made, and what a command that is done has made, is never
\* replaced and never removed: a create fails on it, a rollback and the
\* removal of a staging directory only ever meet files of their own command,
\* and a rename none at all.
THEOREM NothingIsOverwritten == Spec => NothingOverwritten
<1> DEFINE Kept(p) == file[p].by = "user" \/ \E c \in Commands : file[p].by = c /\ pc[c] = "done" /\ p[1] # c
<1>1. ASSUME IInv, [Next]_vars, NEW p \in Paths, Kept(p)
      PROVE  file'[p] = file[p]
  <2>1. TypeOK /\ DirsOK /\ \A c \in Commands : CommandOK(c) /\ LocalOK(c) /\ FilesOK(c) /\ StageOK(c)
    BY <1>1 DEF IInv, CommandOK
  <2>2. file[p].by # "nobody"
    BY <1>1, RootFacts, NamesAssumption
  <2>3. ASSUME NEW c \in Commands, Step(c) \/ Fault(c) \/ Kill(c), file'[p] # file[p]
        PROVE  FALSE
    <3>1. pc[c] # "done"
      BY <2>3 DEF Step, Inspect, ReadModule, FindMod, FindSum, FindFile, FindRoot, FindAbove, Validate, Stage,
         MakeDirectory, Create, Write, Rollback, Lookup, Rename, Unstage, Fault, Kill, Ended
    <3>2. file[p].by # c
      BY <1>1, <3>1, RootFacts
    <3> QED
      BY <2>1, <2>2, <2>3, <3>2, StepKeepsOthers
  <2>4. CASE UserDirectory
    BY <2>4 DEF UserDirectory
  <2>5. ASSUME NEW name \in Names, UserFile(name)
        PROVE  file'[p] = file[p]
    <3>1. <<"target", name>> # p
      BY <2>2, <2>5 DEF UserFile, Exists, NoFile
    <3> QED
      BY <2>1, <2>5, <3>1 DEF UserFile, TypeOK
  <2> QED
    BY <1>1, <2>3, <2>4, <2>5 DEF Next, vars
<1>2. IInv /\ [Next]_vars => [\A p \in Paths : Kept(p) => file'[p] = file[p]]_vars
  BY <1>1
<1> QED
  BY <1>2, Invariant, PTL DEF Spec, NothingOverwritten
=============================================================================
