----------------------------- MODULE Containers -----------------------------
(***************************************************************************)
(* The code the frontend emits for the operations of a VarArray, an        *)
(* ArrayMap and an ArraySet (internal/compiler/frontend/lower.go): a size  *)
(* and a backing of Capacity cells, with runtime checks on.  Every loop    *)
(* that moves cells is a loop here, one iteration a step; a loop that only *)
(* reads is a recursive function.  The insertion sort is the one of        *)
(* capacities up to 16; MergeSort has the other.                           *)
(***************************************************************************)
EXTENDS Integers, Sequences, FiniteSets, SequencesExt

CONSTANTS
  Elements,
  Key,       \* what the comparator of SortFunc and MinFunc looks at
  Capacity,
  Junk,      \* what memory that was never written holds
  Keys, Values  \* of the maps; a set has keys alone

Positions == 0..Capacity - 1

ASSUME VarArrayAssumption ==
  /\ Capacity \in Nat \ {0}
  /\ Key \in [Elements -> Int]
  /\ Junk \notin Elements

VARIABLES
  cells,  \* the backing
  size,   \* the size slot
  run,    \* the loop being executed and its locals
  reply   \* the last operation that took effect and its result

vars == <<cells, size, run, reply>>

Terminated == "terminated"
Idle == [op |-> "idle"]
View == [i \in 1..size |-> cells[i - 1]]
InRange(i) == 0 <= i /\ i < size
HasCapacity == size < Capacity
Answer(op, value) == reply' = <<op, value>>
Keep(op, value) == Answer(op, value) /\ UNCHANGED <<cells, size, run>>

Init ==
  /\ cells = [i \in Positions |-> Junk] /\ size = 0
  /\ run = Idle
  /\ reply = <<"new", "none">>

-----------------------------------------------------------------------------
(* Operations of one step *)

Get(i) == Keep("Get", IF InRange(i) THEN cells[i] ELSE Terminated)

Set(i, v) ==
  \/ /\ InRange(i)
     /\ cells' = [cells EXCEPT ![i] = v]
     /\ Answer("Set", "none") /\ UNCHANGED <<size, run>>
  \/ ~InRange(i) /\ Keep("Set", Terminated)

AppendOne(v) ==
  \/ /\ HasCapacity
     /\ cells' = [cells EXCEPT ![size] = v] /\ size' = size + 1
     /\ Answer("Append", "none") /\ UNCHANGED run
  \/ ~HasCapacity /\ Keep("Append", Terminated)

Exchanged(i, j) == [cells EXCEPT ![i] = cells[j], ![j] = cells[i]]
Swap(i, j) ==
  \/ /\ InRange(i) /\ InRange(j)
     /\ cells' = Exchanged(i, j)
     /\ Answer("Swap", "none") /\ UNCHANGED <<size, run>>
  \/ ~(InRange(i) /\ InRange(j)) /\ Keep("Swap", Terminated)

Clear == size' = 0 /\ Answer("Clear", "none") /\ UNCHANGED <<cells, run>>

-----------------------------------------------------------------------------
(* Loops that only read: from index 0 to the size *)

Scan(Step(_, _), start) ==
  LET after[n \in 0..size] == IF n = 0 THEN start ELSE Step(after[n - 1], n - 1)
  IN after[size]
Find(v) == Scan(LAMBDA found, i : IF found = -1 /\ cells[i] = v THEN i ELSE found, -1)
Index(v) == Keep("Index", Find(v))
LastIndex(v) == Keep("LastIndex", Scan(LAMBDA last, i : IF cells[i] = v THEN i ELSE last, -1))
Count(v) == Keep("Count", Scan(LAMBDA n, i : IF cells[i] = v THEN n + 1 ELSE n, 0))

NotAfter(v, w) == Key[v] <= Key[w] \* mutant: an equal element replaces the best
Before(v, w) == Key[v] < Key[w]
Smallest == Scan(LAMBDA best, i : IF best < 0 \/ Before(cells[i], cells[best]) THEN i ELSE best, -1)
Largest == Scan(LAMBDA best, i : IF best < 0 \/ Before(cells[best], cells[i]) THEN i ELSE best, -1)
IndexMinFunc == Keep("IndexMinFunc", Smallest)
IndexMaxFunc == Keep("IndexMaxFunc", Largest)
ExtremeOrTerminate(op, best) == Keep(op, IF size > 0 THEN cells[best] ELSE Terminated)
MinFunc == ExtremeOrTerminate("MinFunc", Smallest)
MaxFunc == ExtremeOrTerminate("MaxFunc", Largest)

-----------------------------------------------------------------------------
(* containerRemoveAt: the cells above the index move down, then the size. *)

Loop(record) == run' = record /\ UNCHANGED <<cells, size>>

RemoveIndex(i) ==
  \/ InRange(i) /\ Answer("RemoveAt", cells[i]) /\ Loop([op |-> "remove", cursor |-> i])
  \/ ~InRange(i) /\ Keep("RemoveAt", Terminated)

RemoveValue(v) ==
  \/ Find(v) # -1 /\ Answer("Remove", TRUE) /\ Loop([op |-> "remove", cursor |-> Find(v)])
  \/ Find(v) = -1 /\ Keep("Remove", FALSE)

RemoveStep ==
  /\ run.op = "remove"
  /\ IF run.cursor < size - 1
     THEN /\ cells' = [cells EXCEPT ![run.cursor] = cells[run.cursor + 1]]
          /\ run' = [run EXCEPT !.cursor = @ + 1]
          /\ UNCHANGED size
     ELSE size' = size - 1 /\ run' = Idle /\ UNCHANGED cells
  /\ UNCHANGED reply

(* containerInsert: from the end down to the index the cells move up. *)

Insert(i, v) ==
  \/ /\ 0 <= i /\ i <= size /\ HasCapacity
     /\ Answer("Insert", "none")
     /\ Loop([op |-> "insert", cursor |-> size, index |-> i, value |-> v])
  \/ ~(0 <= i /\ i <= size /\ HasCapacity) /\ Keep("Insert", Terminated)

InsertStep ==
  /\ run.op = "insert"
  /\ IF run.cursor > run.index
     THEN /\ cells' = [cells EXCEPT ![run.cursor] = cells[run.cursor - 1]]
          /\ run' = [run EXCEPT !.cursor = @ - 1]
          /\ UNCHANGED size
     ELSE /\ cells' = [cells EXCEPT ![run.index] = run.value]
          /\ size' = size + 1 /\ run' = Idle
  /\ UNCHANGED reply

(* Reverse: index runs to half the size, which is not rounded. *)

ReverseAll == Answer("Reverse", "none") /\ Loop([op |-> "reverse", index |-> 0])

ReverseStep ==
  /\ run.op = "reverse"
  /\ IF 2 * run.index < size
     THEN /\ cells' = Exchanged(run.index, size - 1 - run.index)
          /\ run' = [run EXCEPT !.index = @ + 1]
     ELSE run' = Idle /\ UNCHANGED cells
  /\ UNCHANGED <<size, reply>>

(* SortFunc: the element at index is held as the key, the greater ones     *)
(* before it move up, the key goes into the gap.                           *)

SortFunc == Answer("SortFunc", "none") /\ Loop([op |-> "sort", index |-> 1])

SortLoadKey ==
  /\ run.op = "sort"
  /\ run' = IF run.index < size
            THEN [op |-> "shift", index |-> run.index, cursor |-> run.index,
                  key |-> cells[run.index]]
            ELSE Idle
  /\ UNCHANGED <<cells, size, reply>>

SortShift ==
  /\ run.op = "shift"
  /\ IF run.cursor > 0 /\ Before(run.key, cells[run.cursor - 1])
     THEN /\ cells' = [cells EXCEPT ![run.cursor] = cells[run.cursor - 1]]
          /\ run' = [run EXCEPT !.cursor = @ - 1]
     ELSE /\ cells' = [cells EXCEPT ![run.cursor] = run.key]
          /\ run' = [op |-> "sort", index |-> run.index + 1]
  /\ UNCHANGED <<size, reply>>

(* Extend: the sequence is drained into a buffer, its body may use the     *)
(* array meanwhile; then the sum of the sizes is checked, then copied.     *)

Extend == Loop([op |-> "drain", buffer |-> <<>>]) /\ UNCHANGED reply

Yield(v) ==
  /\ run.op = "drain"
  /\ IF Len(run.buffer) < Capacity
     THEN Loop([run EXCEPT !.buffer = Append(@, v)]) /\ UNCHANGED reply
     ELSE Answer("Extend", Terminated) /\ Loop(Idle)

BodyUses ==
  /\ run.op = "drain"
  /\ \/ Clear
     \/ HasCapacity /\ \E v \in Elements : AppendOne(v)

SequenceEnds ==
  /\ run.op = "drain"
  /\ IF size + Len(run.buffer) <= Capacity
     THEN Answer("Extend", "none")
          /\ Loop([op |-> "copy", buffer |-> run.buffer, start |-> size, index |-> 0])
     ELSE Answer("Extend", Terminated) /\ Loop(Idle)

CopyStep ==
  /\ run.op = "copy"
  /\ IF run.index < Len(run.buffer)
     THEN /\ cells' = [cells EXCEPT ![run.start + run.index] = run.buffer[run.index + 1]]
          /\ run' = [run EXCEPT !.index = @ + 1]
          /\ UNCHANGED size
     ELSE size' = run.start + Len(run.buffer) /\ run' = Idle /\ UNCHANGED cells
  /\ UNCHANGED reply

(* Shuffle: the random index of a swap is an expression, drawn once for    *)
(* its load and once more for its store.                                   *)

Shuffle == Answer("Shuffle", "none") /\ Loop([op |-> "shuffle", index |-> 0])

ShuffleStep ==
  /\ run.op = "shuffle"
  /\ IF run.index < size
     THEN /\ \E i, j \in run.index..size - 1 :
               cells' = [cells EXCEPT ![run.index] = cells[i], ![j] = cells[run.index]]
          /\ run' = [run EXCEPT !.index = @ + 1]
     ELSE run' = Idle /\ UNCHANGED cells
  /\ UNCHANGED <<size, reply>>

-----------------------------------------------------------------------------
Arguments == -1..Capacity

Operation ==
  /\ run = Idle
  /\ \/ \E v \in Elements :
          AppendOne(v) \/ RemoveValue(v) \/ Index(v) \/ LastIndex(v) \/ Count(v)
     \/ \E i \in Arguments : Get(i) \/ RemoveIndex(i)
     \/ \E i \in Arguments, v \in Elements : Set(i, v) \/ Insert(i, v)
     \/ \E i, j \in Arguments : Swap(i, j)
     \/ IndexMinFunc \/ IndexMaxFunc \/ MinFunc \/ MaxFunc
     \/ Clear \/ ReverseAll \/ SortFunc \/ Shuffle \/ Extend

LoopStep ==
  \/ RemoveStep \/ InsertStep \/ ReverseStep \/ SortLoadKey \/ SortShift
  \/ ShuffleStep \/ BodyUses \/ SequenceEnds \/ CopyStep
  \/ \E v \in Elements : Yield(v)

Next == Operation \/ LoopStep

-----------------------------------------------------------------------------
(* Pop, apart: it does not do what a sequence's would.  The size is stored *)
(* first; the element is read where the new size, again less one, points.  *)

Pop ==
  /\ run = Idle
  /\ \/ /\ size > 0
        /\ size' = size - 1
        /\ Answer("Pop", IF size' - 1 \in Positions THEN cells[size' - 1] ELSE Junk)
        /\ UNCHANGED <<cells, run>>
     \/ size = 0 /\ Keep("Pop", Terminated)

-----------------------------------------------------------------------------
\* The sequence a VarArray stands for.  A loop that moves cells has taken
\* effect when it starts: what the cells will hold follows from its locals.
InsertedSeq ==
  LET before == [i \in 1..run.cursor |-> cells[i - 1]]
      after == [i \in 1..size - run.cursor |-> cells[run.cursor + i]]
  IN InsertAt(before \o after, run.index + 1, run.value)
ReversedSeq ==
  [p \in 1..size |-> IF p <= run.index \/ p > size - run.index
                     THEN cells[p - 1] ELSE cells[size - p]]
SortedSeq(contents) ==
  LET Precedes(i, j) == Key[contents[i]] < Key[contents[j]]
                          \/ (Key[contents[i]] = Key[contents[j]] /\ i < j)
      Rank(j) == Cardinality({i \in DOMAIN contents : Precedes(i, j)})
  IN [p \in DOMAIN contents |-> contents[CHOOSE j \in DOMAIN contents : Rank(j) = p - 1]]

Sequence ==
  CASE run.op = "remove"  -> RemoveAt(View, run.cursor + 1)
    [] run.op = "insert"  -> InsertedSeq
    [] run.op = "reverse" -> ReversedSeq
    [] run.op = "sort"    -> SortedSeq(View)
    [] run.op = "shift"   -> SortedSeq([View EXCEPT ![run.cursor + 1] = run.key])
    [] run.op = "copy"    -> View \o run.buffer
    [] OTHER              -> View

Abstract == INSTANCE BoundedSequence WITH seq <- Sequence

(***************************************************************************)
(* Pop is a removal (docs/dsl-reference.md:373): the element it returns is *)
(* the one it took off.                                                    *)
(***************************************************************************)
PopReturnsRemoved ==
  [][reply' # reply /\ reply'[1] = "Pop" /\ reply'[2] # Terminated =>
       View = Append(View', reply'[2])]_vars

-----------------------------------------------------------------------------
(***************************************************************************)
(* Maps and sets: entries of a key and a value, or keys alone, in the same *)
(* cells, found by looking through the keys and removed by the same loop.  *)
(***************************************************************************)
VARIABLE kind   \* "array", "map" or "set"

containerVars == <<vars, kind>>

Entry(k, v) == [key |-> k, value |-> v]

\* The first entry with the key; containerFind goes on to the next until the
\* keys are equal.
FindKey(k) == Scan(LAMBDA found, i : IF found = -1 /\ cells[i].key = k THEN i ELSE found, -1)
Found(k) == FindKey(k) # -1
ValueOf(k) == cells[FindKey(k)].value

Stored(op, result, entry) ==
  IF HasCapacity
  THEN /\ cells' = [cells EXCEPT ![size] = entry] /\ size' = size + 1
       /\ Answer(op, result) /\ UNCHANGED run
  ELSE Keep(op, Terminated)

Removed(op, k, result, missing) ==
  IF Found(k) THEN Answer(op, result) /\ Loop([op |-> "remove", cursor |-> FindKey(k)])
              ELSE Keep(op, missing)

LookedUp(k) == IF Found(k) THEN <<ValueOf(k), TRUE>> ELSE <<"zero", FALSE>>

-----------------------------------------------------------------------------
MapContains(k) == Keep("Contains", Found(k))
MapGet(k) == Keep("Get", IF Found(k) THEN ValueOf(k) ELSE Terminated)
MapGetOK(k) == Keep("GetOK", LookedUp(k))
MapPop(k) == Removed("Pop", k, LookedUp(k), LookedUp(k))
MapDelete(k) == Removed("Delete", k, "true", "false")
\* mutant: the entry is added without a look for its key
MapAppend(k, v) == Stored("Set", "none", Entry(k, v))
MapSet(k, v) ==
  IF Found(k)
  THEN /\ cells' = [cells EXCEPT ![FindKey(k)].value = v]
       /\ Answer("Set", "none") /\ UNCHANGED <<size, run>>
  ELSE Stored("Set", "none", Entry(k, v))

MapOperation ==
  \/ \E k \in Keys :
       \/ MapContains(k) \/ MapGet(k) \/ MapGetOK(k) \/ MapPop(k) \/ MapDelete(k)
       \/ \E v \in Values : MapSet(k, v)
  \/ Keep("Len", size)
  \/ Clear

SetContains(k) == Keep("Contains", Found(k))
\* mutant: the value is added without a look for it
SetAppend(k) == Stored("Add", "true", Entry(k, "in"))
SetAdd(k) == IF Found(k) THEN Keep("Add", "false") ELSE Stored("Add", "true", Entry(k, "in"))
SetRemove(k) == Removed("Remove", k, "true", "false")

SetOperation ==
  \/ \E k \in Keys : SetContains(k) \/ SetAdd(k) \/ SetRemove(k)
  \/ Keep("Len", size)
  \/ Clear

ContainerInit == Init /\ kind \in {"array", "map", "set"}

ContainerNext ==
  /\ \/ kind = "array" /\ Next
     \/ kind = "map" /\ run = Idle /\ MapOperation
     \/ kind = "set" /\ run = Idle /\ SetOperation
     \/ kind # "array" /\ RemoveStep
  /\ UNCHANGED kind

ContainerSpec == ContainerInit /\ [][ContainerNext]_containerVars

ArrayPopSpec ==
  Init /\ kind = "array" /\ [][(Next \/ Pop) /\ UNCHANGED kind]_containerVars

-----------------------------------------------------------------------------
(***************************************************************************)
(* Every operation on an array is atomic on a sequence and answers what    *)
(* the sequence would: the loops lose, repeat or reorder nothing, an       *)
(* Extend that fails changes nothing, equal elements keep their order in   *)
(* SortFunc and the first of them is the minimum and the maximum           *)
(* (docs/dsl-reference.md:373, docs/performance.md:46).                    *)
(***************************************************************************)
ArrayImplementsSequence ==
  /\ kind = "array" => Abstract!Init
  /\ [][kind = "array" => [Abstract!Next]_<<Sequence, reply>>]_containerVars

\* The map the entries stand for; with a key twice the first counts.
MapOf(entries) ==
  [k \in {entries[i].key : i \in DOMAIN entries} |->
     entries[SelectInSeq(entries, LAMBDA entry : entry.key = k)].value]
Contents == MapOf(IF kind = "array" THEN <<>> ELSE Sequence)

AbstractMap == INSTANCE BoundedMap WITH map <- Contents

(***************************************************************************)
(* Every operation of an ArrayMap is atomic on a map from unique keys and  *)
(* answers what the map would, over any sequence of operations: no key is  *)
(* there twice, a removal takes the key off and keeps the others, a full   *)
(* map still takes new values for the keys it has, and Len is the number   *)
(* of keys (sonolus/containers.go:53).                                     *)
(***************************************************************************)
ImplementsMap ==
  /\ kind = "map" => AbstractMap!Init
  /\ [][kind = "map" => [AbstractMap!MapNext]_<<Contents, reply>>]_containerVars

(***************************************************************************)
(* The same of an ArraySet and a set (sonolus/containers.go:71): what Add  *)
(* and Remove answer is whether they changed it.                           *)
(***************************************************************************)
ImplementsSet ==
  /\ kind = "set" => AbstractMap!Init
  /\ [][kind = "set" => [AbstractMap!SetNext]_<<Contents, reply>>]_containerVars
=============================================================================
