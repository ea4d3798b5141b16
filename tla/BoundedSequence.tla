--------------------------- MODULE BoundedSequence ---------------------------
(***************************************************************************)
(* What a VarArray promises (docs/dsl-reference.md:373): a sequence of at  *)
(* most Capacity elements whose operations are atomic, with a stable sort, *)
(* stable minimum and maximum, and an Extend that takes all or nothing.    *)
(* Indices count from 0, as in Go.  An operation whose check fails ends    *)
(* the callback and leaves the sequence as it was.                         *)
(***************************************************************************)
EXTENDS Integers, Sequences, FiniteSets, SequencesExt

CONSTANTS
  Elements,
  Key,       \* what the comparator looks at
  Capacity

VARIABLES
  seq,    \* the elements
  reply   \* the last operation that took effect and its result

Terminated == "terminated"
Answer(op, value) == reply' = <<op, value>>
Keep(op, value) == Answer(op, value) /\ UNCHANGED seq
Indices == 0..Len(seq) - 1

Init == seq = <<>> /\ reply = <<"new", "none">>

\* Sorted by key, equal keys in their order.
StableSort(s) ==
  LET Precedes(i, j) == Key[s[i]] < Key[s[j]] \/ (Key[s[i]] = Key[s[j]] /\ i < j)
      Rank(j) == Cardinality({i \in DOMAIN s : Precedes(i, j)})
  IN [p \in DOMAIN s |-> s[CHOOSE j \in DOMAIN s : Rank(j) = p - 1]]

\* The first index whose element is extreme, -1 without elements.
FirstBy(Before(_, _)) ==
  LET best == {i \in Indices : \A j \in Indices : ~Before(Key[seq[j + 1]], Key[seq[i + 1]])}
  IN IF best = {} THEN -1 ELSE CHOOSE i \in best : \A j \in best : i <= j
Less(a, b) == a < b
Greater(a, b) == a > b
ElementAt(i) == IF i = -1 THEN Terminated ELSE seq[i + 1]

Matches(v) == {i \in Indices : seq[i + 1] = v}

Get(i) == Keep("Get", IF i \in Indices THEN seq[i + 1] ELSE Terminated)
Set(i, v) ==
  IF i \in Indices THEN Answer("Set", "none") /\ seq' = [seq EXCEPT ![i + 1] = v]
                   ELSE Keep("Set", Terminated)
AppendOne(v) ==
  IF Len(seq) < Capacity THEN Answer("Append", "none") /\ seq' = Append(seq, v)
                         ELSE Keep("Append", Terminated)
Insert(i, v) ==
  IF i \in 0..Len(seq) /\ Len(seq) < Capacity
  THEN Answer("Insert", "none") /\ seq' = InsertAt(seq, i + 1, v)
  ELSE Keep("Insert", Terminated)
RemoveIndex(i) ==
  IF i \in Indices THEN Answer("RemoveAt", seq[i + 1]) /\ seq' = RemoveAt(seq, i + 1)
                   ELSE Keep("RemoveAt", Terminated)
RemoveValue(v) ==
  IF Matches(v) # {}
  THEN Answer("Remove", TRUE)
       /\ seq' = RemoveAt(seq, 1 + CHOOSE i \in Matches(v) : \A j \in Matches(v) : i <= j)
  ELSE Keep("Remove", FALSE)
Swap(i, j) ==
  IF i \in Indices /\ j \in Indices
  THEN Answer("Swap", "none") /\ seq' = [seq EXCEPT ![i + 1] = seq[j + 1], ![j + 1] = seq[i + 1]]
  ELSE Keep("Swap", Terminated)
Index(v) ==
  Keep("Index", IF Matches(v) = {} THEN -1
                ELSE CHOOSE i \in Matches(v) : \A j \in Matches(v) : i <= j)
LastIndex(v) ==
  Keep("LastIndex", IF Matches(v) = {} THEN -1
                    ELSE CHOOSE i \in Matches(v) : \A j \in Matches(v) : j <= i)
Count(v) == Keep("Count", Cardinality(Matches(v)))
IndexMinFunc == Keep("IndexMinFunc", FirstBy(Less))
IndexMaxFunc == Keep("IndexMaxFunc", FirstBy(Greater))
MinFunc == Keep("MinFunc", ElementAt(FirstBy(Less)))
MaxFunc == Keep("MaxFunc", ElementAt(FirstBy(Greater)))
Clear == Answer("Clear", "none") /\ seq' = <<>>
ReverseAll == Answer("Reverse", "none") /\ seq' = Reverse(seq)
SortFunc == Answer("SortFunc", "none") /\ seq' = StableSort(seq)
\* What Shuffle promises is less than a rearrangement: as the code draws its
\* random indices it may repeat an element and lose another.
Shuffle == reply' = <<"Shuffle", "none">> /\ seq' \in [DOMAIN seq -> ToSet(seq)]
Extend ==
  \/ \E n \in 0..Capacity - Len(seq) : \E values \in [1..n -> Elements] :
       Answer("Extend", "none") /\ seq' = seq \o values
  \/ Keep("Extend", Terminated)

Next ==
  \/ \E v \in Elements :
       AppendOne(v) \/ RemoveValue(v) \/ Index(v) \/ LastIndex(v) \/ Count(v)
  \/ \E i \in -1..Capacity : Get(i) \/ RemoveIndex(i)
  \/ \E i \in -1..Capacity, v \in Elements : Set(i, v) \/ Insert(i, v)
  \/ \E i, j \in -1..Capacity : Swap(i, j)
  \/ IndexMinFunc \/ IndexMaxFunc \/ MinFunc \/ MaxFunc
  \/ Clear \/ ReverseAll \/ SortFunc \/ Shuffle \/ Extend

Spec == Init /\ [][Next]_<<seq, reply>>
=============================================================================
