------------------------------ MODULE Streams ------------------------------
(***************************************************************************)
(* Replay streams.  Play and watch declare the same struct of streams      *)
(* (frontend/stream.go), whose elements get consecutive identifiers, one   *)
(* for each slot of a value.  Play writes values under keys; the recording *)
(* is given to watch, which reads values, looks for neighbouring keys and  *)
(* ranges over keys (frontend/lower.go).  A stream is a list of entries in *)
(* the order of their keys (simexec/execute.go).                           *)
(*                                                                         *)
(* Keys count halves, so 2 is the key 1.0; interpolation is kept as the    *)
(* two entries it is between.  An execution that meets an identifier above *)
(* MaxId fails and has no result, so such handles are not used.            *)
(***************************************************************************)
EXTENDS Integers, Sequences, FiniteSets

CONSTANTS
  Declarations,   \* what a mode may declare: sequences of fields
  SlotValues,     \* what a slot is written with
  StreamKeys,     \* keys of Set
  Times,          \* keys asked for, and times of frames
  LowLevelCalls,  \* writes by constant identifier: <<id, key, value>>
  MaxId

Field == [name : STRING, value : STRING, kind : {"stream", "data"}, slots : Nat, length : Nat \ {0}]

ASSUME StreamAssumption ==
  /\ Declarations \subseteq Seq(Field)
  /\ StreamKeys \subseteq Int /\ Times \subseteq Int
  /\ MaxId \in Nat
  /\ LowLevelCalls \subseteq Int \X Int \X SlotValues

VARIABLES
  play, watch,  \* the declarations of the two modes
  phase,        \* "play", then "watch"
  streams,      \* streams[id], a sequence of entries
  written,      \* written[h][key], the values play wrote (history)
  iterator,     \* the range statement being executed
  seen          \* what it has yielded

streamVars == <<play, watch, phase, streams, written, iterator, seen>>

Ids == 0..MaxId
Entry(key, value) == [key |-> key, value |-> value]

---------------------------------------------------------------------------
(* Declarations: a field is a Stream or StreamData of values of so many    *)
(* slots, or an array of length such, whose elements a handle indexes.     *)

ElementSize(f) == IF f.kind = "data" \/ f.slots = 0 THEN 1 ELSE f.slots
Size(f) == f.length * ElementSize(f)

Offset(d) == LET after[n \in 0..Len(d)] == IF n = 0 THEN 1 ELSE after[n - 1] + Size(d[n]) IN after
StreamSize(d) == Offset(d)[Len(d)]

\* mutant: layouts are not compared.
DeclaredNames(f) == [name |-> f.name, type |-> <<f.length, f.value>>, kind |-> f.kind]

\* What compareStreams compares; the type of a field has the length in it.
Declared(f) ==
  [name |-> f.name, type |-> <<f.length, f.value>>, kind |-> f.kind, slots |-> f.slots, size |-> Size(f)]
SameStreams(p, w) == Len(p) = Len(w) /\ \A n \in DOMAIN p : Declared(p[n]) = Declared(w[n])

Handles(d) == UNION {{n} \X (0..d[n].length - 1) : n \in DOMAIN d}
FieldOf(d, h) == d[h[1]]
Width(d, h) == Size(FieldOf(d, h)) \div FieldOf(d, h).length
FirstId(d, h) == Offset(d)[h[1] - 1] + h[2] * Width(d, h)
IdsOf(d, h) == FirstId(d, h)..FirstId(d, h) + Width(d, h) - 1
Accepted(d, h) == IdsOf(d, h) \subseteq Ids

---------------------------------------------------------------------------
(* One stream. *)

\* The first entry at or above the key, or the place after the last.
Search(s, key) ==
  CHOOSE i \in 1..Len(s) + 1 :
    /\ \A j \in 1..i - 1 : s[j].key < key
    /\ i <= Len(s) => s[i].key >= key
Found(s, key) == Search(s, key) <= Len(s) /\ s[Search(s, key)].key = key

Inserted(s, i, e) == [j \in 1..Len(s) + 1 |-> IF j < i THEN s[j] ELSE IF j = i THEN e ELSE s[j - 1]]
Store(s, key, value) ==
  IF Found(s, key) THEN [s EXCEPT ![Search(s, key)].value = value]
  ELSE Inserted(s, Search(s, key), Entry(key, value))

KeyAt(s, i, key) == IF i \in DOMAIN s THEN s[i].key ELSE key
PreviousIn(s, key) == KeyAt(s, Search(s, key) - 1, key)
NextIn(s, key) == KeyAt(s, IF Found(s, key) THEN Search(s, key) + 1 ELSE Search(s, key), key)

Between(left, right, key) == <<left, right, key>>
ValueIn(s, key) ==
  LET i == Search(s, key) IN
  IF s = <<>> THEN 0
  ELSE IF Found(s, key) THEN s[i].value
  ELSE IF i = 1 THEN s[1].value
  ELSE IF i > Len(s) THEN s[Len(s)].value
  ELSE Between(s[i - 1], s[i], key)

\* What the executor does to the streams it is given.
Unique(s) == \A i, j \in DOMAIN s : s[i].key = s[j].key => i = j
Entries(s) == {s[i] : i \in DOMAIN s}
InOrder(s) ==
  [i \in DOMAIN s |-> CHOOSE e \in Entries(s) : Cardinality({j \in DOMAIN s : s[j].key < e.key}) = i - 1]

---------------------------------------------------------------------------
(* Play. *)

NothingWritten == [key \in {} |-> <<>>]
With(w, key, v) == [k \in DOMAIN w \cup {key} |-> IF k = key THEN v ELSE w[k]]
Written(h, key, v) == written' = [written EXCEPT ![h] = With(@, key, v)]

\* Stream.Set: each slot of the value goes to a stream of its own.
StoreSlots(h, key, v) ==
  [id \in Ids |-> IF id \in IdsOf(play, h) THEN Store(streams[id], key, v[id - FirstId(play, h) + 1])
                  ELSE streams[id]]
Set(h, key, v) ==
  /\ FieldOf(play, h).kind = "stream" /\ FieldOf(play, h).slots = Width(play, h)
  /\ streams' = StoreSlots(h, key, v)
  /\ Written(h, key, v)

\* StreamData.Set: slot n at the key n - 1 of one stream, zeros half a key
\* beside it.
StoreAround(s, key, value) == Store(Store(Store(s, key - 1, 0), key, value), key + 1, 0)
StoreData(s, v) ==
  LET after[n \in 0..Len(v)] == IF n = 0 THEN s ELSE StoreAround(after[n - 1], 2 * (n - 1), v[n])
  IN after[Len(v)]
SetData(h, v) ==
  /\ FieldOf(play, h).kind = "data"
  /\ streams' = [streams EXCEPT ![FirstId(play, h)] = StoreData(@, v)]
  /\ Written(h, 0, v)

\* A write by identifier may not touch a declared stream.
Overlaps(d, id) == StreamSize(d) > 1 /\ id >= 1 /\ id < StreamSize(d)
LowLevelSet(id, key, value) ==
  /\ id \in Ids /\ ~Overlaps(play, id)
  /\ streams' = [streams EXCEPT ![id] = Store(@, key, value)]
  /\ UNCHANGED written

SlotsOf(f) == [1..f.slots -> SlotValues]
Play ==
  /\ phase = "play"
  /\ \/ \E h \in Handles(play) :
          /\ Accepted(play, h)
          /\ \E v \in SlotsOf(FieldOf(play, h)) : (\E key \in StreamKeys : Set(h, key, v)) \/ SetData(h, v)
     \/ \E call \in LowLevelCalls : LowLevelSet(call[1], call[2], call[3])
  /\ UNCHANGED <<play, watch, phase, iterator, seen>>

Replay ==
  /\ phase = "play" /\ \A id \in Ids : Unique(streams[id])
  /\ phase' = "watch"
  /\ streams' = [id \in Ids |-> InOrder(streams[id])]
  /\ UNCHANGED <<play, watch, written, iterator, seen>>

---------------------------------------------------------------------------
(* Watch: queries.  Keys are those of the first slot. *)

Keyed(h) == streams[FirstId(watch, h)]
Has(h, key) == Found(Keyed(h), key)
Neighbour(h, key, up) == IF up THEN NextIn(Keyed(h), key) ELSE PreviousIn(Keyed(h), key)
Get(h, key) == [n \in 1..Width(watch, h) |-> ValueIn(streams[FirstId(watch, h) + n - 1], key)]

Passes(a, b, up) == IF up THEN a > b ELSE a < b
HasNeighbour(h, key, up) == Passes(Neighbour(h, key, up), key, up)
NeighbourOrDefault(h, key, up, fallback) == IF HasNeighbour(h, key, up) THEN Neighbour(h, key, up) ELSE fallback
NeighbourInclusive(h, key, up) == IF Has(h, key) THEN key ELSE Neighbour(h, key, up)
GetNeighbour(h, key, up) == Get(h, Neighbour(h, key, up))
GetNeighbourInclusive(h, key, up) == Get(h, NeighbourInclusive(h, key, up))
GetData(h) == [n \in 1..FieldOf(watch, h).slots |-> ValueIn(Keyed(h), 2 * (n - 1))]

---------------------------------------------------------------------------
(* Watch: for key, value := range.  From starts at a key that is there or  *)
(* the next; SincePreviousFrame at the first key after the time of the     *)
(* previous frame, and ends at the time of this one.  Nothing is written,  *)
(* so a behaviour has one range statement.                                 *)

NoIterator == [pc |-> "none", stream |-> <<>>, up |-> TRUE, frame |-> FALSE, start |-> 0, end |-> 0, current |-> 0]

Watched(h) == FieldOf(watch, h).kind = "stream" /\ Accepted(watch, h)
Begin(h, up, frame, start, end, first) ==
  /\ iterator = NoIterator /\ Watched(h)
  /\ iterator' = [pc |-> "running", stream |-> h, up |-> up, frame |-> frame,
                  start |-> start, end |-> end, current |-> first]
  /\ seen' = <<>>
From(h, up, start) == Begin(h, up, FALSE, start, start, NeighbourInclusive(h, start, up))
SincePreviousFrame(h, now, delta) ==
  Begin(h, TRUE, TRUE, now - delta, now, Neighbour(h, now - delta, TRUE))

\* mutant: a key at the very time of the frame is left to the next one.
ArrivedEarly ==
  Has(iterator.stream, iterator.current) /\ (iterator.frame => iterator.current < iterator.end)

\* One turn of the loop, while it has not ended: its body may break out of it.
Arrived == Has(iterator.stream, iterator.current) /\ (iterator.frame => iterator.current <= iterator.end)
Turn ==
  /\ iterator.pc = "running" /\ Arrived
  /\ seen' = Append(seen, Entry(iterator.current, Get(iterator.stream, iterator.current)))
  /\ \/ iterator' = [iterator EXCEPT !.pc = "left"]
     \/ HasNeighbour(iterator.stream, iterator.current, iterator.up)
        /\ iterator' = [iterator EXCEPT !.current = Neighbour(iterator.stream, @, iterator.up)]
     \/ ~HasNeighbour(iterator.stream, iterator.current, iterator.up)
        /\ iterator' = [iterator EXCEPT !.pc = "returned"]
Return ==
  /\ iterator.pc = "running" /\ ~Arrived
  /\ iterator' = [iterator EXCEPT !.pc = "returned"]
  /\ UNCHANGED seen

Watch ==
  /\ phase = "watch"
  /\ \/ \E h \in Handles(watch), start \in Times : \E up \in BOOLEAN : From(h, up, start)
     \/ \E h \in Handles(watch), now, before \in Times :
          before <= now /\ SincePreviousFrame(h, now, now - before)
     \/ Turn \/ Return
  /\ UNCHANGED <<play, watch, phase, streams, written>>

---------------------------------------------------------------------------
StreamInit ==
  /\ play \in Declarations /\ watch \in Declarations
  /\ SameStreams(play, watch)  \* otherwise nothing is compiled
  /\ phase = "play"
  /\ streams = [id \in Ids |-> <<>>]
  /\ written = [h \in Handles(play) |-> NothingWritten]
  /\ iterator = NoIterator /\ seen = <<>>

StreamNext == Play \/ Replay \/ Watch
StreamSpec == StreamInit /\ [][StreamNext]_streamVars

---------------------------------------------------------------------------
(* Properties *)

Beyond(w, key, up) == {k \in DOMAIN w : Passes(k, key, up)}
Nearest(w, key, up) == CHOOSE k \in Beyond(w, key, up) : \A j \in Beyond(w, key, up) : ~Passes(k, j, up)

\* What n slots written so are at a key.
Recorded(w, key, n) ==
  LET below == Beyond(w, key, FALSE)
      above == Beyond(w, key, TRUE)
      lower == Nearest(w, key, FALSE)
      upper == Nearest(w, key, TRUE)
  IN IF DOMAIN w = {} THEN [slot \in 1..n |-> 0]
     ELSE IF key \in DOMAIN w THEN w[key]
     ELSE IF below = {} THEN w[upper]
     ELSE IF above = {} THEN w[lower]
     ELSE [slot \in 1..n |-> Between(Entry(lower, w[lower][slot]), Entry(upper, w[upper][slot]), key)]

ReadsStream(h, w, key) ==
  /\ Has(h, key) <=> key \in DOMAIN w
  /\ Get(h, key) = Recorded(w, key, Width(watch, h))
  /\ \A up \in BOOLEAN :
       /\ HasNeighbour(h, key, up) <=> Beyond(w, key, up) # {}
       /\ Neighbour(h, key, up) = IF Beyond(w, key, up) = {} THEN key ELSE Nearest(w, key, up)
ReadsData(h, w) == DOMAIN w # {} => GetData(h) = w[0]

\* Watch finds what play wrote last, whole, under the field of the same
\* name: at a key the value written there, between two keys what lies
\* between their values in every slot, and as neighbours of a key the nearest
\* that were written.  No other stream, slot or low-level write gets in.
ReadsBack ==
  phase = "watch" =>
    \A h \in Handles(watch) : Accepted(watch, h) =>
      IF FieldOf(watch, h).kind = "data" THEN ReadsData(h, written[h])
      ELSE \A key \in Times : ReadsStream(h, written[h], key)

\* A frame that starts at the last key has it once more.
InFrame(w, it, key) ==
  /\ key <= it.end
  /\ key > it.start \/ (key = it.start /\ Beyond(w, key, TRUE) = {})
Due(w, it) ==
  {key \in DOMAIN w : IF it.frame THEN InFrame(w, it, key) ELSE key = it.start \/ Passes(key, it.start, it.up)}

\* A range statement yields the keys it is about in their order, each once,
\* with its whole value: all if it runs to its end, without a gap if the body
\* breaks.
VisitsDue ==
  iterator # NoIterator =>
    LET w == written[iterator.stream]
        visited == {seen[i].key : i \in DOMAIN seen}
    IN /\ \A i, j \in DOMAIN seen : i < j => Passes(seen[j].key, seen[i].key, iterator.up)
       /\ \A i \in DOMAIN seen : seen[i].key \in DOMAIN w /\ seen[i].value = w[seen[i].key]
       /\ visited \subseteq Due(w, iterator)
       /\ \A key \in Due(w, iterator) \ visited, k \in visited : Passes(key, k, iterator.up)
       /\ iterator.pc = "returned" => visited = Due(w, iterator)
=============================================================================
