----------------------------- MODULE BoundedMap -----------------------------
(***************************************************************************)
(* What an ArrayMap and an ArraySet promise (sonolus/containers.go): a map *)
(* of at most Capacity keys, and a set of at most Capacity values.  A set  *)
(* is the domain of a map here.  An operation whose check fails ends the   *)
(* callback and leaves the map as it was.                                  *)
(***************************************************************************)
EXTENDS Integers, FiniteSets, Functions

CONSTANTS Keys, Values, Capacity

VARIABLES
  map,    \* from the keys that are there to their values
  reply   \* the last operation that took effect and its result

Terminated == "terminated"
Present == DOMAIN map
Boolean(b) == IF b THEN "true" ELSE "false"
Answer(op, value) == reply' = <<op, value>>
Keep(op, value) == Answer(op, value) /\ UNCHANGED map
Without(k) == Restrict(map, Present \ {k})
With(k, v) == [key \in Present \cup {k} |-> IF key = k THEN v ELSE map[key]]
HasRoomFor(k) == k \in Present \/ Cardinality(Present) < Capacity

Init == map = [k \in {} |-> "none"] /\ reply = <<"new", "none">>

Look(k) ==
  \/ Keep("Contains", k \in Present)
  \/ Keep("Get", IF k \in Present THEN map[k] ELSE Terminated)
  \/ Keep("GetOK", IF k \in Present THEN <<map[k], TRUE>> ELSE <<"zero", FALSE>>)
Put(k, v) == IF HasRoomFor(k) THEN Answer("Set", "none") /\ map' = With(k, v)
                              ELSE Keep("Set", Terminated)
Remove(k) ==
  \/ Answer("Delete", Boolean(k \in Present)) /\ map' = Without(k)
  \/ /\ Answer("Pop", IF k \in Present THEN <<map[k], TRUE>> ELSE <<"zero", FALSE>>)
     /\ map' = Without(k)
Clear == Answer("Clear", "none") /\ map' = [k \in {} |-> "none"]

MapNext ==
  \/ \E k \in Keys : Look(k) \/ Remove(k) \/ \E v \in Values : Put(k, v)
  \/ Keep("Len", Cardinality(Present))
  \/ Clear

Add(k) ==
  IF k \in Present THEN Keep("Add", "false")
  ELSE IF HasRoomFor(k) THEN Answer("Add", "true") /\ map' = With(k, "in")
  ELSE Keep("Add", Terminated)

SetNext ==
  \/ \E k \in Keys :
       \/ Keep("Contains", k \in Present)
       \/ Add(k)
       \/ Answer("Remove", Boolean(k \in Present)) /\ map' = Without(k)
  \/ Keep("Len", Cardinality(Present))
  \/ Clear
=============================================================================
