---------------------------- MODULE StorageProofs ----------------------------
(***************************************************************************)
(* What a running engine keeps, for all declarations, keys and values and  *)
(* all programs: a replay reads back what was recorded, and ranges over it *)
(* completely and in order; package objects in memory are the objects of   *)
(* the program; locals that become one or share Temporary Memory do not    *)
(* disturb each other, nor do the copies of an edge.                       *)
(***************************************************************************)
EXTENDS PackageState, Streams, Locals, FiniteSetTheorems, SequenceTheorems, WellFoundedInduction, TLAPS

-----------------------------------------------------------------------------
(***************************************************************************)
(* Induction over the naturals, as: a set with 0 and closed under          *)
(* successor has every natural.                                            *)
(***************************************************************************)
LessThan == {pair \in Nat \X Nat : pair[1] < pair[2]}

LEMMA LessThanWellFounded == IsWellFoundedOn(LessThan, Nat)
BY NatLessThanWellFounded DEF OpToRel, LessThan

LEMMA LeastNat ==
  ASSUME NEW T, T \subseteq Nat, T # {}
  PROVE  \E n \in T : \A m \in T : n <= m
<1>1. PICK n \in T : \A m \in T : ~(<<m, n>> \in LessThan)
  BY LessThanWellFounded, WFMin
<1>2. ASSUME NEW m \in T PROVE n <= m
  <2>1. m \in Nat /\ n \in Nat  OBVIOUS
  <2>2. ~(m < n)  BY <1>1, <2>1 DEF LessThan
  <2> QED  BY <2>1, <2>2
<1> QED  BY <1>2

LEMMA SetInduction ==
  ASSUME NEW S, 0 \in S, \A n \in Nat : n \in S => n + 1 \in S
  PROVE  \A n \in Nat : n \in S
<1> SUFFICES ASSUME Nat \ S # {} PROVE FALSE  OBVIOUS
<1>1. PICK n \in Nat \ S : \A m \in Nat \ S : n <= m  BY LeastNat
<1>2. n - 1 \in Nat /\ n - 1 \in S  BY <1>1
<1> QED  BY <1>1, <1>2

-----------------------------------------------------------------------------
(***************************************************************************)
(* One stream is a function from keys to values, kept in the order of the  *)
(* keys.                                                                   *)
(***************************************************************************)
Stored == SlotValues \cup {0}
EntrySet == [key : Int, value : Stored]
Ordered(s) == \A i, j \in DOMAIN s : i < j => s[i].key < s[j].key
IsStream(s) == s \in Seq(EntrySet) /\ Ordered(s)
KeysOf(s) == {s[i].key : i \in DOMAIN s}
Contents(s) == [key \in KeysOf(s) |-> s[CHOOSE i \in DOMAIN s : s[i].key = key].value]

\* i is the first index of an entry at or above the key.
IsFirst(s, key, i) ==
  /\ i \in 1..Len(s) + 1
  /\ \A j \in 1..i - 1 : s[j].key < key
  /\ i <= Len(s) => s[i].key >= key

LEMMA StreamShape ==
  ASSUME NEW s, IsStream(s)
  PROVE  /\ Len(s) \in Nat /\ DOMAIN s = 1..Len(s)
         /\ \A i \in 1..Len(s) : s[i] \in EntrySet /\ s[i].key \in Int /\ s[i].value \in Stored
         /\ \A i, j \in 1..Len(s) : i < j => s[i].key < s[j].key
<1>1. s \in Seq(EntrySet)  BY DEF IsStream
<1>2. Len(s) \in Nat /\ DOMAIN s = 1..Len(s) /\ \A i \in 1..Len(s) : s[i] \in EntrySet  BY <1>1
<1>3. \A e \in EntrySet : e.key \in Int /\ e.value \in Stored  BY DEF EntrySet
<1> QED  BY <1>2, <1>3 DEF IsStream, Ordered

\* The search ends at the first entry at or above the key.
LEMMA SearchIs ==
  ASSUME NEW s, IsStream(s), NEW key \in Int
  PROVE  IsFirst(s, key, Search(s, key))
<1>0. Len(s) \in Nat /\ \A i \in 1..Len(s) : s[i].key \in Int  BY StreamShape
<1> DEFINE T == {i \in 1..Len(s) + 1 : i <= Len(s) => s[i].key >= key}
<1>1. T \subseteq Nat /\ T # {}
  <2>1. Len(s) + 1 \in T  BY <1>0
  <2> QED  BY <2>1, <1>0
<1>2. PICK i \in T : \A m \in T : i <= m  BY <1>1, LeastNat
<1>3. ASSUME NEW j \in 1..i - 1 PROVE s[j].key < key
  <2>1. j \notin T /\ j \in 1..Len(s)  BY <1>0, <1>2
  <2> QED  BY <2>1, <1>0
<1>4. IsFirst(s, key, i)  BY <1>2, <1>3 DEF IsFirst
<1> QED  BY <1>4 DEF Search, IsFirst

LEMMA FirstUnique ==
  ASSUME NEW s, IsStream(s), NEW key \in Int, NEW i, IsFirst(s, key, i)
  PROVE  Search(s, key) = i
<1>1. IsFirst(s, key, Search(s, key))  BY SearchIs
<1>2. Len(s) \in Nat /\ \A j \in 1..Len(s) : s[j].key \in Int  BY StreamShape
<1> DEFINE k == Search(s, key)
<1> HIDE DEF k
<1>3. IsFirst(s, key, k)  BY <1>1 DEF k
<1>4. ~(i < k)  BY <1>2, <1>3 DEF IsFirst
<1>5. ~(k < i)  BY <1>2, <1>3 DEF IsFirst
<1>6. i \in Int /\ k \in Int  BY <1>2, <1>3 DEF IsFirst
<1> QED  BY <1>4, <1>5, <1>6 DEF k

LEMMA FoundIs ==
  ASSUME NEW s, IsStream(s), NEW key \in Int
  PROVE  /\ Found(s, key) <=> key \in KeysOf(s)
         /\ \A i \in DOMAIN s : s[i].key = key => Search(s, key) = i
<1>0. /\ Len(s) \in Nat /\ DOMAIN s = 1..Len(s)
      /\ \A i \in 1..Len(s) : s[i].key \in Int
      /\ \A i, j \in 1..Len(s) : i < j => s[i].key < s[j].key
  BY StreamShape
<1>1. ASSUME NEW i \in 1..Len(s), s[i].key = key PROVE Search(s, key) = i
  <2>1. IsFirst(s, key, i)  BY <1>0, <1>1 DEF IsFirst
  <2> QED  BY <2>1, FirstUnique
<1>2. IsFirst(s, key, Search(s, key))  BY SearchIs
<1>3. ASSUME key \in KeysOf(s) PROVE Found(s, key)
  <2>1. PICK i \in 1..Len(s) : s[i].key = key  BY <1>0, <1>3 DEF KeysOf
  <2> QED  BY <1>0, <1>1, <2>1 DEF Found
<1>4. ASSUME Found(s, key) PROVE key \in KeysOf(s)
  <2>1. Search(s, key) \in 1..Len(s)  BY <1>0, <1>2, <1>4 DEF Found, IsFirst
  <2> QED  BY <1>0, <1>4, <2>1 DEF Found, KeysOf
<1> QED  BY <1>0, <1>1, <1>3, <1>4

LEMMA ContentsAt ==
  ASSUME NEW s, IsStream(s), NEW i \in DOMAIN s
  PROVE  /\ s[i].key \in KeysOf(s)
         /\ Contents(s)[s[i].key] = s[i].value
<1>0. /\ Len(s) \in Nat /\ DOMAIN s = 1..Len(s)
      /\ \A j \in 1..Len(s) : s[j].key \in Int
      /\ \A j, k \in 1..Len(s) : j < k => s[j].key < s[k].key
  BY StreamShape
<1>1. s[i].key \in KeysOf(s)  BY DEF KeysOf
<1>2. ASSUME NEW j \in DOMAIN s, s[j].key = s[i].key PROVE j = i
  BY <1>0, <1>2
<1>3. (CHOOSE j \in DOMAIN s : s[j].key = s[i].key) = i  BY <1>2
<1> QED  BY <1>1, <1>3 DEF Contents
LEMMA ContentsIs ==
  ASSUME NEW s, IsStream(s), NEW w, w = [key \in KeysOf(s) |-> w[key]],
         \A i \in DOMAIN s : s[i].value = w[s[i].key]
  PROVE  Contents(s) = w
<1>1. ASSUME NEW key \in KeysOf(s) PROVE Contents(s)[key] = w[key]
  <2>1. PICK i \in DOMAIN s : s[i].key = key  BY DEF KeysOf
  <2> QED  BY <2>1, ContentsAt
<1>2. Contents(s) = [key \in KeysOf(s) |-> Contents(s)[key]]  BY DEF Contents
<1> QED  BY <1>1, <1>2

\* A store changes the value of its key and of no other.
LEMMA StoreIs ==
  ASSUME NEW s, IsStream(s), NEW key \in Int, NEW value \in Stored
  PROVE  /\ IsStream(Store(s, key, value))
         /\ Contents(Store(s, key, value)) = With(Contents(s), key, value)
<1> DEFINE n == Len(s)
           p == Search(s, key)
           e == Entry(key, value)
           w == With(Contents(s), key, value)
<1>0. /\ n \in Nat /\ DOMAIN s = 1..n
      /\ \A i \in 1..n : s[i] \in EntrySet /\ s[i].key \in Int
      /\ \A i, j \in 1..n : i < j => s[i].key < s[j].key
  BY StreamShape
<1>1. /\ p \in 1..n + 1
      /\ \A j \in 1..p - 1 : s[j].key < key
      /\ p <= n => s[p].key >= key
  BY SearchIs DEF IsFirst
<1>2. e \in EntrySet /\ e.key = key /\ e.value = value  BY DEF Entry, EntrySet
<1>3. ASSUME NEW t, IsStream(t), KeysOf(t) = KeysOf(s) \cup {key},
             \A i \in DOMAIN t : t[i] = e \/ (t[i].key # key /\ \E j \in DOMAIN s : t[i] = s[j])
      PROVE  Contents(t) = w
  <2>1. DOMAIN Contents(s) = KeysOf(s)  BY DEF Contents
  <2>2. w = [k \in KeysOf(t) |-> w[k]]  BY <1>3, <2>1 DEF With
  <2>3. \A k \in KeysOf(t) : w[k] = IF k = key THEN value ELSE Contents(s)[k]
    BY <1>3, <2>1 DEF With
  <2>4. ASSUME NEW i \in DOMAIN t PROVE t[i].value = w[t[i].key]
    <3>0. t[i].key \in KeysOf(t)  BY DEF KeysOf
    <3>1. CASE t[i] = e  BY <1>2, <2>3, <3>0, <3>1
    <3>2. CASE t[i].key # key /\ \E j \in DOMAIN s : t[i] = s[j]
      BY <2>3, <3>0, <3>2, ContentsAt
    <3> QED  BY <1>3, <3>1, <3>2
  <2>5. IsStream(t)  BY <1>3
  <2> HIDE DEF w
  <2> QED  BY <2>2, <2>4, <2>5, ContentsIs, Zenon
<1> HIDE DEF n, p, e, w
<1>4. CASE Found(s, key)
  <2> DEFINE t == [s EXCEPT ![p].value = value]
  <2>1. Store(s, key, value) = t  BY <1>4 DEF Store, p
  <2>2. p \in 1..n /\ s[p].key = key  BY <1>0, <1>1, <1>4 DEF Found, p, n
  <2>3. /\ DOMAIN t = 1..n /\ \A i \in 1..n : i # p => t[i] = s[i]
        /\ t[p] = [s[p] EXCEPT !.value = value]
    BY <1>0, <2>2
  <2>4. t[p] = e  BY <1>0, <2>2, <2>3 DEF e, Entry, EntrySet
  <2> HIDE DEF t
  <2>5. t \in Seq(EntrySet)
    <3>1. \A i \in 1..n : t[i] \in EntrySet  BY <1>0, <1>2, <2>3, <2>4
    <3>2. t = [i \in 1..n |-> t[i]]  BY <2>3 DEF t
    <3> QED  BY <1>0, <3>1, <3>2, SeqDef
  <2>6. \A i \in 1..n : t[i].key = s[i].key  BY <1>2, <2>2, <2>3, <2>4
  <2>7. IsStream(t)  BY <1>0, <2>3, <2>5, <2>6 DEF IsStream, Ordered
  <2>8. KeysOf(t) = KeysOf(s) \cup {key}  BY <1>0, <2>2, <2>3, <2>6 DEF KeysOf
  <2>9. \A i \in 1..n : i # p => s[i].key # key  BY <1>0, <2>2
  <2>10. \A i \in DOMAIN t : t[i] = e \/ (t[i].key # key /\ \E j \in DOMAIN s : t[i] = s[j])
    BY <1>0, <2>3, <2>4, <2>9
  <2> QED  BY <1>3, <2>1, <2>7, <2>8, <2>10 DEF w
<1>5. CASE ~Found(s, key)
  <2> DEFINE t == Inserted(s, p, e)
  <2>1. Store(s, key, value) = t  BY <1>5 DEF Store, p, e
  <2>2. p <= n => s[p].key > key
    BY <1>0, <1>1, <1>5 DEF Found, p, n
  <2>3. DOMAIN t = 1..n + 1
        /\ \A i \in 1..n + 1 : t[i] = IF i < p THEN s[i] ELSE IF i = p THEN e ELSE s[i - 1]
    BY DEF Inserted, n
  <2>4. t = [i \in 1..n + 1 |-> t[i]]  BY <2>3 DEF Inserted, n
  <2> HIDE DEF t
  <2>5. /\ \A i \in 1..p - 1 : i \in 1..n /\ t[i] = s[i]
        /\ t[p] = e
        /\ \A i \in p + 1..n + 1 : i - 1 \in 1..n /\ i - 1 >= p /\ t[i] = s[i - 1]
    BY <1>0, <1>1, <2>3
  <2>6. \A i \in 1..n + 1 : i \in 1..p - 1 \/ i = p \/ i \in p + 1..n + 1  BY <1>0, <1>1
  <2>7. t \in Seq(EntrySet)
    <3>1. \A i \in 1..n + 1 : t[i] \in EntrySet  BY <1>0, <1>2, <2>5, <2>6
    <3>2. n + 1 \in Nat  BY <1>0
    <3> QED  BY <2>4, <3>1, <3>2, SeqDef
  <2>8. /\ \A i \in 1..p - 1 : t[i].key < key
        /\ t[p].key = key
        /\ \A i \in p + 1..n + 1 : t[i].key > key
    <3>1. ASSUME NEW i \in p + 1..n + 1 PROVE t[i].key > key
      <4>1. i - 1 \in 1..n /\ i - 1 >= p /\ t[i] = s[i - 1]  BY <2>5
      <4>2. p \in 1..n /\ s[p].key > key  BY <1>0, <1>1, <2>2, <4>1
      <4>3. CASE i - 1 = p  BY <4>1, <4>2, <4>3
      <4>4. CASE i - 1 > p
        <5>1. s[p].key < s[i - 1].key  BY <1>0, <4>1, <4>2, <4>4
        <5> QED  BY <1>0, <4>1, <4>2, <5>1
      <4> QED  BY <1>1, <4>1, <4>3, <4>4
    <3> QED  BY <1>1, <1>2, <2>5, <3>1
  <2>9. ASSUME NEW i \in 1..n + 1, NEW j \in 1..n + 1, i < j PROVE t[i].key < t[j].key
    <3>0. t[i].key \in Int /\ t[j].key \in Int  BY <1>0, <1>2, <2>5, <2>6
    <3>1. CASE j \in 1..p - 1
      BY <1>0, <1>1, <2>5, <2>9, <3>1
    <3>2. CASE j = p
      <4>1. i \in 1..p - 1  BY <1>1, <2>9, <3>2
      <4> QED  BY <2>8, <3>2, <4>1
    <3>3. CASE j \in p + 1..n + 1
      <4>1. CASE i \in 1..p - 1  BY <1>0, <2>8, <3>0, <3>3, <4>1
      <4>2. CASE i = p  BY <2>8, <3>3, <4>2
      <4>3. CASE i \in p + 1..n + 1
        <5>1. i - 1 \in 1..n /\ j - 1 \in 1..n /\ i - 1 < j - 1 /\ t[i] = s[i - 1] /\ t[j] = s[j - 1]
          BY <1>0, <1>1, <2>5, <2>9, <3>3, <4>3
        <5> QED  BY <1>0, <5>1
      <4> QED  BY <2>6, <4>1, <4>2, <4>3
    <3> QED  BY <2>6, <3>1, <3>2, <3>3
  <2>10. IsStream(t)  BY <2>3, <2>7, <2>9 DEF IsStream, Ordered
  <2>11. \A i \in DOMAIN t : t[i] = e \/ (t[i].key # key /\ \E j \in DOMAIN s : t[i] = s[j])
    <3> SUFFICES ASSUME NEW i \in 1..n + 1
                 PROVE  t[i] = e \/ (t[i].key # key /\ \E j \in DOMAIN s : t[i] = s[j])
      BY <2>3
    <3>0. t[i].key \in Int  BY <1>0, <1>2, <2>5, <2>6
    <3>1. CASE i \in 1..p - 1  BY <1>0, <2>5, <2>8, <3>0, <3>1
    <3>2. CASE i = p  BY <2>5, <3>2
    <3>3. CASE i \in p + 1..n + 1  BY <1>0, <2>5, <2>8, <3>0, <3>3
    <3> QED  BY <2>6, <3>1, <3>2, <3>3
  <2>12. KeysOf(t) = KeysOf(s) \cup {key}
    <3>1. ASSUME NEW i \in 1..n PROVE \E j \in 1..n + 1 : t[j] = s[i]
      <4>1. CASE i < p
        <5>1. i \in 1..p - 1 /\ i \in 1..n + 1  BY <1>0, <1>1, <4>1
        <5> QED  BY <2>5, <5>1
      <4>2. CASE ~(i < p)
        <5>1. i + 1 \in p + 1..n + 1 /\ i + 1 \in 1..n + 1 /\ (i + 1) - 1 = i  BY <1>0, <1>1, <4>2
        <5> QED  BY <2>5, <5>1
      <4> QED  BY <4>1, <4>2
    <3>2. KeysOf(s) \subseteq KeysOf(t)  BY <1>0, <2>3, <3>1 DEF KeysOf
    <3>3. key \in KeysOf(t)  BY <1>1, <2>3, <2>8 DEF KeysOf
    <3>4. KeysOf(t) \subseteq KeysOf(s) \cup {key}  BY <1>2, <2>11 DEF KeysOf
    <3> QED  BY <3>2, <3>3, <3>4
  <2> QED  BY <1>3, <2>1, <2>10, <2>11, <2>12 DEF w
<1> QED  BY <1>4, <1>5 DEF w

-----------------------------------------------------------------------------
(***************************************************************************)
(* What a stream answers, as questions about its contents.                 *)
(***************************************************************************)
NeighbourIn(s, key, up) == IF up THEN NextIn(s, key) ELSE PreviousIn(s, key)

LEMMA NearestIs ==
  ASSUME NEW w, DOMAIN w \subseteq Int, NEW key \in Int, NEW up \in BOOLEAN,
         NEW k \in Beyond(w, key, up), \A j \in Beyond(w, key, up) : ~Passes(k, j, up)
  PROVE  Nearest(w, key, up) = k
<1>1. ASSUME NEW i \in Beyond(w, key, up), \A j \in Beyond(w, key, up) : ~Passes(i, j, up)
      PROVE  i = k
  <2>1. i \in Int /\ k \in Int  BY DEF Beyond
  <2>2. ~Passes(i, k, up) /\ ~Passes(k, i, up)  BY <1>1
  <2> QED  BY <2>1, <2>2 DEF Passes
<1> QED  BY <1>1 DEF Nearest

LEMMA NeighbourIs ==
  ASSUME NEW s, IsStream(s), NEW key \in Int, NEW up \in BOOLEAN, NEW w, DOMAIN w = KeysOf(s)
  PROVE  /\ Beyond(w, key, up) = {} => NeighbourIn(s, key, up) = key
         /\ Beyond(w, key, up) # {} =>
              /\ NeighbourIn(s, key, up) \in Beyond(w, key, up)
              /\ NeighbourIn(s, key, up) = Nearest(w, key, up)
              /\ \A j \in Beyond(w, key, up) : ~Passes(NeighbourIn(s, key, up), j, up)
<1> DEFINE n == Len(s)
           p == Search(s, key)
<1>0. /\ n \in Nat /\ DOMAIN s = 1..n
      /\ \A i \in 1..n : s[i].key \in Int
      /\ \A i, j \in 1..n : i < j => s[i].key < s[j].key
  BY StreamShape
<1>1. /\ p \in 1..n + 1
      /\ \A j \in 1..p - 1 : s[j].key < key
      /\ p <= n => s[p].key >= key
  BY SearchIs DEF IsFirst
<1> DEFINE q == IF up THEN IF Found(s, key) THEN p + 1 ELSE p ELSE p - 1
<1>2. NeighbourIn(s, key, up) = KeyAt(s, q, key)
  BY DEF NeighbourIn, NextIn, PreviousIn
<1>3. Found(s, key) <=> p <= n /\ s[p].key = key  BY DEF Found
<1> HIDE DEF n, p
<1>4. \A i \in 1..n : i >= p => s[i].key >= key  BY <1>0, <1>1
<1>5. \A i \in 1..n : Passes(s[i].key, key, up) <=> IF up THEN i >= q ELSE i <= q
  <2>1. CASE up
    <3>1. CASE Found(s, key)
      <4>1. \A i \in 1..n : i > p => s[i].key > key  BY <1>0, <1>1, <1>3, <3>1
      <4>2. \A i \in 1..n : i <= p => s[i].key <= key  BY <1>0, <1>1, <1>3, <3>1
      <4> QED  BY <1>0, <1>1, <2>1, <3>1, <4>1, <4>2 DEF Passes
    <3>2. CASE ~Found(s, key)
      <4>1. \A i \in 1..n : i >= p => s[i].key > key  BY <1>0, <1>1, <1>3, <3>2
      <4>2. \A i \in 1..n : i < p => s[i].key < key  BY <1>0, <1>1
      <4> QED  BY <1>0, <1>1, <2>1, <3>2, <4>1, <4>2 DEF Passes
    <3> QED  BY <3>1, <3>2
  <2>2. CASE ~up
    <3>1. \A i \in 1..n : i < p => s[i].key < key  BY <1>0, <1>1
    <3> QED  BY <1>0, <1>1, <1>4, <2>2, <3>1 DEF Passes
  <2> QED  BY <2>1, <2>2
<1>6. q \in Int /\ q >= 0 /\ (up => q >= 1) /\ (~up => q <= n)  BY <1>0, <1>1
<1> HIDE DEF q
<1>7. Beyond(w, key, up) = {s[i].key : i \in {j \in 1..n : IF up THEN j >= q ELSE j <= q}}
  BY <1>0, <1>5 DEF Beyond, KeysOf
<1>8. CASE q \in 1..n
  <2>1. NeighbourIn(s, key, up) = s[q].key  BY <1>0, <1>2, <1>8 DEF KeyAt
  <2>2. s[q].key \in Beyond(w, key, up)  BY <1>7, <1>8, <1>6
  <2>3. ASSUME NEW j \in Beyond(w, key, up) PROVE ~Passes(s[q].key, j, up)
    <3>1. PICK i \in 1..n : s[i].key = j /\ IF up THEN i >= q ELSE i <= q  BY <1>7
    <3> QED  BY <1>0, <1>8, <3>1 DEF Passes
  <2>4. DOMAIN w \subseteq Int  BY <1>0 DEF KeysOf
  <2>5. Nearest(w, key, up) = s[q].key  BY <2>2, <2>3, <2>4, NearestIs
  <2> QED  BY <2>1, <2>2, <2>3, <2>5
<1>9. CASE q \notin 1..n
  <2>1. NeighbourIn(s, key, up) = key  BY <1>0, <1>2, <1>9 DEF KeyAt
  <2>2. Beyond(w, key, up) = {}  BY <1>0, <1>6, <1>7, <1>9
  <2> QED  BY <2>1, <2>2
<1> QED  BY <1>8, <1>9

\* What one slot that was written so is at a key.
RecordedSlot(w, key) ==
  LET below == Beyond(w, key, FALSE)
      above == Beyond(w, key, TRUE)
      lower == Nearest(w, key, FALSE)
      upper == Nearest(w, key, TRUE)
  IN IF DOMAIN w = {} THEN 0
     ELSE IF key \in DOMAIN w THEN w[key]
     ELSE IF below = {} THEN w[upper]
     ELSE IF above = {} THEN w[lower]
     ELSE Between(Entry(lower, w[lower]), Entry(upper, w[upper]), key)

LEMMA ValueIs ==
  ASSUME NEW s, IsStream(s), NEW key \in Int
  PROVE  ValueIn(s, key) = RecordedSlot(Contents(s), key)
<1> DEFINE n == Len(s)
           p == Search(s, key)
           w == Contents(s)
<1>0. /\ n \in Nat /\ DOMAIN s = 1..n
      /\ \A i \in 1..n : s[i] \in EntrySet /\ s[i].key \in Int
      /\ \A i, j \in 1..n : i < j => s[i].key < s[j].key
  BY StreamShape
<1>1. /\ p \in 1..n + 1
      /\ \A j \in 1..p - 1 : s[j].key < key
      /\ p <= n => s[p].key >= key
  BY SearchIs DEF IsFirst
<1>2. DOMAIN w = KeysOf(s)  BY DEF Contents
<1>3. \A i \in 1..n : s[i].key \in DOMAIN w /\ w[s[i].key] = s[i].value  BY <1>0, <1>2, ContentsAt
<1>4. Found(s, key) <=> key \in DOMAIN w  BY <1>2, FoundIs
<1>5. Found(s, key) <=> p <= n /\ s[p].key = key  BY DEF Found
<1>6. s = <<>> <=> n = 0
  <2>1. s \in Seq(EntrySet)  BY DEF IsStream
  <2> QED  BY <2>1
<1>7. ValueIn(s, key) = IF s = <<>> THEN 0
                        ELSE IF Found(s, key) THEN s[p].value
                        ELSE IF p = 1 THEN s[1].value
                        ELSE IF p > n THEN s[n].value
                        ELSE Between(s[p - 1], s[p], key)
  BY DEF ValueIn
<1>8. \A up \in BOOLEAN :
        Beyond(w, key, up) # {} => NeighbourIn(s, key, up) = Nearest(w, key, up)
  BY <1>2, NeighbourIs
<1>9. /\ NeighbourIn(s, key, TRUE) = KeyAt(s, IF Found(s, key) THEN p + 1 ELSE p, key)
      /\ NeighbourIn(s, key, FALSE) = KeyAt(s, p - 1, key)
  BY DEF NeighbourIn, NextIn, PreviousIn
<1>10. KeysOf(s) = {s[i].key : i \in 1..n}  BY <1>0 DEF KeysOf
<1> HIDE DEF n, p, w
<1>11. CASE n = 0
  <2>1. DOMAIN w = {}  BY <1>2, <1>10, <1>11
  <2> QED  BY <1>6, <1>7, <1>11, <2>1 DEF RecordedSlot, w
<1>12. CASE n # 0
  <2>1. DOMAIN w # {}
    <3>1. 1 \in 1..n  BY <1>0, <1>12
    <3> QED  BY <1>3, <3>1
  <2>2. CASE Found(s, key)
    <3>1. p \in 1..n /\ s[p].key = key  BY <1>0, <1>1, <1>5, <2>2
    <3>2. w[key] = s[p].value  BY <1>3, <3>1
    <3> QED  BY <1>4, <1>6, <1>7, <1>12, <2>1, <2>2, <3>2 DEF RecordedSlot, w
  <2>3. CASE ~Found(s, key)
    <3>1. \A i \in 1..n : i >= p => s[i].key > key
      <4>1. p <= n => s[p].key > key
        <5>1. p <= n => p \in 1..n  BY <1>0, <1>1
        <5> QED  BY <1>0, <1>1, <1>5, <2>3, <5>1
      <4> QED  BY <1>0, <1>1, <4>1
    <3>2. \A i \in 1..n : i < p => s[i].key < key  BY <1>0, <1>1
    <3>3. Beyond(w, key, FALSE) = {} <=> p = 1
      <4>1. CASE p = 1
        <5>1. \A i \in 1..n : ~(s[i].key < key)  BY <1>0, <3>1, <4>1
        <5> QED  BY <1>2, <1>10, <4>1, <5>1 DEF Beyond, Passes
      <4>2. CASE p # 1
        <5>1. 1 \in 1..n /\ s[1].key < key  BY <1>0, <1>1, <1>12, <3>2, <4>2
        <5> QED  BY <1>3, <4>2, <5>1 DEF Beyond, Passes
      <4> QED  BY <4>1, <4>2
    <3>4. Beyond(w, key, TRUE) = {} <=> p > n
      <4>1. CASE p > n
        <5>1. \A i \in 1..n : ~(s[i].key > key)  BY <1>0, <1>1, <3>2, <4>1
        <5> QED  BY <1>2, <1>10, <4>1, <5>1 DEF Beyond, Passes
      <4>2. CASE ~(p > n)
        <5>1. p \in 1..n /\ s[p].key > key  BY <1>0, <1>1, <3>1, <4>2
        <5> QED  BY <1>3, <4>2, <5>1 DEF Beyond, Passes
      <4> QED  BY <4>1, <4>2
    <3>5. p # 1 => /\ p - 1 \in 1..n
                   /\ Nearest(w, key, FALSE) = s[p - 1].key
                   /\ w[s[p - 1].key] = s[p - 1].value
      <4>1. p # 1 => p - 1 \in 1..n  BY <1>0, <1>1
      <4> QED  BY <1>0, <1>3, <1>8, <1>9, <3>3, <4>1 DEF KeyAt
    <3>6. p <= n => /\ p \in 1..n
                    /\ Nearest(w, key, TRUE) = s[p].key
                    /\ w[s[p].key] = s[p].value
      <4>1. p <= n => p \in 1..n /\ ~(p > n)  BY <1>0, <1>1
      <4> QED  BY <1>0, <1>3, <1>8, <1>9, <2>3, <3>4, <4>1 DEF KeyAt
    <3>7. \A i \in 1..n : s[i] = Entry(s[i].key, s[i].value)  BY <1>0 DEF Entry, EntrySet
    <3>8. CASE p = 1
      <4>1. p <= n  BY <1>0, <1>12, <3>8
      <4> QED  BY <1>4, <1>6, <1>7, <1>12, <2>1, <2>3, <3>3, <3>6, <3>8, <4>1 DEF RecordedSlot, w
    <3>9. CASE p # 1 /\ p > n
      <4>1. p - 1 = n  BY <1>0, <1>1, <3>9
      <4> QED
        BY <1>4, <1>6, <1>7, <1>12, <2>1, <2>3, <3>3, <3>4, <3>5, <3>9, <4>1 DEF RecordedSlot, w
    <3>10. CASE p # 1 /\ p <= n
      <4>1. ~(p > n)  BY <1>0, <1>1, <3>10
      <4>2. ValueIn(s, key) = Between(s[p - 1], s[p], key)
        BY <1>6, <1>7, <1>12, <2>3, <3>10, <4>1
      <4>3. s[p - 1] = Entry(Nearest(w, key, FALSE), w[Nearest(w, key, FALSE)])
        BY <3>5, <3>7, <3>10
      <4>4. s[p] = Entry(Nearest(w, key, TRUE), w[Nearest(w, key, TRUE)])
        BY <3>6, <3>7, <3>10
      <4> QED
        BY <1>4, <2>1, <2>3, <3>3, <3>4, <3>10, <4>1, <4>2, <4>3, <4>4 DEF RecordedSlot, w
    <3> QED  BY <1>0, <1>1, <3>8, <3>9, <3>10
  <2> QED  BY <2>2, <2>3
<1> QED  BY <1>11, <1>12

\* The executor takes a recording in order as it is.
LEMMA InOrderSame ==
  ASSUME NEW s, IsStream(s)
  PROVE  Unique(s) /\ InOrder(s) = s
<1> DEFINE n == Len(s)
<1>0. /\ n \in Nat /\ DOMAIN s = 1..n
      /\ \A i \in 1..n : s[i].key \in Int
      /\ \A i, j \in 1..n : i < j => s[i].key < s[j].key
  BY StreamShape
<1>1. s = [i \in 1..n |-> s[i]]
  <2>1. s \in Seq(EntrySet)  BY DEF IsStream
  <2> QED  BY <2>1
<1> HIDE DEF n
<1>2. Unique(s)  BY <1>0 DEF Unique
<1>3. ASSUME NEW i \in 1..n
      PROVE  Cardinality({j \in DOMAIN s : s[j].key < s[i].key}) = i - 1
  <2>1. {j \in DOMAIN s : s[j].key < s[i].key} = 1..i - 1
    <3>1. ASSUME NEW j \in 1..n PROVE s[j].key < s[i].key <=> j < i  BY <1>0
    <3> QED  BY <1>0, <3>1
  <2>2. Cardinality(1..i - 1) = i - 1  BY <1>0, FS_Interval
  <2> QED  BY <2>1, <2>2
<1> DEFINE Ranked(i) == CHOOSE e \in Entries(s) : Cardinality({j \in DOMAIN s : s[j].key < e.key}) = i - 1
<1>4. ASSUME NEW i \in 1..n PROVE Ranked(i) = s[i]
  <2>1. s[i] \in Entries(s)  BY <1>0 DEF Entries
  <2>2. ASSUME NEW e \in Entries(s), Cardinality({j \in DOMAIN s : s[j].key < e.key}) = i - 1
        PROVE  e = s[i]
    <3>1. PICK m \in 1..n : e = s[m]  BY <1>0 DEF Entries
    <3>2. m - 1 = i - 1  BY <1>3, <2>2, <3>1
    <3> QED  BY <1>0, <3>1, <3>2
  <2> QED  BY <1>3, <2>1, <2>2
<1>5. InOrder(s) = [i \in DOMAIN s |-> Ranked(i)]  BY DEF InOrder
<1> HIDE DEF Ranked
<1> QED  BY <1>0, <1>1, <1>2, <1>4, <1>5

-----------------------------------------------------------------------------
(***************************************************************************)
(* Identifiers.  A function defined by recursion over an interval exists,  *)
(* so the chosen one satisfies its equations.                              *)
(***************************************************************************)
Scans(f, n, start, next) ==
  /\ f[0] = start
  /\ \A m \in 1..n : f[m] = next[<<f[m - 1], m>>]

LEMMA ScanExists ==
  ASSUME NEW n \in Nat, NEW X, NEW start \in X, NEW next \in [X \X (1..n) -> X]
  PROVE  \E f \in [0..n -> X] : Scans(f, n, start, next)
<1> DEFINE S == {m \in Nat : m <= n => \E f \in [0..m -> X] : Scans(f, m, start, next)}
<1>1. 0 \in S
  <2>1. [m \in 0..0 |-> start] \in [0..0 -> X]  OBVIOUS
  <2>2. Scans([m \in 0..0 |-> start], 0, start, next)  BY DEF Scans
  <2> QED  BY <2>1, <2>2
<1>2. ASSUME NEW m \in Nat, m \in S PROVE m + 1 \in S
  <2> SUFFICES ASSUME m + 1 <= n
               PROVE  \E f \in [0..m + 1 -> X] : Scans(f, m + 1, start, next)
    OBVIOUS
  <2>1. PICK f \in [0..m -> X] : Scans(f, m, start, next)  BY <1>2
  <2>2. f[m] \in X /\ m + 1 \in 1..n  OBVIOUS
  <2>3. next[<<f[m], m + 1>>] \in X  BY <2>2
  <2> DEFINE g == [i \in 0..m + 1 |-> IF i = m + 1 THEN next[<<f[m], m + 1>>] ELSE f[i]]
  <2>4. g \in [0..m + 1 -> X]  BY <2>3
  <2>5. g[m + 1] = next[<<f[m], m + 1>>] /\ \A i \in 0..m : g[i] = f[i]  OBVIOUS
  <2> HIDE DEF g
  <2>6. ASSUME NEW i \in 1..m + 1 PROVE g[i] = next[<<g[i - 1], i>>]
    <3>1. CASE i = m + 1
      <4>1. i - 1 = m /\ g[i - 1] = f[m]  BY <2>5, <3>1
      <4> QED  BY <2>5, <3>1, <4>1
    <3>2. CASE i # m + 1
      <4>1. i \in 1..m /\ i \in 0..m /\ i - 1 \in 0..m  BY <3>2
      <4>2. g[i] = f[i] /\ g[i - 1] = f[i - 1]  BY <2>5, <4>1
      <4>3. f[i] = next[<<f[i - 1], i>>]  BY <2>1, <4>1 DEF Scans
      <4> QED  BY <4>2, <4>3
    <3> QED  BY <3>1, <3>2
  <2>7. Scans(g, m + 1, start, next)  BY <2>1, <2>5, <2>6 DEF Scans
  <2> QED  BY <2>4, <2>7
<1> HIDE DEF S
<1>3. n \in S  BY <1>1, <1>2, SetInduction
<1> QED  BY <1>3 DEF S

LEMMA TimesMonotonic ==
  ASSUME NEW a \in Int, NEW b \in Int, NEW c \in Nat, a <= b
  PROVE  a * c <= b * c
<1> DEFINE S == {n \in Nat : a * n <= b * n}
<1>1. 0 \in S  OBVIOUS
<1>2. ASSUME NEW n \in Nat, n \in S PROVE n + 1 \in S
  <2>1. a * (n + 1) = a * n + a /\ b * (n + 1) = b * n + b  OBVIOUS
  <2> QED  BY <1>2, <2>1
<1> HIDE DEF S
<1>3. c \in S  BY <1>1, <1>2, SetInduction
<1> QED  BY <1>3 DEF S

\* The elements of a field share its identifiers out evenly.
LEMMA SizeIs ==
  ASSUME NEW f \in Field
  PROVE  /\ ElementSize(f) \in Nat \ {0}
         /\ Size(f) \in Nat \ {0}
         /\ Size(f) \div f.length = ElementSize(f)
         /\ \A i \in 0..f.length - 1 :
              i * ElementSize(f) \in Nat /\ i * ElementSize(f) + ElementSize(f) <= Size(f)
<1> DEFINE e == ElementSize(f)
           n == f.length
<1>1. e \in Nat \ {0} /\ n \in Nat \ {0}  BY DEF Field, ElementSize
<1>2. Size(f) = n * e  BY DEF Size
<1> HIDE DEF e, n
<1>3. 1 * e <= n * e  BY <1>1, TimesMonotonic
<1>4. n * e \in Nat \ {0}  BY <1>1, <1>3
<1>5. (n * e) \div n = e
  <2>1. n * e = n * e + 0  BY <1>1
  <2> QED  BY <1>1, SMT
<1>6. ASSUME NEW i \in 0..n - 1 PROVE i * e \in Nat /\ i * e + e <= n * e
  <2>1. 0 * e <= i * e  BY <1>1, <1>6, TimesMonotonic
  <2>2. (i + 1) * e <= n * e  BY <1>1, <1>6, TimesMonotonic
  <2>3. (i + 1) * e = i * e + e /\ i * e \in Int  BY <1>1
  <2> QED  BY <1>1, <2>1, <2>2, <2>3
<1> QED  BY <1>1, <1>2, <1>4, <1>5, <1>6 DEF e, n

LEMMA OffsetIs ==
  ASSUME NEW d \in Seq(Field)
  PROVE  /\ Offset(d) \in [0..Len(d) -> Nat]
         /\ Offset(d)[0] = 1
         /\ \A n \in 1..Len(d) : Offset(d)[n] = Offset(d)[n - 1] + Size(d[n])
<1>0. Len(d) \in Nat /\ \A n \in 1..Len(d) : d[n] \in Field /\ Size(d[n]) \in Nat  BY SizeIs
<1> DEFINE next == [p \in Nat \X (1..Len(d)) |-> p[1] + Size(d[p[2]])]
           Recursive(f) == f = [n \in 0..Len(d) |-> IF n = 0 THEN 1 ELSE f[n - 1] + Size(d[n])]
<1>1. next \in [Nat \X (1..Len(d)) -> Nat]
  <2>1. ASSUME NEW p \in Nat \X (1..Len(d)) PROVE p[1] + Size(d[p[2]]) \in Nat  BY <1>0
  <2> QED  BY <2>1
<1>2. \A x \in Nat, n \in 1..Len(d) : next[<<x, n>>] = x + Size(d[n])  OBVIOUS
<1> HIDE DEF next
<1>3. PICK f \in [0..Len(d) -> Nat] : Scans(f, Len(d), 1, next)  BY <1>0, <1>1, ScanExists
<1>4. Recursive(f)
  <2>1. ASSUME NEW n \in 0..Len(d) PROVE f[n] = IF n = 0 THEN 1 ELSE f[n - 1] + Size(d[n])
    <3>1. CASE n = 0  BY <1>3, <3>1 DEF Scans
    <3>2. CASE n # 0
      <4>1. n \in 1..Len(d) /\ n - 1 \in 0..Len(d)  BY <1>0, <3>2
      <4> QED  BY <1>2, <1>3, <3>2, <4>1 DEF Scans
    <3> QED  BY <3>1, <3>2
  <2> QED  BY <2>1
<1> DEFINE g == CHOOSE h : Recursive(h)
<1>5. Recursive(g)  BY <1>4
<1>6. Offset(d) = g  BY DEF Offset
<1> HIDE DEF g
<1>7. DOMAIN g = 0..Len(d) /\ g[0] = 1 /\ \A n \in 1..Len(d) : g[n] = g[n - 1] + Size(d[n])
  <2>1. \A n \in 0..Len(d) : g[n] = IF n = 0 THEN 1 ELSE g[n - 1] + Size(d[n])  BY <1>5
  <2>2. \A n \in 1..Len(d) : n \in 0..Len(d) /\ n # 0  BY <1>0
  <2>3. 0 \in 0..Len(d) /\ DOMAIN g = 0..Len(d)  BY <1>0, <1>5
  <2> QED  BY <2>1, <2>2, <2>3
<1> DEFINE S == {n \in Nat : n <= Len(d) => g[n] \in Nat}
<1>8. 0 \in S  BY <1>7
<1>9. ASSUME NEW n \in Nat, n \in S PROVE n + 1 \in S
  <2> SUFFICES ASSUME n + 1 <= Len(d) PROVE g[n + 1] \in Nat  OBVIOUS
  <2>1. n + 1 \in 1..Len(d) /\ (n + 1) - 1 = n /\ n <= Len(d)  BY <1>0
  <2>2. g[n + 1] = g[n] + Size(d[n + 1])  BY <1>7, <2>1
  <2> QED  BY <1>0, <1>9, <2>1, <2>2
<1> HIDE DEF S
<1>10. \A n \in Nat : n \in S  BY <1>8, <1>9, SetInduction
<1>11. ASSUME NEW n \in 0..Len(d) PROVE g[n] \in Nat  BY <1>0, <1>10 DEF S
<1>12. g = [n \in 0..Len(d) |-> g[n]]  BY <1>5, <1>7
<1> QED  BY <1>6, <1>7, <1>11, <1>12

LEMMA OffsetMonotonic ==
  ASSUME NEW d \in Seq(Field), NEW m \in 0..Len(d), NEW n \in 0..Len(d), m <= n
  PROVE  Offset(d)[m] <= Offset(d)[n]
<1>0. Len(d) \in Nat  OBVIOUS
<1>1. /\ \A i \in 0..Len(d) : Offset(d)[i] \in Nat
      /\ \A i \in 1..Len(d) : Offset(d)[i] = Offset(d)[i - 1] + Size(d[i]) /\ Size(d[i]) \in Nat
  <2>1. \A i \in 1..Len(d) : d[i] \in Field  OBVIOUS
  <2> QED  BY <2>1, OffsetIs, SizeIs
<1> DEFINE S == {i \in Nat : m + i <= Len(d) => Offset(d)[m] <= Offset(d)[m + i]}
<1>2. 0 \in S  BY <1>0, <1>1
<1>3. ASSUME NEW i \in Nat, i \in S PROVE i + 1 \in S
  <2> SUFFICES ASSUME m + (i + 1) <= Len(d) PROVE Offset(d)[m] <= Offset(d)[m + (i + 1)]  OBVIOUS
  <2> DEFINE k == m + (i + 1)
  <2>1. k \in 1..Len(d) /\ k - 1 = m + i /\ k - 1 \in 0..Len(d) /\ k \in 0..Len(d)  BY <1>0
  <2>2. Offset(d)[m] <= Offset(d)[m + i]  BY <1>0, <1>3
  <2> HIDE DEF k
  <2>3. Offset(d)[k] = Offset(d)[m + i] + Size(d[k]) /\ Size(d[k]) \in Nat  BY <1>1, <2>1
  <2>4. Offset(d)[k - 1] \in Nat /\ Offset(d)[m] \in Nat  BY <1>1, <2>1
  <2>5. Offset(d)[m] <= Offset(d)[k]  BY <2>1, <2>2, <2>3, <2>4
  <2> QED  BY <2>5 DEF k
<1> HIDE DEF S
<1>4. n - m \in S  BY <1>0, <1>2, <1>3, SetInduction
<1> QED  BY <1>0, <1>4 DEF S

\* Every handle has identifiers of its own, all of them declared.
LEMMA HandleIs ==
  ASSUME NEW d \in Seq(Field), NEW h \in Handles(d)
  PROVE  /\ h = <<h[1], h[2]>> /\ h[1] \in 1..Len(d) /\ h[2] \in 0..FieldOf(d, h).length - 1
         /\ FieldOf(d, h) \in Field
         /\ Width(d, h) = ElementSize(FieldOf(d, h)) /\ Width(d, h) \in Nat \ {0}
         /\ FirstId(d, h) \in Nat \ {0}
         /\ FirstId(d, h) >= Offset(d)[h[1] - 1]
         /\ FirstId(d, h) + Width(d, h) <= Offset(d)[h[1]]
         /\ FirstId(d, h) + Width(d, h) <= StreamSize(d)
<1>0. Len(d) \in Nat  OBVIOUS
<1>1. \E n \in 1..Len(d) : \E i \in 0..d[n].length - 1 : h = <<n, i>>  BY DEF Handles
<1> DEFINE n == h[1]
           i == h[2]
<1>2. n \in 1..Len(d) /\ i \in 0..d[n].length - 1 /\ h = <<n, i>>  BY <1>1
<1> HIDE DEF n, i
<1>10. h[1] = n /\ h[2] = i /\ FieldOf(d, h) = d[n] /\ d[n] \in Field  BY <1>2 DEF FieldOf, n, i
<1>3. /\ ElementSize(d[n]) \in Nat \ {0} /\ Size(d[n]) \div d[n].length = ElementSize(d[n])
      /\ i * ElementSize(d[n]) \in Nat /\ i * ElementSize(d[n]) + ElementSize(d[n]) <= Size(d[n])
      /\ Size(d[n]) \in Nat
  BY <1>10, <1>2, SizeIs
<1>4. Width(d, h) = ElementSize(d[n])  BY <1>10, <1>2, <1>3 DEF Width
<1>5. FirstId(d, h) = Offset(d)[n - 1] + i * ElementSize(d[n])  BY <1>10, <1>2, <1>4 DEF FirstId
<1>6. n - 1 \in 0..Len(d) /\ n \in 0..Len(d) /\ 0 \in 0..Len(d) /\ Len(d) \in 0..Len(d)
  BY <1>0, <1>2
<1>7. /\ Offset(d)[n - 1] \in Nat /\ Offset(d)[n] = Offset(d)[n - 1] + Size(d[n])
      /\ Offset(d)[0] = 1 /\ Offset(d)[Len(d)] \in Nat
  BY <1>2, <1>6, OffsetIs
<1>8. Offset(d)[0] <= Offset(d)[n - 1] /\ Offset(d)[n] <= Offset(d)[Len(d)]
  BY <1>0, <1>2, <1>6, OffsetMonotonic
<1> DEFINE x == i * ElementSize(d[n])
<1>9. x \in Nat /\ x + ElementSize(d[n]) <= Size(d[n]) /\ FirstId(d, h) = Offset(d)[n - 1] + x  BY <1>3, <1>5
<1> HIDE DEF x
<1>11. FirstId(d, h) \in Nat \ {0} /\ FirstId(d, h) >= Offset(d)[n - 1]  BY <1>7, <1>8, <1>9
<1>12. FirstId(d, h) + Width(d, h) <= Offset(d)[n]  BY <1>3, <1>4, <1>7, <1>9
<1>13. FirstId(d, h) + Width(d, h) <= StreamSize(d)
  BY <1>3, <1>4, <1>7, <1>8, <1>11, <1>12 DEF StreamSize
<1> QED  BY <1>10, <1>2, <1>3, <1>4, <1>11, <1>12, <1>13

LEMMA HandlesApart ==
  ASSUME NEW d \in Seq(Field), NEW g \in Handles(d), NEW h \in Handles(d), g # h
  PROVE  IdsOf(d, g) \cap IdsOf(d, h) = {}
<1> DEFINE Before(a, b) == FirstId(d, a) + Width(d, a) <= FirstId(d, b)
<1>1. ASSUME NEW a \in Handles(d), NEW b \in Handles(d), a[1] < b[1] PROVE Before(a, b)
  <2>1. a[1] \in 1..Len(d) /\ b[1] \in 1..Len(d) /\ Len(d) \in Nat  BY HandleIs
  <2>2. Offset(d)[a[1]] <= Offset(d)[b[1] - 1]  BY <1>1, <2>1, OffsetMonotonic
  <2>3. Offset(d)[a[1]] \in Nat /\ Offset(d)[b[1] - 1] \in Nat
    <3>1. a[1] \in 0..Len(d) /\ b[1] - 1 \in 0..Len(d)  BY <2>1
    <3> QED  BY <3>1, OffsetIs
  <2>4. /\ FirstId(d, a) + Width(d, a) <= Offset(d)[a[1]] /\ FirstId(d, a) \in Nat /\ Width(d, a) \in Nat
        /\ FirstId(d, b) >= Offset(d)[b[1] - 1] /\ FirstId(d, b) \in Nat
    BY HandleIs
  <2> QED  BY <2>2, <2>3, <2>4
<1>2. ASSUME NEW a \in Handles(d), NEW b \in Handles(d), a[1] = b[1], a[2] < b[2] PROVE Before(a, b)
  <2> DEFINE w == Width(d, a)
  <2>1. w \in Nat /\ Width(d, b) = w /\ a[2] \in Nat /\ b[2] \in Nat
    <3>1. a[2] \in 0..FieldOf(d, a).length - 1 /\ b[2] \in 0..FieldOf(d, b).length - 1 /\ w \in Nat  BY HandleIs
    <3> QED  BY <1>2, <3>1 DEF Width, FieldOf
  <2>2. FirstId(d, a) = Offset(d)[a[1] - 1] + a[2] * w /\ FirstId(d, b) = Offset(d)[a[1] - 1] + b[2] * w
    BY <1>2, <2>1 DEF FirstId
  <2>3. Offset(d)[a[1] - 1] \in Nat
    <3>1. a[1] \in 1..Len(d) /\ Len(d) \in Nat  BY HandleIs
    <3> QED  BY <3>1, OffsetIs
  <2> HIDE DEF w
  <2>4. (a[2] + 1) * w <= b[2] * w  BY <1>2, <2>1, TimesMonotonic
  <2>5. (a[2] + 1) * w = a[2] * w + w /\ a[2] * w \in Int /\ b[2] * w \in Int  BY <2>1
  <2>6. FirstId(d, a) + w <= FirstId(d, b)  BY <2>1, <2>2, <2>3, <2>4, <2>5
  <2> QED  BY <2>6 DEF w
<1>3. Before(g, h) \/ Before(h, g)
  <2>1. /\ g = <<g[1], g[2]>> /\ h = <<h[1], h[2]>>
        /\ g[1] \in 1..Len(d) /\ h[1] \in 1..Len(d)
        /\ g[2] \in 0..FieldOf(d, g).length - 1 /\ h[2] \in 0..FieldOf(d, h).length - 1
    BY HandleIs
  <2>2. g[1] \in Int /\ h[1] \in Int /\ g[2] \in Int /\ h[2] \in Int  BY <2>1
  <2>3. g[1] # h[1] \/ g[2] # h[2]  BY <2>1
  <2>4. g[1] < h[1] \/ h[1] < g[1] \/ (g[1] = h[1] /\ (g[2] < h[2] \/ h[2] < g[2]))  BY <2>2, <2>3
  <2> QED  BY <1>1, <1>2, <2>4
<1>4. FirstId(d, g) \in Nat /\ Width(d, g) \in Nat /\ FirstId(d, h) \in Nat /\ Width(d, h) \in Nat  BY HandleIs
<1> QED  BY <1>3, <1>4 DEF IdsOf

-----------------------------------------------------------------------------
(***************************************************************************)
(* The slots of data keep out of each other's way in the one stream they   *)
(* share: slot n is at an even half, the zeros are at odd ones.            *)
(***************************************************************************)
Recordings == {s \in Seq(EntrySet) : Ordered(s)}

LEMMA StoreAroundIs ==
  ASSUME NEW s \in Recordings, NEW key \in Int, NEW value \in SlotValues
  PROVE  /\ StoreAround(s, key, value) \in Recordings
         /\ key \in KeysOf(StoreAround(s, key, value))
         /\ Contents(StoreAround(s, key, value))[key] = value
         /\ \A k \in KeysOf(s) : k \notin {key - 1, key, key + 1} =>
              /\ k \in KeysOf(StoreAround(s, key, value))
              /\ Contents(StoreAround(s, key, value))[k] = Contents(s)[k]
<1> DEFINE a == Store(s, key - 1, 0)
           b == Store(a, key, value)
           c == Store(b, key + 1, 0)
<1>0. 0 \in Stored /\ value \in Stored  BY DEF Stored
<1>1. IsStream(s)  BY DEF Recordings, IsStream
<1>2. IsStream(a) /\ Contents(a) = With(Contents(s), key - 1, 0)  BY <1>0, <1>1, StoreIs
<1> HIDE DEF a
<1>3. IsStream(b) /\ Contents(b) = With(Contents(a), key, value)  BY <1>0, <1>2, StoreIs
<1> HIDE DEF b
<1>4. IsStream(c) /\ Contents(c) = With(Contents(b), key + 1, 0)  BY <1>0, <1>3, StoreIs
<1>5. StoreAround(s, key, value) = c  BY DEF StoreAround, a, b
<1> HIDE DEF c
<1>6. \A t : DOMAIN Contents(t) = KeysOf(t)  BY DEF Contents
<1>7. KeysOf(a) = KeysOf(s) \cup {key - 1} /\ KeysOf(b) = KeysOf(a) \cup {key}
      /\ KeysOf(c) = KeysOf(b) \cup {key + 1}
  <2>1. DOMAIN With(Contents(s), key - 1, 0) = KeysOf(s) \cup {key - 1}  BY <1>6 DEF With
  <2>2. DOMAIN With(Contents(a), key, value) = KeysOf(a) \cup {key}  BY <1>6 DEF With
  <2>3. DOMAIN With(Contents(b), key + 1, 0) = KeysOf(b) \cup {key + 1}  BY <1>6 DEF With
  <2> QED  BY <1>2, <1>3, <1>4, <1>6, <2>1, <2>2, <2>3
<1>8. /\ \A k \in KeysOf(a) : Contents(a)[k] = IF k = key - 1 THEN 0 ELSE Contents(s)[k]
      /\ \A k \in KeysOf(b) : Contents(b)[k] = IF k = key THEN value ELSE Contents(a)[k]
      /\ \A k \in KeysOf(c) : Contents(c)[k] = IF k = key + 1 THEN 0 ELSE Contents(b)[k]
  <2>1. \A w, k, x : \A j \in DOMAIN w \cup {k} : With(w, k, x)[j] = IF j = k THEN x ELSE w[j]
    BY DEF With
  <2> QED  BY <1>2, <1>3, <1>4, <1>6, <1>7, <2>1
<1>9. c \in Recordings  BY <1>4 DEF Recordings, IsStream
<1>10. key \in KeysOf(c) /\ Contents(c)[key] = value  BY <1>7, <1>8
<1>11. ASSUME NEW k \in KeysOf(s), k \notin {key - 1, key, key + 1}
       PROVE  k \in KeysOf(c) /\ Contents(c)[k] = Contents(s)[k]
  BY <1>7, <1>8, <1>11
<1> QED  BY <1>5, <1>9, <1>10, <1>11

LEMMA StoreDataIs ==
  ASSUME NEW s \in Recordings, NEW m \in Nat, NEW v \in [1..m -> SlotValues]
  PROVE  /\ StoreData(s, v) \in Recordings
         /\ \A n \in 1..m : /\ 2 * (n - 1) \in KeysOf(StoreData(s, v))
                            /\ Contents(StoreData(s, v))[2 * (n - 1)] = v[n]
<1>0. v \in Seq(SlotValues) /\ Len(v) = m  BY SeqDef
<1> DEFINE next == [p \in Recordings \X (1..m) |-> StoreAround(p[1], 2 * (p[2] - 1), v[p[2]])]
           Recursive(f) ==
             f = [n \in 0..Len(v) |-> IF n = 0 THEN s ELSE StoreAround(f[n - 1], 2 * (n - 1), v[n])]
<1>1. next \in [Recordings \X (1..m) -> Recordings]
  <2>1. ASSUME NEW p \in Recordings \X (1..m) PROVE StoreAround(p[1], 2 * (p[2] - 1), v[p[2]]) \in Recordings
    <3>1. p[1] \in Recordings /\ 2 * (p[2] - 1) \in Int /\ v[p[2]] \in SlotValues  OBVIOUS
    <3> QED  BY <3>1, StoreAroundIs
  <2> QED  BY <2>1
<1>2. \A x \in Recordings, n \in 1..m : next[<<x, n>>] = StoreAround(x, 2 * (n - 1), v[n])  OBVIOUS
<1> HIDE DEF next
<1>3. PICK f \in [0..m -> Recordings] : Scans(f, m, s, next)  BY <1>1, ScanExists
<1>4. Recursive(f)
  <2>1. ASSUME NEW n \in 0..m
        PROVE  f[n] = IF n = 0 THEN s ELSE StoreAround(f[n - 1], 2 * (n - 1), v[n])
    <3>1. CASE n = 0  BY <1>3, <3>1 DEF Scans
    <3>2. CASE n # 0
      <4>1. n \in 1..m /\ n - 1 \in 0..m  BY <3>2
      <4> QED  BY <1>2, <1>3, <3>2, <4>1 DEF Scans
    <3> QED  BY <3>1, <3>2
  <2> QED  BY <1>0, <2>1
<1> DEFINE g == CHOOSE h : Recursive(h)
<1>5. Recursive(g)  BY <1>4
<1>6. StoreData(s, v) = g[Len(v)]  BY DEF StoreData
<1> HIDE DEF g
<1>7. g[0] = s /\ \A n \in 1..m : g[n] = StoreAround(g[n - 1], 2 * (n - 1), v[n])
  <2>1. \A n \in 0..m : g[n] = IF n = 0 THEN s ELSE StoreAround(g[n - 1], 2 * (n - 1), v[n])
    BY <1>0, <1>5
  <2>2. 0 \in 0..m /\ \A n \in 1..m : n \in 0..m /\ n # 0  OBVIOUS
  <2> QED  BY <2>1, <2>2
<1> DEFINE Holds(n) == /\ g[n] \in Recordings
                       /\ \A i \in 1..n : /\ 2 * (i - 1) \in KeysOf(g[n])
                                          /\ Contents(g[n])[2 * (i - 1)] = v[i]
           S == {n \in Nat : n <= m => Holds(n)}
<1>8. 0 \in S  BY <1>7
<1>9. ASSUME NEW n \in Nat, n \in S PROVE n + 1 \in S
  <2> SUFFICES ASSUME n + 1 <= m PROVE Holds(n + 1)  OBVIOUS
  <2>1. Holds(n)  BY <1>9
  <2>2. n + 1 \in 1..m /\ (n + 1) - 1 = n  OBVIOUS
  <2>3. g[n + 1] = StoreAround(g[n], 2 * n, v[n + 1])  BY <1>7, <2>2
  <2>4. /\ g[n + 1] \in Recordings /\ 2 * n \in KeysOf(g[n + 1]) /\ Contents(g[n + 1])[2 * n] = v[n + 1]
        /\ \A k \in KeysOf(g[n]) : k \notin {2 * n - 1, 2 * n, 2 * n + 1} =>
             k \in KeysOf(g[n + 1]) /\ Contents(g[n + 1])[k] = Contents(g[n])[k]
    <3>1. g[n] \in Recordings /\ 2 * n \in Int /\ v[n + 1] \in SlotValues  BY <2>1, <2>2
    <3> HIDE DEF Holds
    <3> QED  BY <2>3, <3>1, StoreAroundIs
  <2>5. ASSUME NEW i \in 1..n + 1
        PROVE  2 * (i - 1) \in KeysOf(g[n + 1]) /\ Contents(g[n + 1])[2 * (i - 1)] = v[i]
    <3>1. CASE i = n + 1
      <4>1. i - 1 = n  BY <3>1
      <4> QED  BY <2>4, <3>1, <4>1
    <3>2. CASE i # n + 1
      <4>1. i \in 1..n /\ 2 * (i - 1) \notin {2 * n - 1, 2 * n, 2 * n + 1}  BY <3>2
      <4> QED  BY <2>1, <2>4, <4>1
    <3> QED  BY <3>1, <3>2
  <2> QED  BY <2>4, <2>5
<1> HIDE DEF S, Holds
<1>10. m \in S  BY <1>8, <1>9, SetInduction
<1>11. Holds(m)  BY <1>10 DEF S
<1> QED  BY <1>0, <1>6, <1>11 DEF Holds

-----------------------------------------------------------------------------
(***************************************************************************)
(* The invariant of recording.  Handles share no identifier and low-level  *)
(* writes stay out of them, so every stream holds its slot of what was     *)
(* written, and nothing else.                                              *)
(***************************************************************************)
LEMMA SameDeclarations ==
  ASSUME NEW p \in Seq(Field), NEW w \in Seq(Field), SameStreams(p, w)
  PROVE  p = w
<1>1. Len(p) = Len(w) /\ \A n \in DOMAIN p : Declared(p[n]) = Declared(w[n])  BY DEF SameStreams
<1>2. ASSUME NEW n \in 1..Len(p) PROVE p[n] = w[n]
  <2>1. p[n] \in Field /\ w[n] \in Field  BY <1>1
  <2>2. Declared(p[n]) = Declared(w[n])  BY <1>1
  <2>3. /\ p[n].name = w[n].name /\ p[n].kind = w[n].kind /\ p[n].slots = w[n].slots
        /\ <<p[n].length, p[n].value>> = <<w[n].length, w[n].value>>
    BY <2>2 DEF Declared
  <2>4. p[n].length = w[n].length /\ p[n].value = w[n].value  BY <2>3
  <2>5. \A f \in Field : f = [name |-> f.name, value |-> f.value, kind |-> f.kind,
                             slots |-> f.slots, length |-> f.length]
    BY DEF Field
  <2>6. p[n].value = w[n].value  BY <2>3
  <2> QED  BY <2>1, <2>3, <2>4, <2>5, <2>6
<1> QED  BY <1>1, <1>2

\* Slot n of a handle, in the streams s of the declarations d.
Slot(d, s, h, n) == s[FirstId(d, h) + n - 1]
KeepsStream(d, s, h, w) ==
  \A n \in 1..Width(d, h) :
    /\ KeysOf(Slot(d, s, h, n)) = DOMAIN w
    /\ \A k \in DOMAIN w : Contents(Slot(d, s, h, n))[k] = w[k][n]
KeepsData(d, s, h, w) ==
  DOMAIN w # {} =>
    \A n \in 1..FieldOf(d, h).slots :
      /\ 2 * (n - 1) \in KeysOf(Slot(d, s, h, 1))
      /\ Contents(Slot(d, s, h, 1))[2 * (n - 1)] = w[0][n]
Keeps(d, s, h, w) == IF FieldOf(d, h).kind = "data" THEN KeepsData(d, s, h, w) ELSE KeepsStream(d, s, h, w)

IsWritten(d, h, w) ==
  IF FieldOf(d, h).kind = "data"
  THEN DOMAIN w \subseteq {0} /\ \A k \in DOMAIN w : w[k] \in [1..FieldOf(d, h).slots -> SlotValues]
  ELSE DOMAIN w \subseteq Int /\ \A k \in DOMAIN w : w[k] \in [1..Width(d, h) -> SlotValues]

\* The streams s are what the history hist says.
Recording(d, s, hist) ==
  /\ d \in Declarations
  /\ s \in [Ids -> Recordings]
  /\ hist = [h \in Handles(d) |-> hist[h]]
  /\ \A h \in Handles(d) : IsWritten(d, h, hist[h]) /\ (Accepted(d, h) => Keeps(d, s, h, hist[h]))

LEMMA RecordingEmpty ==
  ASSUME NEW d \in Declarations
  PROVE  Recording(d, [id \in Ids |-> <<>>], [h \in Handles(d) |-> NothingWritten])
<1> DEFINE s == [id \in Ids |-> <<>>]
           hist == [h \in Handles(d) |-> NothingWritten]
<1>1. <<>> \in Recordings /\ KeysOf(<<>>) = {}  BY DEF Recordings, Ordered, KeysOf
<1>2. DOMAIN NothingWritten = {}  BY DEF NothingWritten
<1>3. \A id \in Ids : s[id] = <<>>  OBVIOUS
<1>4. \A h \in Handles(d) : hist[h] = NothingWritten  OBVIOUS
<1>5. s \in [Ids -> Recordings]  BY <1>1
<1>6. hist = [h \in Handles(d) |-> hist[h]]  OBVIOUS
<1> HIDE DEF s, hist
<1>7. ASSUME NEW h \in Handles(d), Accepted(d, h) PROVE Keeps(d, s, h, NothingWritten)
  <2>1. ASSUME NEW n \in 1..Width(d, h) PROVE KeysOf(Slot(d, s, h, n)) = {}
    <3>1. d \in Seq(Field)  BY StreamAssumption
    <3>2. FirstId(d, h) \in Nat /\ Width(d, h) \in Nat  BY <3>1, HandleIs
    <3>3. FirstId(d, h) + n - 1 \in IdsOf(d, h)  BY <3>2 DEF IdsOf
    <3> QED  BY <1>1, <1>3, <1>7, <3>3 DEF Slot, Accepted
  <2> QED  BY <1>2, <2>1 DEF Keeps, KeepsData, KeepsStream
<1>8. \A h \in Handles(d) : IsWritten(d, h, NothingWritten)  BY <1>2 DEF IsWritten
<1>9. Recording(d, s, hist)  BY <1>4, <1>5, <1>6, <1>7, <1>8 DEF Recording
<1> QED  BY <1>9 DEF s, hist

\* A handle none of whose streams is written to keeps what it has.
LEMMA KeepsElsewhere ==
  ASSUME NEW d \in Declarations, NEW s, NEW t, NEW w, NEW h \in Handles(d),
         \A id \in IdsOf(d, h) : t[id] = s[id], Keeps(d, s, h, w)
  PROVE  Keeps(d, t, h, w)
<1>1. d \in Seq(Field)  BY StreamAssumption
<1>2. FirstId(d, h) \in Nat /\ Width(d, h) \in Nat \ {0}  BY <1>1, HandleIs
<1>3. ASSUME NEW n \in 1..Width(d, h) PROVE Slot(d, t, h, n) = Slot(d, s, h, n)
  <2>1. FirstId(d, h) + n - 1 \in IdsOf(d, h)  BY <1>2 DEF IdsOf
  <2> QED  BY <2>1 DEF Slot
<1>4. 1 \in 1..Width(d, h)  BY <1>2
<1> QED  BY <1>3, <1>4 DEF Keeps, KeepsData, KeepsStream

LEMMA SetKeeps ==
  ASSUME NEW h \in Handles(play), Accepted(play, h), NEW key \in StreamKeys,
         NEW v \in SlotsOf(FieldOf(play, h)), Set(h, key, v), Recording(play, streams, written)
  PROVE  Recording(play, streams', written')
<1>0. play \in Seq(Field) /\ key \in Int  BY StreamAssumption DEF Recording
<1>1. /\ FieldOf(play, h).kind = "stream" /\ FieldOf(play, h).slots = Width(play, h)
      /\ streams' = StoreSlots(h, key, v)
      /\ written' = [written EXCEPT ![h] = With(@, key, v)]
  BY DEF Set, Written
<1>2. FirstId(play, h) \in Nat /\ Width(play, h) \in Nat \ {0}  BY <1>0, HandleIs
<1>3. v \in [1..Width(play, h) -> SlotValues]  BY <1>1 DEF SlotsOf
<1>4. ASSUME NEW id \in IdsOf(play, h)
      PROVE  /\ id \in Ids /\ id - FirstId(play, h) + 1 \in 1..Width(play, h)
             /\ IsStream(streams[id]) /\ v[id - FirstId(play, h) + 1] \in Stored
             /\ streams'[id] = Store(streams[id], key, v[id - FirstId(play, h) + 1])
  <2>1. id \in Ids  BY DEF Accepted
  <2>2. id - FirstId(play, h) + 1 \in 1..Width(play, h)  BY <1>2 DEF IdsOf
  <2>3. streams[id] \in Recordings  BY <2>1 DEF Recording
  <2>4. v[id - FirstId(play, h) + 1] \in Stored  BY <1>3, <2>2 DEF Stored
  <2> QED  BY <1>1, <2>1, <2>2, <2>3, <2>4 DEF StoreSlots, Recordings, IsStream
<1>5. \A id \in Ids : id \notin IdsOf(play, h) => streams'[id] = streams[id]
  BY <1>1 DEF StoreSlots
<1>6. streams' \in [Ids -> Recordings]
  <2>1. ASSUME NEW id \in Ids PROVE streams'[id] \in Recordings
    <3>1. CASE id \in IdsOf(play, h)
      <4>1. IsStream(streams'[id])  BY <1>0, <1>4, <3>1, StoreIs
      <4> QED  BY <4>1 DEF IsStream, Recordings
    <3>2. CASE id \notin IdsOf(play, h)  BY <1>5, <3>2 DEF Recording
    <3> QED  BY <3>1, <3>2
  <2>2. streams' = [id \in Ids |-> streams'[id]]  BY <1>1 DEF StoreSlots
  <2> QED  BY <2>1, <2>2
<1>7. /\ written' = [g \in Handles(play) |-> written'[g]]
      /\ written'[h] = With(written[h], key, v)
      /\ \A g \in Handles(play) : g # h => written'[g] = written[g]
  BY <1>1 DEF Recording
<1>8. IsWritten(play, h, written'[h])
  <2>1. IsWritten(play, h, written[h])  BY DEF Recording
  <2>2. FieldOf(play, h).kind # "data"  BY <1>1
  <2> QED  BY <1>0, <1>3, <1>7, <2>1, <2>2 DEF IsWritten, With
<1>9. Keeps(play, streams', h, written'[h])
  <2>1. FieldOf(play, h).kind # "data"  BY <1>1
  <2>2. KeepsStream(play, streams, h, written[h])  BY <2>1 DEF Recording, Keeps
  <2>3. ASSUME NEW n \in 1..Width(play, h)
        PROVE  /\ KeysOf(Slot(play, streams', h, n)) = DOMAIN written'[h]
               /\ \A k \in DOMAIN written'[h] : Contents(Slot(play, streams', h, n))[k] = written'[h][k][n]
    <3> DEFINE id == FirstId(play, h) + n - 1
               s == streams[id]
               t == streams'[id]
    <3>1. id \in IdsOf(play, h) /\ id - FirstId(play, h) + 1 = n  BY <1>2 DEF IdsOf
    <3>2. Slot(play, streams, h, n) = s /\ Slot(play, streams', h, n) = t  BY DEF Slot
    <3> HIDE DEF id
    <3>3. IsStream(s) /\ v[n] \in Stored /\ t = Store(s, key, v[n])  BY <1>4, <3>1
    <3> HIDE DEF s, t
    <3>4. Contents(t) = With(Contents(s), key, v[n])  BY <1>0, <3>3, StoreIs
    <3>5. KeysOf(s) = DOMAIN written[h] /\ \A k \in DOMAIN written[h] : Contents(s)[k] = written[h][k][n]
      BY <2>2, <3>2 DEF KeepsStream
    <3>6. DOMAIN Contents(s) = KeysOf(s) /\ DOMAIN Contents(t) = KeysOf(t)  BY DEF Contents
    <3>7. /\ KeysOf(t) = KeysOf(s) \cup {key}
          /\ \A k \in KeysOf(s) \cup {key} : Contents(t)[k] = IF k = key THEN v[n] ELSE Contents(s)[k]
      BY <3>4, <3>6 DEF With
    <3>8. /\ DOMAIN written'[h] = DOMAIN written[h] \cup {key}
          /\ \A k \in DOMAIN written[h] \cup {key} : written'[h][k] = IF k = key THEN v ELSE written[h][k]
      BY <1>7 DEF With
    <3>9. ASSUME NEW k \in DOMAIN written'[h] PROVE Contents(t)[k] = written'[h][k][n]
      <4>1. CASE k = key  BY <3>7, <3>8, <4>1
      <4>2. CASE k # key
        <5>1. k \in DOMAIN written[h]  BY <3>8, <4>2
        <5> QED  BY <3>5, <3>7, <3>8, <4>2, <5>1
      <4> QED  BY <4>1, <4>2
    <3> QED  BY <3>2, <3>5, <3>7, <3>8, <3>9
  <2> QED  BY <2>1, <2>3 DEF Keeps, KeepsStream
<1>10. ASSUME NEW g \in Handles(play), g # h, Accepted(play, g)
       PROVE  Keeps(play, streams', g, written'[g])
  <2>1. \A id \in IdsOf(play, g) : streams'[id] = streams[id]
    BY <1>0, <1>5, <1>10, HandlesApart DEF Accepted
  <2>2. Keeps(play, streams, g, written[g]) /\ play \in Declarations  BY <1>10 DEF Recording
  <2>3. Keeps(play, streams', g, written[g])  BY <2>1, <2>2, KeepsElsewhere
  <2> QED  BY <1>7, <1>10, <2>3
<1>11. \A g \in Handles(play) : IsWritten(play, g, written'[g])  BY <1>7, <1>8 DEF Recording
<1>12. play \in Declarations  BY DEF Recording
<1> QED  BY <1>6, <1>7, <1>9, <1>10, <1>11, <1>12 DEF Recording

LEMMA SetDataKeeps ==
  ASSUME NEW h \in Handles(play), Accepted(play, h),
         NEW v \in SlotsOf(FieldOf(play, h)), SetData(h, v), Recording(play, streams, written)
  PROVE  Recording(play, streams', written')
<1> DEFINE id == FirstId(play, h)
<1>0. play \in Seq(Field) /\ play \in Declarations  BY StreamAssumption DEF Recording
<1>1. /\ FieldOf(play, h).kind = "data"
      /\ streams' = [streams EXCEPT ![id] = StoreData(@, v)]
      /\ written' = [written EXCEPT ![h] = With(@, 0, v)]
  BY DEF SetData, Written
<1>2. /\ id \in Nat /\ Width(play, h) \in Nat \ {0}
      /\ FieldOf(play, h).slots \in Nat /\ v \in [1..FieldOf(play, h).slots -> SlotValues]
  <2>1. FieldOf(play, h) \in Field  BY <1>0, HandleIs
  <2> QED  BY <1>0, <2>1, HandleIs DEF SlotsOf, Field
<1>3. id \in IdsOf(play, h) /\ id \in Ids  BY <1>2 DEF IdsOf, Accepted
<1>4. Slot(play, streams', h, 1) = streams'[id]
  <2>1. id + 1 - 1 = id  BY <1>2
  <2> QED  BY <2>1 DEF Slot
<1> HIDE DEF id
<1>5. streams \in [Ids -> Recordings]  BY DEF Recording
<1>6. streams'[id] = StoreData(streams[id], v)  BY <1>1, <1>3, <1>5
<1>7. \A i \in Ids : i # id => streams'[i] = streams[i]  BY <1>1, <1>5
<1>8. /\ StoreData(streams[id], v) \in Recordings
      /\ \A n \in 1..FieldOf(play, h).slots :
           /\ 2 * (n - 1) \in KeysOf(StoreData(streams[id], v))
           /\ Contents(StoreData(streams[id], v))[2 * (n - 1)] = v[n]
  BY <1>2, <1>3, <1>5, StoreDataIs
<1>9. streams' \in [Ids -> Recordings]  BY <1>1, <1>5, <1>8
<1>10. /\ written' = [g \in Handles(play) |-> written'[g]]
       /\ written'[h] = With(written[h], 0, v)
       /\ \A g \in Handles(play) : g # h => written'[g] = written[g]
  BY <1>1 DEF Recording
<1>11. /\ DOMAIN written'[h] = DOMAIN written[h] \cup {0}
       /\ \A k \in DOMAIN written[h] \cup {0} : written'[h][k] = IF k = 0 THEN v ELSE written[h][k]
  BY <1>10 DEF With
<1>12. IsWritten(play, h, written'[h])
  <2>1. IsWritten(play, h, written[h])  BY DEF Recording
  <2> QED  BY <1>1, <1>2, <1>11, <2>1 DEF IsWritten
<1>13. Keeps(play, streams', h, written'[h])  BY <1>1, <1>4, <1>6, <1>8, <1>11 DEF Keeps, KeepsData
<1>14. ASSUME NEW g \in Handles(play), g # h, Accepted(play, g)
       PROVE  Keeps(play, streams', g, written'[g])
  <2>1. \A i \in IdsOf(play, g) : streams'[i] = streams[i]
    BY <1>0, <1>3, <1>7, <1>14, HandlesApart DEF Accepted
  <2>2. Keeps(play, streams, g, written[g])  BY <1>14 DEF Recording
  <2>3. Keeps(play, streams', g, written[g])  BY <1>0, <2>1, <2>2, KeepsElsewhere
  <2> QED  BY <1>10, <1>14, <2>3
<1>15. \A g \in Handles(play) : IsWritten(play, g, written'[g])  BY <1>10, <1>12 DEF Recording
<1> QED  BY <1>0, <1>9, <1>10, <1>13, <1>14, <1>15 DEF Recording

LEMMA LowLevelSetKeeps ==
  ASSUME NEW call \in LowLevelCalls, LowLevelSet(call[1], call[2], call[3]),
         Recording(play, streams, written)
  PROVE  Recording(play, streams', written')
<1> DEFINE id == call[1]
<1>0. play \in Seq(Field) /\ play \in Declarations  BY StreamAssumption DEF Recording
<1>1. call[2] \in Int /\ call[3] \in Stored  BY StreamAssumption DEF Stored
<1>2. /\ id \in Ids /\ ~Overlaps(play, id) /\ written' = written
      /\ streams' = [streams EXCEPT ![id] = Store(@, call[2], call[3])]
  BY DEF LowLevelSet
<1> HIDE DEF id
<1>3. streams \in [Ids -> Recordings]  BY DEF Recording
<1>4. Store(streams[id], call[2], call[3]) \in Recordings
  <2>1. IsStream(streams[id])  BY <1>2, <1>3 DEF Recordings, IsStream
  <2>2. IsStream(Store(streams[id], call[2], call[3]))  BY <1>1, <2>1, StoreIs
  <2> QED  BY <2>2 DEF Recordings, IsStream
<1>5. streams' \in [Ids -> Recordings]  BY <1>2, <1>3, <1>4
<1>6. ASSUME NEW g \in Handles(play), Accepted(play, g) PROVE Keeps(play, streams', g, written[g])
  <2>1. id \notin IdsOf(play, g)
    <3>1. /\ FirstId(play, g) \in Nat \ {0} /\ Width(play, g) \in Nat \ {0}
          /\ FirstId(play, g) + Width(play, g) <= StreamSize(play)
      BY <1>0, HandleIs
    <3>2. StreamSize(play) \in Nat  BY <1>0, OffsetIs DEF StreamSize
    <3>3. id \in Nat  BY <1>2 DEF Ids
    <3> QED  BY <1>2, <3>1, <3>2, <3>3 DEF Overlaps, IdsOf
  <2>2. \A i \in IdsOf(play, g) : streams'[i] = streams[i]
    BY <1>2, <1>3, <1>6, <2>1 DEF Accepted
  <2>3. Keeps(play, streams, g, written[g])  BY <1>6 DEF Recording
  <2> QED  BY <1>0, <2>2, <2>3, KeepsElsewhere
<1> QED  BY <1>2, <1>5, <1>6 DEF Recording

\* The recording watch is given is the one play made.
LEMMA ReplayKeeps ==
  ASSUME Replay, Recording(play, streams, written)
  PROVE  streams' = streams
<1>1. streams' = [id \in Ids |-> InOrder(streams[id])]  BY DEF Replay
<1>2. streams \in [Ids -> Recordings]  BY DEF Recording
<1>3. ASSUME NEW id \in Ids PROVE InOrder(streams[id]) = streams[id]
  <2>1. IsStream(streams[id])  BY <1>2 DEF Recordings, IsStream
  <2> QED  BY <2>1, InOrderSame
<1> QED  BY <1>1, <1>2, <1>3

-----------------------------------------------------------------------------
(***************************************************************************)
(* Every query of watch, as a question about what was written.             *)
(***************************************************************************)
LEMMA StreamReads ==
  ASSUME watch = play, Recording(play, streams, written), NEW h \in Handles(watch), Accepted(watch, h),
         FieldOf(watch, h).kind # "data", NEW key \in Int
  PROVE  ReadsStream(h, written[h], key)
<1> DEFINE w == written[h]
           c(n) == Contents(Slot(watch, streams, h, n))
<1>0. watch \in Seq(Field)  BY StreamAssumption DEF Recording
<1>1. FirstId(watch, h) \in Nat /\ Width(watch, h) \in Nat \ {0}  BY <1>0, HandleIs
<1>2. ASSUME NEW n \in 1..Width(watch, h) PROVE IsStream(Slot(watch, streams, h, n))
  <2>1. FirstId(watch, h) + n - 1 \in IdsOf(watch, h)  BY <1>1 DEF IdsOf
  <2>2. Slot(watch, streams, h, n) \in Recordings  BY <2>1 DEF Slot, Accepted, Recording
  <2> QED  BY <2>2 DEF Recordings, IsStream
<1>3. /\ DOMAIN w \subseteq Int
      /\ \A k \in DOMAIN w : w[k] \in [1..Width(watch, h) -> SlotValues]
  BY DEF Recording, IsWritten
<1>4. \A n \in 1..Width(watch, h) :
        /\ KeysOf(Slot(watch, streams, h, n)) = DOMAIN w
        /\ \A k \in DOMAIN w : c(n)[k] = w[k][n]
  BY DEF Recording, Keeps, KeepsStream
<1>5. 1 \in 1..Width(watch, h) /\ Keyed(h) = Slot(watch, streams, h, 1)
  <2>1. FirstId(watch, h) + 1 - 1 = FirstId(watch, h)  BY <1>1
  <2> QED  BY <1>1, <2>1 DEF Keyed, Slot
<1> HIDE DEF w, c
<1>6. Has(h, key) <=> key \in DOMAIN w  BY <1>2, <1>4, <1>5, FoundIs DEF Has
<1>7. ASSUME NEW up \in BOOLEAN
      PROVE  /\ HasNeighbour(h, key, up) <=> Beyond(w, key, up) # {}
             /\ Neighbour(h, key, up) = IF Beyond(w, key, up) = {} THEN key ELSE Nearest(w, key, up)
  <2>1. Neighbour(h, key, up) = NeighbourIn(Keyed(h), key, up)  BY DEF Neighbour, NeighbourIn
  <2>2. IsStream(Keyed(h)) /\ DOMAIN w = KeysOf(Keyed(h))  BY <1>2, <1>4, <1>5
  <2>3. /\ Beyond(w, key, up) = {} => Neighbour(h, key, up) = key
        /\ Beyond(w, key, up) # {} =>
             Neighbour(h, key, up) \in Beyond(w, key, up) /\ Neighbour(h, key, up) = Nearest(w, key, up)
    BY <2>1, <2>2, NeighbourIs
  <2>4. ~Passes(key, key, up)  BY DEF Passes
  <2>5. \A k \in Beyond(w, key, up) : Passes(k, key, up)  BY DEF Beyond
  <2> QED  BY <2>3, <2>4, <2>5 DEF HasNeighbour
<1>8. ASSUME NEW n \in 1..Width(watch, h)
      PROVE  ValueIn(Slot(watch, streams, h, n), key) = Recorded(w, key, Width(watch, h))[n]
  <2> DEFINE s == Slot(watch, streams, h, n)
             below == Beyond(w, key, FALSE)
             above == Beyond(w, key, TRUE)
             lower == Nearest(w, key, FALSE)
             upper == Nearest(w, key, TRUE)
  <2>1. IsStream(s) /\ DOMAIN w = KeysOf(s)  BY <1>2, <1>4
  <2>2. DOMAIN c(n) = DOMAIN w  BY <1>4 DEF c, Contents
  <2>3. ValueIn(s, key) = RecordedSlot(c(n), key)  BY <2>1, ValueIs DEF c
  <2> HIDE DEF s
  <2>4. ASSUME NEW up \in BOOLEAN
        PROVE  /\ Beyond(c(n), key, up) = Beyond(w, key, up)
               /\ Beyond(w, key, up) # {} =>
                    /\ Nearest(c(n), key, up) = Nearest(w, key, up)
                    /\ Nearest(w, key, up) \in DOMAIN w
    <3>1. Beyond(c(n), key, up) = Beyond(w, key, up)  BY <2>2 DEF Beyond
    <3>2. Beyond(w, key, up) # {} => Nearest(w, key, up) = NeighbourIn(s, key, up)
                                     /\ NeighbourIn(s, key, up) \in Beyond(w, key, up)
      BY <2>1, NeighbourIs
    <3>3. Beyond(c(n), key, up) # {} => Nearest(c(n), key, up) = NeighbourIn(s, key, up)
      BY <2>1, <2>2, NeighbourIs
    <3> QED  BY <3>1, <3>2, <3>3 DEF Beyond
  <2>5. /\ Beyond(c(n), key, FALSE) = below /\ Beyond(c(n), key, TRUE) = above
        /\ below # {} => Nearest(c(n), key, FALSE) = lower /\ lower \in DOMAIN w
        /\ above # {} => Nearest(c(n), key, TRUE) = upper /\ upper \in DOMAIN w
    BY <2>4
  <2>6. \A k \in DOMAIN w : c(n)[k] = w[k][n]  BY <1>4
  <2>7. RecordedSlot(c(n), key) =
          IF DOMAIN w = {} THEN 0
          ELSE IF key \in DOMAIN w THEN c(n)[key]
          ELSE IF below = {} THEN c(n)[Nearest(c(n), key, TRUE)]
          ELSE IF above = {} THEN c(n)[Nearest(c(n), key, FALSE)]
          ELSE Between(Entry(Nearest(c(n), key, FALSE), c(n)[Nearest(c(n), key, FALSE)]),
                       Entry(Nearest(c(n), key, TRUE), c(n)[Nearest(c(n), key, TRUE)]), key)
    BY <2>2, <2>5 DEF RecordedSlot
  <2>8. Recorded(w, key, Width(watch, h)) =
          IF DOMAIN w = {} THEN [slot \in 1..Width(watch, h) |-> 0]
          ELSE IF key \in DOMAIN w THEN w[key]
          ELSE IF below = {} THEN w[upper]
          ELSE IF above = {} THEN w[lower]
          ELSE [slot \in 1..Width(watch, h) |->
                  Between(Entry(lower, w[lower][slot]), Entry(upper, w[upper][slot]), key)]
    BY DEF Recorded
  <2>9. ~(DOMAIN w = {}) /\ key \notin DOMAIN w => below # {} \/ above # {}
    <3>1. \A k \in DOMAIN w : k # key => k \in below \/ k \in above
      BY <1>3 DEF Beyond, Passes
    <3> QED  BY <3>1
  <2> HIDE DEF below, above, lower, upper
  <2>10. CASE DOMAIN w = {}  BY <2>3, <2>7, <2>8, <2>10 DEF s
  <2>11. CASE ~(DOMAIN w = {}) /\ key \in DOMAIN w  BY <2>3, <2>6, <2>7, <2>8, <2>11 DEF s
  <2>12. CASE ~(DOMAIN w = {}) /\ key \notin DOMAIN w /\ below = {}
    <3>1. ValueIn(s, key) = c(n)[upper]  BY <2>3, <2>5, <2>7, <2>9, <2>12
    <3>2. c(n)[upper] = w[upper][n]  BY <2>5, <2>6, <2>9, <2>12
    <3> QED  BY <2>8, <2>12, <3>1, <3>2 DEF s
  <2>13. CASE ~(DOMAIN w = {}) /\ key \notin DOMAIN w /\ below # {} /\ above = {}
    <3>1. ValueIn(s, key) = c(n)[lower]  BY <2>3, <2>5, <2>7, <2>13
    <3>2. c(n)[lower] = w[lower][n]  BY <2>5, <2>6, <2>13
    <3> QED  BY <2>8, <2>13, <3>1, <3>2 DEF s
  <2>14. CASE ~(DOMAIN w = {}) /\ key \notin DOMAIN w /\ below # {} /\ above # {}
    <3>1. ValueIn(s, key) = Between(Entry(lower, c(n)[lower]), Entry(upper, c(n)[upper]), key)
      BY <2>3, <2>5, <2>7, <2>14
    <3>2. c(n)[lower] = w[lower][n] /\ c(n)[upper] = w[upper][n]  BY <2>5, <2>6, <2>14
    <3>3. Recorded(w, key, Width(watch, h))[n] =
            Between(Entry(lower, w[lower][n]), Entry(upper, w[upper][n]), key)
      BY <2>8, <2>14
    <3> QED  BY <3>1, <3>2, <3>3 DEF s
  <2> QED  BY <2>10, <2>11, <2>12, <2>13, <2>14
<1>9. Get(h, key) = Recorded(w, key, Width(watch, h))
  <2>1. Get(h, key) = [n \in 1..Width(watch, h) |-> ValueIn(Slot(watch, streams, h, n), key)]
    BY DEF Get, Slot
  <2>2. Get(h, key) = [n \in 1..Width(watch, h) |-> Recorded(w, key, Width(watch, h))[n]]
    BY <1>8, <2>1
  <2> DEFINE r == Recorded(w, key, Width(watch, h))
  <2>3. r = [n \in 1..Width(watch, h) |-> r[n]]
    <3>1. \A k \in DOMAIN w : w[k] = [n \in 1..Width(watch, h) |-> w[k][n]]  BY <1>3
    <3>2. \A up \in BOOLEAN : Beyond(w, key, up) # {} => Nearest(w, key, up) \in DOMAIN w
      <4>1. IsStream(Keyed(h)) /\ DOMAIN w = KeysOf(Keyed(h))  BY <1>2, <1>4, <1>5
      <4> QED  BY <4>1, NeighbourIs DEF Beyond
    <3>3. ~(DOMAIN w = {}) /\ key \notin DOMAIN w => Beyond(w, key, FALSE) # {} \/ Beyond(w, key, TRUE) # {}
      <4>1. \A k \in DOMAIN w : k # key => k \in Beyond(w, key, FALSE) \/ k \in Beyond(w, key, TRUE)
        BY <1>3 DEF Beyond, Passes
      <4> QED  BY <4>1
    <3> QED  BY <3>1, <3>2, <3>3 DEF Recorded
  <2> QED  BY <2>2, <2>3
<1> QED  BY <1>6, <1>7, <1>9 DEF ReadsStream, w

LEMMA DataReads ==
  ASSUME watch = play, Recording(play, streams, written), NEW h \in Handles(watch), Accepted(watch, h),
         FieldOf(watch, h).kind = "data"
  PROVE  ReadsData(h, written[h])
<1> SUFFICES ASSUME DOMAIN written[h] # {} PROVE GetData(h) = written[h][0]
  BY DEF ReadsData
<1> DEFINE m == FieldOf(watch, h).slots
           s == Slot(watch, streams, h, 1)
<1>0. watch \in Seq(Field)  BY StreamAssumption DEF Recording
<1>1. FirstId(watch, h) \in Nat /\ Width(watch, h) \in Nat \ {0} /\ m \in Nat
  <2>1. FieldOf(watch, h) \in Field  BY <1>0, HandleIs
  <2> QED  BY <1>0, <2>1, HandleIs DEF Field
<1>2. Keyed(h) = s /\ IsStream(s)
  <2>1. FirstId(watch, h) + 1 - 1 = FirstId(watch, h) /\ FirstId(watch, h) \in IdsOf(watch, h)
    BY <1>1 DEF IdsOf
  <2>2. Keyed(h) = s  BY <2>1 DEF Keyed, Slot
  <2>3. s \in Recordings  BY <2>1 DEF Slot, Accepted, Recording
  <2> QED  BY <2>2, <2>3 DEF Recordings, IsStream
<1>3. DOMAIN written[h] = {0} /\ written[h][0] \in [1..m -> SlotValues]
  BY DEF Recording, IsWritten
<1>4. \A n \in 1..m : 2 * (n - 1) \in KeysOf(s) /\ Contents(s)[2 * (n - 1)] = written[h][0][n]
  BY DEF Recording, Keeps, KeepsData
<1> HIDE DEF m, s
<1>5. ASSUME NEW n \in 1..m PROVE ValueIn(s, 2 * (n - 1)) = written[h][0][n]
  <2>1. ValueIn(s, 2 * (n - 1)) = RecordedSlot(Contents(s), 2 * (n - 1))
    BY <1>1, <1>2, ValueIs
  <2>2. 2 * (n - 1) \in DOMAIN Contents(s)  BY <1>4 DEF Contents
  <2>3. RecordedSlot(Contents(s), 2 * (n - 1)) = Contents(s)[2 * (n - 1)]  BY <2>2 DEF RecordedSlot
  <2> QED  BY <1>4, <2>1, <2>3
<1>6. GetData(h) = [n \in 1..m |-> ValueIn(s, 2 * (n - 1))]  BY <1>2 DEF GetData, m
<1> QED  BY <1>3, <1>5, <1>6

-----------------------------------------------------------------------------
(***************************************************************************)
(* The invariant of a range statement: what is due and not yet visited is  *)
(* at the current key or beyond it, and nothing is left when the current   *)
(* key is not there.                                                       *)
(***************************************************************************)
Visited(s) == {s[i].key : i \in DOMAIN s}
Iterators == [pc : {"running", "returned", "left"}, stream : Handles(play), up : BOOLEAN, frame : BOOLEAN,
              start : Int, end : Int, current : Int]
SeenSet == [key : Int, value : [1..Width(play, iterator.stream) -> SlotValues]]

InLine(it, w, s) == \A i, j \in DOMAIN s : i < j => Passes(s[j].key, s[i].key, it.up)
Whole(w, s) == \A i \in DOMAIN s : s[i].key \in DOMAIN w /\ s[i].value = w[s[i].key]
NoGap(it, w, s) ==
  /\ Visited(s) \subseteq Due(w, it)
  /\ \A key \in Due(w, it) \ Visited(s), k \in Visited(s) : Passes(key, k, it.up)
ToCome(it, w, s) ==
  /\ \A k \in Visited(s) : Passes(it.current, k, it.up)
  /\ \A key \in Due(w, it) \ Visited(s) : key = it.current \/ Passes(key, it.current, it.up)
  /\ it.current \in DOMAIN w /\ (it.frame => it.current <= it.end) => it.current \in Due(w, it)
  /\ it.current \notin DOMAIN w => Due(w, it) \subseteq Visited(s)

Along(it, w, s) ==
  /\ InLine(it, w, s) /\ Whole(w, s) /\ NoGap(it, w, s)
  /\ it.pc = "returned" => Visited(s) = Due(w, it)
  /\ it.pc = "running" => ToCome(it, w, s)

Ranging ==
  /\ iterator \in Iterators /\ (iterator.frame => iterator.up /\ iterator.start <= iterator.end)
  /\ Accepted(play, iterator.stream) /\ FieldOf(play, iterator.stream).kind # "data"
  /\ seen \in Seq(SeenSet)
  /\ Along(iterator, written[iterator.stream], seen)

StreamInvariant ==
  /\ watch = play /\ phase \in {"play", "watch"}
  /\ Recording(play, streams, written)
  /\ phase = "play" => iterator = NoIterator
  /\ iterator # NoIterator => Ranging

\* What the queries say of the keys a handle was written at.
LEMMA QueriesAre ==
  ASSUME StreamInvariant, NEW h \in Handles(play), Accepted(play, h), FieldOf(play, h).kind # "data",
         NEW key \in Int
  PROVE  /\ DOMAIN written[h] \subseteq Int
         /\ Has(h, key) <=> key \in DOMAIN written[h]
         /\ key \in DOMAIN written[h] =>
              Get(h, key) = written[h][key] /\ Get(h, key) \in [1..Width(play, h) -> SlotValues]
         /\ \A up \in BOOLEAN :
              LET next == Neighbour(h, key, up) IN
              /\ HasNeighbour(h, key, up) <=> Beyond(written[h], key, up) # {}
              /\ ~HasNeighbour(h, key, up) => next = key
              /\ HasNeighbour(h, key, up) =>
                   /\ next \in DOMAIN written[h] /\ Passes(next, key, up)
                   /\ \A j \in DOMAIN written[h] : Passes(j, key, up) => j = next \/ Passes(j, next, up)
<1> DEFINE w == written[h]
<1>0. watch = play /\ Recording(play, streams, written)  BY DEF StreamInvariant
<1>1. ReadsStream(h, w, key)  BY <1>0, StreamReads
<1>2. DOMAIN w \subseteq Int /\ \A k \in DOMAIN w : w[k] \in [1..Width(play, h) -> SlotValues]
  BY <1>0 DEF Recording, IsWritten
<1> HIDE DEF w
<1>3. key \in DOMAIN w => Get(h, key) = w[key]  BY <1>1 DEF ReadsStream, Recorded
<1>4. ASSUME NEW up \in BOOLEAN
      PROVE  /\ HasNeighbour(h, key, up) <=> Beyond(w, key, up) # {}
             /\ Beyond(w, key, up) = {} => Neighbour(h, key, up) = key
             /\ Beyond(w, key, up) # {} =>
                  /\ Neighbour(h, key, up) \in Beyond(w, key, up)
                  /\ \A j \in Beyond(w, key, up) : ~Passes(Neighbour(h, key, up), j, up)
  <2>1. Neighbour(h, key, up) = NeighbourIn(Keyed(h), key, up)  BY DEF Neighbour, NeighbourIn
  <2>2. IsStream(Keyed(h)) /\ DOMAIN w = KeysOf(Keyed(h))
    <3>1. watch \in Seq(Field)  BY <1>0, StreamAssumption DEF Recording
    <3>2. FirstId(watch, h) \in Nat /\ Width(watch, h) \in Nat \ {0}  BY <1>0, <3>1, HandleIs
    <3>3. FirstId(watch, h) + 1 - 1 = FirstId(watch, h) /\ FirstId(watch, h) \in IdsOf(watch, h)
          /\ 1 \in 1..Width(watch, h)
      BY <3>2 DEF IdsOf
    <3>4. Keyed(h) = Slot(play, streams, h, 1)  BY <1>0, <3>3 DEF Keyed, Slot
    <3>5. Keyed(h) \in Recordings  BY <1>0, <3>3 DEF Keyed, Accepted, Recording
    <3>6. KeysOf(Keyed(h)) = DOMAIN w  BY <1>0, <3>3, <3>4 DEF Recording, Keeps, KeepsStream, w
    <3> QED  BY <3>5, <3>6 DEF Recordings, IsStream
  <2>3. HasNeighbour(h, key, up) <=> Beyond(w, key, up) # {}  BY <1>1 DEF ReadsStream
  <2> QED  BY <2>1, <2>2, <2>3, NeighbourIs
<1>5. ASSUME NEW up \in BOOLEAN, HasNeighbour(h, key, up)
      PROVE  /\ Neighbour(h, key, up) \in DOMAIN w /\ Passes(Neighbour(h, key, up), key, up)
             /\ \A j \in DOMAIN w : Passes(j, key, up) =>
                  j = Neighbour(h, key, up) \/ Passes(j, Neighbour(h, key, up), up)
  <2> DEFINE k == Neighbour(h, key, up)
  <2>1. k \in Beyond(w, key, up) /\ \A j \in Beyond(w, key, up) : ~Passes(k, j, up)  BY <1>4, <1>5
  <2> HIDE DEF k
  <2>2. k \in DOMAIN w /\ Passes(k, key, up)  BY <2>1 DEF Beyond
  <2>3. ASSUME NEW j \in DOMAIN w, Passes(j, key, up) PROVE j = k \/ Passes(j, k, up)
    <3>1. ~Passes(k, j, up)  BY <2>1, <2>3 DEF Beyond
    <3> QED  BY <1>2, <2>2, <3>1 DEF Passes
  <2> QED  BY <2>2, <2>3 DEF k
<1>6. Has(h, key) <=> key \in DOMAIN w  BY <1>1 DEF ReadsStream
<1>7. key \in DOMAIN w => Get(h, key) \in [1..Width(play, h) -> SlotValues]  BY <1>2, <1>3
<1> QED  BY <1>2, <1>3, <1>4, <1>5, <1>6, <1>7 DEF w

LEMMA BeginRanges ==
  ASSUME StreamInvariant, NEW h \in Handles(watch), NEW up \in BOOLEAN, NEW frame \in BOOLEAN,
         NEW start \in Int, NEW end \in Int, NEW first \in Int, frame => up /\ start <= end,
         Begin(h, up, frame, start, end, first), UNCHANGED <<play, watch, streams, written>>,
         ToCome([pc |-> "running", stream |-> h, up |-> up, frame |-> frame,
                 start |-> start, end |-> end, current |-> first], written[h], <<>>)
  PROVE  Ranging'
<1> DEFINE it == [pc |-> "running", stream |-> h, up |-> up, frame |-> frame,
                  start |-> start, end |-> end, current |-> first]
<1>1. /\ iterator' = it /\ seen' = <<>> /\ watch = play
      /\ FieldOf(watch, h).kind = "stream" /\ Accepted(watch, h)
  BY DEF Begin, Watched, StreamInvariant
<1>2. /\ it \in Iterators /\ it.stream = h /\ it.frame = frame /\ it.up = up
      /\ it.start = start /\ it.end = end /\ it.pc = "running"
  BY <1>1 DEF Iterators
<1>3. Along(it, written[h], <<>>)
  <2>1. Visited(<<>>) = {}  BY DEF Visited
  <2> QED  BY <1>2, <2>1 DEF Along, InLine, Whole, NoGap
<1>4. Iterators' = Iterators  BY DEF Iterators
<1>5. seen' \in Seq(SeenSet')  BY <1>1
<1> HIDE DEF it
<1>6. Along(iterator', written'[iterator'.stream], seen')  BY <1>1, <1>2, <1>3
<1>7. iterator' \in Iterators' /\ (iterator'.frame => iterator'.up /\ iterator'.start <= iterator'.end)
  BY <1>1, <1>2, <1>4
<1>8. Accepted(play, iterator.stream)' /\ (FieldOf(play, iterator.stream).kind # "data")'
  BY <1>1, <1>2 DEF Accepted, IdsOf, FirstId, Width, FieldOf, Offset, Ids
<1> QED  BY <1>5, <1>6, <1>7, <1>8 DEF Ranging

LEMMA FromRanges ==
  ASSUME StreamInvariant, NEW h \in Handles(watch), NEW up \in BOOLEAN, NEW start \in Times,
         From(h, up, start), UNCHANGED <<play, watch, streams, written>>
  PROVE  Ranging'
<1> DEFINE first == NeighbourInclusive(h, start, up)
           it == [pc |-> "running", stream |-> h, up |-> up, frame |-> FALSE,
                  start |-> start, end |-> start, current |-> first]
           w == written[h]
<1>0. start \in Int /\ watch = play  BY StreamAssumption DEF StreamInvariant
<1>1. Begin(h, up, FALSE, start, start, first)  BY DEF From
<1>2. Accepted(play, h) /\ FieldOf(play, h).kind # "data" /\ h \in Handles(play)
  BY <1>0, <1>1 DEF Begin, Watched
<1>3. /\ DOMAIN w \subseteq Int
      /\ start \in DOMAIN w => first = start
      /\ start \notin DOMAIN w =>
           /\ Beyond(w, start, up) = {} => first = start
           /\ Beyond(w, start, up) # {} =>
                /\ first \in DOMAIN w /\ Passes(first, start, up)
                /\ \A j \in DOMAIN w : Passes(j, start, up) => j = first \/ Passes(j, first, up)
  BY <1>0, <1>2, QueriesAre DEF NeighbourInclusive
<1>4. first \in Int  BY <1>0, <1>3
<1> HIDE DEF first, w
<1>5. /\ it.current = first /\ it.up = up /\ it.frame = FALSE /\ it.start = start  OBVIOUS
<1>6. Due(w, it) = {key \in DOMAIN w : key = start \/ Passes(key, start, up)}  BY <1>5 DEF Due
<1> HIDE DEF it
<1>7. Visited(<<>>) = {}  BY DEF Visited
<1>8. ToCome(it, w, <<>>)
  <2>1. CASE start \in DOMAIN w  BY <1>3, <1>5, <1>6, <1>7, <2>1 DEF ToCome
  <2>2. CASE start \notin DOMAIN w /\ Beyond(w, start, up) = {}
    <3>1. Due(w, it) = {}  BY <1>6, <2>2 DEF Beyond
    <3> QED  BY <1>3, <1>5, <1>7, <2>2, <3>1 DEF ToCome
  <2>3. CASE start \notin DOMAIN w /\ Beyond(w, start, up) # {}
    BY <1>3, <1>5, <1>6, <1>7, <2>3 DEF ToCome
  <2> QED  BY <2>1, <2>2, <2>3
<1> QED  BY <1>0, <1>1, <1>4, <1>8, BeginRanges DEF it, w

LEMMA FrameRanges ==
  ASSUME StreamInvariant, NEW h \in Handles(watch), NEW now \in Times, NEW before \in Times, before <= now,
         SincePreviousFrame(h, now, now - before), UNCHANGED <<play, watch, streams, written>>
  PROVE  Ranging'
<1> DEFINE start == now - (now - before)
           first == Neighbour(h, start, TRUE)
           it == [pc |-> "running", stream |-> h, up |-> TRUE, frame |-> TRUE,
                  start |-> start, end |-> now, current |-> first]
           w == written[h]
<1>0. now \in Int /\ start = before /\ start \in Int /\ start <= now /\ watch = play
  BY StreamAssumption DEF StreamInvariant
<1>1. Begin(h, TRUE, TRUE, start, now, first)  BY DEF SincePreviousFrame
<1> HIDE DEF start
<1>2. Accepted(play, h) /\ FieldOf(play, h).kind # "data" /\ h \in Handles(play)
  BY <1>0, <1>1 DEF Begin, Watched
<1>3. /\ DOMAIN w \subseteq Int
      /\ Beyond(w, start, TRUE) = {} => first = start
      /\ Beyond(w, start, TRUE) # {} =>
           /\ first \in DOMAIN w /\ Passes(first, start, TRUE)
           /\ \A j \in DOMAIN w : Passes(j, start, TRUE) => j = first \/ Passes(j, first, TRUE)
  BY <1>0, <1>2, QueriesAre
<1>4. first \in Int  BY <1>0, <1>3
<1> HIDE DEF first, w
<1>5. it.current = first /\ it.up = TRUE /\ it.frame = TRUE /\ it.start = start /\ it.end = now  OBVIOUS
<1>6. Due(w, it) = {key \in DOMAIN w :
                      key <= now /\ (key > start \/ (key = start /\ Beyond(w, start, TRUE) = {}))}
  BY <1>5 DEF Due, InFrame
<1> HIDE DEF it
<1>7. Visited(<<>>) = {}  BY DEF Visited
<1>8. ToCome(it, w, <<>>)
  <2>1. CASE Beyond(w, start, TRUE) = {}
    <3>1. \A key \in DOMAIN w : ~(key > start)  BY <2>1 DEF Beyond, Passes
    <3>2. Due(w, it) = {key \in DOMAIN w : key = start}  BY <1>0, <1>6, <2>1, <3>1
    <3> QED  BY <1>0, <1>3, <1>5, <1>7, <2>1, <3>2 DEF ToCome
  <2>2. CASE Beyond(w, start, TRUE) # {}
    <3>1. Due(w, it) = {key \in DOMAIN w : key <= now /\ key > start}  BY <1>6, <2>2
    <3>2. first \in DOMAIN w /\ first > start  BY <1>3, <2>2 DEF Passes
    <3>3. \A key \in Due(w, it) : key = first \/ Passes(key, first, TRUE)
      BY <1>3, <2>2, <3>1 DEF Passes
    <3>4. first <= now => first \in Due(w, it)  BY <3>1, <3>2
    <3> QED  BY <1>5, <1>7, <3>2, <3>3, <3>4 DEF ToCome
  <2> QED  BY <2>1, <2>2
<1>9. start \in Int /\ now \in Int /\ start <= now  BY <1>0
<1> QED  BY <1>1, <1>4, <1>8, <1>9, BeginRanges DEF it, w

LEMMA PassesIs ==
  ASSUME NEW up \in BOOLEAN, NEW a \in Int, NEW b \in Int
  PROVE  /\ ~Passes(a, a, up)
         /\ Passes(a, b, up) => ~Passes(b, a, up)
         /\ \A c \in Int : Passes(a, b, up) /\ Passes(b, c, up) => Passes(a, c, up)
BY DEF Passes

LEMMA TurnRanges ==
  ASSUME StreamInvariant, Turn, UNCHANGED <<play, watch, streams, written>>
  PROVE  Ranging'
<1> DEFINE it == iterator
           h == iterator.stream
           up == iterator.up
           c == iterator.current
           w == written[iterator.stream]
           e == Entry(c, Get(h, c))
<1>0. /\ watch = play /\ it.pc = "running" /\ it # NoIterator /\ Ranging
  BY DEF StreamInvariant, Turn, NoIterator
<1>1. /\ it \in Iterators /\ h \in Handles(play) /\ up \in BOOLEAN /\ it.frame \in BOOLEAN
      /\ it.start \in Int /\ it.end \in Int /\ c \in Int
      /\ Accepted(play, h) /\ FieldOf(play, h).kind # "data" /\ seen \in Seq(SeenSet)
      /\ it.frame => up /\ it.start <= it.end
  BY <1>0 DEF Ranging, Iterators
<1>2. Has(h, c) /\ (it.frame => c <= it.end)  BY DEF Turn, Arrived
<1>3. /\ DOMAIN w \subseteq Int /\ c \in DOMAIN w
      /\ Get(h, c) = w[c] /\ Get(h, c) \in [1..Width(play, h) -> SlotValues]
      /\ HasNeighbour(h, c, up) <=> Beyond(w, c, up) # {}
      /\ HasNeighbour(h, c, up) =>
           /\ Neighbour(h, c, up) \in DOMAIN w /\ Passes(Neighbour(h, c, up), c, up)
           /\ \A j \in DOMAIN w : Passes(j, c, up) =>
                j = Neighbour(h, c, up) \/ Passes(j, Neighbour(h, c, up), up)
  <2> DEFINE v == written[h]
  <2>1. v = w  OBVIOUS
  <2> HIDE DEF h, c, up, w, it
  <2>2. h \in Handles(play) /\ up \in BOOLEAN /\ c \in Int /\ Has(h, c)
        /\ Accepted(play, h) /\ FieldOf(play, h).kind # "data"
    BY <1>1, <1>2, Zenon
  <2>3. /\ DOMAIN v \subseteq Int
        /\ c \in DOMAIN v
        /\ Get(h, c) = v[c] /\ Get(h, c) \in [1..Width(play, h) -> SlotValues]
    BY <2>2, QueriesAre DEF v
  <2>4. /\ HasNeighbour(h, c, up) <=> Beyond(v, c, up) # {}
        /\ HasNeighbour(h, c, up) =>
           /\ Neighbour(h, c, up) \in DOMAIN v /\ Passes(Neighbour(h, c, up), c, up)
           /\ \A j \in DOMAIN v : Passes(j, c, up) =>
                j = Neighbour(h, c, up) \/ Passes(j, Neighbour(h, c, up), up)
    BY <2>2, QueriesAre DEF v
  <2> QED  BY <2>1, <2>3, <2>4, Zenon
<1>4. Along(it, w, seen) /\ ToCome(it, w, seen)  BY <1>0 DEF Ranging, Along
<1>5. seen' = Append(seen, e)  BY DEF Turn
<1>6. e \in SeenSet /\ e.key = c /\ e.value = w[c]  BY <1>1, <1>3 DEF SeenSet, Entry
<1> DEFINE n == Len(seen)
<1>7. /\ n \in Nat /\ DOMAIN seen = 1..n /\ DOMAIN seen' = 1..n + 1 /\ seen' \in Seq(SeenSet)
      /\ \A i \in 1..n : seen'[i] = seen[i] /\ seen[i] \in SeenSet
      /\ seen'[n + 1] = e
  BY <1>1, <1>5, <1>6
<1> HIDE DEF e, n
<1>8. \A i \in 1..n : seen[i].key \in Int  BY <1>7 DEF SeenSet
<1>9. Visited(seen') = Visited(seen) \cup {c} /\ Visited(seen) \subseteq Int
  <2>1. \A i \in 1..n + 1 : i \in 1..n \/ i = n + 1  BY <1>7
  <2>2. \A i \in 1..n : i \in 1..n + 1  BY <1>7
  <2>3. n + 1 \in 1..n + 1  BY <1>7
  <2> QED  BY <1>6, <1>7, <1>8, <2>1, <2>2, <2>3 DEF Visited
<1>10. \A k \in Visited(seen) : Passes(c, k, up)  BY <1>4 DEF ToCome
<1>11. \A i, j \in DOMAIN seen' : i < j => Passes(seen'[j].key, seen'[i].key, up)
  <2> SUFFICES ASSUME NEW i \in 1..n + 1, NEW j \in 1..n + 1, i < j
               PROVE  Passes(seen'[j].key, seen'[i].key, up)
    BY <1>7
  <2>1. i \in 1..n /\ seen'[i] = seen[i] /\ seen[i].key \in Visited(seen)  BY <1>7 DEF Visited
  <2>2. CASE j = n + 1  BY <1>6, <1>7, <1>10, <2>1, <2>2
  <2>3. CASE j # n + 1
    <3>1. j \in 1..n /\ seen'[j] = seen[j]  BY <1>7, <2>3
    <3> QED  BY <1>4, <1>7, <2>1, <3>1 DEF Along, InLine
  <2> QED  BY <2>2, <2>3
<1>12. Whole(w, seen')
  <2>1. ASSUME NEW i \in 1..n + 1 PROVE seen'[i].key \in DOMAIN w /\ seen'[i].value = w[seen'[i].key]
    <3>1. CASE i = n + 1  BY <1>3, <1>6, <1>7, <3>1
    <3>2. CASE i # n + 1
      <4>1. i \in 1..n /\ seen'[i] = seen[i]  BY <1>7, <3>2
      <4> QED  BY <1>4, <1>7, <4>1 DEF Along, Whole
    <3> QED  BY <3>1, <3>2
  <2> QED  BY <1>7, <2>1 DEF Whole
<1> DEFINE due == Due(w, it)
<1>13. /\ c \in due /\ due \subseteq DOMAIN w /\ Visited(seen) \subseteq due
       /\ \A key \in due \ Visited(seen) : key = c \/ Passes(key, c, up)
  <2>1. due \subseteq DOMAIN w  BY DEF Due
  <2> QED  BY <1>2, <1>3, <1>4, <2>1 DEF Along, NoGap, ToCome
<1> HIDE DEF due
<1>14. /\ Visited(seen') \subseteq due
       /\ \A key \in due \ Visited(seen') : Passes(key, c, up)
       /\ \A key \in due \ Visited(seen'), k \in Visited(seen') : Passes(key, k, up)
  <2>1. \A key \in due \ Visited(seen') : Passes(key, c, up)  BY <1>9, <1>13
  <2>2. ASSUME NEW key \in due \ Visited(seen'), NEW k \in Visited(seen') PROVE Passes(key, k, up)
    <3>1. Passes(key, c, up) /\ key \in Int  BY <1>3, <1>13, <2>1
    <3>2. CASE k = c  BY <3>1, <3>2
    <3>3. CASE k # c
      <4>1. k \in Int /\ Passes(c, k, up)  BY <1>9, <1>10, <3>3
      <4> QED  BY <1>1, <3>1, <4>1, PassesIs
    <3> QED  BY <3>2, <3>3
  <2> QED  BY <1>9, <1>13, <2>1, <2>2
\* What does not depend on how the turn ends.
<1>15. ASSUME NEW next \in Iterators, next.stream = h, next.up = up, next.frame = it.frame,
              next.start = it.start, next.end = it.end, iterator' = next,
              next.pc = "returned" => due \subseteq Visited(seen'),
              next.pc = "running" => ToCome(next, w, seen')
       PROVE  Ranging'
  <2>1. Due(w, next) = due  BY <1>15 DEF due, Due, InFrame
  <2>2. Along(next, w, seen')  BY <1>11, <1>12, <1>14, <1>15, <2>1 DEF Along, InLine, NoGap
  <2>3. Iterators' = Iterators /\ SeenSet' = SeenSet
    BY <1>15 DEF Iterators, SeenSet, Handles, Width, FieldOf, Size, ElementSize
  <2>4. Accepted(play, iterator.stream)' /\ (FieldOf(play, iterator.stream).kind # "data")'
    BY <1>1, <1>15 DEF Accepted, IdsOf, FirstId, Width, FieldOf, Offset, Ids
  <2> QED  BY <1>1, <1>7, <1>15, <2>2, <2>3, <2>4 DEF Ranging
<1>16. CASE iterator' = [iterator EXCEPT !.pc = "left"]
  <2> DEFINE next == [iterator EXCEPT !.pc = "left"]
  <2>1. /\ next \in Iterators /\ next.stream = h /\ next.up = up /\ next.frame = it.frame
        /\ next.start = it.start /\ next.end = it.end /\ next.pc = "left"
    BY <1>1 DEF Iterators
  <2> HIDE DEF next
  <2> QED  BY <1>15, <1>16, <2>1 DEF next
<1>17. CASE HasNeighbour(h, c, up) /\ iterator' = [iterator EXCEPT !.current = Neighbour(h, @, up)]
  <2> DEFINE k == Neighbour(h, c, up)
             next == [iterator EXCEPT !.current = k]
  <2>1. /\ k \in DOMAIN w /\ k \in Int /\ Passes(k, c, up)
        /\ \A j \in DOMAIN w : Passes(j, c, up) => j = k \/ Passes(j, k, up)
    BY <1>3, <1>17
  <2>2. iterator' = next  BY <1>17
  <2> HIDE DEF k
  <2>3. /\ next \in Iterators /\ next.stream = h /\ next.up = up /\ next.frame = it.frame
        /\ next.start = it.start /\ next.end = it.end /\ next.pc = "running" /\ next.current = k
    BY <1>0, <1>1, <2>1 DEF Iterators
  <2> HIDE DEF next
  <2>4. Due(w, next) = due  BY <2>3 DEF due, Due, InFrame
  <2>5. \A j \in Visited(seen') : Passes(k, j, up)
    <3>1. ASSUME NEW j \in Visited(seen'), j # c PROVE Passes(k, j, up)
      <4>1. j \in Int /\ Passes(c, j, up)  BY <1>9, <1>10, <3>1
      <4> QED  BY <1>1, <2>1, <4>1, PassesIs
    <3> QED  BY <2>1, <3>1
  <2>6. \A key \in due \ Visited(seen') : key = k \/ Passes(key, k, up)  BY <1>13, <1>14, <2>1
  <2>7. ASSUME it.frame => k <= it.end PROVE k \in due
    <3>1. CASE it.frame
      <4>1. up /\ c >= it.start
        <5>1. InFrame(w, it, c)  BY <1>13, <3>1 DEF due, Due
        <5>2. c > it.start \/ c = it.start  BY <5>1, Zenon DEF InFrame
        <5>3. c \in Int /\ it.start \in Int  BY <1>1, Zenon
        <5>4. c >= it.start  BY <5>2, <5>3
        <5> QED  BY <1>1, <3>1, <5>4, Zenon
      <4>2. k > it.start  BY <1>1, <2>1, <4>1 DEF Passes
      <4> QED  BY <2>1, <2>7, <3>1, <4>2 DEF due, Due, InFrame
    <3>2. CASE ~it.frame
      <4>1. c = it.start \/ Passes(c, it.start, up)  BY <1>13, <3>2 DEF due, Due
      <4>2. Passes(k, it.start, up)  BY <1>1, <2>1, <4>1, PassesIs
      <4> QED  BY <2>1, <3>2, <4>2 DEF due, Due
    <3> QED  BY <3>1, <3>2
  <2>8. ToCome(next, w, seen')  BY <2>1, <2>3, <2>4, <2>5, <2>6, <2>7 DEF ToCome
  <2> QED  BY <1>15, <2>2, <2>3, <2>8
<1>18. CASE ~HasNeighbour(h, c, up) /\ iterator' = [iterator EXCEPT !.pc = "returned"]
  <2> DEFINE next == [iterator EXCEPT !.pc = "returned"]
  <2>1. /\ next \in Iterators /\ next.stream = h /\ next.up = up /\ next.frame = it.frame
        /\ next.start = it.start /\ next.end = it.end /\ next.pc = "returned"
    BY <1>1 DEF Iterators
  <2>2. iterator' = next  BY <1>18
  <2> HIDE DEF next
  <2>3. due \subseteq Visited(seen')  BY <1>3, <1>13, <1>14, <1>18 DEF Beyond
  <2> QED  BY <1>15, <2>1, <2>2, <2>3
<1> QED  BY <1>16, <1>17, <1>18 DEF Turn

LEMMA ReturnRanges ==
  ASSUME StreamInvariant, Return, UNCHANGED <<play, watch, streams, written>>
  PROVE  Ranging'
<1> DEFINE it == iterator
           w == written[iterator.stream]
           next == [iterator EXCEPT !.pc = "returned"]
<1>0. it.pc = "running" /\ it # NoIterator /\ Ranging /\ watch = play
  BY DEF StreamInvariant, Return, NoIterator
<1>1. /\ it \in Iterators /\ it.stream \in Handles(play) /\ it.current \in Int /\ it.up \in BOOLEAN
      /\ it.end \in Int /\ Accepted(play, it.stream) /\ FieldOf(play, it.stream).kind # "data"
      /\ it.frame => it.up /\ it.start <= it.end
  BY <1>0 DEF Ranging, Iterators
<1>2. /\ next \in Iterators /\ next.stream = it.stream /\ next.up = it.up /\ next.frame = it.frame
      /\ next.start = it.start /\ next.end = it.end /\ next.pc = "returned"
  BY <1>1 DEF Iterators
<1>3. iterator' = next /\ seen' = seen /\ ~Arrived  BY DEF Return
<1> HIDE DEF next
<1>4. Along(it, w, seen) /\ ToCome(it, w, seen)  BY <1>0 DEF Ranging, Along
<1>5. Due(w, it) \subseteq Visited(seen)
  <2>1. CASE it.current \notin DOMAIN w  BY <1>4, <2>1 DEF ToCome
  <2>2. CASE it.current \in DOMAIN w
    <3>1. it.frame /\ ~(it.current <= it.end)  BY <1>1, <1>3, <2>2, QueriesAre DEF Arrived
    <3>2. it.up /\ DOMAIN w \subseteq Int  BY <1>1, <3>1, QueriesAre
    <3>3. \A key \in Due(w, it) : key <= it.end /\ key \in Int  BY <3>1, <3>2 DEF Due, InFrame
    <3>4. \A key \in Due(w, it) : key \notin Visited(seen) => key >= it.current
      BY <1>1, <1>4, <3>2, <3>3 DEF ToCome, Passes
    <3> QED  BY <1>1, <3>1, <3>3, <3>4
  <2> QED  BY <2>1, <2>2
<1>6. Due(w, next) = Due(w, it)  BY <1>2 DEF Due, InFrame
<1>7. Along(next, w, seen)  BY <1>2, <1>4, <1>5, <1>6 DEF Along, InLine, NoGap
<1>a. play' = play /\ iterator'.stream = iterator.stream  BY <1>2, <1>3
<1>8. Iterators' = Iterators /\ SeenSet' = SeenSet
  <2>1. Iterators' = Iterators  BY <1>a DEF Iterators, Handles
  <2>2. SeenSet' = SeenSet  BY <1>a DEF SeenSet, Width, FieldOf, Size, ElementSize
  <2> QED  BY <2>1, <2>2
<1>9. Accepted(play, iterator.stream)' /\ (FieldOf(play, iterator.stream).kind # "data")'
  BY <1>1, <1>a DEF Accepted, IdsOf, FirstId, Width, FieldOf, Offset, Ids
<1> QED  BY <1>0, <1>1, <1>2, <1>3, <1>7, <1>8, <1>9 DEF Ranging

-----------------------------------------------------------------------------
(***************************************************************************)
(* The invariant holds, and gives both properties.                         *)
(***************************************************************************)
LEMMA StreamInvariantInit == StreamInit => StreamInvariant
<1> SUFFICES ASSUME StreamInit PROVE StreamInvariant  OBVIOUS
<1>1. play \in Seq(Field) /\ watch \in Seq(Field) /\ play \in Declarations
  BY StreamAssumption DEF StreamInit
<1>2. watch = play  BY <1>1, SameDeclarations DEF StreamInit
<1>3. Recording(play, streams, written)  BY <1>1, RecordingEmpty DEF StreamInit
<1> QED  BY <1>2, <1>3 DEF StreamInit, StreamInvariant

LEMMA StreamInvariantNext == StreamInvariant /\ [StreamNext]_streamVars => StreamInvariant'
<1> SUFFICES ASSUME StreamInvariant, [StreamNext]_streamVars PROVE StreamInvariant'
  OBVIOUS
<1>0. watch = play /\ Recording(play, streams, written)  BY DEF StreamInvariant
<1>1. CASE Play
  <2>1. /\ phase = "play" /\ iterator = NoIterator
        /\ UNCHANGED <<play, watch, phase, iterator, seen>>
    BY <1>1 DEF Play, StreamInvariant
  <2>2. ASSUME NEW h \in Handles(play), Accepted(play, h), NEW v \in SlotsOf(FieldOf(play, h)),
               (\E key \in StreamKeys : Set(h, key, v)) \/ SetData(h, v)
        PROVE  Recording(play, streams', written')
    BY <1>0, <2>2, SetKeeps, SetDataKeeps
  <2>3. ASSUME NEW call \in LowLevelCalls, LowLevelSet(call[1], call[2], call[3])
        PROVE  Recording(play, streams', written')
    BY <1>0, <2>3, LowLevelSetKeeps
  <2>4. Recording(play, streams', written')  BY <1>1, <2>2, <2>3 DEF Play
  <2> QED  BY <1>0, <2>1, <2>4 DEF StreamInvariant
<1>2. CASE Replay
  <2>1. streams' = streams  BY <1>0, <1>2, ReplayKeeps
  <2>2. iterator = NoIterator /\ phase' = "watch" /\ UNCHANGED <<play, watch, written, iterator, seen>>
    BY <1>2 DEF Replay, StreamInvariant
  <2> QED  BY <1>0, <2>1, <2>2 DEF StreamInvariant
<1>3. CASE Watch
  <2>1. UNCHANGED <<play, watch, streams, written>> /\ phase' = "watch"  BY <1>3 DEF Watch
  <2>2. Ranging'
    <3>1. CASE \E h \in Handles(watch), start \in Times : \E up \in BOOLEAN : From(h, up, start)
      BY <2>1, <3>1, FromRanges
    <3>2. CASE \E h \in Handles(watch), now, before \in Times :
                 before <= now /\ SincePreviousFrame(h, now, now - before)
      BY <2>1, <3>2, FrameRanges
    <3>3. CASE Turn  BY <2>1, <3>3, TurnRanges
    <3>4. CASE Return  BY <2>1, <3>4, ReturnRanges
    <3> QED  BY <1>3, <3>1, <3>2, <3>3, <3>4 DEF Watch
  <2> QED  BY <1>0, <2>1, <2>2 DEF StreamInvariant
<1>4. CASE UNCHANGED streamVars
  <2>1. Ranging => Ranging'
    <3>1. UNCHANGED <<play, iterator, seen, written>>  BY <1>4 DEF streamVars
    <3>2. Iterators' = Iterators  BY <3>1 DEF Iterators
    <3>3. SeenSet' = SeenSet  BY <3>1 DEF SeenSet
    <3>4. Accepted(play, iterator.stream)' = Accepted(play, iterator.stream)
          /\ FieldOf(play, iterator.stream)' = FieldOf(play, iterator.stream)
      BY <3>1
    <3> QED  BY <3>1, <3>2, <3>3, <3>4 DEF Ranging
  <2> QED  BY <1>0, <1>4, <2>1 DEF streamVars, StreamInvariant
<1> QED  BY <1>1, <1>2, <1>3, <1>4 DEF StreamNext

LEMMA StreamInvariantHolds == StreamSpec => []StreamInvariant
BY StreamInvariantInit, StreamInvariantNext, PTL DEF StreamSpec

\* Whatever play wrote, at any keys, is what watch reads (lower.go, execute.go).
THEOREM ReplayReadsBack == StreamSpec => []ReadsBack
<1>1. ASSUME StreamInvariant PROVE ReadsBack
  <2>1. watch = play /\ Recording(play, streams, written)  BY <1>1 DEF StreamInvariant
  <2>2. \A key \in Times : key \in Int  BY StreamAssumption
  <2>3. ASSUME NEW h \in Handles(watch), Accepted(watch, h), FieldOf(watch, h).kind = "data"
        PROVE  ReadsData(h, written[h])
    BY <2>1, <2>3, DataReads
  <2>4. ASSUME NEW h \in Handles(watch), Accepted(watch, h), FieldOf(watch, h).kind # "data",
               NEW key \in Times
        PROVE  ReadsStream(h, written[h], key)
    BY <2>1, <2>2, <2>4, StreamReads
  <2> QED  BY <2>3, <2>4 DEF ReadsBack
<1> QED  BY <1>1, StreamInvariantHolds, PTL

\* A range statement yields what it is about, once, in order, to its end
\* (lower.go).
THEOREM RangeVisitsDue == StreamSpec => []VisitsDue
<1>1. ASSUME StreamInvariant PROVE VisitsDue
  <2>1. ASSUME iterator # NoIterator, NEW w, w = written[iterator.stream]
        PROVE  Along(iterator, w, seen)
    BY <1>1, <2>1 DEF StreamInvariant, Ranging
  <2> QED  BY <2>1 DEF VisitsDue, Along, InLine, Whole, NoGap, Visited
<1> QED  BY <1>1, StreamInvariantHolds, PTL

-----------------------------------------------------------------------------
(***************************************************************************)
(* Registration ends, and finds what the objects it finds point to.        *)
(***************************************************************************)
Registrations == [done : Seq(Owned), todo : Seq(Owned \cup {"nil"})]
Distinct(s) == \A i, j \in DOMAIN s : s[i] = s[j] => i = j
\* What r.done has is distinct, and what it points to is or will be there.
Follows(p, r) ==
  /\ Distinct(r.done)
  /\ \A o \in Range(r.done) :
       /\ p.initial[o].link \in Range(r.done) \cup Range(r.todo) \cup {"nil"}
       /\ p.initial[o].shape \in Range(r.done) \cup Range(r.todo) \cup {"nil"}
Remaining(r) == Len(r.todo) + 2 * Cardinality(Objects \ Range(r.done))

LEMMA PointsAre ==
  ASSUME NEW p, IsProgram(p), NEW o \in Owned
  PROVE  /\ p.initial[o] \in Initial
         /\ p.initial[o].value \in Int
         /\ p.initial[o].link \in (Owned \ Nodes) \cup {"nil"}
         /\ p.initial[o].shape \in Owned \cup {"nil"}
         /\ o \notin Nodes => p.initial[o].link = "nil" /\ p.initial[o].shape = "nil"
<1>1. p.initial[o] \in Initial  BY DEF IsProgram
<1> QED  BY <1>1 DEF IsProgram, Initial

LEMMA RangeAppend ==
  ASSUME NEW X, NEW s \in Seq(X), NEW x \in X
  PROVE  Range(Append(s, x)) = Range(s) \cup {x}
<1>1. /\ DOMAIN s = 1..Len(s) /\ Len(s) \in Nat /\ DOMAIN Append(s, x) = 1..Len(s) + 1
      /\ Append(s, x)[Len(s) + 1] = x /\ \A i \in 1..Len(s) : Append(s, x)[i] = s[i]
  OBVIOUS
<1> QED  BY <1>1 DEF Range

LEMMA RangeTail ==
  ASSUME NEW X, NEW s \in Seq(X), s # <<>>
  PROVE  /\ Head(s) \in X /\ Tail(s) \in Seq(X) /\ Len(Tail(s)) = Len(s) - 1
         /\ Range(s) = Range(Tail(s)) \cup {Head(s)}
<1>1. /\ Len(s) \in Nat \ {0} /\ DOMAIN s = 1..Len(s) /\ Head(s) = s[1] /\ Tail(s) \in Seq(X)
      /\ Len(Tail(s)) = Len(s) - 1 /\ \A i \in 1..Len(s) - 1 : Tail(s)[i] = s[i + 1]
  OBVIOUS
<1>2. DOMAIN Tail(s) = 1..Len(s) - 1  BY <1>1
<1>3. ASSUME NEW i \in 1..Len(s) PROVE s[i] \in Range(Tail(s)) \cup {Head(s)}
  <2>1. CASE i = 1  BY <1>1, <2>1
  <2>2. CASE i # 1
    <3>1. i - 1 \in 1..Len(s) - 1 /\ Tail(s)[i - 1] = s[i]  BY <1>1, <2>2
    <3> QED  BY <1>2, <3>1 DEF Range
  <2> QED  BY <2>1, <2>2
<1>4. ASSUME NEW i \in 1..Len(s) - 1 PROVE Tail(s)[i] \in Range(s)
  <2>1. i + 1 \in 1..Len(s)  BY <1>1
  <2> QED  BY <1>1, <2>1 DEF Range
<1>5. Head(s) \in Range(s) /\ Head(s) \in X  BY <1>1 DEF Range
<1>6. Range(s) \subseteq Range(Tail(s)) \cup {Head(s)}  BY <1>1, <1>3 DEF Range
<1>7. Range(Tail(s)) \subseteq Range(s)  BY <1>2, <1>4 DEF Range
<1> QED  BY <1>1, <1>5, <1>6, <1>7

LEMMA RangePair ==
  ASSUME NEW X, NEW x \in X, NEW y \in X, NEW s \in Seq(X)
  PROVE  /\ <<x, y>> \o s \in Seq(X) /\ Len(<<x, y>> \o s) = Len(s) + 2
         /\ Range(<<x, y>> \o s) = Range(s) \cup {x, y}
<1> DEFINE t == <<x, y>> \o s
<1>1. /\ Len(s) \in Nat /\ DOMAIN s = 1..Len(s)
      /\ t \in Seq(X) /\ Len(t) = Len(s) + 2 /\ t[1] = x /\ t[2] = y
      /\ \A i \in 1..Len(s) : t[i + 2] = s[i]
  OBVIOUS
<1> HIDE DEF t
<1>2. DOMAIN t = 1..Len(s) + 2  BY <1>1
<1>3. ASSUME NEW i \in 1..Len(s) + 2 PROVE t[i] \in Range(s) \cup {x, y}
  <2>1. CASE i \in {1, 2}  BY <1>1, <2>1
  <2>2. CASE i \notin {1, 2}
    <3>1. i - 2 \in 1..Len(s) /\ (i - 2) + 2 = i  BY <1>1, <2>2
    <3>2. t[i] = s[i - 2]  BY <1>1, <3>1
    <3> QED  BY <1>1, <3>1, <3>2 DEF Range
  <2> QED  BY <2>1, <2>2
<1>4. ASSUME NEW i \in 1..Len(s) PROVE s[i] \in Range(t)
  <2>1. i + 2 \in 1..Len(s) + 2  BY <1>1
  <2> QED  BY <1>1, <1>2, <2>1 DEF Range
<1>5. x \in Range(t) /\ y \in Range(t)
  <2>1. 1 \in DOMAIN t /\ 2 \in DOMAIN t  BY <1>1, <1>2
  <2> QED  BY <1>1, <2>1 DEF Range
<1>6. Range(t) \subseteq Range(s) \cup {x, y}  BY <1>2, <1>3 DEF Range
<1>7. Range(s) \subseteq Range(t)  BY <1>1, <1>4 DEF Range
<1>8. Range(t) = Range(s) \cup {x, y}  BY <1>5, <1>6, <1>7
<1> QED  BY <1>1, <1>8 DEF t

\* A step keeps the shape and what follows, and takes one from what remains.
LEMMA RegisterKeeps ==
  ASSUME PackageAssumption, NEW p, IsProgram(p), NEW r \in Registrations, Follows(p, r)
  PROVE  LET next == RegisterPackageObject(p, r)
         IN /\ next \in Registrations
            /\ Follows(p, next)
            /\ r.todo # <<>> => Remaining(next) = Remaining(r) - 1
            /\ r.todo = <<>> => next = r
<1> DEFINE next == RegisterPackageObject(p, r)
           done == r.done
           todo == r.todo
           o == Head(todo)
<1>0. done \in Seq(Owned) /\ todo \in Seq(Owned \cup {"nil"})  BY DEF Registrations
<1>1. CASE todo = <<>>  BY <1>1 DEF RegisterPackageObject
<1>2. CASE todo # <<>>
  <2>1. /\ o \in Owned \cup {"nil"} /\ Tail(todo) \in Seq(Owned \cup {"nil"})
        /\ Len(Tail(todo)) = Len(todo) - 1 /\ Range(todo) = Range(Tail(todo)) \cup {o}
    BY <1>0, <1>2, RangeTail
  <2>2. CASE o = "nil" \/ o \in Range(done)
    <3>1. next = [done |-> done, todo |-> Tail(todo)]  BY <1>2, <2>2 DEF RegisterPackageObject
    <3> HIDE DEF next
    <3>2. next \in Registrations  BY <1>0, <2>1, <3>1 DEF Registrations
    <3>3. Range(next.done) \cup Range(next.todo) \cup {"nil"} = Range(done) \cup Range(todo) \cup {"nil"}
      BY <2>1, <2>2, <3>1
    <3>4. next.done = done  BY <3>1
    <3>5. Follows(p, next)  BY <3>3, <3>4 DEF Follows
    <3>6. Len(todo) \in Nat /\ Objects \ Range(done) \subseteq Objects  BY <1>0
    <3>7. Cardinality(Objects \ Range(done)) \in Nat
      BY <3>6, FS_Subset, FS_CardinalityType DEF PackageAssumption
    <3>8. Remaining(next) = Remaining(r) - 1  BY <2>1, <3>1, <3>6, <3>7 DEF Remaining
    <3> QED  BY <1>2, <3>2, <3>5, <3>8 DEF next
  <2>3. CASE o # "nil" /\ o \notin Range(done)
    <3> DEFINE link == p.initial[o].link
               shape == p.initial[o].shape
    <3>1. next = [done |-> Append(done, o), todo |-> <<link, shape>> \o Tail(todo)]
      BY <1>2, <2>3 DEF RegisterPackageObject
    <3>2. o \in Owned  BY <2>1, <2>3
    <3>3. link \in Owned \cup {"nil"} /\ shape \in Owned \cup {"nil"}  BY <3>2, PointsAre
    <3> HIDE DEF next, link, shape
    <3>4. /\ <<link, shape>> \o Tail(todo) \in Seq(Owned \cup {"nil"})
          /\ Len(<<link, shape>> \o Tail(todo)) = Len(todo) + 1
          /\ Range(<<link, shape>> \o Tail(todo)) = Range(Tail(todo)) \cup {link, shape}
      <4>1. /\ <<link, shape>> \o Tail(todo) \in Seq(Owned \cup {"nil"})
            /\ Len(<<link, shape>> \o Tail(todo)) = Len(Tail(todo)) + 2
            /\ Range(<<link, shape>> \o Tail(todo)) = Range(Tail(todo)) \cup {link, shape}
        <5> DEFINE X == Owned \cup {"nil"}
                   rest == Tail(todo)
        <5>1. link \in X /\ shape \in X /\ rest \in Seq(X)  BY <2>1, <3>3
        <5> HIDE DEF X, rest
        <5>2. /\ <<link, shape>> \o rest \in Seq(X)
              /\ Len(<<link, shape>> \o rest) = Len(rest) + 2
              /\ Range(<<link, shape>> \o rest) = Range(rest) \cup {link, shape}
          BY <5>1, RangePair
        <5> QED  BY <5>2 DEF X, rest
      <4>2. Len(todo) \in Nat  BY <1>0
      <4> QED  BY <2>1, <4>1, <4>2
    <3>5. Range(Append(done, o)) = Range(done) \cup {o}  BY <1>0, <3>2, RangeAppend
    <3>6. next \in Registrations  BY <1>0, <3>1, <3>2, <3>4 DEF Registrations
    <3>7. Distinct(Append(done, o))
      <4>1. /\ Len(done) \in Nat /\ DOMAIN done = 1..Len(done) /\ DOMAIN Append(done, o) = 1..Len(done) + 1
            /\ Append(done, o)[Len(done) + 1] = o /\ \A i \in 1..Len(done) : Append(done, o)[i] = done[i]
        BY <1>0, <3>2
      <4>2. \A i \in 1..Len(done) : done[i] # o  BY <2>3, <4>1 DEF Range
      <4>3. \A i, j \in 1..Len(done) : done[i] = done[j] => i = j  BY <4>1 DEF Follows, Distinct
      <4> QED  BY <4>1, <4>2, <4>3 DEF Distinct
    <3>8. Follows(p, next)
      <4> DEFINE all == Range(next.done) \cup Range(next.todo) \cup {"nil"}
      <4>1. all = Range(done) \cup Range(Tail(todo)) \cup {o, link, shape, "nil"}
        BY <3>1, <3>4, <3>5
      <4>2. Range(done) \cup Range(todo) \cup {"nil"} \subseteq all  BY <2>1, <4>1
      <4>3. ASSUME NEW x \in Range(next.done) PROVE p.initial[x].link \in all /\ p.initial[x].shape \in all
        <5>1. x \in Range(done) \/ x = o  BY <3>1, <3>5
        <5>2. CASE x \in Range(done)
          <6>1. /\ p.initial[x].link \in Range(done) \cup Range(todo) \cup {"nil"}
                /\ p.initial[x].shape \in Range(done) \cup Range(todo) \cup {"nil"}
            BY <5>2 DEF Follows
          <6> HIDE DEF all
          <6> QED  BY <4>2, <6>1
        <5>3. CASE x = o  BY <4>1, <5>3 DEF link, shape
        <5> QED  BY <5>1, <5>2, <5>3
      <4>4. Distinct(next.done)  BY <3>1, <3>7
      <4> QED  BY <4>3, <4>4 DEF Follows
    <3>9. Remaining(next) = Remaining(r) - 1
      <4>1. Objects \ Range(Append(done, o)) = (Objects \ Range(done)) \ {o}  BY <3>5
      <4>2. o \in Objects \ Range(done)  BY <2>3, <3>2 DEF Owned
      <4>3. IsFiniteSet(Objects \ Range(done))
        <5>1. Objects \ Range(done) \subseteq Objects  OBVIOUS
        <5> QED  BY <5>1, FS_Subset DEF PackageAssumption
      <4>4. Cardinality((Objects \ Range(done)) \ {o}) = Cardinality(Objects \ Range(done)) - 1
        BY <4>2, <4>3, FS_RemoveElement
      <4>5. Cardinality(Objects \ Range(done)) \in Nat /\ Len(todo) \in Nat
        BY <1>0, <4>3, FS_CardinalityType
      <4>6. next.done = Append(done, o) /\ next.todo = <<link, shape>> \o Tail(todo)  BY <3>1
      <4>7. Remaining(next) = Len(todo) + 1 + 2 * (Cardinality(Objects \ Range(done)) - 1)
        BY <3>4, <4>1, <4>4, <4>6 DEF Remaining
      <4>8. Remaining(r) = Len(todo) + 2 * Cardinality(Objects \ Range(done))  BY DEF Remaining
      <4> HIDE DEF done, todo
      <4> QED  BY <4>5, <4>7, <4>8
    <3> QED  BY <1>2, <3>6, <3>8, <3>9 DEF next
  <2> QED  BY <2>2, <2>3
<1> QED  BY <1>1, <1>2

\* After the last step nothing is left to visit.
LEMMA RegisteredIs ==
  ASSUME PackageAssumption, NEW p, IsProgram(p)
  PROVE  LET last == Registered(p)[Steps(p)]
         IN last \in Registrations /\ Follows(p, last) /\ last.todo = <<>>
<1> DEFINE n == Steps(p)
           X == {r \in Registrations : Follows(p, r)}
           start == [done |-> <<>>, todo |-> p.variables]
           next == [q \in X \X (1..n) |-> RegisterPackageObject(p, q[1])]
           Recursive(f) == f = [m \in 0..n |-> IF m = 0 THEN start ELSE RegisterPackageObject(p, f[m - 1])]
<1>0. Cardinality(Objects) \in Nat /\ Len(p.variables) \in Nat /\ n \in Nat
  <2>1. Cardinality(Objects) \in Nat  BY FS_CardinalityType DEF PackageAssumption
  <2>2. Len(p.variables) \in Nat  BY DEF IsProgram
  <2> QED  BY <2>1, <2>2 DEF Steps
<1>1. start \in X
  <2>1. p.variables \in Seq(Owned \cup {"nil"})  BY DEF IsProgram
  <2>2. Follows(p, start)  BY DEF Follows, Distinct, Range
  <2> QED  BY <2>1, <2>2 DEF Registrations
<1>2. next \in [X \X (1..n) -> X] /\ \A x \in X, m \in 1..n : next[<<x, m>>] = RegisterPackageObject(p, x)
  <2>1. \A x \in X : RegisterPackageObject(p, x) \in X  BY RegisterKeeps
  <2> HIDE DEF X, n
  <2> QED  BY <2>1
<1> HIDE DEF next, start, n
<1>3. PICK f \in [0..n -> X] : Scans(f, n, start, next)  BY <1>0, <1>1, <1>2, ScanExists
<1>4. Recursive(f)
  <2>1. ASSUME NEW m \in 0..n PROVE f[m] = IF m = 0 THEN start ELSE RegisterPackageObject(p, f[m - 1])
    <3>1. CASE m = 0  BY <1>3, <3>1 DEF Scans
    <3>2. CASE m # 0
      <4>1. m \in 1..n /\ m - 1 \in 0..n  BY <1>0, <3>2
      <4>2. f[m] = next[<<f[m - 1], m>>] /\ f[m - 1] \in X  BY <1>3, <4>1 DEF Scans
      <4> HIDE DEF X
      <4> QED  BY <1>2, <3>2, <4>1, <4>2
    <3> QED  BY <3>1, <3>2
  <2> HIDE DEF X
  <2> QED  BY <1>3, <2>1
<1> DEFINE g == CHOOSE h : Recursive(h)
<1>5. Recursive(g)  BY <1>4
<1>6. Registered(p) = g  BY DEF Registered, start, n
<1> HIDE DEF g
<1>7. g[0] = start /\ \A m \in 1..n : g[m] = RegisterPackageObject(p, g[m - 1])
  <2>1. \A m \in 0..n : g[m] = IF m = 0 THEN start ELSE RegisterPackageObject(p, g[m - 1])  BY <1>5
  <2>2. \A m \in 1..n : m \in 0..n /\ m # 0  BY <1>0
  <2>3. 0 \in 0..n  BY <1>0
  <2> QED  BY <2>1, <2>2, <2>3
<1> DEFINE Good(m) == g[m] \in X /\ (g[m].todo = <<>> \/ Remaining(g[m]) = n - m)
           S == {m \in Nat : m <= n => Good(m)}
<1>8. 0 \in S
  <2>1. Objects \ Range(start.done) = Objects  BY DEF start, Range
  <2>2. Remaining(start) = n  BY <2>1 DEF Remaining, Steps, n, start
  <2> HIDE DEF X
  <2> QED  BY <1>0, <1>1, <1>7, <2>2
<1>9. ASSUME NEW m \in Nat, m \in S PROVE m + 1 \in S
  <2> SUFFICES ASSUME m + 1 <= n PROVE Good(m + 1)  OBVIOUS
  <2>1. m + 1 \in 1..n /\ (m + 1) - 1 = m /\ m <= n  BY <1>0
  <2>2. g[m] \in X /\ (g[m].todo = <<>> \/ Remaining(g[m]) = n - m)  BY <1>9, <2>1
  <2>3. g[m + 1] = RegisterPackageObject(p, g[m])  BY <1>7, <2>1
  <2>4. /\ g[m + 1] \in Registrations /\ Follows(p, g[m + 1])
        /\ g[m].todo # <<>> => Remaining(g[m + 1]) = Remaining(g[m]) - 1
        /\ g[m].todo = <<>> => g[m + 1] = g[m]
    BY <2>2, <2>3, RegisterKeeps
  <2>5. g[m].todo # <<>> => Remaining(g[m + 1]) = n - (m + 1)  BY <1>0, <2>2, <2>4
  <2> QED  BY <2>2, <2>4, <2>5
<1> HIDE DEF S
<1>10. n \in S  BY <1>0, <1>8, <1>9, SetInduction
<1>11. Good(n)  BY <1>0, <1>10 DEF S
<1> DEFINE last == g[n]
<1>12. last \in Registrations /\ Follows(p, last)  BY <1>11
<1>13. last.todo = <<>>
  <2> SUFFICES ASSUME last.todo # <<>> PROVE FALSE  OBVIOUS
  <2>1. Remaining(last) = 0  BY <1>0, <1>11
  <2>2. last.todo \in Seq(Owned \cup {"nil"})  BY <1>12 DEF Registrations
  <2>3. Len(last.todo) \in Nat \ {0}  BY <2>2
  <2>4. Cardinality(Objects \ Range(last.done)) \in Nat
    <3>1. Objects \ Range(last.done) \subseteq Objects  OBVIOUS
    <3> QED  BY <3>1, FS_Subset, FS_CardinalityType DEF PackageAssumption
  <2> HIDE DEF last
  <2> QED  BY <2>1, <2>3, <2>4 DEF Remaining
<1> QED  BY <1>6, <1>12, <1>13 DEF n

\* The roots are objects, each once, with all they point to.
LEMMA RootsAre ==
  ASSUME PackageAssumption, NEW p, IsProgram(p)
  PROVE  LET roots == PackageGlobals(p)
         IN /\ roots \in Seq(Owned) /\ Distinct(roots)
            /\ \A o \in Range(roots) : p.initial[o].link \in Range(roots) \cup {"nil"}
            /\ \A o \in Range(roots) : p.initial[o].shape \in Range(roots) \cup {"nil"}
<1> DEFINE last == Registered(p)[Steps(p)]
<1>1. last \in Registrations /\ Follows(p, last) /\ last.todo = <<>>  BY RegisteredIs
<1>2. PackageGlobals(p) = last.done  BY DEF PackageGlobals
<1> HIDE DEF last
<1>3. Range(last.todo) = {}  BY <1>1 DEF Range
<1> QED  BY <1>1, <1>2, <1>3 DEF Registrations, Follows

-----------------------------------------------------------------------------
(***************************************************************************)
(* The layout: objects do not overlap, neither each other nor the          *)
(* singleton nor the flag.                                                 *)
(***************************************************************************)
LEMMA SizesAre == \A o : SizeOf(o) \in {1, 4}
BY DEF SizeOf

LEMMA OffsetsAre ==
  ASSUME NEW p, PackageGlobalOffset(p) \in Nat, NEW roots, NEW X, roots \in Seq(X)
  PROVE  /\ Offsets(p, roots)[0] = PackageGlobalOffset(p)
         /\ \A n \in 0..Len(roots) : Offsets(p, roots)[n] \in Nat
         /\ \A n \in 1..Len(roots) : Offsets(p, roots)[n] = Offsets(p, roots)[n - 1] + SizeOf(roots[n])
<1> DEFINE l == Len(roots)
           next == [q \in Nat \X (1..l) |-> q[1] + SizeOf(roots[q[2]])]
           Recursive(f) == f = [m \in 0..l |-> IF m = 0 THEN PackageGlobalOffset(p) ELSE f[m - 1] + SizeOf(roots[m])]
<1>0. l \in Nat  OBVIOUS
<1>1. next \in [Nat \X (1..l) -> Nat] /\ \A x \in Nat, m \in 1..l : next[<<x, m>>] = x + SizeOf(roots[m])
  <2>1. \A q \in Nat \X (1..l) : q[1] + SizeOf(roots[q[2]]) \in Nat
    <3> SUFFICES ASSUME NEW q \in Nat \X (1..l) PROVE q[1] + SizeOf(roots[q[2]]) \in Nat  OBVIOUS
    <3>1. SizeOf(roots[q[2]]) \in Nat  BY SizesAre
    <3> QED  BY <3>1
  <2> QED  BY <2>1
<1> HIDE DEF next, l
<1>2. PICK f \in [0..l -> Nat] : Scans(f, l, PackageGlobalOffset(p), next)  BY <1>0, <1>1, ScanExists
<1>3. Recursive(f)
  <2>1. ASSUME NEW m \in 0..l PROVE f[m] = IF m = 0 THEN PackageGlobalOffset(p) ELSE f[m - 1] + SizeOf(roots[m])
    <3>1. CASE m = 0  BY <1>2, <3>1 DEF Scans
    <3>2. CASE m # 0
      <4>1. m \in 1..l /\ m - 1 \in 0..l  BY <1>0, <3>2
      <4>2. f[m] = next[<<f[m - 1], m>>] /\ f[m - 1] \in Nat  BY <1>2, <4>1 DEF Scans
      <4> QED  BY <1>1, <3>2, <4>1, <4>2
    <3> QED  BY <3>1, <3>2
  <2> QED  BY <1>2, <2>1
<1> DEFINE g == CHOOSE h : Recursive(h)
<1>4. Recursive(g)  BY <1>3
<1>5. Offsets(p, roots) = g  BY DEF Offsets, l
<1> HIDE DEF g
<1>6. g[0] = PackageGlobalOffset(p) /\ \A m \in 1..l : g[m] = g[m - 1] + SizeOf(roots[m])
  <2>1. \A m \in 0..l : g[m] = IF m = 0 THEN PackageGlobalOffset(p) ELSE g[m - 1] + SizeOf(roots[m])  BY <1>4
  <2>2. \A m \in 1..l : m \in 0..l /\ m # 0  BY <1>0
  <2>3. 0 \in 0..l  BY <1>0
  <2> QED  BY <2>1, <2>2, <2>3
<1> DEFINE S == {m \in Nat : m <= l => g[m] \in Nat}
<1>7. 0 \in S  BY <1>6
<1>8. ASSUME NEW m \in Nat, m \in S PROVE m + 1 \in S
  <2> SUFFICES ASSUME m + 1 <= l PROVE g[m + 1] \in Nat  OBVIOUS
  <2>1. m + 1 \in 1..l /\ (m + 1) - 1 = m /\ m <= l  BY <1>0
  <2>2. g[m + 1] = g[m] + SizeOf(roots[m + 1])  BY <1>6, <2>1
  <2>3. SizeOf(roots[m + 1]) \in Nat  BY SizesAre
  <2> QED  BY <1>8, <2>1, <2>2, <2>3
<1> HIDE DEF S
<1>9. \A m \in Nat : m \in S  BY <1>7, <1>8, SetInduction
<1>10. \A m \in 0..l : g[m] \in Nat  BY <1>0, <1>9 DEF S
<1> QED  BY <1>5, <1>6, <1>10 DEF l

LEMMA OffsetsGrow ==
  ASSUME NEW p, PackageGlobalOffset(p) \in Nat, NEW roots, NEW X, roots \in Seq(X),
         NEW m \in 0..Len(roots), NEW n \in 0..Len(roots), m <= n
  PROVE  Offsets(p, roots)[m] <= Offsets(p, roots)[n]
<1> DEFINE g == Offsets(p, roots)
           l == Len(roots)
           S == {i \in Nat : m + i <= l => g[m] <= g[m + i]}
<1>0. l \in Nat  OBVIOUS
<1>1. /\ \A i \in 0..l : g[i] \in Nat
      /\ \A i \in 1..l : g[i] = g[i - 1] + SizeOf(roots[i])
  BY OffsetsAre
<1> HIDE DEF g, l
<1>2. 0 \in S  BY <1>0, <1>1 DEF l
<1>3. ASSUME NEW i \in Nat, i \in S PROVE i + 1 \in S
  <2> SUFFICES ASSUME m + (i + 1) <= l PROVE g[m] <= g[m + (i + 1)]  OBVIOUS
  <2> DEFINE k == m + (i + 1)
  <2>1. k \in 1..l /\ k - 1 = m + i /\ k - 1 \in 0..l /\ m \in 0..l /\ k \in 0..l  BY <1>0 DEF l
  <2>2. g[m] <= g[m + i]  BY <1>0, <1>3 DEF l
  <2> HIDE DEF k
  <2>3. g[k] = g[k - 1] + SizeOf(roots[k])  BY <1>1, <2>1
  <2>4. SizeOf(roots[k]) \in Nat  BY SizesAre
  <2>5. g[m] \in Nat /\ g[k - 1] \in Nat  BY <1>1, <2>1
  <2>6. g[m] <= g[k]  BY <2>1, <2>2, <2>3, <2>4, <2>5
  <2> QED  BY <2>6 DEF k
<1> HIDE DEF S
<1>4. n - m \in S  BY <1>0, <1>2, <1>3, SetInduction DEF l
<1>5. m + (n - m) = n /\ n <= l  BY <1>0 DEF l
<1>6. n - m \in Nat => g[m] <= g[n]  BY <1>4, <1>5 DEF S
<1> QED  BY <1>0, <1>6 DEF g, l

\* What a singleton takes.
Reserved(p) == IF p.level THEN 2 ELSE 0
IsLayout(p, lay) ==
  /\ lay.roots \in Seq(Owned) /\ Distinct(lay.roots)
  /\ lay.flag \in Nat /\ Reserved(p) <= lay.flag
  /\ lay.offset \in [Range(lay.roots) -> Nat]
  /\ \A o \in Range(lay.roots) : Reserved(p) <= lay.offset[o] /\ lay.offset[o] + SizeOf(o) <= lay.flag
  /\ \A o, q \in Range(lay.roots) :
       o # q => lay.offset[o] + SizeOf(o) <= lay.offset[q] \/ lay.offset[q] + SizeOf(q) <= lay.offset[o]
  /\ lay.initialize \in BOOLEAN
  /\ lay.initialize <=> \E o \in Range(lay.roots) : RequiresInitialization(p, o)
  /\ \A o \in Range(lay.roots) : p.initial[o].link \in Range(lay.roots) \cup {"nil"}
  /\ \A o \in Range(lay.roots) : p.initial[o].shape \in Range(lay.roots) \cup {"nil"}

LEMMA ParseIs ==
  ASSUME PackageAssumption, NEW p, IsProgram(p), p.mode = "tutorial" => ~p.level
  PROVE  IsLayout(p, Parse(p))
<1> DEFINE roots == PackageGlobals(p)
           at == Offsets(p, roots)
           l == Len(roots)
           Index(o) == CHOOSE i \in DOMAIN roots : roots[i] = o
           lay == Parse(p)
<1>0. /\ roots \in Seq(Owned) /\ Distinct(roots)
      /\ \A o \in Range(roots) : p.initial[o].link \in Range(roots) \cup {"nil"}
      /\ \A o \in Range(roots) : p.initial[o].shape \in Range(roots) \cup {"nil"}
  BY RootsAre
<1>1. PackageGlobalOffset(p) \in Nat /\ Reserved(p) <= PackageGlobalOffset(p)
  BY DEF PackageGlobalOffset, LevelGlobalOffset, LevelStorage, Reserved, IsProgram
<1> HIDE DEF roots
<1>2. /\ at[0] = PackageGlobalOffset(p)
      /\ \A n \in 0..l : at[n] \in Nat
      /\ \A n \in 1..l : at[n] = at[n - 1] + SizeOf(roots[n])
  BY <1>0, <1>1, OffsetsAre
<1>3. \A m, n \in 0..l : m <= n => at[m] <= at[n]  BY <1>0, <1>1, OffsetsGrow
<1>4. lay = [roots |-> roots, offset |-> [o \in Range(roots) |-> at[Index(o) - 1]], flag |-> at[l],
             initialize |-> \E o \in Range(roots) : RequiresInitialization(p, o)]
  BY DEF Parse, roots
<1>5. l \in Nat /\ DOMAIN roots = 1..l  BY <1>0
<1>6. ASSUME NEW o \in Range(roots)
      PROVE  Index(o) \in 1..l /\ roots[Index(o)] = o /\ Index(o) - 1 \in 0..l
  <2>1. \E i \in DOMAIN roots : roots[i] = o  BY DEF Range
  <2>2. Index(o) \in 1..l /\ roots[Index(o)] = o  BY <1>5, <2>1
  <2> HIDE DEF Index
  <2> QED  BY <1>5, <2>2
<1> HIDE DEF at, l, Index, lay
<1>7. 0 \in 0..l /\ l \in 0..l /\ 0 <= l  BY <1>5
<1>8. ASSUME NEW o \in Range(roots)
      PROVE  /\ lay.offset[o] = at[Index(o) - 1] /\ lay.offset[o] \in Nat
             /\ lay.offset[o] + SizeOf(o) = at[Index(o)]
             /\ at[0] <= lay.offset[o] /\ lay.offset[o] + SizeOf(o) <= at[l]
  <2>1. lay.offset[o] = at[Index(o) - 1]  BY <1>4
  <2>2. at[Index(o)] = at[Index(o) - 1] + SizeOf(o)  BY <1>2, <1>6
  <2>3. Index(o) \in 0..l /\ Index(o) <= l /\ 0 <= Index(o) - 1  BY <1>5, <1>6
  <2>4. at[0] <= at[Index(o) - 1]  BY <1>3, <1>6, <1>7, <2>3
  <2>5. at[Index(o)] <= at[l]  BY <1>3, <1>7, <2>3
  <2>6. at[Index(o) - 1] \in Nat  BY <1>2, <1>6
  <2> QED  BY <2>1, <2>2, <2>4, <2>5, <2>6
<1>9. ASSUME NEW o \in Range(roots), NEW q \in Range(roots), Index(o) < Index(q)
      PROVE  lay.offset[o] + SizeOf(o) <= lay.offset[q]
  <2>1. Index(o) \in 0..l /\ Index(q) - 1 \in 0..l /\ Index(o) <= Index(q) - 1  BY <1>5, <1>6, <1>9
  <2>2. at[Index(o)] <= at[Index(q) - 1]  BY <1>3, <2>1
  <2> QED  BY <1>8, <2>2
<1>10. ASSUME NEW o \in Range(roots), NEW q \in Range(roots), o # q
       PROVE  lay.offset[o] + SizeOf(o) <= lay.offset[q] \/ lay.offset[q] + SizeOf(q) <= lay.offset[o]
  <2>1. Index(o) # Index(q)  BY <1>6, <1>10
  <2>2. Index(o) \in Int /\ Index(q) \in Int  BY <1>5, <1>6
  <2>3. Index(o) < Index(q) \/ Index(q) < Index(o)  BY <2>1, <2>2
  <2> QED  BY <1>9, <2>3
<1>11. lay.roots = roots /\ lay.flag = at[l] /\ lay.offset = [o \in Range(roots) |-> at[Index(o) - 1]]
  BY <1>4
<1>12. lay.flag \in Nat /\ Reserved(p) <= lay.flag
  <2>1. at[0] <= at[l] /\ at[l] \in Nat  BY <1>2, <1>3, <1>7
  <2>2. Reserved(p) \in Nat  BY DEF Reserved
  <2> QED  BY <1>1, <1>2, <1>11, <2>1, <2>2
<1>13. lay.offset \in [Range(roots) -> Nat]  BY <1>2, <1>6, <1>11
<1>14. ASSUME NEW o \in Range(roots)
       PROVE  Reserved(p) <= lay.offset[o] /\ lay.offset[o] + SizeOf(o) <= lay.flag
  <2>1. Reserved(p) \in Nat  BY DEF Reserved
  <2> QED  BY <1>1, <1>2, <1>8, <1>11, <2>1
<1>15. /\ lay.initialize \in BOOLEAN
       /\ lay.initialize <=> \E o \in Range(roots) : RequiresInitialization(p, o)
  BY <1>4, Zenon
<1> QED  BY <1>0, <1>10, <1>11, <1>12, <1>13, <1>14, <1>15 DEF IsLayout, lay

-----------------------------------------------------------------------------
(***************************************************************************)
(* The memory as the fields of the named objects.  LaidOut is what every   *)
(* state has of program and layout.                                        *)
(***************************************************************************)
LaidOut ==
  /\ PackageAssumption
  /\ IsProgram(source)
  /\ IsLayout(source, layout)
Storages == {"LevelMemory", "TutorialMemory", "PreviewData"}
Indices == 0..layout.flag + 1
Memories == [Storages -> [Indices -> Int]]

LEMMA PutIs ==
  ASSUME LaidOut, NEW m \in Memories, NEW i \in Indices, NEW v \in Int
  PROVE  /\ Put(m, i, v) \in Memories
         /\ At(Put(m, i, v), i) = v
         /\ \A j \in Indices : j # i => At(Put(m, i, v), j) = At(m, j)
<1> DEFINE b == PackageStorage(source.mode)
<1>1. b \in Storages  BY DEF LaidOut, IsProgram, PackageStorage, LevelStorage, Storages
<1> HIDE DEF b
<1>2. m[b] \in [Indices -> Int]  BY <1>1 DEF Memories
<1>3. Put(m, i, v) = [m EXCEPT ![b] = [m[b] EXCEPT ![i] = v]]  BY <1>1 DEF Put, b, Memories
<1> HIDE DEF Indices
<1>4. [m[b] EXCEPT ![i] = v] \in [Indices -> Int]  BY <1>2
<1>5. Put(m, i, v) \in Memories  BY <1>1, <1>3, <1>4 DEF Memories
<1>6. Put(m, i, v)[b] = [m[b] EXCEPT ![i] = v]  BY <1>1, <1>3 DEF Memories
<1>7. \A n, j : At(n, j) = n[b][j]  BY DEF At, Block, b
<1> QED  BY <1>2, <1>5, <1>6, <1>7

LEMMA AtIs ==
  ASSUME LaidOut, NEW m \in Memories, NEW i \in Indices
  PROVE  At(m, i) \in Int
<1>1. PackageStorage(source.mode) \in Storages
  BY DEF LaidOut, IsProgram, PackageStorage, LevelStorage, Storages
<1> QED  BY <1>1 DEF At, Block, Memories

Fields(o) == IF o \in Nodes THEN {"link", "tag", "handle", "value"} ELSE IF o = "mark" THEN {"link", "value"} ELSE {"value"}
Place(o, f) ==
  IF o = "mark" THEN IF f = "value" THEN 1 ELSE 0
  ELSE IF o \in Nodes THEN Start(o) + (IF f = "link" THEN 0 ELSE IF f = "tag" THEN 1 ELSE IF f = "handle" THEN 2 ELSE 3)
  ELSE Start(o)
FieldAt(m, o, f) == At(m, Place(o, f))
CellNames == Names \ Nodes

LEMMA NamesAre ==
  ASSUME LaidOut
  PROVE  /\ Names \subseteq Objects /\ "nil" \notin Names /\ "mark" \notin Nodes
         /\ "mark" \in Names <=> source.level
         /\ \A o \in Names : o # "mark" => o \in Range(layout.roots) /\ o \in Owned
         /\ Range(layout.roots) \subseteq Names
         /\ NodeNames \subseteq Range(layout.roots) /\ "mark" \notin NodeNames
         /\ CellNames \cap NodeNames = {} /\ CellNames \cup NodeNames = Names
<1>1. layout.roots \in Seq(Owned)  BY DEF LaidOut, IsLayout
<1>2. Range(layout.roots) \subseteq Owned  BY <1>1 DEF Range
<1>3. "nil" \notin Objects /\ "mark" \in Objects /\ Nodes \subseteq Owned  BY DEF LaidOut, PackageAssumption
<1>4. source.level \in BOOLEAN  BY DEF LaidOut, IsProgram
<1> QED  BY <1>2, <1>3, <1>4 DEF Names, NodeNames, CellNames, Owned

LEMMA StartIs ==
  ASSUME LaidOut, NEW o \in Names, o # "mark"
  PROVE  /\ Start(o) \in Nat /\ Reserved(source) <= Start(o) /\ Start(o) + SizeOf(o) <= layout.flag
         /\ \A q \in Names : q # "mark" /\ q # o =>
              Start(o) + SizeOf(o) <= Start(q) \/ Start(q) + SizeOf(q) <= Start(o)
<1>1. o \in Range(layout.roots)  BY NamesAre
<1>2. \A q \in Names : q # "mark" => q \in Range(layout.roots)  BY NamesAre
<1> QED  BY <1>1, <1>2 DEF Start, LaidOut, IsLayout

LEMMA FlagIs ==
  ASSUME LaidOut
  PROVE  layout.flag \in Nat /\ layout.flag \in Indices /\ Reserved(source) <= layout.flag
BY DEF LaidOut, IsLayout, Indices

\* The place of a field of an object is inside of it.
LEMMA PlaceIs ==
  ASSUME LaidOut, NEW o \in Names, NEW f \in Fields(o)
  PROVE  /\ Place(o, f) \in Indices /\ Place(o, f) < layout.flag + 1
         /\ Place(o, f) # layout.flag
         /\ o # "mark" => Start(o) <= Place(o, f) /\ Place(o, f) < Start(o) + SizeOf(o)
         /\ o = "mark" => Place(o, f) \in {0, 1} /\ Reserved(source) = 2
<1>0. layout.flag \in Nat /\ Reserved(source) <= layout.flag  BY FlagIs
<1>1. CASE o = "mark"
  <2>1. source.level  BY <1>1, NamesAre
  <2>2. Reserved(source) = 2  BY <2>1 DEF Reserved
  <2>3. Place(o, f) \in {0, 1}  BY <1>1 DEF Place
  <2> QED  BY <1>0, <1>1, <2>2, <2>3 DEF Indices
<1>2. CASE o # "mark"
  <2>1. Start(o) \in Nat /\ Start(o) + SizeOf(o) <= layout.flag  BY <1>2, StartIs
  <2>2. Start(o) <= Place(o, f) /\ Place(o, f) < Start(o) + SizeOf(o)
    <3>1. CASE o \in Nodes  BY <1>2, <2>1, <3>1 DEF Place, SizeOf
    <3>2. CASE o \notin Nodes  BY <1>2, <2>1, <3>2 DEF Place, SizeOf
    <3> QED  BY <3>1, <3>2
  <2>3. Place(o, f) \in Nat
    <3>1. CASE o \in Nodes  BY <1>2, <2>1, <3>1 DEF Place
    <3>2. CASE o \notin Nodes  BY <1>2, <2>1, <3>2 DEF Place
    <3> QED  BY <3>1, <3>2
  <2>4. SizeOf(o) \in Nat  BY SizesAre
  <2> QED  BY <1>0, <1>2, <2>1, <2>2, <2>3, <2>4 DEF Indices
<1> QED  BY <1>1, <1>2

LEMMA PlacesApart ==
  ASSUME LaidOut, NEW o \in Names, NEW f \in Fields(o), NEW q \in Names, NEW g \in Fields(q),
         Place(o, f) = Place(q, g)
  PROVE  o = q /\ f = g
<1>0. SizeOf(o) \in Nat /\ SizeOf(q) \in Nat  BY SizesAre
<1>1. CASE o = "mark" /\ q = "mark"
  <2>1. "mark" \notin Nodes  BY NamesAre
  <2> QED  BY <1>1, <2>1 DEF Place, Fields
<1>2. CASE o = "mark" /\ q # "mark"
  <2>1. Place(o, f) \in {0, 1} /\ Reserved(source) = 2  BY <1>2, PlaceIs
  <2>2. Start(q) \in Nat /\ Reserved(source) <= Start(q)  BY <1>2, StartIs
  <2>3. Start(q) <= Place(q, g)  BY <1>2, PlaceIs
  <2> QED  BY <2>1, <2>2, <2>3
<1>3. CASE o # "mark" /\ q = "mark"
  <2>1. Place(q, g) \in {0, 1} /\ Reserved(source) = 2  BY <1>3, PlaceIs
  <2>2. Start(o) \in Nat /\ Reserved(source) <= Start(o)  BY <1>3, StartIs
  <2>3. Start(o) <= Place(o, f)  BY <1>3, PlaceIs
  <2> QED  BY <2>1, <2>2, <2>3
<1>4. CASE o # "mark" /\ q # "mark" /\ o # q
  <2>1. /\ Start(o) <= Place(o, f) /\ Place(o, f) < Start(o) + SizeOf(o)
        /\ Start(q) <= Place(q, g) /\ Place(q, g) < Start(q) + SizeOf(q)
    BY <1>4, PlaceIs
  <2>2. Start(o) + SizeOf(o) <= Start(q) \/ Start(q) + SizeOf(q) <= Start(o)  BY <1>4, StartIs
  <2>3. Start(o) \in Nat /\ Start(q) \in Nat /\ Place(o, f) \in Indices  BY <1>4, StartIs, PlaceIs
  <2>4. Place(o, f) \in Int
    <3>1. layout.flag \in Nat  BY FlagIs
    <3> QED  BY <2>3, <3>1 DEF Indices
  <2> QED  BY <1>0, <2>1, <2>2, <2>3, <2>4
<1>5. CASE o # "mark" /\ o = q
  <2>1. Start(o) \in Nat  BY <1>5, StartIs
  <2>2. CASE o \in Nodes  BY <1>5, <2>1, <2>2 DEF Place, Fields
  <2>3. CASE o \notin Nodes  BY <1>5, <2>3 DEF Fields
  <2> QED  BY <2>2, <2>3
<1> QED  BY <1>1, <1>2, <1>3, <1>4, <1>5

\* Writing a field changes that field, and not the flag.
LEMMA PutField ==
  ASSUME LaidOut, NEW m \in Memories, NEW o \in Names, NEW f \in Fields(o), NEW v \in Int
  PROVE  LET n == Put(m, Place(o, f), v)
         IN /\ n \in Memories /\ FieldAt(n, o, f) = v
            /\ \A q \in Names : \A g \in Fields(q) : q # o \/ g # f => FieldAt(n, q, g) = FieldAt(m, q, g)
            /\ At(n, layout.flag) = At(m, layout.flag)
<1> DEFINE n == Put(m, Place(o, f), v)
<1>1. Place(o, f) \in Indices /\ Place(o, f) # layout.flag  BY PlaceIs
<1>2. n \in Memories /\ At(n, Place(o, f)) = v /\ \A j \in Indices : j # Place(o, f) => At(n, j) = At(m, j)
  BY <1>1, PutIs
<1> HIDE DEF n
<1>3. ASSUME NEW q \in Names, NEW g \in Fields(q), q # o \/ g # f PROVE FieldAt(n, q, g) = FieldAt(m, q, g)
  <2>1. Place(q, g) # Place(o, f)  BY <1>3, PlacesApart
  <2>2. Place(q, g) \in Indices  BY PlaceIs
  <2> QED  BY <1>2, <2>1, <2>2 DEF FieldAt
<1>4. At(n, layout.flag) = At(m, layout.flag)  BY <1>1, <1>2, FlagIs
<1> QED  BY <1>2, <1>3, <1>4 DEF n, FieldAt

LEMMA FieldIs ==
  ASSUME LaidOut, NEW m \in Memories, NEW o \in Names, NEW f \in Fields(o)
  PROVE  FieldAt(m, o, f) \in Int
BY AtIs, PlaceIs DEF FieldAt

-----------------------------------------------------------------------------
(***************************************************************************)
(* Handles and tags.                                                       *)
(***************************************************************************)
LEMMA HandlesAre ==
  ASSUME LaidOut
  PROVE  /\ HandleOf("nil") = 0 /\ HandleOf("mark") = 2
         /\ \A o \in Names : HandleOf(o) \in Nat \ {0}
         /\ \A o, q \in Names \cup {"nil"} : HandleOf(o) = HandleOf(q) => o = q
         /\ \A o \in Names \cup {"nil"} : ObjectAt(HandleOf(o)) = o
         /\ \A o \in Names : ValueIndex(HandleOf(o), Type(o)) = Place(o, "value")
<1>0. "nil" \notin Names /\ "mark" \notin Nodes  BY NamesAre
<1>1. HandleOf("nil") = 0 /\ HandleOf("mark") = 2  BY DEF HandleOf
<1>2. ASSUME NEW o \in Names, o # "mark" PROVE HandleOf(o) = Start(o) + 1 /\ Start(o) \in Nat
  BY <1>0, <1>2, StartIs DEF HandleOf
<1>3. ASSUME NEW o \in Names PROVE HandleOf(o) \in Nat \ {0}  BY <1>1, <1>2
<1>4. ASSUME NEW o \in Names, NEW q \in Names, HandleOf(o) = HandleOf(q) PROVE o = q
  <2>1. ASSUME NEW x \in Names, x # "mark", "mark" \in Names PROVE HandleOf(x) # 2
    <3>1. source.level  BY <2>1, NamesAre
    <3>2. 2 <= Start(x)  BY <2>1, <3>1, StartIs DEF Reserved
    <3> QED  BY <1>2, <2>1, <3>2
  <2>2. CASE o = "mark" \/ q = "mark"  BY <1>1, <1>4, <2>1, <2>2
  <2>3. CASE o # "mark" /\ q # "mark"
    <3> SUFFICES ASSUME o # q PROVE FALSE  OBVIOUS
    <3>1. Start(o) = Start(q) /\ Start(o) \in Nat  BY <1>2, <1>4, <2>3
    <3>2. Start(o) + SizeOf(o) <= Start(q) \/ Start(q) + SizeOf(q) <= Start(o)  BY <2>3, StartIs
    <3>3. SizeOf(o) \in Nat \ {0} /\ SizeOf(q) \in Nat \ {0}  BY SizesAre
    <3> QED  BY <3>1, <3>2, <3>3
  <2> QED  BY <2>2, <2>3
<1>5. ASSUME NEW o \in Names \cup {"nil"}, NEW q \in Names \cup {"nil"}, HandleOf(o) = HandleOf(q) PROVE o = q
  <2>1. CASE o = "nil" \/ q = "nil"  BY <1>1, <1>3, <1>5, <2>1
  <2>2. CASE o # "nil" /\ q # "nil"  BY <1>4, <1>5, <2>2
  <2> QED  BY <2>1, <2>2
<1>6. ASSUME NEW o \in Names \cup {"nil"} PROVE ObjectAt(HandleOf(o)) = o
  <2>1. CASE o = "nil"  BY <1>1, <2>1 DEF ObjectAt
  <2>2. CASE o \in Names
    <3>1. HandleOf(o) # 0  BY <1>3, <2>2
    <3>2. \A q \in Names : HandleOf(o) = HandleOf(q) => q = o  BY <1>4, <2>2
    <3> QED  BY <2>2, <3>1, <3>2 DEF ObjectAt
  <2> QED  BY <2>1, <2>2
<1>7. ASSUME NEW o \in Names PROVE ValueIndex(HandleOf(o), Type(o)) = Place(o, "value")
  <2>1. CASE o = "mark"
    <3>1. Type(o) = "Cell" /\ HandleOf(o) = 2  BY <1>0, <1>1, <2>1 DEF Type
    <3> QED  BY <2>1, <3>1 DEF ValueIndex, ValueAt, Place
  <2>2. CASE o # "mark" /\ o \in Nodes
    <3>1. Type(o) = "Node" /\ HandleOf(o) = Start(o) + 1 /\ Start(o) \in Nat  BY <1>2, <2>2 DEF Type
    <3> QED  BY <2>2, <3>1 DEF ValueIndex, ValueAt, Place
  <2>3. CASE o # "mark" /\ o \notin Nodes
    <3>1. Type(o) = "Cell" /\ HandleOf(o) = Start(o) + 1 /\ Start(o) \in Nat  BY <1>2, <2>3 DEF Type
    <3> QED  BY <2>3, <3>1 DEF ValueIndex, ValueAt, Place
  <2> QED  BY <2>1, <2>2, <2>3
<1> QED  BY <1>1, <1>3, <1>5, <1>6, <1>7

LEMMA TagsAre ==
  /\ TagOf("Cell") = 1 /\ TagOf("Node") = 2
  /\ Candidates[1] = "Cell" /\ Candidates[2] = "Node"
<1>1. Candidates[1] = "Cell" /\ Candidates[2] = "Node" /\ DOMAIN Candidates = 1..2  BY DEF Candidates
<1>2. \A i \in 1..2 : i = 1 \/ i = 2  OBVIOUS
<1>3. TagOf("Cell") = 1
  <2>1. 1 \in DOMAIN Candidates /\ \A i \in DOMAIN Candidates : Candidates[i] = "Cell" => i = 1
    BY <1>1, <1>2
  <2> QED  BY <1>1, <2>1 DEF TagOf
<1>4. TagOf("Node") = 2
  <2>1. 2 \in DOMAIN Candidates /\ \A i \in DOMAIN Candidates : Candidates[i] = "Node" => i = 2
    BY <1>1, <1>2
  <2> QED  BY <1>1, <2>1 DEF TagOf
<1> QED  BY <1>1, <1>3, <1>4

-----------------------------------------------------------------------------
(***************************************************************************)
(* The initialization, on memory that is 0.                                *)
(***************************************************************************)
Initially(o, f) ==
  IF f = "link" THEN HandleOf(source.initial[o].link)
  ELSE IF f = "handle" THEN HandleOf(source.initial[o].shape)
  ELSE IF f = "tag" THEN IF source.initial[o].shape = "nil" THEN 0 ELSE TagOf(Type(source.initial[o].shape))
  ELSE source.initial[o].value
\* n is m with some fields of o, and no others.
Within(m, n, o, fields) ==
  /\ n \in Memories
  /\ \A f \in Fields(o) \cap fields :
       FieldAt(n, o, f) = Initially(o, f) \/ (FieldAt(n, o, f) = FieldAt(m, o, f) /\ Initially(o, f) = 0)
  /\ \A f \in Fields(o) \ fields : FieldAt(n, o, f) = FieldAt(m, o, f)
  /\ \A q \in Names \ {o} : \A g \in Fields(q) : FieldAt(n, q, g) = FieldAt(m, q, g)
  /\ At(n, layout.flag) = At(m, layout.flag)

LEMMA WithinTwice ==
  ASSUME NEW m, NEW n, NEW k, NEW o, NEW A, NEW B, Within(m, n, o, A), Within(n, k, o, B), A \cap B = {}
  PROVE  Within(m, k, o, A \cup B)
<1>1. ASSUME NEW f \in Fields(o) \cap (A \cup B)
      PROVE  FieldAt(k, o, f) = Initially(o, f) \/ (FieldAt(k, o, f) = FieldAt(m, o, f) /\ Initially(o, f) = 0)
  BY <1>1 DEF Within
<1> QED  BY <1>1 DEF Within

LEMMA PutWithin ==
  ASSUME LaidOut, NEW m \in Memories, NEW o \in Names, NEW f \in Fields(o), Initially(o, f) \in Int
  PROVE  Within(m, Put(m, Place(o, f), Initially(o, f)), o, {f})
<1> DEFINE n == Put(m, Place(o, f), Initially(o, f))
<1>1. /\ n \in Memories /\ FieldAt(n, o, f) = Initially(o, f)
      /\ \A q \in Names : \A g \in Fields(q) : q # o \/ g # f => FieldAt(n, q, g) = FieldAt(m, q, g)
      /\ At(n, layout.flag) = At(m, layout.flag)
  BY PutField
<1> HIDE DEF n
<1>2. \A k \in Fields(o) \cap {f} :
        FieldAt(n, o, k) = Initially(o, k) \/ (FieldAt(n, o, k) = FieldAt(m, o, k) /\ Initially(o, k) = 0)
  BY <1>1
<1>3. \A k \in Fields(o) \ {f} : FieldAt(n, o, k) = FieldAt(m, o, k)  BY <1>1
<1>4. \A q \in Names \ {o} : \A g \in Fields(q) : FieldAt(n, q, g) = FieldAt(m, q, g)  BY <1>1
<1>5. Within(m, n, o, {f})  BY <1>1, <1>2, <1>3, <1>4 DEF Within
<1> QED  BY <1>5 DEF n

LEMMA InitialIs ==
  ASSUME LaidOut, NEW o \in Range(layout.roots)
  PROVE  /\ o \in Owned /\ o \in Names /\ o # "mark" /\ o # "nil"
         /\ source.initial[o].link \in CellNames \cup {"nil"}
         /\ source.initial[o].shape \in Names \cup {"nil"}
         /\ source.initial[o].value \in Int
         /\ \A f : Initially(o, f) \in Int
         /\ o \notin Nodes => source.initial[o].link = "nil" /\ source.initial[o].shape = "nil"
<1>1. layout.roots \in Seq(Owned) /\ o \in Owned /\ o \in Names  BY NamesAre DEF LaidOut, IsLayout, Range
<1>2. o # "mark" /\ o # "nil"  BY <1>1, NamesAre DEF Owned
<1>3. /\ source.initial[o].value \in Int
      /\ source.initial[o].link \in (Owned \ Nodes) \cup {"nil"}
      /\ o \notin Nodes => source.initial[o].link = "nil" /\ source.initial[o].shape = "nil"
  BY <1>1, PointsAre DEF LaidOut
<1>4. /\ source.initial[o].link \in Range(layout.roots) \cup {"nil"}
      /\ source.initial[o].shape \in Range(layout.roots) \cup {"nil"}
  BY DEF LaidOut, IsLayout
<1>5. source.initial[o].link \in CellNames \cup {"nil"} /\ source.initial[o].shape \in Names \cup {"nil"}
  BY <1>3, <1>4, NamesAre DEF CellNames
<1>6. ASSUME NEW f PROVE Initially(o, f) \in Int
  <2>1. HandleOf(source.initial[o].link) \in Int /\ HandleOf(source.initial[o].shape) \in Int
    BY <1>5, HandlesAre DEF CellNames
  <2>2. TagOf(Type(source.initial[o].shape)) \in Int  BY TagsAre DEF Type
  <2> QED  BY <1>3, <2>1, <2>2 DEF Initially
<1> QED  BY <1>1, <1>2, <1>3, <1>5, <1>6

LEMMA InitialObjectIs ==
  ASSUME LaidOut, NEW m \in Memories, NEW o \in Range(layout.roots)
  PROVE  Within(m, InitialObject(m, o), o, {"link", "tag", "handle", "value"})
<1> DEFINE x == source.initial[o]
           linked == IF x.link = "nil" THEN m ELSE Put(m, Start(o), HandleOf(x.link))
           shaped == IF x.shape = "nil" THEN linked
                     ELSE StorePersistentInterface(linked, Start(o) + 1, TagOf(Type(x.shape)), HandleOf(x.shape))
           valued == IF x.value = 0 THEN shaped ELSE Put(shaped, Start(o) + ValueAt[Type(o)], x.value)
<1>0. /\ o \in Names /\ o # "mark" /\ Start(o) \in Nat
      /\ \A f : Initially(o, f) \in Int
      /\ o \notin Nodes => x.link = "nil" /\ x.shape = "nil"
  BY InitialIs, StartIs
<1>1. InitialObject(m, o) = valued  BY DEF InitialObject
<1> HIDE DEF x
<1>2. Within(m, linked, o, {"link"})
  <2>1. CASE x.link = "nil"
    <3>1. Initially(o, "link") = 0  BY <2>1, HandlesAre DEF Initially, x
    <3> QED  BY <2>1, <3>1 DEF Within
  <2>2. CASE x.link # "nil"
    <3>1. o \in Nodes /\ "link" \in Fields(o) /\ Place(o, "link") = Start(o)
      BY <1>0, <2>2 DEF Fields, Place
    <3>2. Initially(o, "link") = HandleOf(x.link)  BY DEF Initially, x
    <3>3. linked = Put(m, Place(o, "link"), Initially(o, "link"))  BY <2>2, <3>1, <3>2
    <3> HIDE DEF linked
    <3> QED  BY <1>0, <3>1, <3>3, PutWithin
  <2> QED  BY <2>1, <2>2
<1> HIDE DEF linked
<1>3. linked \in Memories  BY <1>2 DEF Within
<1>4. Within(linked, shaped, o, {"tag", "handle"})
  <2>1. CASE x.shape = "nil"
    <3>1. Initially(o, "tag") = 0 /\ Initially(o, "handle") = 0  BY <2>1, HandlesAre DEF Initially, x
    <3> QED  BY <1>3, <2>1, <3>1 DEF Within
  <2>2. CASE x.shape # "nil"
    <3>1. /\ o \in Nodes /\ "tag" \in Fields(o) /\ "handle" \in Fields(o)
          /\ Place(o, "tag") = Start(o) + 1 /\ Place(o, "handle") = (Start(o) + 1) + 1
      BY <1>0, <2>2 DEF Fields, Place
    <3>2. Initially(o, "tag") = TagOf(Type(x.shape)) /\ Initially(o, "handle") = HandleOf(x.shape)
      BY <2>2 DEF Initially, x
    <3> DEFINE half == Put(linked, Place(o, "handle"), Initially(o, "handle"))
    <3>3. shaped = Put(half, Place(o, "tag"), Initially(o, "tag"))
      BY <2>2, <3>1, <3>2 DEF StorePersistentInterface
    <3>4. Within(linked, half, o, {"handle"})  BY <1>0, <1>3, <3>1, PutWithin
    <3>5. half \in Memories  BY <3>4 DEF Within
    <3> HIDE DEF half, shaped
    <3>6. Within(half, shaped, o, {"tag"})  BY <1>0, <3>1, <3>3, <3>5, PutWithin
    <3>7. {"handle"} \cup {"tag"} = {"tag", "handle"} /\ {"handle"} \cap {"tag"} = {}  OBVIOUS
    <3> QED  BY <3>4, <3>6, <3>7, WithinTwice
  <2> QED  BY <2>1, <2>2
<1> HIDE DEF shaped
<1>5. shaped \in Memories  BY <1>4 DEF Within
<1>6. Within(shaped, valued, o, {"value"})
  <2>0. Initially(o, "value") = x.value  BY DEF Initially, x
  <2>1. CASE x.value = 0  BY <1>5, <2>0, <2>1 DEF Within
  <2>2. CASE x.value # 0
    <3>1. "value" \in Fields(o) /\ Place(o, "value") = Start(o) + ValueAt[Type(o)]
      BY <1>0 DEF Fields, Place, ValueAt, Type
    <3>2. valued = Put(shaped, Place(o, "value"), Initially(o, "value"))  BY <2>0, <2>2, <3>1
    <3> HIDE DEF valued
    <3> QED  BY <1>0, <1>5, <3>1, <3>2, PutWithin
  <2> QED  BY <2>1, <2>2
<1> HIDE DEF valued
<1>7. Within(m, shaped, o, {"link"} \cup {"tag", "handle"})
  <2>1. {"link"} \cap {"tag", "handle"} = {}  OBVIOUS
  <2> QED  BY <1>2, <1>4, <2>1, WithinTwice
<1>8. Within(m, valued, o, ({"link"} \cup {"tag", "handle"}) \cup {"value"})
  <2>1. ({"link"} \cup {"tag", "handle"}) \cap {"value"} = {}  OBVIOUS
  <2> QED  BY <1>6, <1>7, <2>1, WithinTwice
<1>9. ({"link"} \cup {"tag", "handle"}) \cup {"value"} = {"link", "tag", "handle", "value"}  OBVIOUS
<1> QED  BY <1>1, <1>8, <1>9

Zeros(m) == m \in Memories /\ \A i \in Indices : At(m, i) = 0
\* n of the roots are written, and the others are not.
RootsWritten(m, n) ==
  /\ m \in Memories
  /\ At(m, layout.flag) = 0
  /\ \A o \in Names : \A f \in Fields(o) :
       FieldAt(m, o, f) = IF \E i \in 1..n : layout.roots[i] = o THEN Initially(o, f) ELSE 0

LEMMA InitializeRootsIs ==
  ASSUME LaidOut, NEW m, Zeros(m)
  PROVE  LET n == InitializeRoots(m)
         IN /\ n \in Memories
            /\ At(n, layout.flag) = 1
            /\ \A o \in Range(layout.roots) : \A f \in Fields(o) : FieldAt(n, o, f) = Initially(o, f)
            /\ "mark" \in Names => \A f \in Fields("mark") : FieldAt(n, "mark", f) = 0
<1> DEFINE l == Len(layout.roots)
           next == [q \in Memories \X (1..l) |-> InitialObject(q[1], layout.roots[q[2]])]
           Recursive(f) == f = [i \in 0..l |-> IF i = 0 THEN m ELSE InitialObject(f[i - 1], layout.roots[i])]
<1>0. /\ layout.roots \in Seq(Owned) /\ Distinct(layout.roots)
      /\ l \in Nat /\ DOMAIN layout.roots = 1..l
  BY DEF LaidOut, IsLayout
<1>1. \A i \in 1..l : layout.roots[i] \in Range(layout.roots)  BY <1>0 DEF Range
<1>2. next \in [Memories \X (1..l) -> Memories]
      /\ \A x \in Memories, i \in 1..l : next[<<x, i>>] = InitialObject(x, layout.roots[i])
  <2>1. \A x \in Memories, i \in 1..l : InitialObject(x, layout.roots[i]) \in Memories
    BY <1>1, InitialObjectIs DEF Within
  <2> HIDE DEF l
  <2> QED  BY <2>1
<1> HIDE DEF next, l
<1>3. m \in Memories  BY DEF Zeros
<1>4. PICK f \in [0..l -> Memories] : Scans(f, l, m, next)  BY <1>0, <1>2, <1>3, ScanExists
<1>5. Recursive(f)
  <2>1. ASSUME NEW i \in 0..l PROVE f[i] = IF i = 0 THEN m ELSE InitialObject(f[i - 1], layout.roots[i])
    <3>1. CASE i = 0  BY <1>4, <3>1 DEF Scans
    <3>2. CASE i # 0
      <4>1. i \in 1..l /\ i - 1 \in 0..l  BY <1>0, <3>2
      <4>2. f[i] = next[<<f[i - 1], i>>] /\ f[i - 1] \in Memories  BY <1>4, <4>1 DEF Scans
      <4> QED  BY <1>2, <3>2, <4>1, <4>2
    <3> QED  BY <3>1, <3>2
  <2> QED  BY <1>4, <2>1
<1> DEFINE g == CHOOSE h : Recursive(h)
<1>6. Recursive(g)  BY <1>5
<1>7. InitializeRoots(m) = Put(g[l], layout.flag, 1)  BY DEF InitializeRoots, l
<1> HIDE DEF g
<1>8. g[0] = m /\ \A i \in 1..l : g[i] = InitialObject(g[i - 1], layout.roots[i])
  <2>1. \A i \in 0..l : g[i] = IF i = 0 THEN m ELSE InitialObject(g[i - 1], layout.roots[i])  BY <1>6
  <2>2. \A i \in 1..l : i \in 0..l /\ i # 0  BY <1>0
  <2>3. 0 \in 0..l  BY <1>0
  <2> QED  BY <2>1, <2>2, <2>3
<1> DEFINE S == {i \in Nat : i <= l => RootsWritten(g[i], i)}
<1>9. 0 \in S
  <2>1. \A o \in Names : \A k \in Fields(o) : FieldAt(m, o, k) = 0  BY PlaceIs DEF Zeros, FieldAt
  <2>2. At(m, layout.flag) = 0  BY FlagIs DEF Zeros
  <2> QED  BY <1>3, <1>8, <2>1, <2>2 DEF RootsWritten
<1>10. ASSUME NEW i \in Nat, i \in S PROVE i + 1 \in S
  <2> SUFFICES ASSUME i + 1 <= l PROVE RootsWritten(g[i + 1], i + 1)  OBVIOUS
  <2> DEFINE o == layout.roots[i + 1]
             old == g[i]
             new == g[i + 1]
  <2>1. i + 1 \in 1..l /\ (i + 1) - 1 = i /\ i <= l  BY <1>0
  <2>2. RootsWritten(old, i)  BY <1>10, <2>1
  <2>3. o \in Range(layout.roots) /\ o \in Names  BY <1>1, <2>1, InitialIs
  <2>4. new = InitialObject(old, o)  BY <1>8, <2>1
  <2>5. Within(old, new, o, {"link", "tag", "handle", "value"})
    <3>1. old \in Memories  BY <2>2 DEF RootsWritten
    <3> QED  BY <2>3, <2>4, <3>1, InitialObjectIs
  <2>6. ~\E j \in 1..i : layout.roots[j] = o
    <3>1. \A x, y \in 1..l : layout.roots[x] = layout.roots[y] => x = y  BY <1>0 DEF Distinct
    <3>2. \A j \in 1..i : j \in 1..l /\ j # i + 1  BY <1>0, <2>1
    <3> QED  BY <2>1, <3>1, <3>2
  <2> HIDE DEF o, old, new
  <2>7. ASSUME NEW k \in Fields(o) PROVE FieldAt(new, o, k) = Initially(o, k)
    <3>1. k \in {"link", "tag", "handle", "value"}  BY DEF Fields
    <3>2. FieldAt(old, o, k) = 0  BY <2>2, <2>3, <2>6 DEF RootsWritten
    <3>3. FieldAt(new, o, k) = Initially(o, k) \/ (FieldAt(new, o, k) = FieldAt(old, o, k) /\ Initially(o, k) = 0)
      BY <2>5, <3>1 DEF Within
    <3> QED  BY <3>2, <3>3
  <2>8. ASSUME NEW q \in Names, NEW k \in Fields(q)
        PROVE  FieldAt(new, q, k) = IF \E j \in 1..i + 1 : layout.roots[j] = q THEN Initially(q, k) ELSE 0
    <3>1. CASE q = o  BY <2>1, <2>7, <3>1 DEF o
    <3>2. CASE q # o
      <4>1. FieldAt(new, q, k) = FieldAt(old, q, k)  BY <2>5, <3>2 DEF Within
      <4>2. (\E j \in 1..i + 1 : layout.roots[j] = q) <=> \E j \in 1..i : layout.roots[j] = q
        <5>1. \A j \in 1..i + 1 : j \in 1..i \/ j = i + 1  OBVIOUS
        <5>2. \A j \in 1..i : j \in 1..i + 1  OBVIOUS
        <5> QED  BY <3>2, <5>1, <5>2 DEF o
      <4>3. FieldAt(old, q, k) = IF \E j \in 1..i : layout.roots[j] = q THEN Initially(q, k) ELSE 0
        BY <2>2 DEF RootsWritten
      <4> QED  BY <4>1, <4>2, <4>3
    <3> QED  BY <3>1, <3>2
  <2>9. new \in Memories /\ At(new, layout.flag) = 0  BY <2>2, <2>5 DEF Within, RootsWritten
  <2>10. RootsWritten(new, i + 1)  BY <2>8, <2>9 DEF RootsWritten
  <2> QED  BY <2>10 DEF new
<1> HIDE DEF S
<1>11. l \in S  BY <1>0, <1>9, <1>10, SetInduction
<1>12. RootsWritten(g[l], l)  BY <1>0, <1>11 DEF S
<1> DEFINE n == Put(g[l], layout.flag, 1)
<1>13. n \in Memories /\ At(n, layout.flag) = 1 /\ \A j \in Indices : j # layout.flag => At(n, j) = At(g[l], j)
  <2>1. g[l] \in Memories  BY <1>12 DEF RootsWritten
  <2> QED  BY <2>1, FlagIs, PutIs
<1> HIDE DEF n
<1>14. ASSUME NEW o \in Names, NEW k \in Fields(o) PROVE FieldAt(n, o, k) = FieldAt(g[l], o, k)
  <2>1. Place(o, k) \in Indices /\ Place(o, k) # layout.flag  BY PlaceIs
  <2> QED  BY <1>13, <2>1 DEF FieldAt
<1>15. ASSUME NEW o \in Range(layout.roots), NEW k \in Fields(o) PROVE FieldAt(n, o, k) = Initially(o, k)
  <2>1. \E i \in 1..l : layout.roots[i] = o  BY <1>0 DEF Range
  <2>2. o \in Names  BY InitialIs
  <2> QED  BY <1>12, <1>14, <2>1, <2>2 DEF RootsWritten
<1>16. ASSUME "mark" \in Names, NEW k \in Fields("mark") PROVE FieldAt(n, "mark", k) = 0
  <2>1. ~\E i \in 1..l : layout.roots[i] = "mark"  BY <1>1, InitialIs
  <2> QED  BY <1>12, <1>14, <1>16, <2>1 DEF RootsWritten
<1>17. InitializeRoots(m) = n  BY <1>7 DEF n
<1> QED  BY <1>13, <1>15, <1>16, <1>17

-----------------------------------------------------------------------------
(***************************************************************************)
(* Memory represents a heap.                                               *)
(***************************************************************************)
\* The interface of o in m is x.
HasShape(m, o, x) ==
  IF x = "nil" THEN FieldAt(m, o, "tag") = 0
  ELSE FieldAt(m, o, "tag") = TagOf(Type(x)) /\ FieldAt(m, o, "handle") = HandleOf(x)

Represents(m, h) ==
  /\ m \in Memories
  /\ h \in [Objects -> [value : Int, link : CellNames \cup {"nil"}, shape : Names \cup {"nil"}]]
  /\ \A o \in Objects \ Names : h[o] = Absent
  /\ \A o \in Names : FieldAt(m, o, "value") = h[o].value
  /\ \A o \in Linked : FieldAt(m, o, "link") = HandleOf(h[o].link)
  /\ \A o \in Names \ Linked : h[o].link = "nil"
  /\ \A o \in NodeNames : HasShape(m, o, h[o].shape)
  /\ \A o \in Names \ NodeNames : h[o].shape = "nil"

LEMMA FieldsAre ==
  ASSUME LaidOut
  PROVE  /\ \A o \in Names : "value" \in Fields(o)
         /\ \A o \in Linked : o \in Names /\ "link" \in Fields(o)
         /\ \A o \in NodeNames : o \in Linked /\ "tag" \in Fields(o) /\ "handle" \in Fields(o)
         /\ \A o \in Linked : Place(o, "link") = PlaceOf(o)
         /\ \A o \in NodeNames : Place(o, "tag") = Start(o) + 1 /\ Place(o, "handle") = Start(o) + 2
         /\ \A o \in Linked : o \in NodeNames \/ o = "mark"
<1>1. NodeNames \subseteq Names /\ Linked \subseteq Names /\ NodeNames \subseteq Nodes /\ "mark" \notin Nodes
      /\ NodeNames \subseteq Linked
  BY NamesAre DEF NodeNames, Linked
<1>2. \A o \in Linked : o \in NodeNames \/ o = "mark"  BY DEF Linked
<1>3. ASSUME NEW o \in NodeNames PROVE Start(o) \in Nat /\ o # "mark"  BY <1>1, <1>3, StartIs
<1>4. ASSUME NEW o \in Linked PROVE Place(o, "link") = PlaceOf(o)
  <2>1. CASE o = "mark"  BY <2>1 DEF Place, PlaceOf
  <2>2. CASE o # "mark"
    <3>1. o \in NodeNames /\ o \in Nodes  BY <1>1, <1>2, <2>2
    <3> QED  BY <1>3, <2>2, <3>1 DEF Place, PlaceOf
  <2> QED  BY <2>1, <2>2
<1>5. ASSUME NEW o \in NodeNames PROVE Place(o, "tag") = Start(o) + 1 /\ Place(o, "handle") = Start(o) + 2
  BY <1>1, <1>3, <1>5 DEF Place
<1>6. \A o \in Names : "value" \in Fields(o)  BY DEF Fields
<1>7. \A o \in Linked : o \in Names /\ "link" \in Fields(o)  BY <1>1, <1>2 DEF Fields
<1>8. \A o \in NodeNames : o \in Linked /\ "tag" \in Fields(o) /\ "handle" \in Fields(o)
  BY <1>1 DEF Fields
<1> QED  BY <1>2, <1>4, <1>5, <1>6, <1>7, <1>8

LEMMA HeapIs ==
  ASSUME LaidOut, NEW m, NEW h, Represents(m, h), NEW o \in Objects
  PROVE  /\ h[o] = [value |-> h[o].value, link |-> h[o].link, shape |-> h[o].shape]
         /\ h[o].value \in Int /\ h[o].link \in CellNames \cup {"nil"} /\ h[o].shape \in Names \cup {"nil"}
BY DEF Represents

\* A heap is what its memory decodes to.
LEMMA DecodedIs ==
  ASSUME LaidOut, NEW h, Represents(memory, h), ~Pending
  PROVE  decoded = h
<1>1. ASSUME NEW o \in Objects PROVE Decoded(o) = h[o]
  <2>0. h[o] = [value |-> h[o].value, link |-> h[o].link, shape |-> h[o].shape]  BY HeapIs
  <2>1. CASE o \notin Names
    <3>1. o \notin NodeNames  BY <2>1 DEF NodeNames
    <3>2. Decoded(o) = Absent  BY <2>1, <3>1 DEF Decoded
    <3> QED  BY <2>1, <3>2 DEF Represents
  <2>2. CASE o = "mark" /\ o \in Names
    <3>1. o \in Linked /\ o \notin NodeNames  BY <2>2, NamesAre DEF Linked
    <3>2. FieldAt(memory, o, "value") = At(memory, 1) /\ FieldAt(memory, o, "link") = At(memory, 0)
      BY <2>2 DEF FieldAt, Place
    <3>3. At(memory, 1) = h[o].value /\ At(memory, 0) = HandleOf(h[o].link) /\ h[o].shape = "nil"
      BY <2>2, <3>1, <3>2 DEF Represents
    <3>4. ObjectAt(At(memory, 0)) = h[o].link
      <4>1. h[o].link \in Names \cup {"nil"}  BY HeapIs DEF CellNames
      <4> QED  BY <3>3, <4>1, HandlesAre
    <3>5. Decoded(o) = [value |-> At(memory, 1), link |-> ObjectAt(At(memory, 0)), shape |-> "nil"]
      BY <2>2, <3>1 DEF Decoded
    <3> QED  BY <2>0, <3>3, <3>4, <3>5
  <2>3. CASE o \in NodeNames
    <3>1. o \in Names /\ o # "mark" /\ o \in Linked /\ Start(o) \in Nat
      BY <2>3, NamesAre, FieldsAre, StartIs
    <3>2. /\ Place(o, "link") = Start(o) /\ Place(o, "tag") = Start(o) + 1
          /\ Place(o, "handle") = Start(o) + 2 /\ Place(o, "value") = Start(o) + 3
      BY <2>3, <3>1 DEF Place, NodeNames
    <3>3. /\ At(memory, Start(o) + 3) = h[o].value /\ At(memory, Start(o)) = HandleOf(h[o].link)
          /\ HasShape(memory, o, h[o].shape)
      BY <2>3, <3>1, <3>2 DEF Represents, FieldAt
    <3>4. ObjectAt(At(memory, Start(o))) = h[o].link
      <4>1. h[o].link \in Names \cup {"nil"}  BY HeapIs DEF CellNames
      <4> QED  BY <3>3, <4>1, HandlesAre
    <3>5. (IF At(memory, Start(o) + 1) = 0 THEN "nil" ELSE ObjectAt(At(memory, Start(o) + 2))) = h[o].shape
      <4>1. h[o].shape \in Names \cup {"nil"}  BY HeapIs
      <4>2. CASE h[o].shape = "nil"  BY <3>2, <3>3, <4>2 DEF HasShape, FieldAt
      <4>3. CASE h[o].shape # "nil"
        <5>1. At(memory, Start(o) + 1) = TagOf(Type(h[o].shape)) /\ At(memory, Start(o) + 2) = HandleOf(h[o].shape)
          BY <3>2, <3>3, <4>3 DEF HasShape, FieldAt
        <5>2. TagOf(Type(h[o].shape)) # 0  BY TagsAre DEF Type
        <5> QED  BY <4>1, <5>1, <5>2, HandlesAre
      <4> QED  BY <4>2, <4>3
    <3>6. Decoded(o) = [value |-> At(memory, Start(o) + 3), link |-> ObjectAt(At(memory, Start(o))),
                        shape |-> IF At(memory, Start(o) + 1) = 0 THEN "nil" ELSE ObjectAt(At(memory, Start(o) + 2))]
      BY <2>3, <3>1 DEF Decoded
    <3> QED  BY <2>0, <3>3, <3>4, <3>5, <3>6
  <2>4. CASE o \in Names \ (NodeNames \cup {"mark"})
    <3>1. o \notin Linked /\ o \notin Nodes  BY <2>4 DEF Linked, NodeNames
    <3>2. Place(o, "value") = Start(o)  BY <2>4, <3>1 DEF Place
    <3>3. At(memory, Start(o)) = h[o].value /\ h[o].link = "nil" /\ h[o].shape = "nil"
      BY <2>4, <3>1, <3>2 DEF Represents, FieldAt
    <3>4. Decoded(o) = [Absent EXCEPT !.value = At(memory, Start(o))]  BY <2>4 DEF Decoded
    <3> QED  BY <2>0, <3>3, <3>4 DEF Absent
  <2> QED  BY <2>1, <2>2, <2>3, <2>4
<1>2. h = [o \in Objects |-> h[o]]  BY DEF Represents
<1> QED  BY <1>1, <1>2 DEF decoded

LEMMA SetValueIs ==
  ASSUME LaidOut, NEW m, NEW h, Represents(m, h), NEW o \in Names, NEW v \in Int
  PROVE  LET n == Put(m, Place(o, "value"), v)
         IN Represents(n, [h EXCEPT ![o].value = v]) /\ At(n, layout.flag) = At(m, layout.flag)
<1> DEFINE n == Put(m, Place(o, "value"), v)
           k == [h EXCEPT ![o].value = v]
<1>0. o \in Objects /\ m \in Memories /\ "value" \in Fields(o)  BY NamesAre, FieldsAre DEF Represents
<1>1. /\ n \in Memories /\ FieldAt(n, o, "value") = v /\ At(n, layout.flag) = At(m, layout.flag)
      /\ \A q \in Names : \A g \in Fields(q) : q # o \/ g # "value" => FieldAt(n, q, g) = FieldAt(m, q, g)
  BY <1>0, PutField
<1>2. /\ k \in [Objects -> [value : Int, link : CellNames \cup {"nil"}, shape : Names \cup {"nil"}]]
      /\ k[o].value = v /\ k[o].link = h[o].link /\ k[o].shape = h[o].shape
      /\ \A q \in Objects : q # o => k[q] = h[q]
  BY <1>0 DEF Represents
<1> HIDE DEF n, k
<1>3. \A q \in Names : FieldAt(n, q, "value") = k[q].value
  <2> SUFFICES ASSUME NEW q \in Names PROVE FieldAt(n, q, "value") = k[q].value  OBVIOUS
  <2>1. q \in Objects /\ "value" \in Fields(q)  BY NamesAre, FieldsAre
  <2>2. CASE q = o  BY <1>1, <1>2, <2>2
  <2>3. CASE q # o  BY <1>1, <1>2, <2>1, <2>3 DEF Represents
  <2> QED  BY <2>2, <2>3
<1>4. \A q \in Objects : k[q].link = h[q].link /\ k[q].shape = h[q].shape  BY <1>2
<1>5. \A q \in Linked : FieldAt(n, q, "link") = HandleOf(k[q].link)
  <2> SUFFICES ASSUME NEW q \in Linked PROVE FieldAt(n, q, "link") = HandleOf(k[q].link)  OBVIOUS
  <2>1. q \in Names /\ q \in Objects /\ "link" \in Fields(q)  BY NamesAre, FieldsAre
  <2>2. FieldAt(n, q, "link") = FieldAt(m, q, "link")  BY <1>1, <2>1
  <2> QED  BY <1>4, <2>1, <2>2 DEF Represents
<1>6. \A q \in NodeNames : HasShape(n, q, k[q].shape)
  <2> SUFFICES ASSUME NEW q \in NodeNames PROVE HasShape(n, q, k[q].shape)  OBVIOUS
  <2>1. q \in Names /\ q \in Objects /\ "tag" \in Fields(q) /\ "handle" \in Fields(q)  BY NamesAre, FieldsAre
  <2>2. FieldAt(n, q, "tag") = FieldAt(m, q, "tag") /\ FieldAt(n, q, "handle") = FieldAt(m, q, "handle")
    BY <1>1, <2>1
  <2>3. HasShape(m, q, h[q].shape)  BY DEF Represents
  <2> QED  BY <1>4, <2>1, <2>2, <2>3 DEF HasShape
<1>7. \A q \in Objects \ Names : k[q] = Absent  BY <1>2 DEF Represents
<1>8. /\ \A q \in Names \ Linked : k[q].link = "nil"
      /\ \A q \in Names \ NodeNames : k[q].shape = "nil"
  BY <1>4, NamesAre DEF Represents
<1>9. Represents(n, k)  BY <1>1, <1>2, <1>3, <1>5, <1>6, <1>7, <1>8 DEF Represents
<1> QED  BY <1>1, <1>9 DEF n, k

LEMMA SetLinkIs ==
  ASSUME LaidOut, NEW m, NEW h, Represents(m, h), NEW o \in Linked, NEW x \in CellNames \cup {"nil"}
  PROVE  LET n == Put(m, PlaceOf(o), HandleOf(x))
         IN Represents(n, [h EXCEPT ![o].link = x]) /\ At(n, layout.flag) = At(m, layout.flag)
<1> DEFINE n == Put(m, PlaceOf(o), HandleOf(x))
           k == [h EXCEPT ![o].link = x]
<1>0. o \in Objects /\ o \in Names /\ m \in Memories /\ "link" \in Fields(o) /\ PlaceOf(o) = Place(o, "link")
  BY NamesAre, FieldsAre DEF Represents
<1>1. /\ n \in Memories /\ FieldAt(n, o, "link") = HandleOf(x) /\ At(n, layout.flag) = At(m, layout.flag)
      /\ \A q \in Names : \A g \in Fields(q) : q # o \/ g # "link" => FieldAt(n, q, g) = FieldAt(m, q, g)
  <2>1. HandleOf(x) \in Int  BY HandlesAre DEF CellNames
  <2> QED  BY <1>0, <2>1, PutField
<1>2. /\ k \in [Objects -> [value : Int, link : CellNames \cup {"nil"}, shape : Names \cup {"nil"}]]
      /\ k[o].value = h[o].value /\ k[o].link = x /\ k[o].shape = h[o].shape
      /\ \A q \in Objects : q # o => k[q] = h[q]
  BY <1>0 DEF Represents
<1> HIDE DEF n, k
<1>3. \A q \in Objects : k[q].value = h[q].value /\ k[q].shape = h[q].shape  BY <1>2
<1>4. \A q \in Names : FieldAt(n, q, "value") = k[q].value
  <2> SUFFICES ASSUME NEW q \in Names PROVE FieldAt(n, q, "value") = k[q].value  OBVIOUS
  <2>1. q \in Objects /\ "value" \in Fields(q)  BY NamesAre, FieldsAre
  <2>2. FieldAt(n, q, "value") = FieldAt(m, q, "value")  BY <1>1, <2>1
  <2> QED  BY <1>3, <2>1, <2>2 DEF Represents
<1>5. \A q \in Linked : FieldAt(n, q, "link") = HandleOf(k[q].link)
  <2> SUFFICES ASSUME NEW q \in Linked PROVE FieldAt(n, q, "link") = HandleOf(k[q].link)  OBVIOUS
  <2>1. q \in Names /\ q \in Objects /\ "link" \in Fields(q)  BY NamesAre, FieldsAre
  <2>2. CASE q = o  BY <1>1, <1>2, <2>2
  <2>3. CASE q # o
    <3>1. FieldAt(n, q, "link") = FieldAt(m, q, "link")  BY <1>1, <2>1, <2>3
    <3> QED  BY <1>2, <2>1, <2>3, <3>1 DEF Represents
  <2> QED  BY <2>2, <2>3
<1>6. \A q \in NodeNames : HasShape(n, q, k[q].shape)
  <2> SUFFICES ASSUME NEW q \in NodeNames PROVE HasShape(n, q, k[q].shape)  OBVIOUS
  <2>1. q \in Names /\ q \in Objects /\ "tag" \in Fields(q) /\ "handle" \in Fields(q)  BY NamesAre, FieldsAre
  <2>2. FieldAt(n, q, "tag") = FieldAt(m, q, "tag") /\ FieldAt(n, q, "handle") = FieldAt(m, q, "handle")
    BY <1>1, <2>1
  <2>3. HasShape(m, q, h[q].shape)  BY DEF Represents
  <2> QED  BY <1>3, <2>1, <2>2, <2>3 DEF HasShape
<1>7. \A q \in Objects \ Names : k[q] = Absent  BY <1>0, <1>2 DEF Represents
<1>8. \A q \in Names \ Linked : k[q].link = "nil"  BY <1>2, NamesAre DEF Represents
<1>9. \A q \in Names \ NodeNames : k[q].shape = "nil"  BY <1>3, NamesAre DEF Represents
<1>10. Represents(n, k)  BY <1>1, <1>2, <1>4, <1>5, <1>6, <1>7, <1>8, <1>9 DEF Represents
<1> QED  BY <1>1, <1>10 DEF n, k

LEMMA SetShapeIs ==
  ASSUME LaidOut, NEW m, NEW h, Represents(m, h), NEW o \in NodeNames, NEW x \in Names \cup {"nil"},
         NEW tag \in Int, NEW handle \in Int,
         IF x = "nil" THEN tag = 0 ELSE tag = TagOf(Type(x)) /\ handle = HandleOf(x)
  PROVE  LET n == StorePersistentInterface(m, Start(o) + 1, tag, handle)
         IN Represents(n, [h EXCEPT ![o].shape = x]) /\ At(n, layout.flag) = At(m, layout.flag)
<1> DEFINE half == Put(m, Place(o, "handle"), handle)
           n == StorePersistentInterface(m, Start(o) + 1, tag, handle)
           k == [h EXCEPT ![o].shape = x]
<1>0. /\ o \in Objects /\ o \in Names /\ o # "mark" /\ m \in Memories /\ Start(o) \in Nat
      /\ "tag" \in Fields(o) /\ "handle" \in Fields(o)
      /\ Place(o, "tag") = Start(o) + 1 /\ Place(o, "handle") = Start(o) + 2
  BY NamesAre, FieldsAre, StartIs DEF Represents
<1>1. n = Put(half, Place(o, "tag"), tag)
  <2>1. (Start(o) + 1) + 1 = Start(o) + 2  BY <1>0
  <2> QED  BY <1>0, <2>1 DEF StorePersistentInterface
<1>2. /\ half \in Memories /\ FieldAt(half, o, "handle") = handle /\ At(half, layout.flag) = At(m, layout.flag)
      /\ \A q \in Names : \A g \in Fields(q) : q # o \/ g # "handle" => FieldAt(half, q, g) = FieldAt(m, q, g)
  BY <1>0, PutField
<1> HIDE DEF half
<1>3. /\ n \in Memories /\ FieldAt(n, o, "tag") = tag /\ At(n, layout.flag) = At(half, layout.flag)
      /\ \A q \in Names : \A g \in Fields(q) : q # o \/ g # "tag" => FieldAt(n, q, g) = FieldAt(half, q, g)
  BY <1>0, <1>1, <1>2, PutField
<1>4. /\ k \in [Objects -> [value : Int, link : CellNames \cup {"nil"}, shape : Names \cup {"nil"}]]
      /\ k[o].value = h[o].value /\ k[o].link = h[o].link /\ k[o].shape = x
      /\ \A q \in Objects : q # o => k[q] = h[q]
  BY <1>0 DEF Represents
<1> HIDE DEF n, k
<1>5. FieldAt(n, o, "handle") = handle  BY <1>0, <1>2, <1>3
<1>6. \A q \in Names : \A g \in Fields(q) : q # o \/ g \notin {"tag", "handle"} => FieldAt(n, q, g) = FieldAt(m, q, g)
  BY <1>2, <1>3
<1>7. \A q \in Objects : k[q].value = h[q].value /\ k[q].link = h[q].link  BY <1>4
<1>8. \A q \in Names : FieldAt(n, q, "value") = k[q].value
  <2> SUFFICES ASSUME NEW q \in Names PROVE FieldAt(n, q, "value") = k[q].value  OBVIOUS
  <2>1. q \in Objects /\ "value" \in Fields(q)  BY NamesAre, FieldsAre
  <2>2. FieldAt(n, q, "value") = FieldAt(m, q, "value")  BY <1>6, <2>1
  <2> QED  BY <1>7, <2>1, <2>2 DEF Represents
<1>9. \A q \in Linked : FieldAt(n, q, "link") = HandleOf(k[q].link)
  <2> SUFFICES ASSUME NEW q \in Linked PROVE FieldAt(n, q, "link") = HandleOf(k[q].link)  OBVIOUS
  <2>1. q \in Names /\ q \in Objects /\ "link" \in Fields(q)  BY NamesAre, FieldsAre
  <2>2. FieldAt(n, q, "link") = FieldAt(m, q, "link")  BY <1>6, <2>1
  <2> QED  BY <1>7, <2>1, <2>2 DEF Represents
<1>10. \A q \in NodeNames : HasShape(n, q, k[q].shape)
  <2> SUFFICES ASSUME NEW q \in NodeNames PROVE HasShape(n, q, k[q].shape)  OBVIOUS
  <2>1. q \in Names /\ q \in Objects /\ "tag" \in Fields(q) /\ "handle" \in Fields(q)  BY NamesAre, FieldsAre
  <2>2. CASE q = o  BY <1>3, <1>4, <1>5, <2>2 DEF HasShape
  <2>3. CASE q # o
    <3>1. FieldAt(n, q, "tag") = FieldAt(m, q, "tag") /\ FieldAt(n, q, "handle") = FieldAt(m, q, "handle")
      BY <1>6, <2>1, <2>3
    <3>2. HasShape(m, q, h[q].shape)  BY DEF Represents
    <3> QED  BY <1>4, <2>1, <2>3, <3>1, <3>2 DEF HasShape
  <2> QED  BY <2>2, <2>3
<1>11. \A q \in Objects \ Names : k[q] = Absent  BY <1>0, <1>4 DEF Represents
<1>12. \A q \in Names \ Linked : k[q].link = "nil"  BY <1>7, NamesAre DEF Represents
<1>13. \A q \in Names \ NodeNames : k[q].shape = "nil"  BY <1>4, NamesAre DEF Represents
<1>14. Represents(n, k)  BY <1>3, <1>4, <1>8, <1>9, <1>10, <1>11, <1>12, <1>13 DEF Represents
<1> QED  BY <1>2, <1>3, <1>14 DEF n, k

-----------------------------------------------------------------------------
(***************************************************************************)
(* Statements.  A pointer expression leads to the object it leads to in    *)
(* the heap.                                                               *)
(***************************************************************************)
AllRefs == CellRefs \cup NodeRefs
Pointed(h, ref) ==
  IF ref[1] = "nil" THEN "nil"
  ELSE IF ref[1] = "var" THEN ref[2]
  ELSE IF ref[1] = "link" THEN h[ref[2]].link
  ELSE IF h[ref[2]].shape \in Objects \ Nodes THEN h[ref[2]].shape ELSE "nil"
Leads(m, h, ref) ==
  LET x == Pointed(h, ref)
  IN /\ x \in Names \cup {"nil"}
     /\ PersistentPointerAddress(m, ref) = HandleOf(x)
     /\ x # "nil" => FieldAt(m, x, "value") = h[x].value /\ Type(x) = TypeOf(ref)
\* A method called on the interface of o is that of the object in the heap.
Shows(m, h, o) ==
  LET x == h[o].shape
  IN /\ x \in Names \cup {"nil"}
     /\ HasShape(m, o, x)
     /\ x # "nil" => FieldAt(m, x, "value") = h[x].value

LEMMA RefsAre ==
  ASSUME NEW ref \in AllRefs
  PROVE  \/ ref = <<"nil">>
         \/ \E o \in Names : ref = <<"var", o>>
         \/ \E o \in Linked : ref = <<"link", o>>
         \/ \E o \in NodeNames : ref = <<"cast", o>>
BY DEF AllRefs, CellRefs, NodeRefs, NodeNames

LEMMA ReferenceIs ==
  ASSUME LaidOut, NEW ref \in AllRefs
  PROVE  ref \in Heap!References
<1>1. Names \subseteq Objects /\ Linked \subseteq Objects /\ NodeNames \subseteq Nodes
  BY NamesAre, FieldsAre DEF NodeNames
<1> QED  BY <1>1, RefsAre DEF Heap!References

LEMMA TargetIs ==
  ASSUME LaidOut, NEW ref \in AllRefs
  PROVE  Heap!Target(ref) = Pointed(decoded, ref)
<1>1. CASE ref = <<"nil">>  BY <1>1 DEF Heap!Target, Pointed
<1>2. ASSUME NEW o \in Names, ref = <<"var", o>> PROVE Heap!Target(ref) = Pointed(decoded, ref)
  BY <1>2 DEF Heap!Target, Pointed
<1>3. ASSUME NEW o \in Linked, ref = <<"link", o>> PROVE Heap!Target(ref) = Pointed(decoded, ref)
  BY <1>3 DEF Heap!Target, Pointed
<1>4. ASSUME NEW o \in NodeNames, ref = <<"cast", o>> PROVE Heap!Target(ref) = Pointed(decoded, ref)
  BY <1>4 DEF Heap!Target, Pointed, Heap!Cells
<1> QED  BY <1>1, <1>2, <1>3, <1>4, RefsAre

LEMMA RefLeads ==
  ASSUME LaidOut, NEW m, NEW h, Represents(m, h), NEW ref \in AllRefs
  PROVE  /\ Leads(m, h, ref)
         /\ ref \in CellRefs => Pointed(h, ref) \in CellNames \cup {"nil"}
<1> DEFINE x == Pointed(h, ref)
<1>0. /\ HandleOf("nil") = 0 /\ "nil" \notin Names /\ "mark" \notin Nodes
      /\ Names \subseteq Objects /\ CellNames \subseteq Names
      /\ \A o \in CellNames : o \notin Nodes
      /\ \A o \in Names : FieldAt(m, o, "value") = h[o].value
  BY HandlesAre, NamesAre DEF Represents, CellNames
<1>1. \A o \in CellNames : Type(o) = "Cell"  BY DEF Type, CellNames
<1>2. CASE ref = <<"nil">>
  <2>1. x = "nil" /\ PersistentPointerAddress(m, ref) = 0  BY <1>2 DEF Pointed, PersistentPointerAddress
  <2> QED  BY <1>0, <2>1 DEF Leads
<1>3. ASSUME NEW o \in Names, ref = <<"var", o>>
      PROVE  Leads(m, h, ref) /\ (ref \in CellRefs => x \in CellNames \cup {"nil"})
  <2>1. x = o /\ PersistentPointerAddress(m, ref) = HandleOf(o) /\ TypeOf(ref) = Type(o)
    BY <1>3 DEF Pointed, PersistentPointerAddress, TypeOf
  <2>2. ref \in CellRefs => o \in CellNames  BY <1>3 DEF CellRefs, CellNames, NodeNames
  <2> QED  BY <1>0, <2>1, <2>2 DEF Leads
<1>4. ASSUME NEW o \in Linked, ref = <<"link", o>>
      PROVE  Leads(m, h, ref) /\ (ref \in CellRefs => x \in CellNames \cup {"nil"})
  <2>1. x = h[o].link /\ PersistentPointerAddress(m, ref) = At(m, PlaceOf(o)) /\ TypeOf(ref) = "Cell"
    BY <1>4 DEF Pointed, PersistentPointerAddress, TypeOf
  <2>2. At(m, PlaceOf(o)) = HandleOf(h[o].link)  BY FieldsAre DEF Represents, FieldAt
  <2>3. o \in Objects  BY <1>0, FieldsAre
  <2>4. x \in CellNames \cup {"nil"}  BY <2>1, <2>3, HeapIs
  <2> QED  BY <1>0, <1>1, <2>1, <2>2, <2>4 DEF Leads
<1>5. ASSUME NEW o \in NodeNames, ref = <<"cast", o>>
      PROVE  Leads(m, h, ref) /\ (ref \in CellRefs => x \in CellNames \cup {"nil"})
  <2> DEFINE y == h[o].shape
  <2>1. x = IF y \in Objects \ Nodes THEN y ELSE "nil"  BY <1>5 DEF Pointed
  <2>2. PersistentPointerAddress(m, ref)
          = IF At(m, Start(o) + 1) = TagOf("Cell") THEN At(m, Start(o) + 2) ELSE 0
    BY <1>5 DEF PersistentPointerAddress
  <2>3. TypeOf(ref) = "Cell"  BY <1>5 DEF TypeOf
  <2>4. HasShape(m, o, y) /\ o \in Objects  BY <1>0, FieldsAre DEF Represents
  <2>5. y \in Names \cup {"nil"}  BY <2>4, HeapIs
  <2>6. FieldAt(m, o, "tag") = At(m, Start(o) + 1) /\ FieldAt(m, o, "handle") = At(m, Start(o) + 2)
    BY FieldsAre DEF FieldAt
  <2>7. "nil" \notin Objects  BY DEF LaidOut, PackageAssumption
  <2> HIDE DEF x, y
  <2>8. CASE y = "nil"
    <3>1. At(m, Start(o) + 1) = 0  BY <2>4, <2>6, <2>8 DEF HasShape
    <3>2. PersistentPointerAddress(m, ref) = 0  BY <2>2, <3>1, TagsAre
    <3>3. x = "nil"  BY <2>1, <2>7, <2>8
    <3> QED  BY <1>0, <3>2, <3>3 DEF Leads, x
  <2>9. CASE y \in CellNames
    <3>1. x = y /\ Type(y) = "Cell"  BY <1>0, <1>1, <2>1, <2>9
    <3>2. At(m, Start(o) + 1) = TagOf("Cell") /\ At(m, Start(o) + 2) = HandleOf(y)
      BY <1>0, <2>4, <2>6, <2>9, <3>1 DEF HasShape
    <3> QED  BY <1>0, <2>2, <2>3, <2>9, <3>1, <3>2 DEF Leads, x
  <2>10. CASE y \in NodeNames
    <3>1. x = "nil" /\ Type(y) = "Node" /\ y # "nil"  BY <1>0, <2>1, <2>10 DEF Type, NodeNames
    <3>2. At(m, Start(o) + 1) = TagOf("Node")  BY <2>4, <2>6, <3>1 DEF HasShape
    <3>3. PersistentPointerAddress(m, ref) = 0  BY <2>2, <3>2, TagsAre
    <3> QED  BY <1>0, <3>1, <3>3 DEF Leads, x
  <2> QED  BY <2>5, <2>8, <2>9, <2>10, NamesAre
<1> QED  BY <1>2, <1>3, <1>4, <1>5, RefsAre

LEMMA ShapeShows ==
  ASSUME LaidOut, NEW m, NEW h, Represents(m, h), NEW o \in NodeNames
  PROVE  Shows(m, h, o)
<1>1. o \in Objects  BY NamesAre, FieldsAre
<1>2. h[o].shape \in Names \cup {"nil"}  BY <1>1, HeapIs
<1> QED  BY <1>2 DEF Shows, Represents

-----------------------------------------------------------------------------
\* A statement leaves memory that represents a heap, and is a step to it.
Answered(m, s) == [statement |-> s, ended |-> Execute(m, s).ended, value |-> Execute(m, s).value]
Replies(m, h, k, s) == decoded = h /\ decoded' = k /\ answered' = Answered(m, s) => Heap!Next
Done(m, h, s) ==
  \E k : /\ Represents(Execute(m, s).memory, k)
         /\ At(Execute(m, s).memory, layout.flag) = At(m, layout.flag)
         /\ Replies(m, h, k, s)

LEMMA AnsweredIs ==
  ASSUME NEW m, NEW s, NEW n
  PROVE  /\ Execute(m, s) = Ended(n) => Answered(m, s) = [statement |-> s, ended |-> TRUE, value |-> 0]
         /\ \A v : Execute(m, s) = Result(n, v) => Answered(m, s) = [statement |-> s, ended |-> FALSE, value |-> v]
<1>1. ASSUME NEW e, NEW v, Execute(m, s) = [memory |-> n, ended |-> e, value |-> v]
      PROVE  Answered(m, s) = [statement |-> s, ended |-> e, value |-> v]
  <2>1. Execute(m, s).ended = e /\ Execute(m, s).value = v  BY <1>1
  <2> QED  BY <2>1, Zenon DEF Answered
<1> QED  BY <1>1, Zenon DEF Ended, Result

LEMMA NextIs ==
  ASSUME NEW s, NEW v, NEW e, answered' = [statement |-> s, ended |-> e, value |-> v], Heap!Does(s[1])
  PROVE  Heap!Next
BY DEF Heap!Next

LEMMA GetReplies ==
  ASSUME LaidOut, NEW m, NEW h, NEW ref \in AllRefs, Leads(m, h, ref)
  PROVE  LET s == <<"get", ref>> IN Execute(m, s).memory = m /\ Replies(m, h, h, s)
<1> DEFINE s == <<"get", ref>>
           x == Pointed(h, ref)
<1>1. Execute(m, s) = GetValue(m, ref)  BY DEF Execute
<1>2. GetValue(m, ref) = IF HandleOf(x) = 0 THEN Ended(m) ELSE Result(m, At(m, ValueIndex(HandleOf(x), TypeOf(ref))))
  BY DEF GetValue, Leads
<1>3. x \in Names \cup {"nil"}  BY DEF Leads
<1>4. HandleOf(x) = 0 <=> x = "nil"  BY <1>3, HandlesAre
<1>5. Execute(m, s).memory = m  BY <1>1, <1>2 DEF Ended, Result
<1>6. ASSUME decoded = h, decoded' = h, answered' = Answered(m, s) PROVE Heap!Next
  <2>1. Heap!Target(ref) = x /\ ref \in Heap!References  BY <1>6, TargetIs, ReferenceIs
  <2>2. CASE x = "nil"
    <3>1. Execute(m, s) = Ended(m)  BY <1>1, <1>2, <1>4, <2>2
    <3>2. answered' = [statement |-> s, ended |-> TRUE, value |-> 0]  BY <1>6, <3>1, AnsweredIs, Zenon
    <3>3. Heap!Ends(s, Heap!Target(ref))  BY <1>6, <2>1, <2>2, <3>2 DEF Heap!Ends
    <3>4. Heap!Does("get")  BY <2>1, <3>3 DEF Heap!Does
    <3> QED  BY <3>2, <3>4, NextIs
  <2>3. CASE x # "nil"
    <3>1. Execute(m, s) = Result(m, At(m, ValueIndex(HandleOf(x), TypeOf(ref))))  BY <1>1, <1>2, <1>4, <2>3
    <3>2. At(m, ValueIndex(HandleOf(x), TypeOf(ref))) = h[x].value
      <4>1. TypeOf(ref) = Type(x) /\ FieldAt(m, x, "value") = h[x].value  BY <2>3 DEF Leads
      <4> HIDE DEF x
      <4> QED  BY <1>3, <2>3, <4>1, HandlesAre DEF FieldAt
    <3>3. answered' = [statement |-> s, ended |-> FALSE, value |-> h[x].value]
      BY <1>6, <3>1, <3>2, AnsweredIs, Zenon
    <3>4. Heap!Get(ref)  BY <1>6, <2>1, <2>3, <3>3 DEF Heap!Get, Heap!Answer
    <3>5. Heap!Does("get")  BY <2>1, <3>4 DEF Heap!Does
    <3> QED  BY <3>3, <3>5, NextIs
  <2> QED  BY <2>2, <2>3
<1> QED  BY <1>5, <1>6 DEF Replies

LEMMA EqualReplies ==
  ASSUME LaidOut, NEW m, NEW h, NEW ref \in AllRefs, NEW other \in AllRefs, Leads(m, h, ref), Leads(m, h, other)
  PROVE  LET s == <<"equal", ref, other>> IN Execute(m, s).memory = m /\ Replies(m, h, h, s)
<1> DEFINE s == <<"equal", ref, other>>
           x == Pointed(h, ref)
           y == Pointed(h, other)
<1>1. Execute(m, s) = PointerEqual(m, ref, other)  BY DEF Execute
<1>2. PointerEqual(m, ref, other) = Result(m, IF HandleOf(x) = HandleOf(y) THEN 1 ELSE 0)
  BY DEF PointerEqual, Leads
<1>3. x \in Names \cup {"nil"} /\ y \in Names \cup {"nil"}  BY DEF Leads
<1>4. HandleOf(x) = HandleOf(y) <=> x = y  BY <1>3, HandlesAre
<1>5. Execute(m, s).memory = m  BY <1>1, <1>2 DEF Result
<1>6. ASSUME decoded = h, decoded' = h, answered' = Answered(m, s) PROVE Heap!Next
  <2>1. Heap!Target(ref) = x /\ Heap!Target(other) = y /\ ref \in Heap!References /\ other \in Heap!References
    BY <1>6, TargetIs, ReferenceIs
  <2>2. answered' = [statement |-> s, ended |-> FALSE, value |-> IF x = y THEN 1 ELSE 0]
    <3>1. Execute(m, s) = Result(m, IF x = y THEN 1 ELSE 0)  BY <1>1, <1>2, <1>4
    <3> QED  BY <1>6, <3>1, AnsweredIs, Zenon
  <2>3. Heap!Compare(ref, other)  BY <1>6, <2>1, <2>2 DEF Heap!Compare, Heap!Answer
  <2>4. Heap!Does("equal")  BY <2>1, <2>3 DEF Heap!Does
  <2> QED  BY <2>2, <2>4, NextIs
<1> QED  BY <1>5, <1>6 DEF Replies

LEMMA CallReplies ==
  ASSUME LaidOut, NEW m, NEW h, NEW o \in NodeNames, Shows(m, h, o)
  PROVE  LET s == <<"call", o>> IN Execute(m, s).memory = m /\ Replies(m, h, h, s)
<1> DEFINE s == <<"call", o>>
           x == h[o].shape
           tag == At(m, Start(o) + 1)
           found == At(m, ValueIndex(At(m, Start(o) + 2), Candidates[tag])) + IF Candidates[tag] = "Node" THEN 10 ELSE 0
<1>1. Execute(m, s) = CallShape(m, o)  BY DEF Execute
<1>2. CallShape(m, o) = IF tag = 0 THEN Ended(m) ELSE Result(m, found)  BY DEF CallShape
<1>3. x \in Names \cup {"nil"} /\ HasShape(m, o, x)  BY DEF Shows
<1>4. FieldAt(m, o, "tag") = tag /\ FieldAt(m, o, "handle") = At(m, Start(o) + 2)  BY FieldsAre DEF FieldAt
<1>5. Execute(m, s).memory = m  BY <1>1, <1>2 DEF Ended, Result
<1>6. x # "nil" => tag = TagOf(Type(x)) /\ tag # 0 /\ Candidates[tag] = Type(x) /\ At(m, Start(o) + 2) = HandleOf(x)
  <2> SUFFICES ASSUME x # "nil"
               PROVE  tag = TagOf(Type(x)) /\ tag # 0 /\ Candidates[tag] = Type(x) /\ At(m, Start(o) + 2) = HandleOf(x)
    OBVIOUS
  <2>1. tag = TagOf(Type(x)) /\ At(m, Start(o) + 2) = HandleOf(x)  BY <1>3, <1>4 DEF HasShape
  <2> HIDE DEF x, tag
  <2> QED  BY <2>1, TagsAre DEF Type
<1>7. x = "nil" => tag = 0  BY <1>3, <1>4 DEF HasShape
<1>8. o \in Nodes  BY DEF NodeNames
<1> HIDE DEF tag, found
<1>9. ASSUME decoded = h, decoded' = h, answered' = Answered(m, s) PROVE Heap!Next
  <2>1. CASE x = "nil"
    <3>1. answered' = [statement |-> s, ended |-> TRUE, value |-> 0]
      <4>1. Execute(m, s) = Ended(m)  BY <1>1, <1>2, <1>7, <2>1
      <4> QED  BY <1>9, <4>1, AnsweredIs, Zenon
    <3>2. Heap!Ends(s, decoded[o].shape)  BY <1>9, <2>1, <3>1 DEF Heap!Ends
    <3>3. Heap!Does("call")  BY <1>8, <3>2 DEF Heap!Does
    <3> QED  BY <3>1, <3>3, NextIs
  <2>2. CASE x # "nil"
    <3>1. found = h[x].value + IF x \in Nodes THEN 10 ELSE 0
      <4>1. FieldAt(m, x, "value") = h[x].value  BY <2>2 DEF Shows
      <4>2. x \in Names  BY <1>3, <2>2
      <4>3. At(m, ValueIndex(HandleOf(x), Type(x))) = h[x].value
        <5> HIDE DEF x
        <5> QED  BY <4>1, <4>2, HandlesAre DEF FieldAt
      <4>4. Type(x) = "Node" <=> x \in Nodes  BY DEF Type
      <4> HIDE DEF x
      <4> QED  BY <1>6, <2>2, <4>3, <4>4 DEF found
    <3>2. answered' = [statement |-> s, ended |-> FALSE, value |-> found]
      <4>1. Execute(m, s) = Result(m, found)  BY <1>1, <1>2, <1>6, <2>2
      <4> QED  BY <1>9, <4>1, AnsweredIs, Zenon
    <3>3. Heap!CallShape(o)  BY <1>9, <2>2, <3>1, <3>2 DEF Heap!CallShape, Heap!Answer
    <3>4. Heap!Does("call")  BY <1>8, <3>3 DEF Heap!Does
    <3> QED  BY <3>2, <3>4, NextIs
  <2> QED  BY <2>1, <2>2
<1> QED  BY <1>5, <1>9 DEF Replies

LEMMA SetDone ==
  ASSUME LaidOut, NEW m, NEW h, Represents(m, h), NEW ref \in AllRefs, NEW v \in PackageValues
  PROVE  Done(m, h, <<"set", ref, v>>)
<1> DEFINE s == <<"set", ref, v>>
           x == Pointed(h, ref)
           k == [h EXCEPT ![x].value = v]
<1>0. v \in Int  BY DEF LaidOut, PackageAssumption
<1>1. Execute(m, s) = SetValue(m, ref, v)  BY DEF Execute
<1>2. Leads(m, h, ref)  BY RefLeads
<1>3. x \in Names \cup {"nil"} /\ (x # "nil" => Type(x) = TypeOf(ref))  BY <1>2 DEF Leads
<1>4. SetValue(m, ref, v)
        = IF HandleOf(x) = 0 THEN Ended(m) ELSE Result(Put(m, ValueIndex(HandleOf(x), TypeOf(ref)), v), 0)
  BY <1>2 DEF SetValue, Leads
<1>5. HandleOf(x) = 0 <=> x = "nil"  BY <1>3, HandlesAre
<1>6. CASE x = "nil"
  <2>1. Execute(m, s) = Ended(m)  BY <1>1, <1>4, <1>5, <1>6
  <2>2. ASSUME decoded = h, decoded' = h, answered' = Answered(m, s) PROVE Heap!Next
    <3>1. Heap!Target(ref) = x /\ ref \in Heap!References  BY <2>2, TargetIs, ReferenceIs
    <3>2. answered' = [statement |-> s, ended |-> TRUE, value |-> 0]  BY <2>1, <2>2, AnsweredIs, Zenon
    <3>3. Heap!Ends(s, Heap!Target(ref))  BY <1>6, <2>2, <3>1, <3>2 DEF Heap!Ends
    <3>4. Heap!Does("set")  BY <3>1, <3>3 DEF Heap!Does
    <3> QED  BY <3>2, <3>4, NextIs
  <2>3. Execute(m, s).memory = m  BY <2>1 DEF Ended
  <2> QED  BY <2>2, <2>3 DEF Done, Replies
<1>7. CASE x # "nil"
  <2>1. ValueIndex(HandleOf(x), TypeOf(ref)) = Place(x, "value") /\ x \in Names
    <3> HIDE DEF x
    <3> QED  BY <1>3, <1>7, HandlesAre
  <2> DEFINE n == Put(m, Place(x, "value"), v)
  <2>2. Execute(m, s) = Result(n, 0)  BY <1>1, <1>4, <1>5, <1>7, <2>1
  <2>3. Represents(n, k) /\ At(n, layout.flag) = At(m, layout.flag)  BY <1>0, <2>1, SetValueIs
  <2>4. ASSUME decoded = h, decoded' = k, answered' = Answered(m, s) PROVE Heap!Next
    <3>1. Heap!Target(ref) = x /\ ref \in Heap!References  BY <2>4, TargetIs, ReferenceIs
    <3>2. answered' = [statement |-> s, ended |-> FALSE, value |-> 0]  BY <2>2, <2>4, AnsweredIs, Zenon
    <3>3. Heap!Set(ref, v)  BY <1>7, <2>4, <3>1, <3>2 DEF Heap!Set, Heap!Answer
    <3>4. Heap!Does("set")  BY <3>1, <3>3 DEF Heap!Does
    <3> QED  BY <3>2, <3>4, NextIs
  <2>5. Execute(m, s).memory = n  BY <2>2 DEF Result
  <2> QED  BY <2>3, <2>4, <2>5 DEF Done, Replies
<1> QED  BY <1>6, <1>7

LEMMA LinkDone ==
  ASSUME LaidOut, NEW m, NEW h, Represents(m, h), NEW o \in Linked, NEW ref \in CellRefs
  PROVE  Done(m, h, <<"link", o, ref>>)
<1> DEFINE s == <<"link", o, ref>>
           x == Pointed(h, ref)
           k == [h EXCEPT ![o].link = x]
           n == Put(m, PlaceOf(o), HandleOf(x))
<1>0. ref \in AllRefs /\ o \in Objects  BY NamesAre, FieldsAre DEF AllRefs
<1>1. x \in CellNames \cup {"nil"} /\ PersistentPointerAddress(m, ref) = HandleOf(x)
  BY <1>0, RefLeads DEF Leads
<1>2. Execute(m, s) = Result(n, 0)  BY <1>1 DEF Execute, StorePersistentPointer
<1>3. Represents(n, k) /\ At(n, layout.flag) = At(m, layout.flag)  BY <1>1, SetLinkIs
<1>4. ASSUME decoded = h, decoded' = k, answered' = Answered(m, s) PROVE Heap!Next
  <2>1. Heap!Target(ref) = x /\ ref \in Heap!References  BY <1>0, <1>4, TargetIs, ReferenceIs
  <2>2. answered' = [statement |-> s, ended |-> FALSE, value |-> 0]  BY <1>2, <1>4, AnsweredIs, Zenon
  <2>3. Heap!SetLink(o, ref)  BY <1>4, <2>1, <2>2 DEF Heap!SetLink, Heap!Answer
  <2>4. Heap!Does("link")  BY <1>0, <2>1, <2>3 DEF Heap!Does
  <2> QED  BY <2>2, <2>4, NextIs
<1>5. Execute(m, s).memory = n  BY <1>2 DEF Result
<1> QED  BY <1>3, <1>4, <1>5 DEF Done, Replies

LEMMA ShapeDone ==
  ASSUME LaidOut, NEW m, NEW h, Represents(m, h), NEW o \in NodeNames,
         NEW ref \in {<<"nil">>} \cup {<<"var", x>> : x \in Names}
  PROVE  Done(m, h, <<"shape", o, ref>>)
<1> DEFINE s == <<"shape", o, ref>>
           x == Pointed(h, ref)
           k == [h EXCEPT ![o].shape = x]
           tag == IF x = "nil" THEN 0 ELSE TagOf(Type(x))
           n == StorePersistentInterface(m, Start(o) + 1, tag, HandleOf(x))
<1>0. o \in Objects /\ o \in Nodes  BY NamesAre, FieldsAre DEF NodeNames
<1>1. ref \in AllRefs
  BY DEF AllRefs, CellRefs, NodeRefs
<1>2. Leads(m, h, ref)  BY <1>1, RefLeads
<1>3. x \in Names \cup {"nil"} /\ PersistentPointerAddress(m, ref) = HandleOf(x)
      /\ (x # "nil" => Type(x) = TypeOf(ref))
  BY <1>2 DEF Leads
<1>4. ref[1] = "nil" <=> x = "nil"
  <2>1. CASE ref = <<"nil">>  BY <2>1 DEF Pointed
  <2>2. ASSUME NEW q \in Names, ref = <<"var", q>> PROVE ref[1] # "nil" /\ x # "nil"
    <3>1. x = q /\ ref[1] = "var"  BY <2>2 DEF Pointed
    <3> QED  BY <3>1, NamesAre
  <2> QED  BY <2>1, <2>2
<1>5. HandleOf(x) \in Int /\ tag \in Int /\ (x = "nil" => HandleOf(x) = 0)
  <2>1. TagOf(Type(x)) \in Int  BY TagsAre DEF Type
  <2> QED  BY <1>3, <2>1, HandlesAre
<1>6. Execute(m, s) = Result(n, 0)
  <2>1. Execute(m, s) = StoreShape(m, o, ref)  BY DEF Execute
  <2>2. CASE x = "nil"
    <3>1. n = StorePersistentInterface(m, Start(o) + 1, 0, 0)  BY <1>5, <2>2
    <3> QED  BY <1>4, <2>1, <2>2, <3>1 DEF StoreShape
  <2>3. CASE x # "nil"
    <3>1. tag = TagOf(TypeOf(ref))  BY <1>3, <2>3
    <3>2. n = StorePersistentInterface(m, Start(o) + 1, TagOf(TypeOf(ref)), PersistentPointerAddress(m, ref))
      BY <1>3, <3>1
    <3> HIDE DEF n, x
    <3> QED  BY <1>4, <2>1, <2>3, <3>2 DEF StoreShape
  <2> QED  BY <2>2, <2>3
<1>7. Represents(n, k) /\ At(n, layout.flag) = At(m, layout.flag)
  <2> DEFINE handle == HandleOf(x)
  <2>1. IF x = "nil" THEN tag = 0 ELSE tag = TagOf(Type(x)) /\ handle = HandleOf(x)  OBVIOUS
  <2>2. handle \in Int /\ tag \in Int /\ x \in Names \cup {"nil"}  BY <1>3, <1>5
  <2>3. n = StorePersistentInterface(m, Start(o) + 1, tag, handle)  OBVIOUS
  <2> HIDE DEF tag, handle, x, n
  <2> QED  BY <2>1, <2>2, <2>3, SetShapeIs
<1>8. ASSUME decoded = h, decoded' = k, answered' = Answered(m, s) PROVE Heap!Next
  <2>1. Heap!Target(ref) = x /\ ref \in Heap!References  BY <1>1, <1>8, TargetIs, ReferenceIs
  <2>2. answered' = [statement |-> s, ended |-> FALSE, value |-> 0]  BY <1>6, <1>8, AnsweredIs, Zenon
  <2>3. Heap!SetShape(o, ref)  BY <1>8, <2>1, <2>2 DEF Heap!SetShape, Heap!Answer
  <2>4. Heap!Does("shape")  BY <1>0, <2>1, <2>3 DEF Heap!Does
  <2> QED  BY <2>2, <2>4, NextIs
<1>9. Execute(m, s).memory = n  BY <1>6 DEF Result
<1> QED  BY <1>7, <1>8, <1>9 DEF Done, Replies

LEMMA CopyDone ==
  ASSUME LaidOut, NEW m, NEW h, Represents(m, h), NEW o \in NodeNames, NEW other \in NodeNames
  PROVE  Done(m, h, <<"copy", o, other>>)
<1> DEFINE s == <<"copy", o, other>>
           x == h[other].shape
           k == [h EXCEPT ![o].shape = x]
           tag == At(m, Start(other) + 1)
           handle == IF tag = 0 THEN 0 ELSE At(m, Start(other) + 2)
           n == StorePersistentInterface(m, Start(o) + 1, tag, handle)
<1>0. o \in Nodes /\ other \in Nodes /\ other \in Names /\ m \in Memories
  BY FieldsAre DEF NodeNames, Represents
<1>1. x \in Names \cup {"nil"} /\ HasShape(m, other, x)  BY ShapeShows DEF Shows
<1>2. FieldAt(m, other, "tag") = tag /\ FieldAt(m, other, "handle") = At(m, Start(other) + 2)
  BY FieldsAre DEF FieldAt
<1>3. tag \in Int /\ handle \in Int
  <2>1. FieldAt(m, other, "tag") \in Int /\ FieldAt(m, other, "handle") \in Int  BY <1>0, FieldsAre, FieldIs
  <2> QED  BY <1>2, <2>1
<1>4. IF x = "nil" THEN tag = 0 ELSE tag = TagOf(Type(x)) /\ handle = HandleOf(x)
  <2>1. TagOf(Type(x)) # 0  BY TagsAre DEF Type
  <2> HIDE DEF x
  <2> QED  BY <1>1, <1>2, <2>1 DEF HasShape
<1>5. Execute(m, s) = Result(n, 0)
  <2>1. Execute(m, s) = CopyShape(m, o, other)  BY DEF Execute
  <2>2. CASE tag = 0
    <3>1. n = StorePersistentInterface(m, Start(o) + 1, 0, 0)  BY <2>2
    <3> QED  BY <2>1, <2>2, <3>1 DEF CopyShape
  <2>3. CASE tag # 0
    <3>1. n = StorePersistentInterface(m, Start(o) + 1, tag, At(m, Start(other) + 2))  BY <2>3
    <3> QED  BY <2>1, <2>3, <3>1 DEF CopyShape
  <2> QED  BY <2>2, <2>3
<1> HIDE DEF tag, handle, x
<1>6. Represents(n, k) /\ At(n, layout.flag) = At(m, layout.flag)
  BY <1>1, <1>3, <1>4, SetShapeIs
<1>7. ASSUME decoded = h, decoded' = k, answered' = Answered(m, s) PROVE Heap!Next
  <2>1. answered' = [statement |-> s, ended |-> FALSE, value |-> 0]  BY <1>5, <1>7, AnsweredIs, Zenon
  <2>2. Heap!CopyShape(o, other)  BY <1>7, <2>1 DEF Heap!CopyShape, Heap!Answer, x
  <2>3. Heap!Does("copy")  BY <1>0, <2>2 DEF Heap!Does
  <2> QED  BY <2>1, <2>3, NextIs
<1>8. Execute(m, s).memory = n  BY <1>5 DEF Result
<1> QED  BY <1>6, <1>7, <1>8 DEF Done, Replies

LEMMA ReadingIs ==
  ASSUME NEW s \in Reading
  PROVE  \/ \E ref \in AllRefs : s = <<"get", ref>>
         \/ \E o \in NodeNames : s = <<"call", o>>
         \/ \E ref, other \in CellRefs : s = <<"equal", ref, other>>
BY DEF Reading, AllRefs

LEMMA WritingIs ==
  ASSUME NEW s \in Writing
  PROVE  \/ \E ref \in AllRefs, v \in PackageValues : s = <<"set", ref, v>>
         \/ \E o \in Linked, ref \in CellRefs : s = <<"link", o, ref>>
         \/ \E o \in NodeNames, ref \in {<<"nil">>} \cup {<<"var", x>> : x \in Names} : s = <<"shape", o, ref>>
         \/ \E o, other \in NodeNames : s = <<"copy", o, other>>
BY DEF Writing, AllRefs

LEMMA StatementDone ==
  ASSUME LaidOut, NEW m, NEW h, Represents(m, h), NEW s \in Reading \cup Writing
  PROVE  Done(m, h, s)
<1>0. \A ref \in CellRefs : ref \in AllRefs  BY DEF AllRefs
<1>1. ASSUME Execute(m, s).memory = m, Replies(m, h, h, s) PROVE Done(m, h, s)  BY <1>1 DEF Done
<1>2. CASE s \in Reading
  <2>1. ASSUME NEW ref \in AllRefs, s = <<"get", ref>> PROVE Done(m, h, s)
    <3>1. Leads(m, h, ref)  BY RefLeads
    <3> QED  BY <1>1, <2>1, <3>1, GetReplies
  <2>2. ASSUME NEW o \in NodeNames, s = <<"call", o>> PROVE Done(m, h, s)
    BY <1>1, <2>2, ShapeShows, CallReplies
  <2>3. ASSUME NEW ref \in CellRefs, NEW other \in CellRefs, s = <<"equal", ref, other>> PROVE Done(m, h, s)
    <3>1. ref \in AllRefs /\ other \in AllRefs  BY <1>0
    <3>2. Leads(m, h, ref) /\ Leads(m, h, other)  BY <3>1, RefLeads
    <3> QED  BY <1>1, <2>3, <3>1, <3>2, EqualReplies
  <2> QED  BY <1>2, <2>1, <2>2, <2>3, ReadingIs
<1>3. CASE s \in Writing
  BY <1>3, WritingIs, SetDone, LinkDone, ShapeDone, CopyDone
<1> QED  BY <1>2, <1>3

\* What UpdateSpawn reads before the initialization has no initial value.
LEMMA EarlyDone ==
  ASSUME LaidOut, NEW m, Zeros(m), NEW h, NEW s \in Reading,
         \A o \in Named(s) : o \in Names => h[o] = Absent
  PROVE  Execute(m, s).memory = m /\ Replies(m, h, h, s)
<1>0. \A o \in Names : \A f \in Fields(o) : FieldAt(m, o, f) = 0  BY PlaceIs DEF Zeros, FieldAt
<1>1. \A o \in Names : FieldAt(m, o, "value") = 0  BY <1>0, FieldsAre
<1>2. HandleOf("nil") = 0 /\ "nil" \notin Names  BY HandlesAre, NamesAre
<1>3. Absent.value = 0 /\ Absent.link = "nil" /\ Absent.shape = "nil"  BY DEF Absent
<1>4. ASSUME NEW ref \in AllRefs, Len(ref) = 2 /\ ref[2] \in Names => h[ref[2]] = Absent PROVE Leads(m, h, ref)
  <2>1. CASE ref = <<"nil">>
    <3>1. Pointed(h, ref) = "nil" /\ PersistentPointerAddress(m, ref) = 0
      BY <2>1 DEF Pointed, PersistentPointerAddress
    <3> QED  BY <1>2, <3>1 DEF Leads
  <2>2. ASSUME NEW o \in Names, ref = <<"var", o>> PROVE Leads(m, h, ref)
    <3>1. Pointed(h, ref) = o /\ PersistentPointerAddress(m, ref) = HandleOf(o) /\ TypeOf(ref) = Type(o)
      BY <2>2 DEF Pointed, PersistentPointerAddress, TypeOf
    <3>2. h[o] = Absent
      <4>1. Len(ref) = 2 /\ ref[2] = o  BY <2>2
      <4> QED  BY <1>4, <4>1
    <3> QED  BY <1>1, <1>3, <3>1, <3>2 DEF Leads
  <2>3. ASSUME NEW o \in Linked, ref = <<"link", o>> PROVE Leads(m, h, ref)
    <3>0. o \in Names  BY FieldsAre
    <3>1. PersistentPointerAddress(m, ref) = At(m, PlaceOf(o))  BY <2>3 DEF PersistentPointerAddress
    <3>2. At(m, PlaceOf(o)) = 0  BY <1>0, <3>0, FieldsAre DEF FieldAt
    <3>3. h[o] = Absent
      <4>1. Len(ref) = 2 /\ ref[2] = o  BY <2>3
      <4> QED  BY <1>4, <3>0, <4>1
    <3>4. Pointed(h, ref) = "nil"  BY <1>3, <2>3, <3>3 DEF Pointed
    <3> QED  BY <1>2, <3>1, <3>2, <3>4 DEF Leads
  <2>4. ASSUME NEW o \in NodeNames, ref = <<"cast", o>> PROVE Leads(m, h, ref)
    <3>0. o \in Names  BY FieldsAre
    <3>1. PersistentPointerAddress(m, ref)
            = IF At(m, Start(o) + 1) = TagOf("Cell") THEN At(m, Start(o) + 2) ELSE 0
      BY <2>4 DEF PersistentPointerAddress
    <3>2. At(m, Start(o) + 1) = 0  BY <1>0, <3>0, FieldsAre DEF FieldAt
    <3>3. h[o] = Absent
      <4>1. Len(ref) = 2 /\ ref[2] = o  BY <2>4
      <4> QED  BY <1>4, <3>0, <4>1
    <3>4. Pointed(h, ref) = "nil"
      <4>1. "nil" \notin Objects  BY DEF LaidOut, PackageAssumption
      <4> QED  BY <1>3, <2>4, <3>3, <4>1 DEF Pointed
    <3>5. PersistentPointerAddress(m, ref) = 0  BY <3>1, <3>2, TagsAre
    <3> QED  BY <1>2, <3>4, <3>5 DEF Leads
  <2> QED  BY <2>1, <2>2, <2>3, <2>4, RefsAre
<1>5. ASSUME NEW ref \in AllRefs, s = <<"get", ref>> PROVE Execute(m, s).memory = m /\ Replies(m, h, h, s)
  <2>1. Len(ref) = 2 => ref[2] \in Named(s)
    <3>1. s[1] # "call" /\ s[2] = ref /\ Len(s) = 2  BY <1>5
    <3>2. 2 \in 2..Len(s)  BY <3>1
    <3> QED  BY <3>1, <3>2 DEF Named
  <2>2. Leads(m, h, ref)  BY <1>4, <2>1
  <2> QED  BY <1>5, <2>2, GetReplies
<1>6. ASSUME NEW o \in NodeNames, s = <<"call", o>> PROVE Execute(m, s).memory = m /\ Replies(m, h, h, s)
  <2>0. o \in Names  BY FieldsAre
  <2>1. o \in Named(s)  BY <1>6 DEF Named
  <2>2. h[o].shape = "nil"  BY <1>3, <2>0, <2>1
  <2>3. FieldAt(m, o, "tag") = 0  BY <1>0, <2>0, FieldsAre
  <2>4. Shows(m, h, o)  BY <2>2, <2>3 DEF Shows, HasShape
  <2> QED  BY <1>6, <2>4, CallReplies
<1>7. ASSUME NEW ref \in CellRefs, NEW other \in CellRefs, s = <<"equal", ref, other>>
      PROVE  Execute(m, s).memory = m /\ Replies(m, h, h, s)
  <2>1. ref \in AllRefs /\ other \in AllRefs  BY DEF AllRefs
  <2>2. s[1] # "call" /\ s[2] = ref /\ s[3] = other /\ Len(s) = 3  BY <1>7
  <2>3. 2 \in 2..Len(s) /\ 3 \in 2..Len(s)  BY <2>2
  <2>4. Len(ref) = 2 => ref[2] \in Named(s)  BY <2>2, <2>3 DEF Named
  <2>5. Len(other) = 2 => other[2] \in Named(s)  BY <2>2, <2>3 DEF Named
  <2>6. Leads(m, h, ref) /\ Leads(m, h, other)  BY <1>4, <2>1, <2>4, <2>5
  <2> QED  BY <1>7, <2>1, <2>6, EqualReplies
<1> QED  BY <1>5, <1>6, <1>7, ReadingIs

-----------------------------------------------------------------------------
(***************************************************************************)
(* The invariant: memory is 0 until a preprocess callback has run, if      *)
(* there is anything to initialize, and represents a heap from then on.    *)
(***************************************************************************)
PackageInvariant ==
  /\ LaidOut
  /\ waiting \subseteq DOMAIN source.entities
  /\ IF Pending THEN waiting = DOMAIN source.entities /\ Zeros(memory)
     ELSE Represents(memory, decoded)

\* The heap of the initial values.
Beginning == [o \in Objects |-> IF o \in Range(layout.roots) THEN source.initial[o] ELSE Absent]

LEMMA BeginningIs ==
  ASSUME LaidOut
  PROVE  /\ Beginning \in [Objects -> [value : Int, link : CellNames \cup {"nil"}, shape : Names \cup {"nil"}]]
         /\ \A o \in Range(layout.roots) : Beginning[o] = source.initial[o]
         /\ \A o \in Objects \ Range(layout.roots) : Beginning[o] = Absent
<1>1. Range(layout.roots) \subseteq Objects  BY NamesAre
<1>2. ASSUME NEW o \in Range(layout.roots)
      PROVE  source.initial[o] \in [value : Int, link : CellNames \cup {"nil"}, shape : Names \cup {"nil"}]
  <2>1. o \in Owned  BY InitialIs
  <2>2. source.initial[o] \in Initial  BY <2>1, PointsAre DEF LaidOut
  <2> QED  BY <2>2, InitialIs DEF Initial
<1>3. Absent \in [value : Int, link : CellNames \cup {"nil"}, shape : Names \cup {"nil"}]  BY DEF Absent
<1> QED  BY <1>1, <1>2, <1>3 DEF Beginning

LEMMA WrittenRepresents ==
  ASSUME LaidOut, NEW n \in Memories,
         \A o \in Range(layout.roots) : \A f \in Fields(o) : FieldAt(n, o, f) = Initially(o, f),
         "mark" \in Names => \A f \in Fields("mark") : FieldAt(n, "mark", f) = 0
  PROVE  Represents(n, Beginning)
<1>0. /\ \A o \in Names : o \in Objects /\ (o \in Range(layout.roots) \/ o = "mark")
      /\ "mark" \notin Range(layout.roots) /\ "mark" \in Objects
      /\ NodeNames \subseteq Range(layout.roots) /\ NodeNames \subseteq Nodes
      /\ Range(layout.roots) \subseteq Names
  BY NamesAre, InitialIs DEF NodeNames, LaidOut, PackageAssumption
<1>1. Absent.value = 0 /\ Absent.link = "nil" /\ Absent.shape = "nil"  BY DEF Absent
<1>2. Beginning["mark"] = Absent  BY <1>0, BeginningIs
<1>3. ASSUME NEW o \in Names PROVE FieldAt(n, o, "value") = Beginning[o].value
  <2>1. CASE o \in Range(layout.roots)  BY <2>1, FieldsAre, BeginningIs DEF Initially
  <2>2. CASE o = "mark"  BY <1>1, <1>2, <2>2, FieldsAre
  <2> QED  BY <1>0, <2>1, <2>2
<1>4. ASSUME NEW o \in Linked PROVE FieldAt(n, o, "link") = HandleOf(Beginning[o].link)
  <2>0. o \in Names /\ "link" \in Fields(o)  BY FieldsAre
  <2>1. CASE o \in Range(layout.roots)  BY <2>0, <2>1, BeginningIs DEF Initially
  <2>2. CASE o = "mark"
    <3>1. FieldAt(n, o, "link") = 0  BY <2>0, <2>2
    <3> QED  BY <1>1, <1>2, <2>2, <3>1, HandlesAre
  <2> QED  BY <1>0, <2>0, <2>1, <2>2
<1>5. ASSUME NEW o \in Names \ Linked PROVE Beginning[o].link = "nil"
  <2>1. o \in Range(layout.roots) /\ o \notin Nodes  BY <1>0 DEF Linked, NodeNames
  <2> QED  BY <2>1, BeginningIs, InitialIs
<1>6. ASSUME NEW o \in NodeNames PROVE HasShape(n, o, Beginning[o].shape)
  <2>1. o \in Range(layout.roots) /\ "tag" \in Fields(o) /\ "handle" \in Fields(o)  BY <1>0, FieldsAre
  <2>2. Beginning[o].shape = source.initial[o].shape  BY <2>1, BeginningIs
  <2>3. FieldAt(n, o, "tag") = Initially(o, "tag") /\ FieldAt(n, o, "handle") = Initially(o, "handle")
    BY <2>1
  <2> QED  BY <2>2, <2>3 DEF HasShape, Initially
<1>7. ASSUME NEW o \in Names \ NodeNames PROVE Beginning[o].shape = "nil"
  <2>1. CASE o = "mark"  BY <1>1, <1>2, <2>1
  <2>2. CASE o \in Range(layout.roots)
    <3>1. o \notin Nodes  BY DEF NodeNames
    <3> QED  BY <2>2, <3>1, BeginningIs, InitialIs
  <2> QED  BY <1>0, <2>1, <2>2
<1>8. \A o \in Objects \ Names : Beginning[o] = Absent  BY <1>0, BeginningIs
<1> QED  BY <1>3, <1>4, <1>5, <1>6, <1>7, <1>8, BeginningIs DEF Represents

\* Without anything to initialize, memory that is 0 has the initial values.
LEMMA ZerosRepresent ==
  ASSUME LaidOut, NEW m, Zeros(m), ~layout.initialize
  PROVE  Represents(m, Beginning)
<1>1. m \in Memories  BY DEF Zeros
<1>2. \A o \in Names : \A f \in Fields(o) : FieldAt(m, o, f) = 0  BY PlaceIs DEF Zeros, FieldAt
<1>3. ASSUME NEW o \in Range(layout.roots), NEW f PROVE Initially(o, f) = 0
  <2>1. ~RequiresInitialization(source, o)  BY DEF LaidOut, IsLayout
  <2> QED  BY <2>1, HandlesAre DEF RequiresInitialization, Initially
<1>4. \A o \in Range(layout.roots) : \A f \in Fields(o) : FieldAt(m, o, f) = Initially(o, f)
  BY <1>2, <1>3, NamesAre
<1> QED  BY <1>1, <1>2, <1>4, WrittenRepresents

\* Before the initialization the heap is taken from the program.
LEMMA PendingIs ==
  ASSUME LaidOut, Pending, Zeros(memory)
  PROVE  decoded = Beginning
<1>1. ASSUME NEW o \in Objects PROVE Decoded(o) = Beginning[o]
  <2>1. CASE o \notin Names
    <3>1. o \notin NodeNames /\ o \notin Range(layout.roots)  BY <2>1, NamesAre
    <3> QED  BY <2>1, <3>1, BeginningIs DEF Decoded
  <2>2. CASE o = "mark" /\ o \in Names
    <3>1. o \notin NodeNames /\ o \notin Range(layout.roots)  BY <2>2, NamesAre, InitialIs
    <3>2. Decoded(o) = [value |-> At(memory, 1), link |-> ObjectAt(At(memory, 0)), shape |-> "nil"]
      BY <2>2, <3>1 DEF Decoded
    <3>3. At(memory, 0) = 0 /\ At(memory, 1) = 0
      <4>1. layout.flag \in Nat  BY FlagIs
      <4>2. 0 \in Indices /\ 1 \in Indices  BY <4>1 DEF Indices
      <4> QED  BY <4>2 DEF Zeros
    <3>4. ObjectAt(0) = "nil"  BY DEF ObjectAt
    <3> QED  BY <3>1, <3>2, <3>3, <3>4, BeginningIs DEF Absent
  <2>3. CASE o # "mark" /\ o \in Names
    <3>1. o \in Range(layout.roots)  BY <2>3, NamesAre
    <3>2. Decoded(o) = source.initial[o]  BY <2>3 DEF Decoded
    <3> QED  BY <3>1, <3>2, BeginningIs
  <2> QED  BY <2>1, <2>2, <2>3
<1> QED  BY <1>1 DEF decoded, Beginning

\* What a preprocess callback starts from.
LEMMA InitializedIs ==
  ASSUME PackageInvariant
  PROVE  LET m == InitializePackageGlobals(memory)
         IN Represents(m, decoded) /\ (layout.initialize => At(m, layout.flag) # 0)
<1>0. LaidOut  BY DEF PackageInvariant
<1>1. CASE Pending
  <2>1. Zeros(memory)  BY <1>1 DEF PackageInvariant
  <2>2. InitializePackageGlobals(memory) = InitializeRoots(memory)
    BY <1>1 DEF Pending, InitializePackageGlobals
  <2> DEFINE m == InitializeRoots(memory)
  <2>3. /\ m \in Memories /\ At(m, layout.flag) = 1
        /\ \A o \in Range(layout.roots) : \A f \in Fields(o) : FieldAt(m, o, f) = Initially(o, f)
        /\ "mark" \in Names => \A f \in Fields("mark") : FieldAt(m, "mark", f) = 0
    BY <1>0, <2>1, InitializeRootsIs
  <2> HIDE DEF m
  <2>4. Represents(m, Beginning)  BY <1>0, <2>3, WrittenRepresents
  <2>5. decoded = Beginning  BY <1>0, <1>1, <2>1, PendingIs
  <2> QED  BY <2>2, <2>3, <2>4, <2>5 DEF m
<1>2. CASE ~Pending
  <2>1. InitializePackageGlobals(memory) = memory  BY <1>2 DEF Pending, InitializePackageGlobals
  <2>2. Represents(memory, decoded)  BY <1>2 DEF PackageInvariant
  <2>3. layout.initialize => At(memory, layout.flag) # 0  BY <1>2 DEF Pending
  <2> QED  BY <2>1, <2>2, <2>3
<1> QED  BY <1>1, <1>2

LEMMA LaidOutKept ==
  ASSUME LaidOut, source' = source, layout' = layout
  PROVE  LaidOut'
BY DEF LaidOut

\* What the next state decodes to.
LEMMA DecodedAlways == \A h : LaidOut /\ Represents(memory, h) /\ ~Pending => decoded = h
BY DecodedIs

LEMMA NextDecoded ==
  ASSUME LaidOut, source' = source, layout' = layout, NEW k, Represents(memory', k),
         layout.initialize => At(memory', layout.flag) # 0
  PROVE  decoded' = k /\ ~Pending' /\ Represents(memory, decoded)'
<1>1. LaidOut'  BY LaidOutKept
<1>2. ~Pending'  BY DEF Pending, At, Block
<1>3. Represents(memory, k)'
  BY DEF Represents, Memories, Indices, Names, NodeNames, CellNames, Linked, HasShape, FieldAt, Place, Start,
         At, Block, HandleOf, TagOf, Type
<1>4. (\A h : LaidOut /\ Represents(memory, h) /\ ~Pending => decoded = h)'  BY DecodedAlways, PTL
<1>5. decoded' = k  BY <1>1, <1>2, <1>3, <1>4
<1> QED  BY <1>2, <1>3, <1>5

\* The singleton of a tutorial overlaps with the objects.
NoTutorialSingleton == \A p \in PackagePrograms : p.mode = "tutorial" => ~p.level

LEMMA PackageInvariantInit ==
  ASSUME NoTutorialSingleton, PackageInit
  PROVE  PackageInvariant /\ HeapStart
<1>1. LaidOut
  <2>1. source \in PackagePrograms /\ IsProgram(source)  BY PackageAssumption DEF PackageInit, PackageAssumption
  <2>2. IsLayout(source, layout)
    <3>1. source.mode = "tutorial" => ~source.level  BY <2>1 DEF NoTutorialSingleton
    <3>2. layout = Parse(source)  BY DEF PackageInit
    <3> QED  BY <2>1, <3>1, <3>2, PackageAssumption, ParseIs
  <2> QED  BY <2>1, <2>2, PackageAssumption DEF LaidOut
<1>2. Zeros(memory)
  <2>1. memory = [storage \in Storages |-> [index \in Indices |-> 0]]  BY DEF PackageInit, Storages, Indices
  <2>2. memory \in Memories  BY <2>1 DEF Memories
  <2>3. PackageStorage(source.mode) \in Storages
    BY <1>1 DEF LaidOut, IsProgram, PackageStorage, LevelStorage, Storages
  <2>4. \A i \in Indices : At(memory, i) = 0  BY <2>1, <2>3 DEF At, Block
  <2> QED  BY <2>2, <2>4 DEF Zeros
<1>3. waiting = DOMAIN source.entities  BY DEF PackageInit
<1>4. Pending <=> layout.initialize
  <2>1. At(memory, layout.flag) = 0  BY <1>1, <1>2, FlagIs DEF Zeros
  <2> QED  BY <2>1 DEF Pending
<1>5. decoded = Beginning
  <2>1. CASE Pending  BY <1>1, <1>2, <2>1, PendingIs
  <2>2. CASE ~Pending
    <3>1. Represents(memory, Beginning)  BY <1>1, <1>2, <1>4, <2>2, ZerosRepresent
    <3> QED  BY <1>1, <2>2, <3>1, DecodedIs
  <2> QED  BY <2>1, <2>2
<1>6. ~Pending => Represents(memory, decoded)  BY <1>1, <1>2, <1>4, <1>5, ZerosRepresent
<1>7. PackageInvariant  BY <1>1, <1>2, <1>3, <1>6 DEF PackageInvariant
<1>8. HeapStart
  <2> SUFFICES ASSUME NEW o \in Names PROVE Decoded(o) = IF o = "mark" THEN Absent ELSE source.initial[o]
    BY DEF HeapStart
  <2>1. o \in Objects  BY <1>1, NamesAre
  <2>2. Decoded(o) = Beginning[o]  BY <1>5, <2>1 DEF decoded
  <2>3. CASE o = "mark"
    <3>1. o \notin Range(layout.roots)  BY <1>1, <2>3, InitialIs
    <3> QED  BY <1>1, <2>1, <2>2, <2>3, <3>1, BeginningIs
  <2>4. CASE o # "mark"
    <3>1. o \in Range(layout.roots)  BY <1>1, <2>4, NamesAre
    <3> QED  BY <1>1, <2>2, <2>4, <3>1, BeginningIs
  <2> QED  BY <2>3, <2>4
<1> QED  BY <1>7, <1>8

LEMMA StatementsAre == \A callback : Statements(callback) \subseteq Reading \cup Writing
BY DEF Statements

\* Carrying out a statement on initialized memory.
LEMMA CarryKeeps ==
  ASSUME LaidOut, waiting' \subseteq DOMAIN source.entities, source' = source, layout' = layout,
         NEW m, Represents(m, decoded), layout.initialize => At(m, layout.flag) # 0,
         NEW s \in Reading \cup Writing, Carry(m, s)
  PROVE  PackageInvariant' /\ Heap!Next
<1>1. PICK k : /\ Represents(Execute(m, s).memory, k)
               /\ At(Execute(m, s).memory, layout.flag) = At(m, layout.flag)
               /\ Replies(m, decoded, k, s)
  BY StatementDone DEF Done
<1>2. memory' = Execute(m, s).memory /\ answered' = Answered(m, s)  BY DEF Carry, Answered
<1>3. decoded' = k /\ ~Pending' /\ Represents(memory, decoded)'
  <2>1. Represents(memory', k) /\ At(memory', layout.flag) = At(m, layout.flag)  BY <1>1, <1>2
  <2> QED  BY <2>1, NextDecoded
<1>4. Heap!Next  BY <1>1, <1>2, <1>3 DEF Replies
<1>5. LaidOut'  BY LaidOutKept
<1>6. PackageInvariant'  BY <1>3, <1>5 DEF PackageInvariant
<1> QED  BY <1>4, <1>6

LEMMA PreprocessKeeps ==
  ASSUME PackageInvariant, NEW entity \in DOMAIN source.entities, Preprocess(entity)
  PROVE  PackageInvariant' /\ (Heap!Next \/ UNCHANGED <<decoded, answered>>)
<1> DEFINE m == InitializePackageGlobals(memory)
<1>0. LaidOut /\ waiting' \subseteq DOMAIN source.entities /\ source' = source /\ layout' = layout
  BY DEF PackageInvariant, Preprocess
<1>1. Represents(m, decoded) /\ (layout.initialize => At(m, layout.flag) # 0)  BY InitializedIs
<1>2. CASE source.entities[entity] = "preprocess"
  <2>1. PICK s \in Statements("preprocess") : Carry(m, s)  BY <1>2 DEF Preprocess
  <2>2. s \in Reading \cup Writing  BY StatementsAre
  <2> HIDE DEF m
  <2> QED  BY <1>0, <1>1, <2>1, <2>2, CarryKeeps
<1>3. CASE source.entities[entity] # "preprocess"
  <2>1. memory' = m /\ answered' = answered  BY <1>3 DEF Preprocess
  <2> HIDE DEF m
  <2>2. decoded' = decoded /\ ~Pending' /\ Represents(memory, decoded)'
    BY <1>0, <1>1, <2>1, NextDecoded
  <2>3. LaidOut'  BY <1>0, LaidOutKept
  <2>4. PackageInvariant'  BY <1>0, <2>2, <2>3 DEF PackageInvariant
  <2> QED  BY <2>1, <2>2, <2>4
<1> QED  BY <1>2, <1>3

LEMMA CallbackKeeps ==
  ASSUME PackageInvariant, NEW callback, Callback(callback)
  PROVE  PackageInvariant' /\ Heap!Next
<1>0. LaidOut /\ waiting' \subseteq DOMAIN source.entities /\ source' = source /\ layout' = layout
  BY DEF PackageInvariant, Callback
<1>1. ~Pending
  <2> SUFFICES ASSUME Pending PROVE FALSE  OBVIOUS
  <2> DEFINE s == source.entities
  <2>1. DOMAIN s = {} /\ s # <<>>  BY DEF PackageInvariant, Callback
  <2>2. s \in Seq({"preprocess", "none"})  BY <1>0 DEF LaidOut, IsProgram
  <2> HIDE DEF s
  <2>3. Len(s) \in Nat /\ DOMAIN s = 1..Len(s)  BY <2>2
  <2>4. Len(s) = 0
    <3>1. Len(s) # 0 => 1 \in 1..Len(s)  BY <2>3
    <3> QED  BY <2>1, <2>3, <3>1
  <2> QED  BY <2>1, <2>2, <2>4, EmptySeq
<1>2. Represents(memory, decoded) /\ (layout.initialize => At(memory, layout.flag) # 0)
  BY <1>1 DEF PackageInvariant, Pending
<1>3. PICK s \in Statements(callback) : Carry(memory, s)  BY DEF Callback
<1>4. s \in Reading \cup Writing  BY StatementsAre
<1> QED  BY <1>0, <1>2, <1>3, <1>4, CarryKeeps

LEMMA PendingAlways == LaidOut /\ Pending /\ Zeros(memory) => decoded = Beginning
BY PendingIs

LEMMA UpdateSpawnKeeps ==
  ASSUME PackageInvariant, UpdateSpawn
  PROVE  PackageInvariant' /\ Heap!Next
<1>0. /\ LaidOut /\ waiting' \subseteq DOMAIN source.entities /\ waiting' = waiting
      /\ source' = source /\ layout' = layout
  BY DEF PackageInvariant, UpdateSpawn
<1>1. PICK s \in Reading : /\ \A o \in Named(s) \ {"mark"} : ~RequiresInitialization(source, o)
                           /\ Carry(memory, s)
  BY DEF UpdateSpawn
<1>2. CASE ~Pending
  <2>1. Represents(memory, decoded) /\ (layout.initialize => At(memory, layout.flag) # 0)
    BY <1>2 DEF PackageInvariant, Pending
  <2> QED  BY <1>0, <1>1, <2>1, CarryKeeps
<1>3. CASE Pending
  <2>1. Zeros(memory) /\ waiting = DOMAIN source.entities  BY <1>3 DEF PackageInvariant
  <2>2. decoded = Beginning  BY <1>0, <1>3, <2>1, PendingIs
  <2>3. ASSUME NEW o \in Named(s), o \in Names PROVE decoded[o] = Absent
    <3>1. CASE o = "mark"
      <4>1. o \in Objects \ Range(layout.roots)  BY <1>0, <2>3, <3>1, InitialIs, NamesAre
      <4> QED  BY <1>0, <2>2, <4>1, BeginningIs
    <3>2. CASE o # "mark"
      <4>1. o \in Range(layout.roots)  BY <1>0, <2>3, <3>2, NamesAre
      <4>2. decoded[o] = source.initial[o]  BY <1>0, <2>2, <4>1, BeginningIs
      <4>3. ~RequiresInitialization(source, o)  BY <1>1, <2>3, <3>2
      <4>4. source.initial[o] \in Initial  BY <1>0, <4>1, InitialIs, PointsAre DEF LaidOut
      <4> QED  BY <4>2, <4>3, <4>4 DEF RequiresInitialization, Initial, Absent
    <3> QED  BY <3>1, <3>2
  <2>4. Execute(memory, s).memory = memory /\ Replies(memory, decoded, decoded, s)
    BY <1>0, <2>1, <2>3, EarlyDone
  <2>5. memory' = memory /\ answered' = Answered(memory, s)  BY <1>1, <2>4 DEF Carry, Answered
  <2>6. LaidOut'  BY <1>0, LaidOutKept
  <2>7. Pending' /\ Zeros(memory)'
    BY <1>0, <1>3, <2>1, <2>5 DEF Pending, Zeros, Memories, Indices, At, Block
  <2>8. (LaidOut /\ Pending /\ Zeros(memory) => decoded = Beginning)'  BY PendingAlways, PTL
  <2>9. Beginning' = Beginning  BY <1>0 DEF Beginning
  <2>10. decoded' = decoded  BY <2>2, <2>6, <2>7, <2>8, <2>9
  <2>11. Heap!Next  BY <2>4, <2>5, <2>10 DEF Replies
  <2>12. PackageInvariant'  BY <1>0, <2>1, <2>6, <2>7 DEF PackageInvariant
  <2> QED  BY <2>11, <2>12
<1> QED  BY <1>2, <1>3

LEMMA PackageInvariantNext ==
  ASSUME PackageInvariant, [PackageNext]_packageVars
  PROVE  PackageInvariant' /\ [Heap!Next]_<<decoded, answered>>
<1>1. ASSUME NEW entity \in DOMAIN source.entities, Preprocess(entity)
      PROVE  PackageInvariant' /\ [Heap!Next]_<<decoded, answered>>
  BY <1>1, PreprocessKeeps
<1>2. ASSUME NEW callback \in Phases, Callback(callback)
      PROVE  PackageInvariant' /\ [Heap!Next]_<<decoded, answered>>
  BY <1>2, CallbackKeeps
<1>3. ASSUME UpdateSpawn
      PROVE  PackageInvariant' /\ [Heap!Next]_<<decoded, answered>>
  BY <1>3, UpdateSpawnKeeps
<1>4. ASSUME UNCHANGED packageVars
      PROVE  PackageInvariant' /\ [Heap!Next]_<<decoded, answered>>
  <2>1. /\ source' = source /\ layout' = layout /\ memory' = memory
        /\ waiting' = waiting /\ answered' = answered
    BY <1>4 DEF packageVars
  <2>2. LaidOut /\ waiting' \subseteq DOMAIN source'.entities  BY <2>1 DEF PackageInvariant
  <2>3. LaidOut'  BY <2>1, <2>2, LaidOutKept
  <2>4. decoded' = decoded
    BY <2>1 DEF decoded, Decoded, Names, NodeNames, Pending, ObjectAt, HandleOf, Start, At, Block
  <2>5. Pending' <=> Pending  BY <2>1 DEF Pending, At, Block
  <2>6. Zeros(memory)' <=> Zeros(memory)  BY <2>1 DEF Zeros, Memories, Indices, At, Block
  <2>7. Represents(memory, decoded) => Represents(memory, decoded)'
    BY <2>1, <2>4 DEF Represents, Memories, Indices, Names, NodeNames, CellNames, Linked, HasShape, FieldAt,
       Place, Start, At, Block, HandleOf, TagOf, Type
  <2>8. PackageInvariant'
    <3>1. CASE Pending
      <4>1. waiting = DOMAIN source.entities /\ Zeros(memory)  BY <3>1 DEF PackageInvariant
      <4>2. waiting' = DOMAIN source'.entities /\ Pending' /\ Zeros(memory)'  BY <2>1, <2>5, <2>6, <3>1, <4>1
      <4> QED  BY <2>2, <2>3, <4>2 DEF PackageInvariant
    <3>2. CASE ~Pending
      <4>1. Represents(memory, decoded)  BY <3>2 DEF PackageInvariant
      <4>2. ~Pending' /\ Represents(memory, decoded)'  BY <2>5, <2>7, <3>2, <4>1
      <4> QED  BY <2>2, <2>3, <4>2 DEF PackageInvariant
    <3> QED  BY <3>1, <3>2
  <2> QED  BY <2>1, <2>4, <2>8
<1> QED  BY <1>1, <1>2, <1>3, <1>4 DEF PackageNext

(***************************************************************************)
(* A program never finds out that its objects are numbers in a block of    *)
(* memory, written late by whichever preprocess callback the engine calls  *)
(* first: for every program, every order of the callbacks and every        *)
(* statement (level_global.go, lower.go:551-1091).                         *)
(***************************************************************************)
THEOREM PackageKeepsObjects ==
  ASSUME NoTutorialSingleton
  PROVE  PackageSpec => KeepsObjects
<1>1. PackageInit => PackageInvariant /\ HeapStart  BY PackageInvariantInit
<1>2. PackageInvariant /\ [PackageNext]_packageVars => PackageInvariant' /\ [Heap!Next]_<<decoded, answered>>
  BY PackageInvariantNext
<1> QED  BY <1>1, <1>2, PTL DEF PackageSpec, KeepsObjects

-----------------------------------------------------------------------------
(***************************************************************************)
(* Locals in Temporary Memory (module Locals).                             *)
(***************************************************************************)
Share(locals, at, a, b) ==
  \E slot \in Nat : /\ at[a] <= slot /\ slot < at[a] + locals[a]
                    /\ at[b] <= slot /\ slot < at[b] + locals[b]
Interfere(graph, a, b) == a # b /\ {a, b} \in graph

\* What the locals before n take.
LEMMA SumsAre ==
  ASSUME NEW locals \in Seq(Nat)
  PROVE  /\ Sums(locals)[0] = 0
         /\ \A n \in 0..Len(locals) : Sums(locals)[n] \in Nat
         /\ \A n \in 1..Len(locals) : Sums(locals)[n] = Sums(locals)[n - 1] + locals[n]
<1> DEFINE l == Len(locals)
           next == [q \in Nat \X (1..l) |-> q[1] + locals[q[2]]]
           Recursive(f) == f = [m \in 0..l |-> IF m = 0 THEN 0 ELSE f[m - 1] + locals[m]]
<1>0. l \in Nat /\ \A m \in 1..l : locals[m] \in Nat  OBVIOUS
<1>1. next \in [Nat \X (1..l) -> Nat] /\ \A x \in Nat, m \in 1..l : next[<<x, m>>] = x + locals[m]
  BY <1>0
<1> HIDE DEF next, l
<1>2. PICK f \in [0..l -> Nat] : Scans(f, l, 0, next)  BY <1>0, <1>1, ScanExists
<1>3. Recursive(f)
  <2>1. ASSUME NEW m \in 0..l PROVE f[m] = IF m = 0 THEN 0 ELSE f[m - 1] + locals[m]
    <3>1. CASE m = 0  BY <1>2, <3>1 DEF Scans
    <3>2. CASE m # 0
      <4>1. m \in 1..l /\ m - 1 \in 0..l  BY <1>0, <3>2
      <4>2. f[m] = next[<<f[m - 1], m>>] /\ f[m - 1] \in Nat  BY <1>2, <4>1 DEF Scans
      <4> QED  BY <1>1, <3>2, <4>1, <4>2
    <3> QED  BY <3>1, <3>2
  <2> QED  BY <1>2, <2>1
<1> DEFINE g == CHOOSE h : Recursive(h)
<1>4. Recursive(g)  BY <1>3
<1>5. Sums(locals) = g  BY DEF Sums, l
<1> HIDE DEF g
<1>6. g[0] = 0 /\ \A m \in 1..l : g[m] = g[m - 1] + locals[m]
  <2>1. \A m \in 0..l : g[m] = IF m = 0 THEN 0 ELSE g[m - 1] + locals[m]  BY <1>4
  <2>2. \A m \in 1..l : m \in 0..l /\ m # 0  BY <1>0
  <2>3. 0 \in 0..l  BY <1>0
  <2> QED  BY <2>1, <2>2, <2>3
<1> DEFINE S == {m \in Nat : m <= l => g[m] \in Nat}
<1>7. 0 \in S  BY <1>6
<1>8. ASSUME NEW m \in Nat, m \in S PROVE m + 1 \in S
  <2> SUFFICES ASSUME m + 1 <= l PROVE g[m + 1] \in Nat  OBVIOUS
  <2>1. m + 1 \in 1..l /\ (m + 1) - 1 = m /\ m <= l  BY <1>0
  <2>2. g[m + 1] = g[m] + locals[m + 1]  BY <1>6, <2>1
  <2> QED  BY <1>0, <1>8, <2>1, <2>2
<1> HIDE DEF S
<1>9. \A m \in Nat : m \in S  BY <1>7, <1>8, SetInduction
<1>10. \A m \in 0..l : g[m] \in Nat  BY <1>0, <1>9 DEF S
<1> QED  BY <1>5, <1>6, <1>10 DEF l

LEMMA SumsGrow ==
  ASSUME NEW locals \in Seq(Nat), NEW m \in 0..Len(locals), NEW n \in 0..Len(locals), m <= n
  PROVE  Sums(locals)[m] <= Sums(locals)[n]
<1> DEFINE g == Sums(locals)
           l == Len(locals)
           S == {i \in Nat : m + i <= l => g[m] <= g[m + i]}
<1>0. l \in Nat /\ m \in Nat /\ n \in Nat /\ \A i \in 1..l : locals[i] \in Nat  OBVIOUS
<1>1. /\ \A i \in 0..l : g[i] \in Nat
      /\ \A i \in 1..l : g[i] = g[i - 1] + locals[i]
  BY SumsAre
<1> HIDE DEF g
<1>2. 0 \in S  BY <1>0, <1>1
<1>3. ASSUME NEW i \in Nat, i \in S PROVE i + 1 \in S
  <2> SUFFICES ASSUME m + (i + 1) <= l PROVE g[m] <= g[m + (i + 1)]  OBVIOUS
  <2> DEFINE k == m + (i + 1)
  <2>1. k \in 1..l /\ k - 1 = m + i /\ k - 1 \in 0..l /\ m \in 0..l /\ k \in 0..l  BY <1>0
  <2>2. g[m] <= g[m + i]  BY <1>0, <1>3
  <2> HIDE DEF k, l
  <2>3. g[k] = g[k - 1] + locals[k] /\ locals[k] \in Nat  BY <1>0, <1>1, <2>1
  <2>5. g[m] \in Nat /\ g[k - 1] \in Nat  BY <1>1, <2>1
  <2>6. g[m] <= g[k]  BY <2>1, <2>2, <2>3, <2>5
  <2> QED  BY <2>6 DEF k
<1> HIDE DEF S
<1>4. \A i \in Nat : i \in S  BY <1>2, <1>3, SetInduction
<1>5. n - m \in Nat /\ m + (n - m) = n /\ n <= l  BY <1>0
<1>6. n - m \in S  BY <1>4, <1>5
<1> QED  BY <1>5, <1>6 DEF S, g

\* The end of what is placed is the largest end, or 0.
LEMMA EndIs ==
  ASSUME NEW locals \in Seq(Nat), NEW D \in SUBSET DOMAIN locals, NEW at \in [D -> Nat]
  PROVE  /\ EndOf(locals, at) \in {0} \cup {at[id] + locals[id] : id \in D}
         /\ EndOf(locals, at) \in Nat
         /\ \A id \in D : at[id] + locals[id] <= EndOf(locals, at)
<1> DEFINE l == Len(locals)
           ends == {0} \cup {at[id] + locals[id] : id \in D}
           S == {m \in Nat : \E bound \in Nat : \A id \in D : id <= m => at[id] + locals[id] <= bound}
           T == {bound \in Nat : \A e \in ends : e <= bound}
<1>0. l \in Nat /\ D \subseteq 1..l /\ \A id \in D : id \in Nat /\ locals[id] \in Nat /\ at[id] \in Nat  OBVIOUS
<1>1. 0 \in S
  <2>1. \A id \in D : ~(id <= 0)  BY <1>0
  <2> QED  BY <2>1
<1>2. ASSUME NEW m \in Nat, m \in S PROVE m + 1 \in S
  <2>1. PICK bound \in Nat : \A id \in D : id <= m => at[id] + locals[id] <= bound  BY <1>2
  <2>2. CASE m + 1 \in D
    <3>1. at[m + 1] + locals[m + 1] \in Nat  BY <1>0, <2>2
    <3> DEFINE higher == bound + (at[m + 1] + locals[m + 1])
    <3>2. higher \in Nat /\ bound <= higher /\ at[m + 1] + locals[m + 1] <= higher  BY <3>1
    <3> HIDE DEF higher
    <3>3. ASSUME NEW id \in D, id <= m + 1 PROVE at[id] + locals[id] <= higher
      <4>1. CASE id = m + 1  BY <3>2, <4>1
      <4>2. CASE id # m + 1
        <5>1. id <= m  BY <1>0, <3>3, <4>2
        <5>2. at[id] + locals[id] <= bound /\ at[id] + locals[id] \in Nat  BY <1>0, <2>1, <5>1
        <5> QED  BY <3>2, <5>2
      <4> QED  BY <4>1, <4>2
    <3> QED  BY <3>2, <3>3
  <2>3. CASE m + 1 \notin D
    <3>1. \A id \in D : id <= m + 1 => id <= m  BY <1>0, <2>3
    <3> QED  BY <2>1, <3>1
  <2> QED  BY <2>2, <2>3
<1> HIDE DEF S
<1>3. l \in S  BY <1>0, <1>1, <1>2, SetInduction
<1>4. \A e \in ends : e \in Nat  BY <1>0
<1>5. T # {}
  <2>1. PICK bound \in Nat : \A id \in D : id <= l => at[id] + locals[id] <= bound  BY <1>3 DEF S
  <2>2. \A id \in D : at[id] + locals[id] <= bound  BY <1>0, <2>1
  <2>3. bound \in T  BY <2>2
  <2> QED  BY <2>3
<1>6. PICK n \in T : \A m \in T : n <= m
  <2>1. T \subseteq Nat  OBVIOUS
  <2> HIDE DEF T
  <2> QED  BY <1>5, <2>1, LeastNat
<1>7. n \in ends
  <2> SUFFICES ASSUME n \notin ends PROVE FALSE  OBVIOUS
  <2>1. n \in Nat /\ \A e \in ends : e <= n  BY <1>6
  <2>2. 0 \in ends  OBVIOUS
  <2> HIDE DEF ends
  <2>3. n - 1 \in Nat  BY <2>1, <2>2
  <2>4. ASSUME NEW e \in ends PROVE e <= n - 1
    <3>1. e # n /\ e <= n /\ e \in Nat  BY <1>4, <2>1
    <3> QED  BY <2>1, <3>1
  <2>5. n - 1 \in T  BY <2>3, <2>4
  <2>6. n <= n - 1  BY <1>6, <2>5
  <2> QED  BY <2>1, <2>6
<1>8. n \in Nat /\ \A e \in ends : e <= n  BY <1>6
<1>9. EndOf(locals, at) = CHOOSE e \in ends : \A m \in ends : m <= e
  <2>1. DOMAIN at = D  OBVIOUS
  <2> QED  BY <2>1 DEF EndOf
<1>10. \A id \in D : at[id] + locals[id] \in ends  OBVIOUS
<1> HIDE DEF ends
<1>11. EndOf(locals, at) \in ends /\ \A m \in ends : m <= EndOf(locals, at)  BY <1>7, <1>8, <1>9
<1> QED  BY <1>4, <1>10, <1>11 DEF ends

LEMMA WidestIs ==
  ASSUME NEW locals \in Seq(Nat), NEW ids \in SUBSET DOMAIN locals, ids # {}
  PROVE  Widest(locals, ids) \in ids
<1> DEFINE zero == [id \in ids |-> 0]
           width == EndOf(locals, zero)
           W == {a \in ids : locals[a] = width}
<1>0. ids \subseteq Nat /\ \A id \in ids : locals[id] \in Nat  OBVIOUS
<1>1. zero \in [ids -> Nat] /\ \A id \in ids : zero[id] + locals[id] = locals[id]  BY <1>0
<1> HIDE DEF zero
<1>2. width \in Nat /\ \A id \in ids : locals[id] <= width
  BY <1>1, EndIs
<1>3. width \in {0} \cup {zero[id] + locals[id] : id \in ids}  BY <1>1, EndIs
<1> HIDE DEF width
<1>4. W # {}
  <2>1. CASE \E id \in ids : width = zero[id] + locals[id]  BY <1>1, <2>1
  <2>2. CASE width = 0
    <3>1. \A id \in ids : locals[id] = 0  BY <1>0, <1>2, <2>2
    <3> QED  BY <2>2, <3>1
  <2> QED  BY <1>3, <2>1, <2>2
<1>5. PICK a \in W : \A b \in W : a <= b
  <2>1. W \subseteq Nat  BY <1>0
  <2> HIDE DEF W
  <2> QED  BY <1>4, <2>1, LeastNat
<1>6. \A b \in ids : locals[a] > locals[b] \/ (locals[a] = locals[b] /\ a <= b)
  <2> SUFFICES ASSUME NEW b \in ids PROVE locals[a] > locals[b] \/ (locals[a] = locals[b] /\ a <= b)  OBVIOUS
  <2>1. locals[a] = width /\ locals[b] <= width /\ locals[b] \in Nat  BY <1>0, <1>2, <1>5
  <2>2. CASE locals[b] = width  BY <1>5, <2>1, <2>2
  <2>3. CASE locals[b] # width
    <3>1. locals[a] > locals[b]  BY <1>2, <2>1, <2>3
    <3> QED  BY <3>1
  <2> QED  BY <2>2, <2>3
<1>7. a \in ids  BY <1>5
<1> QED  BY <1>6, <1>7 DEF Widest

(* The locals in ids, and what they take together.                         *)
Only(locals, ids) == [i \in 1..Len(locals) |-> IF i \in ids THEN locals[i] ELSE 0]
Room(locals, ids) == Total(Only(locals, ids))

LEMMA OnlyIs ==
  ASSUME NEW locals \in Seq(Nat), NEW ids
  PROVE  Only(locals, ids) \in Seq(Nat) /\ Len(Only(locals, ids)) = Len(locals)
<1>1. Len(locals) \in Nat /\ \A i \in 1..Len(locals) : locals[i] \in Nat  OBVIOUS
<1>2. Only(locals, ids) \in [1..Len(locals) -> Nat]  BY <1>1 DEF Only
<1> QED  BY <1>1, <1>2

LEMMA RoomIs ==
  ASSUME NEW locals \in Seq(Nat)
  PROVE  /\ \A ids : Room(locals, ids) \in Nat
         /\ Room(locals, {}) = 0
         /\ Room(locals, DOMAIN locals) = Total(locals)
<1> DEFINE l == Len(locals)
<1>0. l \in Nat  OBVIOUS
<1>1. ASSUME NEW ids PROVE Room(locals, ids) \in Nat
  <2>1. Only(locals, ids) \in Seq(Nat) /\ Len(Only(locals, ids)) = l  BY OnlyIs
  <2>2. Sums(Only(locals, ids))[l] \in Nat  BY <1>0, <2>1, SumsAre
  <2> QED  BY <2>1, <2>2 DEF Room, Total
<1>2. Room(locals, {}) = 0
  <2> DEFINE none == Only(locals, {})
             S == {m \in Nat : m <= l => Sums(none)[m] = 0}
  <2>1. none \in Seq(Nat) /\ Len(none) = l  BY OnlyIs
  <2>2. \A m \in 1..l : none[m] = 0  BY DEF Only
  <2> HIDE DEF none
  <2>3. Sums(none)[0] = 0 /\ \A m \in 1..l : Sums(none)[m] = Sums(none)[m - 1] + none[m]  BY <2>1, SumsAre
  <2>4. 0 \in S  BY <2>3
  <2>5. ASSUME NEW m \in Nat, m \in S PROVE m + 1 \in S
    <3> SUFFICES ASSUME m + 1 <= l PROVE Sums(none)[m + 1] = 0  OBVIOUS
    <3>1. m + 1 \in 1..l /\ (m + 1) - 1 = m /\ m <= l  BY <1>0
    <3> QED  BY <2>2, <2>3, <2>5, <3>1
  <2> HIDE DEF S
  <2>6. l \in S  BY <1>0, <2>4, <2>5, SetInduction
  <2>7. Sums(none)[l] = 0  BY <1>0, <2>6 DEF S
  <2> QED  BY <2>1, <2>7 DEF Room, Total, none
<1>3. Only(locals, DOMAIN locals) = locals  BY DEF Only
<1> QED  BY <1>1, <1>2, <1>3 DEF Room

\* One more takes its slots more.
LEMMA RoomGrows ==
  ASSUME NEW locals \in Seq(Nat), NEW ids, NEW id \in DOMAIN locals, id \notin ids
  PROVE  Room(locals, ids \cup {id}) = Room(locals, ids) + locals[id]
<1> DEFINE l == Len(locals)
           old == Only(locals, ids)
           new == Only(locals, ids \cup {id})
           S == {m \in Nat : m <= l => Sums(new)[m] = Sums(old)[m] + IF id <= m THEN locals[id] ELSE 0}
<1>0. l \in Nat /\ id \in 1..l /\ locals[id] \in Nat  OBVIOUS
<1>1. old \in Seq(Nat) /\ Len(old) = l /\ new \in Seq(Nat) /\ Len(new) = l  BY OnlyIs
<1>2. \A m \in 1..l : old[m] \in Nat /\ new[m] = old[m] + IF m = id THEN locals[id] ELSE 0
  <2> SUFFICES ASSUME NEW m \in 1..l PROVE old[m] \in Nat /\ new[m] = old[m] + IF m = id THEN locals[id] ELSE 0  OBVIOUS
  <2>1. locals[m] \in Nat  OBVIOUS
  <2>2. old[m] = (IF m \in ids THEN locals[m] ELSE 0) /\ new[m] = IF m \in ids \cup {id} THEN locals[m] ELSE 0  BY DEF Only
  <2>3. CASE m = id  BY <1>0, <2>1, <2>2, <2>3
  <2>4. CASE m # id  BY <2>1, <2>2, <2>4
  <2> QED  BY <2>3, <2>4
<1> HIDE DEF old, new
<1>3. /\ Sums(old)[0] = 0 /\ \A m \in 1..l : Sums(old)[m] = Sums(old)[m - 1] + old[m]
      /\ Sums(new)[0] = 0 /\ \A m \in 1..l : Sums(new)[m] = Sums(new)[m - 1] + new[m]
      /\ \A m \in 0..l : Sums(old)[m] \in Nat
  BY <1>1, SumsAre
<1>4. 0 \in S  BY <1>0, <1>3
<1>5. ASSUME NEW m \in Nat, m \in S PROVE m + 1 \in S
  <2> SUFFICES ASSUME m + 1 <= l PROVE Sums(new)[m + 1] = Sums(old)[m + 1] + IF id <= m + 1 THEN locals[id] ELSE 0  OBVIOUS
  <2>1. m + 1 \in 1..l /\ (m + 1) - 1 = m /\ m <= l /\ m \in 0..l  BY <1>0
  <2>2. Sums(new)[m] = Sums(old)[m] + IF id <= m THEN locals[id] ELSE 0  BY <1>5, <2>1
  <2>3. Sums(new)[m + 1] = Sums(new)[m] + new[m + 1] /\ Sums(old)[m + 1] = Sums(old)[m] + old[m + 1]  BY <1>3, <2>1
  <2>4. new[m + 1] = old[m + 1] + IF m + 1 = id THEN locals[id] ELSE 0  BY <1>2, <2>1
  <2>5. Sums(old)[m] \in Nat /\ old[m + 1] \in Nat  BY <1>2, <1>3, <2>1
  <2>6. CASE id <= m  BY <1>0, <2>2, <2>3, <2>4, <2>5, <2>6
  <2>7. CASE id = m + 1  BY <1>0, <2>2, <2>3, <2>4, <2>5, <2>7
  <2>8. CASE id > m + 1  BY <1>0, <2>2, <2>3, <2>4, <2>5, <2>8
  <2> QED  BY <1>0, <2>6, <2>7, <2>8
<1> HIDE DEF S
<1>6. l \in S  BY <1>0, <1>4, <1>5, SetInduction
<1>7. Sums(new)[l] = Sums(old)[l] + locals[id]  BY <1>0, <1>6 DEF S
<1> QED  BY <1>1, <1>7 DEF Room, Total, old, new

(* Of the locals placed so far: those that interfere share no slot, if     *)
(* they lie within the memory; and together they need no more than if they *)
(* came one after the other, as long as there is that much memory.         *)
Inside(locals, at, id) == at[id] + locals[id] <= TemporaryMemorySlots
PlacedWell(locals, graph, at) ==
  /\ DOMAIN at \subseteq DOMAIN locals
  /\ at \in [DOMAIN at -> Nat]
  /\ \A a, b \in DOMAIN at :
       Interfere(graph, a, b) /\ Inside(locals, at, a) /\ Inside(locals, at, b) => ~Share(locals, at, a, b)
  /\ Room(locals, DOMAIN at) <= TemporaryMemorySlots =>
       \A id \in DOMAIN at : at[id] + locals[id] <= Room(locals, DOMAIN at)

OneMorePlaced(locals, at, next) == \E id \in DOMAIN locals \ DOMAIN at : DOMAIN next = DOMAIN at \cup {id}

LEMMA ConflictsAre ==
  ASSUME NEW graph, NEW at, NEW id, NEW o \in DOMAIN at, Interfere(graph, id, o)
  PROVE  o \in Conflicts(graph, at, id)
<1>1. {id, o} \in graph /\ o # id  BY DEF Interfere
<1>2. {id, o} \in {edge \in graph : id \in edge}  BY <1>1
<1>3. o \in UNION {edge \in graph : id \in edge}  BY <1>2
<1> QED  BY <1>1, <1>3 DEF Conflicts, Neighbours

\* The lowest free address: no slot of a neighbour, unless it is the end of memory.
LEMMA FirstFitIs ==
  ASSUME SlotsAssumption, NEW locals \in Seq(Nat), NEW graph, NEW D \in SUBSET DOMAIN locals, NEW at \in [D -> Nat],
         NEW id \in DOMAIN locals
  PROVE  LET offset == FirstFit(locals, graph, at, id)
         IN /\ offset \in Nat
            /\ offset + locals[id] <= TemporaryMemorySlots =>
                 \A o \in Conflicts(graph, at, id) : \A slot \in Nat :
                   offset <= slot /\ slot < offset + locals[id] => ~(at[o] <= slot /\ slot < at[o] + locals[o])
            /\ \A n \in Nat : n + locals[id] <= TemporaryMemorySlots /\ (\A o \in D : at[o] + locals[o] <= n) => offset <= n
<1> DEFINE C == Conflicts(graph, at, id)
           w == locals[id]
           occupied == UNION {at[o]..(at[o] + locals[o] - 1) : o \in C}
           Fits(n) == \A slot \in n..(n + w - 1) : slot \notin occupied
           free == {n \in 0..(TemporaryMemorySlots - w) : Fits(n)}
           offset == FirstFit(locals, graph, at, id)
<1>0. /\ w \in Nat /\ TemporaryMemorySlots \in Nat /\ C \subseteq D
      /\ \A o \in D : at[o] \in Nat /\ locals[o] \in Nat
  BY DEF SlotsAssumption, Conflicts
<1>1. offset = IF free = {} THEN TemporaryMemorySlots ELSE CHOOSE n \in free : \A m \in free : n <= m
  BY DEF FirstFit
<1> HIDE DEF C, w, offset
<1>2. free \subseteq Nat  BY <1>0
<1>3. CASE free = {}
  <2>1. offset = TemporaryMemorySlots  BY <1>1, <1>3
  <2>2. offset \in Nat  BY <1>0, <2>1
  <2>3. ASSUME offset + w <= TemporaryMemorySlots, NEW slot \in Nat PROVE ~(offset <= slot /\ slot < offset + w)
    BY <1>0, <2>1, <2>3
  <2>4. ASSUME NEW n \in Nat, n + w <= TemporaryMemorySlots, \A o \in D : at[o] + locals[o] <= n PROVE FALSE
    <3>1. n \in 0..(TemporaryMemorySlots - w)  BY <1>0, <2>4
    <3>2. ASSUME NEW slot \in n..(n + w - 1), slot \in occupied PROVE FALSE
      <4>1. PICK o \in C : slot \in at[o]..(at[o] + locals[o] - 1)  BY <3>2
      <4>2. at[o] + locals[o] <= n /\ at[o] \in Nat /\ locals[o] \in Nat  BY <1>0, <2>4, <4>1
      <4> QED  BY <1>0, <4>1, <4>2
    <3>3. n \in free  BY <3>1, <3>2
    <3> QED  BY <1>3, <3>3
  <2> QED  BY <2>2, <2>3, <2>4 DEF C, w, offset
<1>4. CASE free # {}
  <2> HIDE DEF free
  <2>0. PICK n \in free : \A m \in free : n <= m  BY <1>2, <1>4, LeastNat
  <2>1. offset \in free /\ \A m \in free : offset <= m  BY <1>1, <1>4, <2>0
  <2>2. offset \in Nat  BY <1>2, <2>1
  <2>3. ASSUME NEW o \in C, NEW slot \in Nat, offset <= slot, slot < offset + w
        PROVE  ~(at[o] <= slot /\ slot < at[o] + locals[o])
    <3> SUFFICES ASSUME at[o] <= slot, slot < at[o] + locals[o] PROVE FALSE  OBVIOUS
    <3>1. at[o] \in Nat /\ locals[o] \in Nat  BY <1>0
    <3>2. slot \in offset..(offset + w - 1)  BY <1>0, <2>2, <2>3
    <3>3. slot \in at[o]..(at[o] + locals[o] - 1)  BY <3>1
    <3>4. slot \in occupied  BY <3>3
    <3> QED  BY <2>1, <3>2, <3>4 DEF free
  <2>4. ASSUME NEW m \in Nat, m + w <= TemporaryMemorySlots, \A o \in D : at[o] + locals[o] <= m PROVE offset <= m
    <3>1. m \in 0..(TemporaryMemorySlots - w)  BY <1>0, <2>4
    <3>2. ASSUME NEW slot \in m..(m + w - 1), slot \in occupied PROVE FALSE
      <4>1. PICK o \in C : slot \in at[o]..(at[o] + locals[o] - 1)  BY <3>2
      <4>2. at[o] + locals[o] <= m /\ at[o] \in Nat /\ locals[o] \in Nat  BY <1>0, <2>4, <4>1
      <4> QED  BY <1>0, <4>1, <4>2
    <3>3. m \in free  BY <3>1, <3>2 DEF free
    <3> QED  BY <2>1, <3>3
  <2> QED  BY <2>2, <2>3, <2>4 DEF C, w, offset
<1> QED  BY <1>3, <1>4

\* Behind all neighbours that are placed.
LEMMA AfterConflictsIs ==
  ASSUME NEW locals \in Seq(Nat), NEW graph, NEW D \in SUBSET DOMAIN locals, NEW at \in [D -> Nat], NEW id
  PROVE  LET offset == AfterConflicts(locals, graph, at, id)
         IN /\ offset \in Nat
            /\ \A o \in Conflicts(graph, at, id) : at[o] + locals[o] <= offset
            /\ \A n \in Nat : (\A o \in D : at[o] + locals[o] <= n) => offset <= n
<1> DEFINE C == Conflicts(graph, at, id)
           near == [o \in C |-> at[o]]
           offset == EndOf(locals, near)
<1>0. C \subseteq D  BY DEF Conflicts
<1>1. near \in [C -> Nat] /\ C \in SUBSET DOMAIN locals /\ \A o \in C : near[o] = at[o]  BY <1>0
<1>2. offset = AfterConflicts(locals, graph, at, id)  BY DEF AfterConflicts
<1> HIDE DEF C, near
<1>3. offset \in Nat /\ offset \in {0} \cup {near[o] + locals[o] : o \in C} /\ \A o \in C : near[o] + locals[o] <= offset
  BY <1>1, EndIs
<1> HIDE DEF offset
<1>4. ASSUME NEW n \in Nat, \A o \in D : at[o] + locals[o] <= n PROVE offset <= n
  <2>1. CASE offset = 0  BY <2>1
  <2>2. CASE offset # 0
    <3>1. PICK o \in C : offset = near[o] + locals[o]  BY <1>3, <2>2
    <3> QED  BY <1>0, <1>1, <1>4, <3>1
  <2> QED  BY <2>1, <2>2
<1>5. \A o \in C : at[o] + locals[o] <= offset  BY <1>1, <1>3
<1> QED  BY <1>2, <1>3, <1>4, <1>5 DEF C

LEMMA PlaceNextKeeps ==
  ASSUME SlotsAssumption, NEW locals \in Seq(Nat), NEW graph, NEW fast,
         NEW at, PlacedWell(locals, graph, at), DOMAIN at # DOMAIN locals
  PROVE  /\ PlacedWell(locals, graph, PlaceNext(locals, graph, fast, at))
         /\ OneMorePlaced(locals, at, PlaceNext(locals, graph, fast, at))
<1> DEFINE D == DOMAIN at
           id == Widest(locals, DOMAIN locals \ D)
           offset == IF fast THEN AfterConflicts(locals, graph, at, id) ELSE FirstFit(locals, graph, at, id)
           next == [o \in D \cup {id} |-> IF o = id THEN offset ELSE at[o]]
           w == locals[id]
<1>1. D \in SUBSET DOMAIN locals /\ at \in [D -> Nat]  BY DEF PlacedWell
<1>2. id \in DOMAIN locals \ D
  <2>1. DOMAIN locals \ D # {} /\ DOMAIN locals \ D \in SUBSET DOMAIN locals  BY <1>1
  <2> QED  BY <2>1, WidestIs
<1>3. PlaceNext(locals, graph, fast, at) = next  BY DEF PlaceNext
<1>0. /\ w \in Nat /\ TemporaryMemorySlots \in Nat
      /\ \A o \in D : at[o] \in Nat /\ locals[o] \in Nat
  BY <1>1, <1>2 DEF SlotsAssumption
<1> HIDE DEF id
<1>4. offset \in Nat
  <2>1. CASE fast  BY <1>1, <2>1, AfterConflictsIs
  <2>2. CASE ~fast  BY <1>1, <1>2, <2>2, FirstFitIs
  <2> QED  BY <2>1, <2>2
<1>5. ASSUME NEW o \in D, Interfere(graph, id, o), offset + w <= TemporaryMemorySlots,
             NEW slot \in Nat, offset <= slot, slot < offset + w, at[o] <= slot, slot < at[o] + locals[o]
      PROVE  FALSE
  <2>1. o \in Conflicts(graph, at, id)  BY <1>5, ConflictsAre
  <2>2. CASE fast
    <3>1. at[o] + locals[o] <= offset  BY <1>1, <2>1, <2>2, AfterConflictsIs
    <3> HIDE DEF offset
    <3> QED  BY <1>0, <1>4, <1>5, <3>1
  <2>3. CASE ~fast
    <3>1. offset = FirstFit(locals, graph, at, id)  BY <2>3
    <3> HIDE DEF offset
    <3> QED  BY <1>1, <1>2, <1>5, <2>1, <3>1, FirstFitIs
  <2> QED  BY <2>2, <2>3
<1>6. ASSUME NEW n \in Nat, n + w <= TemporaryMemorySlots, \A o \in D : at[o] + locals[o] <= n
      PROVE  offset <= n
  <2>1. CASE fast  BY <1>1, <1>6, <2>1, AfterConflictsIs
  <2>2. CASE ~fast  BY <1>1, <1>2, <1>6, <2>2, FirstFitIs
  <2> QED  BY <2>1, <2>2
<1> HIDE DEF offset
<1>7. DOMAIN next = D \cup {id} /\ next[id] = offset /\ \A o \in D : next[o] = at[o]  BY <1>2
<1>8. next \in [D \cup {id} -> Nat]  BY <1>0, <1>4
<1> HIDE DEF next
<1>9. ASSUME NEW a \in D \cup {id}, NEW b \in D \cup {id}, Interfere(graph, a, b),
             Inside(locals, next, a), Inside(locals, next, b), Share(locals, next, a, b)
      PROVE  FALSE
  <2>1. PICK slot \in Nat : /\ next[a] <= slot /\ slot < next[a] + locals[a]
                            /\ next[b] <= slot /\ slot < next[b] + locals[b]
    BY <1>9 DEF Share
  <2>2. Interfere(graph, b, a)
    <3>1. {a, b} = {b, a}  OBVIOUS
    <3> QED  BY <1>9, <3>1 DEF Interfere
  <2>3. CASE a = id
    <3>1. b \in D  BY <1>9, <2>3 DEF Interfere
    <3> QED  BY <1>5, <1>7, <1>9, <2>1, <2>3, <3>1 DEF Inside
  <2>4. CASE b = id /\ a # id
    <3>1. a \in D  BY <2>4
    <3> QED  BY <1>5, <1>7, <1>9, <2>1, <2>2, <2>4, <3>1 DEF Inside
  <2>5. CASE a # id /\ b # id
    <3>1. a \in D /\ b \in D /\ next[a] = at[a] /\ next[b] = at[b]  BY <1>7, <2>5
    <3>2. Share(locals, at, a, b)  BY <2>1, <3>1 DEF Share
    <3>3. Inside(locals, at, a) /\ Inside(locals, at, b)  BY <1>9, <3>1 DEF Inside
    <3> QED  BY <1>9, <3>1, <3>2, <3>3 DEF PlacedWell
  <2> QED  BY <2>3, <2>4, <2>5
<1>10. ASSUME Room(locals, D \cup {id}) <= TemporaryMemorySlots, NEW o \in D \cup {id}
       PROVE  next[o] + locals[o] <= Room(locals, D \cup {id})
  <2> DEFINE room == Room(locals, D)
  <2>1. Room(locals, D \cup {id}) = room + w  BY <1>2, RoomGrows
  <2>2. room \in Nat  BY RoomIs
  <2>3. \A x \in D : at[x] + locals[x] <= room
    <3>1. room <= TemporaryMemorySlots  BY <1>0, <1>10, <2>1, <2>2
    <3> QED  BY <3>1 DEF PlacedWell
  <2> HIDE DEF room
  <2>4. offset <= room  BY <1>6, <1>10, <2>1, <2>2, <2>3
  <2>5. CASE o = id  BY <1>0, <1>4, <1>7, <2>1, <2>2, <2>4, <2>5
  <2>6. CASE o # id
    <3>1. o \in D /\ next[o] = at[o]  BY <1>7, <2>6
    <3> QED  BY <1>0, <2>1, <2>2, <2>3, <3>1
  <2> QED  BY <2>5, <2>6
<1>11. DOMAIN next \subseteq DOMAIN locals  BY <1>1, <1>2, <1>7
<1>12. PlacedWell(locals, graph, next)  BY <1>7, <1>8, <1>9, <1>10, <1>11 DEF PlacedWell
<1>13. OneMorePlaced(locals, at, next)  BY <1>2, <1>7 DEF OneMorePlaced
<1> QED  BY <1>3, <1>12, <1>13

LEMMA PlacesAll ==
  ASSUME SlotsAssumption, NEW locals \in Seq(Nat), NEW graph, NEW fast, NEW h, h[0] = <<>>,
         \A m \in 1..Len(locals) : DOMAIN h[m - 1] # DOMAIN locals => h[m] = PlaceNext(locals, graph, fast, h[m - 1])
  PROVE  \A m \in 0..Len(locals) : PlacedWell(locals, graph, h[m]) /\ Cardinality(DOMAIN h[m]) = m
<1> DEFINE l == Len(locals)
           S == {m \in Nat : m <= l => PlacedWell(locals, graph, h[m]) /\ Cardinality(DOMAIN h[m]) = m}
<1>0. l \in Nat /\ DOMAIN locals = 1..l  OBVIOUS
<1>a. \A m \in 1..l : DOMAIN h[m - 1] # DOMAIN locals => h[m] = PlaceNext(locals, graph, fast, h[m - 1])  OBVIOUS
<1> HIDE DEF l
<1>1. IsFiniteSet(1..l) /\ Cardinality(1..l) = l
  <2>1. 1 \in Int /\ l \in Int /\ IF 1 > l THEN 0 = l ELSE l - 1 + 1 = l  BY <1>0
  <2> QED  BY <2>1, FS_Interval
<1>2. 0 \in S
  <2>1. DOMAIN <<>> = {} /\ <<>> \in [{} -> Nat]  OBVIOUS
  <2>2. Cardinality({}) = 0  BY FS_EmptySet
  <2> QED  BY <2>1, <2>2 DEF PlacedWell
<1>3. ASSUME NEW m \in Nat, m \in S PROVE m + 1 \in S
  <2> SUFFICES ASSUME m + 1 <= l
               PROVE  PlacedWell(locals, graph, h[m + 1]) /\ Cardinality(DOMAIN h[m + 1]) = m + 1
    OBVIOUS
  <2>1. m + 1 \in 1..l /\ (m + 1) - 1 = m /\ m <= l /\ m # l  BY <1>0
  <2>2. PlacedWell(locals, graph, h[m]) /\ Cardinality(DOMAIN h[m]) = m  BY <1>3, <2>1
  <2>3. DOMAIN h[m] # DOMAIN locals  BY <1>0, <1>1, <2>1, <2>2
  <2>4. h[m + 1] = PlaceNext(locals, graph, fast, h[m])
    <3>1. h[(m + 1) - 1] = h[m]  BY <2>1
    <3> QED  BY <1>a, <2>1, <2>3, <3>1
  <2>5. PlacedWell(locals, graph, h[m + 1]) /\ OneMorePlaced(locals, h[m], h[m + 1])
    BY <2>2, <2>3, <2>4, PlaceNextKeeps
  <2>6. PICK id \in DOMAIN locals \ DOMAIN h[m] : DOMAIN h[m + 1] = DOMAIN h[m] \cup {id}
    BY <2>5 DEF OneMorePlaced
  <2>7. IsFiniteSet(DOMAIN h[m])
    <3>1. DOMAIN h[m] \subseteq 1..l  BY <1>0, <2>2 DEF PlacedWell
    <3> QED  BY <1>1, <3>1, FS_Subset
  <2>8. Cardinality(DOMAIN h[m + 1]) = m + 1
    <3>1. Cardinality(DOMAIN h[m] \cup {id}) = Cardinality(DOMAIN h[m]) + 1  BY <2>7, FS_AddElement
    <3> QED  BY <2>2, <2>6, <3>1
  <2> QED  BY <2>5, <2>8
<1> HIDE DEF S
<1>4. \A m \in Nat : m \in S  BY <1>2, <1>3, SetInduction
<1> QED  BY <1>0, <1>4 DEF S

\* Every local gets its place.
LEMMA PlacementIs ==
  ASSUME SlotsAssumption, NEW locals \in Seq(Nat), NEW graph, NEW fast
  PROVE  LET at == Placement(locals, graph, fast)
         IN PlacedWell(locals, graph, at) /\ DOMAIN at = DOMAIN locals
<1> DEFINE l == Len(locals)
           X == {at \in UNION {[D -> Nat] : D \in SUBSET DOMAIN locals} : PlacedWell(locals, graph, at)}
           Step(at) == IF DOMAIN at = DOMAIN locals THEN at ELSE PlaceNext(locals, graph, fast, at)
           next == [q \in X \X (1..l) |-> Step(q[1])]
           Recursive(f) == f = [m \in 0..l |-> IF m = 0 THEN <<>> ELSE PlaceNext(locals, graph, fast, f[m - 1])]
<1>0. l \in Nat /\ DOMAIN locals = 1..l  OBVIOUS
<1>a. \A at : PlacedWell(locals, graph, at) => at \in X  BY DEF PlacedWell
<1>1. <<>> \in X
  <2>1. DOMAIN <<>> = {} /\ <<>> \in [{} -> Nat]  OBVIOUS
  <2> HIDE DEF X
  <2>2. PlacedWell(locals, graph, <<>>)  BY <2>1 DEF PlacedWell
  <2> QED  BY <1>a, <2>2
<1>2. \A at \in X : Step(at) \in X
  <2> SUFFICES ASSUME NEW at \in X PROVE Step(at) \in X  OBVIOUS
  <2>1. PlacedWell(locals, graph, at)  OBVIOUS
  <2> HIDE DEF X
  <2>2. CASE DOMAIN at = DOMAIN locals  BY <2>2
  <2>3. CASE DOMAIN at # DOMAIN locals
    <3>1. PlacedWell(locals, graph, PlaceNext(locals, graph, fast, at))  BY <2>1, <2>3, PlaceNextKeeps
    <3> QED  BY <1>a, <2>3, <3>1
  <2> QED  BY <2>2, <2>3
<1> HIDE DEF X, Step
<1>3. next \in [X \X (1..l) -> X] /\ \A at \in X, m \in 1..l : next[<<at, m>>] = Step(at)  BY <1>2
<1> HIDE DEF next, l
<1>4. PICK f \in [0..l -> X] : Scans(f, l, <<>>, next)  BY <1>0, <1>1, <1>3, ScanExists
<1>5. f[0] = <<>> /\ \A m \in 1..l : f[m] = Step(f[m - 1])
  <2>1. ASSUME NEW m \in 1..l PROVE f[m] = Step(f[m - 1])
    <3>1. m - 1 \in 0..l  BY <1>0
    <3>2. f[m - 1] \in X /\ f[m] = next[<<f[m - 1], m>>]  BY <1>4, <3>1 DEF Scans
    <3> QED  BY <1>3, <3>2
  <2> QED  BY <1>4, <2>1 DEF Scans
<1>6. IsFiniteSet(1..l) /\ Cardinality(1..l) = l  BY <1>0, FS_Interval
<1>7. ASSUME NEW m \in 1..l PROVE f[m] = PlaceNext(locals, graph, fast, f[m - 1])
  <2>1. \A k \in 1..l : DOMAIN f[k - 1] # DOMAIN locals => f[k] = PlaceNext(locals, graph, fast, f[k - 1])
    BY <1>5 DEF Step
  <2>2. m - 1 \in 0..l /\ m - 1 # l  BY <1>0
  <2>3. Cardinality(DOMAIN f[m - 1]) = m - 1  BY <1>5, <2>1, <2>2, PlacesAll DEF l
  <2>4. DOMAIN f[m - 1] # DOMAIN locals  BY <1>0, <1>6, <2>2, <2>3
  <2> QED  BY <2>1, <2>4
<1>8. Recursive(f)
  <2>1. ASSUME NEW m \in 0..l PROVE f[m] = IF m = 0 THEN <<>> ELSE PlaceNext(locals, graph, fast, f[m - 1])
    <3>1. CASE m = 0  BY <1>5, <3>1
    <3>2. CASE m # 0
      <4>1. m \in 1..l  BY <1>0, <3>2
      <4> QED  BY <1>7, <3>2, <4>1
    <3> QED  BY <3>1, <3>2
  <2> QED  BY <2>1
<1> DEFINE g == CHOOSE h : Recursive(h)
<1>9. Recursive(g)  BY <1>8
<1>10. Placement(locals, graph, fast) = g[l]  BY DEF Placement, l
<1> HIDE DEF g
<1>11. g[0] = <<>> /\ \A m \in 1..l : g[m] = PlaceNext(locals, graph, fast, g[m - 1])
  <2>1. \A m \in 0..l : g[m] = IF m = 0 THEN <<>> ELSE PlaceNext(locals, graph, fast, g[m - 1])  BY <1>9
  <2>2. \A m \in 1..l : m \in 0..l /\ m # 0  BY <1>0
  <2>3. 0 \in 0..l  BY <1>0
  <2> QED  BY <2>1, <2>2, <2>3
<1>12. PlacedWell(locals, graph, g[l]) /\ Cardinality(DOMAIN g[l]) = l
  <2>1. l \in 0..l  BY <1>0
  <2> QED  BY <1>11, <2>1, PlacesAll DEF l
<1>13. DOMAIN g[l] = 1..l
  <2>1. DOMAIN g[l] \subseteq 1..l  BY <1>0, <1>12 DEF PlacedWell
  <2> QED  BY <1>6, <1>12, <2>1, FS_Subset
<1> QED  BY <1>0, <1>10, <1>12, <1>13

\* Whichever way the locals are placed, if they fit, locals of which one is
\* written while the other is live share no slot of Temporary Memory, and all
\* slots lie within it (allocateLocalsWithInterference, allocate.go).
THEOREM PlacedApart ==
  ASSUME SlotsAssumption, NEW locals \in Seq(Nat), NEW graph, NEW fast,
         Fitting(locals, Placement(locals, graph, fast))
  PROVE  LET at == Placement(locals, graph, fast)
         IN /\ \A id \in DOMAIN locals : at[id] \in Nat /\ at[id] + locals[id] <= TemporaryMemorySlots
            /\ \A a, b \in DOMAIN locals : Interfere(graph, a, b) => ~Share(locals, at, a, b)
<1> DEFINE at == Placement(locals, graph, fast)
<1>1. PlacedWell(locals, graph, at) /\ DOMAIN at = DOMAIN locals  BY PlacementIs
<1>2. at \in [DOMAIN locals -> Nat]  BY <1>1 DEF PlacedWell
<1>3. EndOf(locals, at) <= TemporaryMemorySlots  BY DEF Fitting
<1> HIDE DEF at
<1>4. DOMAIN locals \in SUBSET DOMAIN locals  OBVIOUS
<1>5. EndOf(locals, at) \in Nat /\ \A id \in DOMAIN locals : at[id] + locals[id] <= EndOf(locals, at)  BY <1>2, <1>4, EndIs
<1>6. ASSUME NEW id \in DOMAIN locals PROVE at[id] \in Nat /\ at[id] + locals[id] <= TemporaryMemorySlots
  <2>1. locals[id] \in Nat /\ at[id] \in Nat  BY <1>2
  <2> QED  BY <1>3, <1>5, <2>1 DEF SlotsAssumption
<1>7. \A a, b \in DOMAIN locals : Interfere(graph, a, b) => ~Share(locals, at, a, b)
  BY <1>1, <1>6 DEF PlacedWell, Inside
<1> QED  BY <1>6, <1>7 DEF at

\* Locals that fit one after the other fit when they share: no level of the
\* optimizer refuses for its placement what the one without sharing accepts.
THEOREM SharingFits ==
  ASSUME SlotsAssumption, NEW locals \in Seq(Nat), NEW graph, NEW fast, Total(locals) <= TemporaryMemorySlots
  PROVE  Fitting(locals, Placement(locals, graph, fast))
<1> DEFINE at == Placement(locals, graph, fast)
<1>1. PlacedWell(locals, graph, at) /\ DOMAIN at = DOMAIN locals  BY PlacementIs
<1>2. at \in [DOMAIN locals -> Nat]  BY <1>1 DEF PlacedWell
<1> HIDE DEF at
<1>3. Room(locals, DOMAIN at) = Total(locals) /\ Total(locals) \in Nat  BY <1>1, RoomIs
<1>4. \A id \in DOMAIN locals : at[id] + locals[id] <= Total(locals)  BY <1>1, <1>3 DEF PlacedWell
<1>5. DOMAIN locals \in SUBSET DOMAIN locals  OBVIOUS
<1>6. EndOf(locals, at) \in {0} \cup {at[id] + locals[id] : id \in DOMAIN locals}  BY <1>2, <1>5, EndIs
<1>7. EndOf(locals, at) <= TemporaryMemorySlots
  <2>1. CASE EndOf(locals, at) = 0  BY <2>1 DEF SlotsAssumption
  <2>2. CASE EndOf(locals, at) # 0
    <3>1. PICK id \in DOMAIN locals : EndOf(locals, at) = at[id] + locals[id]  BY <1>6, <2>2
    <3>2. at[id] \in Nat /\ locals[id] \in Nat /\ at[id] + locals[id] <= Total(locals)  BY <1>2, <1>4
    <3> QED  BY <1>3, <3>1, <3>2 DEF SlotsAssumption
  <2> QED  BY <2>1, <2>2
<1> QED  BY <1>7 DEF Fitting, at

\* One after the other, no two locals share a slot, and they take their total.
THEOREM SequentialApart ==
  ASSUME NEW locals \in Seq(Nat)
  PROVE  LET at == Sequential(locals)
         IN /\ at \in [DOMAIN locals -> Nat]
            /\ \A id \in DOMAIN locals : at[id] + locals[id] <= Total(locals)
            /\ \A a, b \in DOMAIN locals : a # b => ~Share(locals, at, a, b)
<1> DEFINE at == Sequential(locals)
           l == Len(locals)
           g == Sums(locals)
<1>0. l \in Nat /\ DOMAIN locals = 1..l /\ \A id \in 1..l : locals[id] \in Nat  OBVIOUS
<1>1. \A id \in 1..l : at[id] = g[id - 1]  BY <1>0 DEF Sequential
<1>2. \A n \in 0..l : g[n] \in Nat  BY SumsAre
<1>3. \A id \in 1..l : g[id] = g[id - 1] + locals[id]  BY SumsAre
<1>4. ASSUME NEW m \in 0..l, NEW n \in 0..l, m <= n PROVE g[m] <= g[n]  BY <1>4, SumsGrow
<1>5. at \in [1..l -> Nat]
  <2>1. at = [id \in 1..l |-> g[id - 1]]  BY <1>0 DEF Sequential
  <2> HIDE DEF at, g
  <2> QED  BY <1>0, <1>2, <2>1
<1>6. Total(locals) = g[l]  BY DEF Total
<1> HIDE DEF at, g, l
<1>b. \A id \in 1..l : id \in Nat /\ id - 1 \in 0..l /\ id \in 0..l  BY <1>0
<1>7. ASSUME NEW id \in 1..l PROVE at[id] + locals[id] <= g[l]
  <2>1. at[id] + locals[id] = g[id]  BY <1>1, <1>3
  <2>2. id <= l /\ l \in 0..l  BY <1>0
  <2> QED  BY <1>b, <1>4, <2>1, <2>2
<1>8. ASSUME NEW a \in 1..l, NEW b \in 1..l, a < b PROVE ~Share(locals, at, a, b)
  <2>1. at[a] + locals[a] = g[a] /\ at[b] = g[b - 1]  BY <1>1, <1>3
  <2>a. a <= b - 1  BY <1>b, <1>8
  <2>2. g[a] <= g[b - 1]  BY <1>b, <1>4, <2>a
  <2>3. g[a] \in Nat /\ g[b - 1] \in Nat /\ locals[a] \in Nat /\ locals[b] \in Nat  BY <1>0, <1>2, <1>b
  <2> QED  BY <2>1, <2>2, <2>3 DEF Share
<1>9. \A a, b \in 1..l : Share(locals, at, a, b) => Share(locals, at, b, a)  BY DEF Share
<1>10. ASSUME NEW a \in 1..l, NEW b \in 1..l, a # b PROVE ~Share(locals, at, a, b)
  <2>1. a < b \/ b < a  BY <1>0, <1>10
  <2> QED  BY <1>8, <1>9, <2>1
<1> QED  BY <1>0, <1>5, <1>6, <1>7, <1>10 DEF at

(***************************************************************************)
(* Copies of an edge.                                                      *)
(***************************************************************************)
Moves(n) == [target : 1..n, source : 1..n]
Saves(n) == [target : Nat, source : 1..n]

\* The i-th snapshot is the i-th new local; every local that is written and
\* read has one.
LEMMA SnapshotsAre ==
  ASSUME NEW n \in Nat, NEW moves \in Seq(Moves(n))
  PROVE  LET saved == Snapshots(n, moves)
         IN /\ saved \in Seq(Saves(n))
            /\ \A i \in 1..Len(saved) : saved[i].target = n + i
            /\ \A j, k \in 1..Len(moves) : moves[j].source = moves[k].target =>
                 \E i \in 1..Len(saved) : saved[i].source = moves[k].target
<1> DEFINE l == Len(moves)
           sources == {moves[i].source : i \in DOMAIN moves}
           Save(saves, t) == Append(saves, [target |-> n + Len(saves) + 1, source |-> t])
           Step(saves, m) == IF moves[m].target \in sources THEN Save(saves, moves[m].target) ELSE saves
           X == {s \in Seq(Saves(n)) : \A i \in 1..Len(s) : s[i].target = n + i}
           next == [q \in X \X (1..l) |-> Step(q[1], q[2])]
           Recursive(f) == f = [k \in 0..l |-> IF k = 0 THEN <<>> ELSE Step(f[k - 1], k)]
<1>0. l \in Nat /\ DOMAIN moves = 1..l /\ \A m \in 1..l : moves[m] \in Moves(n)  OBVIOUS
<1>a. \A m \in 1..l : moves[m].target \in 1..n /\ moves[m].source \in 1..n  BY <1>0 DEF Moves
<1>1. <<>> \in X  OBVIOUS
<1>2. ASSUME NEW s \in X, NEW t \in 1..n
      PROVE  /\ Save(s, t) \in X /\ Len(Save(s, t)) = Len(s) + 1 /\ Save(s, t)[Len(s) + 1].source = t
             /\ \A i \in 1..Len(s) : i \in 1..Len(Save(s, t)) /\ Save(s, t)[i] = s[i]
  <2> DEFINE new == [target |-> n + Len(s) + 1, source |-> t]
  <2>1. s \in Seq(Saves(n)) /\ Len(s) \in Nat /\ \A i \in 1..Len(s) : s[i].target = n + i  OBVIOUS
  <2>2. new \in Saves(n) /\ new.target = n + (Len(s) + 1) /\ new.source = t  BY <2>1 DEF Saves
  <2>3. Save(s, t) = Append(s, new)  OBVIOUS
  <2> HIDE DEF new, Save
  <2>4. /\ Save(s, t) \in Seq(Saves(n)) /\ Len(Save(s, t)) = Len(s) + 1 /\ Save(s, t)[Len(s) + 1] = new
        /\ \A i \in 1..Len(s) : Save(s, t)[i] = s[i]
    BY <2>1, <2>2, <2>3
  <2>5. ASSUME NEW i \in 1..Len(Save(s, t)) PROVE Save(s, t)[i].target = n + i
    <3>1. i \in 1..Len(s) \/ i = Len(s) + 1  BY <2>1, <2>4
    <3> QED  BY <2>1, <2>2, <2>4, <3>1
  <2> QED  BY <2>1, <2>2, <2>4, <2>5
<1>3. ASSUME NEW s \in X, NEW m \in 1..l PROVE Step(s, m) \in X  BY <1>2, <1>a
<1>4. next \in [X \X (1..l) -> X] /\ \A s \in X, m \in 1..l : next[<<s, m>>] = Step(s, m)
  <2> HIDE DEF X, Step, l
  <2> QED  BY <1>3
<1>b. \A s \in X : s \in Seq(Saves(n)) /\ \A i \in 1..Len(s) : s[i].target = n + i  OBVIOUS
<1> HIDE DEF X, next, l, sources, Save
<1>5. PICK f \in [0..l -> X] : Scans(f, l, <<>>, next)  BY <1>0, <1>1, <1>4, ScanExists
<1>6. Recursive(f)
  <2>1. ASSUME NEW m \in 0..l PROVE f[m] = IF m = 0 THEN <<>> ELSE Step(f[m - 1], m)
    <3>1. CASE m = 0  BY <1>5, <3>1 DEF Scans
    <3>2. CASE m # 0
      <4>1. m \in 1..l /\ m - 1 \in 0..l  BY <1>0, <3>2
      <4>2. f[m] = next[<<f[m - 1], m>>] /\ f[m - 1] \in X  BY <1>5, <4>1 DEF Scans
      <4>3. next[<<f[m - 1], m>>] = Step(f[m - 1], m)  BY <1>4, <4>1, <4>2
      <4> QED  BY <3>2, <4>2, <4>3
    <3> QED  BY <3>1, <3>2
  <2> HIDE DEF Step
  <2> QED  BY <1>5, <2>1
<1> DEFINE g == CHOOSE h : Recursive(h)
<1>7. Recursive(g)  BY <1>6
<1>8. Snapshots(n, moves) = g[l]  BY DEF Snapshots, l, Save, sources
<1> HIDE DEF g
<1>9. g[0] = <<>> /\ \A m \in 1..l : g[m] = Step(g[m - 1], m)
  <2> HIDE DEF Step
  <2>1. \A m \in 0..l : g[m] = IF m = 0 THEN <<>> ELSE Step(g[m - 1], m)  BY <1>7
  <2>2. \A m \in 1..l : m \in 0..l /\ m # 0  BY <1>0
  <2>3. 0 \in 0..l  BY <1>0
  <2> QED  BY <2>1, <2>2, <2>3
<1> DEFINE Kept(s, t) == \E i \in 1..Len(s) : s[i].source = t
           S == {m \in Nat : m <= l => /\ g[m] \in X
                                       /\ \A k \in 1..m : moves[k].target \in sources => Kept(g[m], moves[k].target)}
<1>10. 0 \in S  BY <1>1, <1>9
<1>11. ASSUME NEW m \in Nat, m \in S PROVE m + 1 \in S
  <2> SUFFICES ASSUME m + 1 <= l
               PROVE  /\ g[m + 1] \in X
                      /\ \A k \in 1..m + 1 : moves[k].target \in sources => Kept(g[m + 1], moves[k].target)
    OBVIOUS
  <2> DEFINE t == moves[m + 1].target
  <2>1. m + 1 \in 1..l /\ (m + 1) - 1 = m /\ m <= l  BY <1>0
  <2>2. g[m] \in X /\ \A k \in 1..m : moves[k].target \in sources => Kept(g[m], moves[k].target)  BY <1>11, <2>1
  <2>3. g[m + 1] = (IF t \in sources THEN Save(g[m], t) ELSE g[m])
    <3>1. g[m + 1] = Step(g[(m + 1) - 1], m + 1)  BY <1>9, <2>1
    <3> QED  BY <2>1, <3>1
  <2>4. t \in 1..n  BY <1>a, <2>1
  <2>5. \A k \in 1..m + 1 : k \in 1..m \/ k = m + 1  OBVIOUS
  <2>6. CASE t \in sources
    <3> DEFINE s == g[m]
    <3>1. /\ Save(s, t) \in X /\ Len(Save(s, t)) = Len(s) + 1 /\ Save(s, t)[Len(s) + 1].source = t
          /\ \A i \in 1..Len(s) : i \in 1..Len(Save(s, t)) /\ Save(s, t)[i] = s[i]
      BY <1>2, <2>2, <2>4
    <3>2. Len(s) + 1 \in 1..Len(Save(s, t))
      <4>1. Len(s) \in Nat  BY <1>b, <2>2
      <4> HIDE DEF s, t
      <4> QED  BY <3>1, <4>1
    <3>3. g[m + 1] = Save(s, t)  BY <2>3, <2>6
    <3> HIDE DEF s
    <3>4. Kept(g[m + 1], t)  BY <3>1, <3>2, <3>3
    <3>5. \A x : Kept(s, x) => Kept(g[m + 1], x)  BY <3>1, <3>3
    <3>6. g[m + 1] \in X  BY <3>1, <3>3
    <3>7. \A k \in 1..m : moves[k].target \in sources => Kept(s, moves[k].target)  BY <2>2 DEF s
    <3> HIDE DEF Kept
    <3> QED  BY <2>5, <3>4, <3>5, <3>6, <3>7
  <2>7. CASE t \notin sources
    <3>1. g[m + 1] = g[m]  BY <2>3, <2>7
    <3> HIDE DEF Kept
    <3> QED  BY <2>2, <2>5, <2>7, <3>1
  <2> QED  BY <2>6, <2>7
<1> HIDE DEF S
<1>12. l \in S  BY <1>0, <1>10, <1>11, SetInduction
<1>13. g[l] \in X /\ \A k \in 1..l : moves[k].target \in sources => Kept(g[l], moves[k].target)
  BY <1>0, <1>12 DEF S
<1>14. \A j, k \in 1..l : moves[j].source = moves[k].target => moves[k].target \in sources
  BY <1>0 DEF sources
<1> QED  BY <1>8, <1>13, <1>14, <1>b DEF l

Values(k, V) == [1..k -> V]
\* b is a after a copy of r to t.
Copied(a, b, t, r) == b = [a EXCEPT ![t] = a[r]]

\* f[k] is what the locals hold after the first k of the copies.
InTurn(copies, f) ==
  \A k \in 1..Len(copies) : Copied(f[k - 1], f[k], copies[k].target, copies[k].source)

\* Moves to different locals; each local of the function that is both read and
\* written has a snapshot; the snapshots are new locals.
Apart(moves) == \A i, j \in 1..Len(moves) : moves[i].target = moves[j].target => i = j
Covered(saved, moves) ==
  \A j, k \in 1..Len(moves) : moves[j].source = moves[k].target =>
    \E i \in 1..Len(saved) : saved[i].source = moves[k].target
Fresh(n, saved) == \A i \in 1..Len(saved) : saved[i].target = n + i

\* What the locals hold after the snapshots, and after the moves.
Snapped(n, saved, init, g) ==
  /\ \A id \in 1..n : g[id] = init[id]
  /\ \A i \in 1..Len(saved) : g[n + i] = init[saved[i].source]
AtOnce(n, moves, init, g) ==
  /\ \A i \in 1..Len(moves) : g[moves[i].target] = init[moves[i].source]
  /\ \A id \in 1..n : (\A i \in 1..Len(moves) : moves[i].target # id) => g[id] = init[id]

LEMMA CopyIs ==
  ASSUME NEW k, NEW V, NEW a \in Values(k, V), NEW t \in 1..k, NEW r \in 1..k, NEW b, Copied(a, b, t, r)
  PROVE  b \in Values(k, V) /\ b[t] = a[r] /\ \A x \in 1..k : x # t => b[x] = a[x]
BY DEF Copied, Values

LEMMA Listed ==
  ASSUME NEW l \in Nat, NEW S, NEW t \in [1..l -> S]
  PROVE  t \in Seq(S) /\ Len(t) = l
OBVIOUS

IsList(s) == \E S : s \in Seq(S)

LEMMA RedirectedIs ==
  ASSUME NEW saved, NEW n, NEW moves \in Seq(Moves(n))
  PROVE  LET turned == Redirected(saved, moves)
         IN /\ Len(turned) = Len(moves)
            /\ IsList(turned)
            /\ \A k \in 1..Len(moves) : /\ turned[k].target = moves[k].target
                                       /\ turned[k].source = ReadFrom(saved, moves[k].source)
<1> DEFINE l == Len(moves)
           turned == Redirected(saved, moves)
           R == {turned[k] : k \in 1..l}
<1>0. l \in Nat  OBVIOUS
<1>1. turned = [k \in 1..l |-> [target |-> moves[k].target, source |-> ReadFrom(saved, moves[k].source)]]
  BY DEF Redirected
<1>2. \A k \in 1..l : turned[k].target = moves[k].target /\ turned[k].source = ReadFrom(saved, moves[k].source)
  BY <1>1
<1>3. turned \in [1..l -> R]
  <2>1. turned = [k \in 1..l |-> turned[k]]  BY <1>1
  <2> HIDE DEF turned
  <2> QED  BY <2>1
<1> HIDE DEF turned, l, R
<1>4. turned \in Seq(R) /\ Len(turned) = l  BY <1>0, <1>3, Listed
<1>5. IsList(turned)  BY <1>4 DEF IsList
<1> QED  BY <1>2, <1>4, <1>5 DEF turned, l

\* First the snapshots: they only write new locals.
LEMMA SnapshotsSave ==
  ASSUME NEW n \in Nat, NEW V, NEW saved \in Seq(Saves(n)), Fresh(n, saved),
         NEW f, f[0] \in Values(n + Len(saved), V), InTurn(saved, f)
  PROVE  f[Len(saved)] \in Values(n + Len(saved), V) /\ Snapped(n, saved, f[0], f[Len(saved)])
<1> DEFINE s == Len(saved)
           Kept(k) == /\ f[k] \in Values(n + s, V)
                      /\ \A id \in 1..n : f[k][id] = f[0][id]
                      /\ \A i \in 1..k : f[k][n + i] = f[0][saved[i].source]
           S == {k \in Nat : k <= s => Kept(k)}
<1>0. s \in Nat /\ \A i \in 1..s : saved[i].source \in 1..n
  <2>1. s \in Nat /\ \A i \in 1..s : saved[i] \in Saves(n)  OBVIOUS
  <2>2. \A x \in Saves(n) : x.source \in 1..n  BY DEF Saves
  <2> QED  BY <2>1, <2>2
<1>a. /\ f[0] \in Values(n + s, V)
      /\ \A i \in 1..s : saved[i].target = n + i
      /\ \A k \in 1..s : Copied(f[k - 1], f[k], saved[k].target, saved[k].source)
  BY DEF Fresh, InTurn
<1> HIDE DEF s, Kept
<1>1. 0 \in S  BY <1>a DEF Kept
<1>2. ASSUME NEW k \in Nat, k \in S PROVE k + 1 \in S
  <2> SUFFICES ASSUME k + 1 <= s PROVE Kept(k + 1)  OBVIOUS
  <2>1. k + 1 \in 1..s /\ (k + 1) - 1 = k /\ k <= s  BY <1>0
  <2>k. Kept(k)  BY <1>2, <2>1
  <2>2. /\ f[k] \in Values(n + s, V)
        /\ \A id \in 1..n : f[k][id] = f[0][id]
        /\ \A i \in 1..k : f[k][n + i] = f[0][saved[i].source]
    BY <2>k DEF Kept
  <2> DEFINE new == n + (k + 1)
             from == saved[k + 1].source
  <2>3. Copied(f[k], f[k + 1], new, from)  BY <1>a, <2>1
  <2>4. /\ new \in 1..n + s /\ from \in 1..n /\ from \in 1..n + s
        /\ \A id \in 1..n : id # new /\ id \in 1..n + s
        /\ \A i \in 1..k : n + i # new /\ n + i \in 1..n + s
    BY <1>0, <2>1
  <2>5. f[k][from] = f[0][from] /\ f[k] \in Values(n + s, V)  BY <2>2, <2>4
  <2>6. \A i \in 1..k + 1 : i \in 1..k \/ i = k + 1  OBVIOUS
  <2> HIDE DEF new, from
  <2>7. f[k + 1] \in Values(n + s, V) /\ f[k + 1][new] = f[0][from] /\ \A x \in 1..n + s : x # new => f[k + 1][x] = f[k][x]
    <3>1. f[k + 1] \in Values(n + s, V) /\ f[k + 1][new] = f[k][from] /\ \A x \in 1..n + s : x # new => f[k + 1][x] = f[k][x]
      BY <2>3, <2>4, <2>5, CopyIs
    <3> QED  BY <2>5, <3>1
  <2>8. \A id \in 1..n : f[k + 1][id] = f[0][id]  BY <2>2, <2>4, <2>7
  <2>9. ASSUME NEW i \in 1..k + 1 PROVE f[k + 1][n + i] = f[0][saved[i].source]
    <3>1. CASE i = k + 1  BY <2>7, <3>1 DEF new, from
    <3>2. CASE i # k + 1
      <4>1. i \in 1..k  BY <2>6, <3>2
      <4> QED  BY <2>2, <2>4, <2>7, <4>1
    <3> QED  BY <3>1, <3>2
  <2> QED  BY <2>7, <2>8, <2>9 DEF Kept
<1> HIDE DEF S
<1>3. s \in S  BY <1>0, <1>1, <1>2, SetInduction
<1>4. Kept(s)  BY <1>0, <1>3 DEF S
<1> QED  BY <1>4 DEF Kept, Snapped, s

\* Then the moves: where a source is read, it has its first value.
LEMMA MovesRead ==
  ASSUME NEW n \in Nat, NEW V, NEW saved \in Seq(Saves(n)), NEW moves \in Seq(Moves(n)), NEW init,
         Apart(moves), Covered(saved, moves), Fresh(n, saved),
         NEW f, f[0] \in Values(n + Len(saved), V), Snapped(n, saved, init, f[0]),
         InTurn(Redirected(saved, moves), f)
  PROVE  AtOnce(n, moves, init, f[Len(moves)])
<1> DEFINE s == Len(saved)
           l == Len(moves)
           Unwritten(k, id) == \A i \in 1..k : moves[i].target # id
           Moved(k) == /\ f[k] \in Values(n + s, V)
                       /\ \A i \in 1..s : f[k][n + i] = init[saved[i].source]
                       /\ \A i \in 1..k : f[k][moves[i].target] = init[moves[i].source]
                       /\ \A id \in 1..n : Unwritten(k, id) => f[k][id] = init[id]
           S == {k \in Nat : k <= l => Moved(k)}
<1>0. /\ s \in Nat /\ l \in Nat /\ DOMAIN saved = 1..s
      /\ \A i \in 1..l : moves[i].target \in 1..n /\ moves[i].source \in 1..n
  <2>1. s \in Nat /\ l \in Nat /\ DOMAIN saved = 1..s /\ \A i \in 1..l : moves[i] \in Moves(n)  OBVIOUS
  <2>2. \A x \in Moves(n) : x.target \in 1..n /\ x.source \in 1..n  BY DEF Moves
  <2> QED  BY <2>1, <2>2
<1>a. /\ f[0] \in Values(n + s, V)
      /\ \A id \in 1..n : f[0][id] = init[id]
      /\ \A i \in 1..s : f[0][n + i] = init[saved[i].source]
  BY DEF Snapped
<1>b. /\ \A i, j \in 1..l : moves[i].target = moves[j].target => i = j
      /\ \A j, k \in 1..l : moves[j].source = moves[k].target => \E i \in 1..s : saved[i].source = moves[k].target
  BY DEF Apart, Covered
<1>c. \A i \in 1..s : saved[i].target = n + i  BY DEF Fresh
<1>d. \A k \in 1..l : Copied(f[k - 1], f[k], moves[k].target, ReadFrom(saved, moves[k].source))
  <2>1. /\ Len(Redirected(saved, moves)) = l
        /\ \A k \in 1..l : /\ Redirected(saved, moves)[k].target = moves[k].target
                           /\ Redirected(saved, moves)[k].source = ReadFrom(saved, moves[k].source)
    BY RedirectedIs
  <2> HIDE DEF l
  <2> QED  BY <2>1 DEF InTurn
<1> HIDE DEF s, l, Moved
<1>1. 0 \in S  BY <1>a DEF Moved
<1>2. ASSUME NEW k \in Nat, k \in S PROVE k + 1 \in S
  <2> SUFFICES ASSUME k + 1 <= l PROVE Moved(k + 1)  OBVIOUS
  <2> DEFINE to == moves[k + 1].target
             from == moves[k + 1].source
             read == ReadFrom(saved, from)
  <2>1. k + 1 \in 1..l /\ (k + 1) - 1 = k /\ k <= l /\ \A i \in 1..k : i \in 1..l /\ i # k + 1  BY <1>0
  <2>k. Moved(k)  BY <1>2, <2>1
  <2>2. /\ f[k] \in Values(n + s, V)
        /\ \A i \in 1..s : f[k][n + i] = init[saved[i].source]
        /\ \A i \in 1..k : f[k][moves[i].target] = init[moves[i].source]
        /\ \A id \in 1..n : Unwritten(k, id) => f[k][id] = init[id]
    BY <2>k DEF Moved
  <2>3. Copied(f[k], f[k + 1], to, read)  BY <1>d, <2>1
  <2>4. /\ to \in 1..n /\ to \in 1..n + s /\ from \in 1..n
        /\ \A i \in 1..s : n + i # to /\ n + i \in 1..n + s
        /\ \A id \in 1..n : id \in 1..n + s
    BY <1>0, <2>1
  <2>5. f[k][read] = init[from] /\ read \in 1..n + s
    <3>1. CASE \E i \in 1..s : saved[i].source = from
      <4>1. PICK i \in 1..s : read = saved[i].target /\ saved[i].source = from  BY <1>0, <3>1 DEF ReadFrom
      <4>2. read = n + i  BY <1>c, <4>1
      <4> QED  BY <2>2, <2>4, <4>1, <4>2
    <3>2. CASE ~\E i \in 1..s : saved[i].source = from
      <4>1. read = from  BY <1>0, <3>2 DEF ReadFrom
      <4>2. Unwritten(k, from)  
        <5>1. ASSUME NEW i \in 1..k, moves[i].target = from PROVE FALSE
          <6>1. i \in 1..l /\ k + 1 \in 1..l  BY <2>1
          <6>2. \E m \in 1..s : saved[m].source = moves[i].target  BY <1>b, <5>1, <6>1
          <6> QED  BY <3>2, <5>1, <6>2
        <5> QED  BY <5>1
      <4> QED  BY <2>2, <2>4, <4>1, <4>2
    <3> QED  BY <3>1, <3>2
  <2>6. \A i \in 1..k : moves[i].target # to /\ moves[i].target \in 1..n + s  BY <1>0, <1>b, <2>1, <2>4
  <2>7. \A i \in 1..k + 1 : i \in 1..k \/ i = k + 1  OBVIOUS
  <2>8. k + 1 \in 1..k + 1 /\ \A i \in 1..k : i \in 1..k + 1  OBVIOUS
  <2>9. f[k] \in Values(n + s, V)  BY <2>2
  <2> HIDE DEF read, to, from
  <2>10. f[k + 1] \in Values(n + s, V) /\ f[k + 1][to] = init[from] /\ \A x \in 1..n + s : x # to => f[k + 1][x] = f[k][x]
    <3>1. f[k + 1] \in Values(n + s, V) /\ f[k + 1][to] = f[k][read] /\ \A x \in 1..n + s : x # to => f[k + 1][x] = f[k][x]
      BY <2>3, <2>4, <2>5, <2>9, CopyIs
    <3> QED  BY <2>5, <3>1
  <2>11. \A i \in 1..s : f[k + 1][n + i] = init[saved[i].source]  BY <2>2, <2>4, <2>10
  <2>12. ASSUME NEW i \in 1..k + 1 PROVE f[k + 1][moves[i].target] = init[moves[i].source]
    <3>1. CASE i = k + 1  BY <2>10, <3>1 DEF to, from
    <3>2. CASE i # k + 1
      <4>1. i \in 1..k  BY <2>7, <3>2
      <4> QED  BY <2>2, <2>6, <2>10, <4>1
    <3> QED  BY <3>1, <3>2
  <2>13. ASSUME NEW id \in 1..n, Unwritten(k + 1, id) PROVE f[k + 1][id] = init[id]
    <3>1. id # to  BY <2>8, <2>13 DEF to
    <3>2. Unwritten(k, id)  BY <2>8, <2>13
    <3> QED  BY <2>2, <2>4, <2>10, <3>1, <3>2
  <2> QED  BY <2>10, <2>11, <2>12, <2>13 DEF Moved
<1> HIDE DEF S
<1>3. l \in S  BY <1>0, <1>1, <1>2, SetInduction
<1>4. Moved(l)  BY <1>0, <1>3 DEF S
<1> QED  BY <1>4 DEF Moved, AtOnce, l

\* The copies of an edge, done one after the other, do all its moves at once:
\* each target has what its source had before the first, though the source may
\* be the target of another move, and no other local of the function changes
\* (the snapshots "phi.copy" of ssa.go).
THEOREM CopiesAtOnce ==
  ASSUME NEW n \in Nat, NEW V, NEW moves \in Seq(Moves(n)), Apart(moves),
         NEW f, f[0] \in Values(n + Len(Snapshots(n, moves)), V),
         InTurn(Snapshots(n, moves) \o Redirected(Snapshots(n, moves), moves), f)
  PROVE  AtOnce(n, moves, f[0], f[Len(Snapshots(n, moves)) + Len(moves)])
<1> DEFINE saved == Snapshots(n, moves)
           s == Len(saved)
           l == Len(moves)
           turned == Redirected(saved, moves)
           copies == saved \o turned
           h == [k \in 0..l |-> f[s + k]]
<1>1. saved \in Seq(Saves(n)) /\ Fresh(n, saved) /\ Covered(saved, moves)  BY SnapshotsAre DEF Fresh, Covered
<1>a. f[0] \in Values(n + s, V) /\ InTurn(copies, f) /\ l \in Nat  OBVIOUS
<1> HIDE DEF saved
<1>0. s \in Nat  BY <1>1
<1>2. Len(turned) = l /\ IsList(turned)  BY RedirectedIs
<1> HIDE DEF turned, l
<1>4. /\ Len(copies) = s + l
      /\ \A k \in 1..s : copies[k] = saved[k]
      /\ \A k \in 1..l : copies[s + k] = turned[k]
  <2>0. PICK R : turned \in Seq(R)  BY <1>2 DEF IsList
  <2> DEFINE A == Saves(n) \cup R
  <2>1. saved \in Seq(A) /\ turned \in Seq(A)
    <3>1. Saves(n) \subseteq A /\ R \subseteq A  OBVIOUS
    <3> HIDE DEF A
    <3> QED  BY <1>1, <2>0, <3>1
  <2> HIDE DEF A
  <2>2. /\ Len(saved \o turned) = Len(saved) + Len(turned)
        /\ \A k \in 1..Len(saved) + Len(turned) :
             (saved \o turned)[k] = IF k <= Len(saved) THEN saved[k] ELSE turned[k - Len(saved)]
    BY <2>1, ConcatProperties
  <2>3. /\ Len(copies) = s + l
        /\ \A k \in 1..s + l : copies[k] = IF k <= s THEN saved[k] ELSE turned[k - s]
    BY <1>2, <2>2
  <2> HIDE DEF s, copies
  <2>4. \A k \in 1..s : k \in 1..s + l /\ k <= s  BY <1>0, <1>a
  <2>5. \A k \in 1..l : s + k \in 1..s + l /\ ~(s + k <= s) /\ (s + k) - s = k  BY <1>0, <1>a
  <2> QED  BY <2>3, <2>4, <2>5
<1> HIDE DEF copies, s
<1>5. \A k \in 1..s + l : Copied(f[k - 1], f[k], copies[k].target, copies[k].source)
  BY <1>4, <1>a DEF InTurn
<1>6. InTurn(saved, f)
  <2>1. \A k \in 1..s : k \in 1..s + l  BY <1>0, <1>a
  <2> QED  BY <1>4, <1>5, <2>1 DEF InTurn, s
<1>7. f[s] \in Values(n + s, V) /\ Snapped(n, saved, f[0], f[s])
  BY <1>1, <1>6, <1>a, SnapshotsSave DEF s
<1>8. h[0] = f[s] /\ h[l] = f[s + l] /\ \A k \in 1..l : h[k] = f[s + k] /\ h[k - 1] = f[(s + k) - 1] /\ s + k \in 1..s + l
  <2>1. 0 \in 0..l /\ l \in 0..l /\ s + 0 = s  BY <1>0, <1>a
  <2>2. \A k \in 1..l : k \in 0..l /\ k - 1 \in 0..l /\ s + (k - 1) = (s + k) - 1 /\ s + k \in 1..s + l  BY <1>0, <1>a
  <2> QED  BY <2>1, <2>2
<1> HIDE DEF h
<1>9. ASSUME NEW k \in 1..l PROVE Copied(h[k - 1], h[k], turned[k].target, turned[k].source)
  <2>1. Copied(f[(s + k) - 1], f[s + k], copies[s + k].target, copies[s + k].source)  BY <1>5, <1>8
  <2>2. copies[s + k] = turned[k]  BY <1>4
  <2>3. h[k] = f[s + k] /\ h[k - 1] = f[(s + k) - 1]  BY <1>8
  <2> QED  BY <2>1, <2>2, <2>3
<1>10. InTurn(turned, h)  BY <1>2, <1>9 DEF InTurn
<1>11. AtOnce(n, moves, f[0], h[l])
  BY <1>1, <1>7, <1>8, <1>10, MovesRead DEF s, l, turned
<1> QED  BY <1>8, <1>11 DEF s, l, saved

(***************************************************************************)
(* Uniting of locals.                                                      *)
(***************************************************************************)
States(n, graph) == [parent : [1..n -> 1..n], graph : SUBSET SUBSET ((1..n) \cup UNION graph)]

\* Each local has its own for a representative or a lower one of its width,
\* and the representatives of locals that interfere do so.
Stands(n, graph, width, u) ==
  /\ \A a \in 1..n : u.parent[u.parent[a]] = u.parent[a] /\ u.parent[a] <= a /\ width[u.parent[a]] = width[a]
  /\ \A a, b \in 1..n : Interfere(graph, a, b) => Interfere(u.graph, u.parent[a], u.parent[b])

LEMMA NeighboursAre ==
  ASSUME NEW graph, NEW a, NEW b
  PROVE  Interfere(graph, a, b) => b \in Neighbours(graph, a)
<1> SUFFICES ASSUME Interfere(graph, a, b) PROVE b \in Neighbours(graph, a)  OBVIOUS
<1>1. {a, b} \in {edge \in graph : a \in edge} /\ b # a  BY DEF Interfere
<1>2. b \in UNION {edge \in graph : a \in edge}  BY <1>1
<1> QED  BY <1>1, <1>2 DEF Neighbours

LEMMA UniteKeeps ==
  ASSUME NEW n \in Nat, NEW graph, NEW width, NEW u \in States(n, graph), Stands(n, graph, width, u),
         NEW copy \in Moves(n), width[copy.target] = width[copy.source]
  PROVE  Unite(u, copy) \in States(n, graph) /\ Stands(n, graph, width, Unite(u, copy))
<1> DEFINE p == u.parent
           G == u.graph
           x == p[copy.target]
           y == p[copy.source]
           low == IF x < y THEN x ELSE y
           high == IF x < y THEN y ELSE x
           q == [id \in DOMAIN p |-> IF p[id] = high THEN low ELSE p[id]]
           H == G \cup EdgesOf(low, Neighbours(G, high))
           united == [parent |-> q, graph |-> H]
           U == (1..n) \cup UNION graph
<1>0. p \in [1..n -> 1..n] /\ G \in SUBSET SUBSET U /\ copy.target \in 1..n /\ copy.source \in 1..n
  BY DEF States, Moves
<1>1. Unite(u, copy) = IF x = y \/ {x, y} \in G THEN u ELSE united  BY DEF Unite
<1>2. CASE x = y \/ {x, y} \in G  BY <1>1, <1>2
<1>3. CASE ~(x = y \/ {x, y} \in G)
  <2>1. /\ \A a \in 1..n : p[a] \in 1..n /\ p[p[a]] = p[a] /\ p[a] <= a /\ width[p[a]] = width[a]
        /\ \A a, b \in 1..n : Interfere(graph, a, b) => Interfere(G, p[a], p[b])
    BY <1>0 DEF Stands
  <2>2. x \in 1..n /\ y \in 1..n /\ p[x] = x /\ p[y] = y /\ width[x] = width[y]  BY <1>0, <2>1
  <2> HIDE DEF p, G, x, y
  <2>3. /\ low \in 1..n /\ high \in 1..n /\ low <= high /\ low # high /\ p[low] = low /\ p[high] = high
        /\ width[low] = width[high] /\ {low, high} \notin G
    <3>1. CASE x < y  BY <1>3, <2>2, <3>1
    <3>2. CASE ~(x < y)
      <4>1. {x, y} = {y, x}  OBVIOUS
      <4>2. low = y /\ high = x /\ y < x  BY <1>3, <2>2, <3>2
      <4> QED  BY <1>3, <2>2, <4>1, <4>2
    <3> QED  BY <3>1, <3>2
  <2> HIDE DEF low, high
  <2>4. q = [id \in 1..n |-> IF p[id] = high THEN low ELSE p[id]]  BY <1>0
  <2>5. q \in [1..n -> 1..n] /\ \A id \in 1..n : q[id] = IF p[id] = high THEN low ELSE p[id]  BY <2>1, <2>3, <2>4
  <2>6. H \in SUBSET SUBSET U
    <3>1. low \in U /\ Neighbours(G, high) \subseteq U  BY <1>0, <2>3 DEF Neighbours
    <3> HIDE DEF U
    <3>2. EdgesOf(low, Neighbours(G, high)) \in SUBSET SUBSET U  BY <3>1 DEF EdgesOf
    <3> QED  BY <1>0, <3>2
  <2>7. G \subseteq H /\ \A z : Interfere(G, high, z) /\ z # low => Interfere(H, low, z)
    <3>1. ASSUME NEW z, Interfere(G, high, z), z # low PROVE Interfere(H, low, z)
      <4>1. z \in Neighbours(G, high) \ {low}  BY <3>1, NeighboursAre
      <4>2. {low, z} \in EdgesOf(low, Neighbours(G, high))  BY <4>1 DEF EdgesOf
      <4> QED  BY <3>1, <4>2 DEF Interfere
    <3> QED  BY <3>1
  <2>8. \A c, d : (Interfere(G, c, d) => Interfere(G, d, c)) /\ (Interfere(H, c, d) => Interfere(H, d, c))
    <3>1. \A c, d : {c, d} = {d, c}  OBVIOUS
    <3> QED  BY <3>1 DEF Interfere
  <2> HIDE DEF q, H, U
  <2>9. united \in States(n, graph)  BY <2>5, <2>6 DEF States, U
  <2>10. ASSUME NEW a \in 1..n PROVE q[q[a]] = q[a] /\ q[a] <= a /\ width[q[a]] = width[a]
    <3>1. p[a] \in 1..n /\ p[p[a]] = p[a] /\ p[a] <= a /\ width[p[a]] = width[a]  BY <2>1
    <3>2. CASE p[a] = high
      <4>1. q[a] = low /\ q[low] = low  BY <2>3, <2>5, <3>2
      <4>2. low <= a  BY <2>3, <3>1, <3>2
      <4> QED  BY <2>3, <3>1, <3>2, <4>1, <4>2
    <3>3. CASE p[a] # high  BY <2>5, <3>1, <3>3
    <3> QED  BY <3>2, <3>3
  <2>11. ASSUME NEW a \in 1..n, NEW b \in 1..n, Interfere(graph, a, b) PROVE Interfere(H, q[a], q[b])
    <3> DEFINE c == p[a]
               d == p[b]
    <3>1. Interfere(G, c, d) /\ c # d  BY <2>1, <2>11 DEF Interfere
    <3>2. /\ q[a] = (IF c = high THEN low ELSE c)
          /\ q[b] = (IF d = high THEN low ELSE d)
      BY <2>5
    <3> HIDE DEF c, d
    <3>3. ~Interfere(G, high, low)
      <4>1. {low, high} = {high, low}  OBVIOUS
      <4> QED  BY <2>3, <4>1 DEF Interfere
    <3>4. CASE c = high
      <4>1. d # high /\ d # low  BY <3>1, <3>3, <3>4
      <4> QED  BY <2>7, <3>1, <3>2, <3>4, <4>1
    <3>5. CASE d = high
      <4>1. c # high /\ Interfere(G, high, c)  BY <2>8, <3>1, <3>5
      <4>2. c # low  BY <3>3, <4>1
      <4>3. Interfere(H, low, c)  BY <2>7, <4>1, <4>2
      <4> QED  BY <2>8, <3>2, <3>5, <4>1, <4>3
    <3>6. CASE c # high /\ d # high  BY <2>7, <3>1, <3>2, <3>6 DEF Interfere
    <3> QED  BY <3>4, <3>5, <3>6
  <2>12. united.parent = q /\ united.graph = H  OBVIOUS
  <2> HIDE DEF united
  <2>13. Stands(n, graph, width, united)  BY <2>10, <2>11, <2>12 DEF Stands
  <2> QED  BY <1>1, <1>3, <2>9, <2>13 DEF x, y, G
<1> QED  BY <1>2, <1>3

\* Locals that interfere never become one, directly or through others, and
\* those that stand for them interfere in the graph that is passed on, whatever
\* the copies are; a local stands for locals of its own width only
\* (CopyCoalesce.Run).
THEOREM UnitedApart ==
  ASSUME NEW n \in Nat, NEW graph \in SUBSET SUBSET (1..n), NEW copies \in Seq(Moves(n)), NEW width,
         \A i \in 1..Len(copies) : width[copies[i].target] = width[copies[i].source]
  PROVE  /\ United(n, graph, copies) \in States(n, graph)
         /\ Stands(n, graph, width, United(n, graph, copies))
<1> DEFINE l == Len(copies)
           first == [parent |-> [id \in 1..n |-> id], graph |-> graph]
           X == {u \in States(n, graph) : Stands(n, graph, width, u)}
           next == [r \in X \X (1..l) |-> Unite(r[1], copies[r[2]])]
           Recursive(f) == f = [k \in 0..l |-> IF k = 0 THEN first ELSE Unite(f[k - 1], copies[k])]
<1>0. l \in Nat /\ \A k \in 1..l : copies[k] \in Moves(n) /\ width[copies[k].target] = width[copies[k].source]  OBVIOUS
<1>1. first \in X
  <2>1. \A a \in 1..n : [id \in 1..n |-> id][a] = a  OBVIOUS
  <2>2. first.parent = [id \in 1..n |-> id] /\ first.graph = graph  OBVIOUS
  <2>3. first \in States(n, graph)
    <3>1. [id \in 1..n |-> id] \in [1..n -> 1..n]  OBVIOUS
    <3>2. graph \in SUBSET SUBSET ((1..n) \cup UNION graph)  OBVIOUS
    <3> QED  BY <3>1, <3>2 DEF States
  <2> HIDE DEF first
  <2>4. \A a \in 1..n : first.parent[a] = a  BY <2>1, <2>2
  <2>5. Stands(n, graph, width, first)  BY <2>2, <2>4 DEF Stands
  <2> QED  BY <2>3, <2>5
<1>2. ASSUME NEW u \in X, NEW k \in 1..l PROVE Unite(u, copies[k]) \in X  BY <1>0, UniteKeeps
<1> HIDE DEF X, l, first
<1>3. next \in [X \X (1..l) -> X] /\ \A u \in X, k \in 1..l : next[<<u, k>>] = Unite(u, copies[k])  BY <1>2
<1> HIDE DEF next
<1>4. PICK f \in [0..l -> X] : Scans(f, l, first, next)  BY <1>0, <1>1, <1>3, ScanExists
<1>5. Recursive(f)
  <2>1. ASSUME NEW m \in 0..l PROVE f[m] = IF m = 0 THEN first ELSE Unite(f[m - 1], copies[m])
    <3>1. CASE m = 0  BY <1>4, <3>1 DEF Scans
    <3>2. CASE m # 0
      <4>1. m \in 1..l /\ m - 1 \in 0..l  BY <1>0, <3>2
      <4>2. f[m] = next[<<f[m - 1], m>>] /\ f[m - 1] \in X  BY <1>4, <4>1 DEF Scans
      <4>3. next[<<f[m - 1], m>>] = Unite(f[m - 1], copies[m])  BY <1>3, <4>1, <4>2
      <4> QED  BY <3>2, <4>2, <4>3
    <3> QED  BY <3>1, <3>2
  <2> QED  BY <1>4, <2>1
<1> DEFINE g == CHOOSE h : Recursive(h)
<1>6. Recursive(g)  BY <1>5
<1>7. United(n, graph, copies) = g[l]  BY DEF United, l, first
<1> HIDE DEF g
<1>8. g[0] = first /\ \A m \in 1..l : g[m] = Unite(g[m - 1], copies[m])
  <2>1. \A m \in 0..l : g[m] = IF m = 0 THEN first ELSE Unite(g[m - 1], copies[m])  BY <1>6
  <2>2. \A m \in 1..l : m \in 0..l /\ m # 0  BY <1>0
  <2>3. 0 \in 0..l  BY <1>0
  <2> QED  BY <2>1, <2>2, <2>3
<1> DEFINE S == {m \in Nat : m <= l => g[m] \in X}
<1>9. 0 \in S  BY <1>1, <1>8
<1>10. ASSUME NEW m \in Nat, m \in S PROVE m + 1 \in S
  <2> SUFFICES ASSUME m + 1 <= l PROVE g[m + 1] \in X  OBVIOUS
  <2>1. m + 1 \in 1..l /\ (m + 1) - 1 = m /\ m <= l  BY <1>0
  <2>2. g[m + 1] = Unite(g[m], copies[m + 1])
    <3>1. g[m + 1] = Unite(g[(m + 1) - 1], copies[m + 1])  BY <1>8, <2>1
    <3> QED  BY <2>1, <3>1
  <2> QED  BY <1>2, <1>10, <2>1, <2>2
<1> HIDE DEF S
<1>11. l \in S  BY <1>0, <1>9, <1>10, SetInduction
<1>12. g[l] \in X  BY <1>0, <1>11 DEF S
<1> QED  BY <1>7, <1>12 DEF X
=============================================================================
