-------------------------- MODULE ContainersProofs --------------------------
(***************************************************************************)
(* The containers keep their promises for every capacity and every set of  *)
(* elements, keys and values: an ArrayMap implements a map, an ArraySet a  *)
(* set and a VarArray a sequence.                                          *)
(***************************************************************************)
EXTENDS Containers, FiniteSetTheorems, SequenceTheorems, WellFoundedInduction, TLAPS

-----------------------------------------------------------------------------
(***************************************************************************)
(* Induction over the naturals, as: a set with 0 and closed under          *)
(* successor has every natural.                                            *)
(***************************************************************************)
LessThan == {pair \in Nat \X Nat : pair[1] < pair[2]}

LEMMA LessThanWellFounded == IsWellFoundedOn(LessThan, Nat)
BY NatLessThanWellFounded DEF OpToRel, LessThan

LEMMA LeastNat ==
  ASSUME NEW T, T \subseteq Nat, T # {}
  PROVE  \E n \in T : \A m \in T : n <= m
<1>1. PICK n \in T : \A m \in T : ~(<<m, n>> \in LessThan)
  BY LessThanWellFounded, WFMin
<1>2. ASSUME NEW m \in T PROVE n <= m
  <2>1. m \in Nat /\ n \in Nat  OBVIOUS
  <2>2. ~(m < n)  BY <1>1, <2>1 DEF LessThan
  <2> QED  BY <2>1, <2>2
<1> QED  BY <1>2

LEMMA SetInduction ==
  ASSUME NEW S, 0 \in S, \A n \in Nat : n \in S => n + 1 \in S
  PROVE  \A n \in Nat : n \in S
<1> SUFFICES ASSUME Nat \ S # {} PROVE FALSE  OBVIOUS
<1>1. PICK n \in Nat \ S : \A m \in Nat \ S : n <= m  BY LeastNat
<1>2. n - 1 \in Nat /\ n - 1 \in S  BY <1>1
<1> QED  BY <1>1, <1>2

-----------------------------------------------------------------------------
(***************************************************************************)
(* What the loops that only read find.  A scan is a recursive function: it *)
(* exists, so the chosen one satisfies its equations.                      *)
(***************************************************************************)
Scans(f, n, start, next) ==
  /\ f[0] = start
  /\ \A m \in 1..n : f[m] = next[<<f[m - 1], m - 1>>]

LEMMA ScanExists ==
  ASSUME NEW n \in Nat, NEW X, NEW start \in X, NEW next \in [X \X (0..n - 1) -> X]
  PROVE  \E f \in [0..n -> X] : Scans(f, n, start, next)
<1> DEFINE S == {m \in Nat : m <= n => \E f \in [0..m -> X] : Scans(f, m, start, next)}
<1>1. 0 \in S
  <2>1. [m \in 0..0 |-> start] \in [0..0 -> X]  OBVIOUS
  <2>2. Scans([m \in 0..0 |-> start], 0, start, next)  BY DEF Scans
  <2> QED  BY <2>1, <2>2
<1>2. ASSUME NEW m \in Nat, m \in S PROVE m + 1 \in S
  <2> SUFFICES ASSUME m + 1 <= n
               PROVE  \E f \in [0..m + 1 -> X] : Scans(f, m + 1, start, next)
    OBVIOUS
  <2>1. PICK f \in [0..m -> X] : Scans(f, m, start, next)  BY <1>2
  <2>2. f[m] \in X /\ m \in 0..n - 1  OBVIOUS
  <2>3. next[<<f[m], m>>] \in X  BY <2>2
  <2> DEFINE g == [i \in 0..m + 1 |-> IF i = m + 1 THEN next[<<f[m], m>>] ELSE f[i]]
  <2>4. g \in [0..m + 1 -> X]  BY <2>3
  <2>5. g[m + 1] = next[<<f[m], m>>] /\ \A i \in 0..m : g[i] = f[i]  OBVIOUS
  <2> HIDE DEF g
  <2>6. ASSUME NEW i \in 1..m + 1 PROVE g[i] = next[<<g[i - 1], i - 1>>]
    <3>1. CASE i = m + 1
      <4>1. i - 1 = m /\ g[i - 1] = f[m]  BY <2>5, <3>1
      <4> QED  BY <2>5, <3>1, <4>1
    <3>2. CASE i # m + 1
      <4>1. i \in 1..m /\ i \in 0..m /\ i - 1 \in 0..m  BY <3>2
      <4>2. g[i] = f[i] /\ g[i - 1] = f[i - 1]  BY <2>5, <4>1
      <4>3. f[i] = next[<<f[i - 1], i - 1>>]  BY <2>1, <4>1 DEF Scans
      <4> QED  BY <4>2, <4>3
    <3> QED  BY <3>1, <3>2
  <2>7. Scans(g, m + 1, start, next)  BY <2>1, <2>5, <2>6 DEF Scans
  <2> QED  BY <2>4, <2>7
<1> HIDE DEF S
<1>3. n \in S  BY <1>1, <1>2, SetInduction
<1> QED  BY <1>3 DEF S

\* A scan that stops at the first hit.
FirstHits(f, n, hits) ==
  /\ f[0] = -1
  /\ \A m \in 1..n : f[m] = IF f[m - 1] = -1 /\ m - 1 \in hits THEN m - 1 ELSE f[m - 1]
IsFirst(i, n, hits) ==
  \/ i = -1 /\ \A j \in 0..n - 1 : j \notin hits
  \/ i \in 0..n - 1 /\ i \in hits /\ \A j \in 0..i - 1 : j \notin hits

LEMMA FirstHitExists ==
  ASSUME NEW n \in Nat, NEW hits
  PROVE  \E f \in [0..n -> Int] : FirstHits(f, n, hits)
<1> DEFINE next == [p \in Int \X (0..n - 1) |-> IF p[1] = -1 /\ p[2] \in hits THEN p[2] ELSE p[1]]
<1>1. -1 \in Int /\ next \in [Int \X (0..n - 1) -> Int]  OBVIOUS
<1>2. ASSUME NEW x \in Int, NEW i \in 0..n - 1
      PROVE  next[<<x, i>>] = IF x = -1 /\ i \in hits THEN i ELSE x
  OBVIOUS
<1> HIDE DEF next
<1>3. PICK f \in [0..n -> Int] : Scans(f, n, -1, next)  BY <1>1, ScanExists
<1>4. ASSUME NEW m \in 1..n
      PROVE  f[m] = IF f[m - 1] = -1 /\ m - 1 \in hits THEN m - 1 ELSE f[m - 1]
  <2>1. m - 1 \in 0..n - 1 /\ m - 1 \in 0..n /\ f[m - 1] \in Int  OBVIOUS
  <2> QED  BY <1>2, <1>3, <2>1 DEF Scans
<1> QED  BY <1>3, <1>4 DEF Scans, FirstHits

LEMMA FirstHitIs ==
  ASSUME NEW n \in Nat, NEW hits, NEW f, FirstHits(f, n, hits)
  PROVE  IsFirst(f[n], n, hits)
<1> DEFINE S == {m \in Nat : m <= n => IsFirst(f[m], m, hits)}
<1>1. 0 \in S  BY DEF FirstHits, IsFirst
<1>2. ASSUME NEW m \in Nat, m \in S PROVE m + 1 \in S
  <2> SUFFICES ASSUME m + 1 <= n PROVE IsFirst(f[m + 1], m + 1, hits)  OBVIOUS
  <2>1. IsFirst(f[m], m, hits)  BY <1>2
  <2>2. m + 1 \in 1..n /\ (m + 1) - 1 = m  OBVIOUS
  <2>3. f[m + 1] = IF f[m] = -1 /\ m \in hits THEN m ELSE f[m]  BY <2>2 DEF FirstHits
  <2> QED  BY <2>1, <2>3 DEF IsFirst
<1> HIDE DEF S
<1>3. n \in S  BY <1>1, <1>2, SetInduction
<1> QED  BY <1>3 DEF S

LEMMA FindKeyIs ==
  ASSUME size \in Nat, NEW k
  PROVE  IsFirst(FindKey(k), size, {i \in 0..size - 1 : cells[i].key = k})
<1> DEFINE hits == {i \in 0..size - 1 : cells[i].key = k}
           Recursive(f) == f = [n \in 0..size |-> IF n = 0 THEN -1
                                  ELSE IF f[n - 1] = -1 /\ cells[n - 1].key = k THEN n - 1 ELSE f[n - 1]]
<1>1. PICK f \in [0..size -> Int] : FirstHits(f, size, hits)  BY FirstHitExists
<1>2. Recursive(f)
  <2>1. ASSUME NEW n \in 0..size
        PROVE  f[n] = IF n = 0 THEN -1
                      ELSE IF f[n - 1] = -1 /\ cells[n - 1].key = k THEN n - 1 ELSE f[n - 1]
    <3>1. CASE n = 0  BY <1>1, <3>1 DEF FirstHits
    <3>2. CASE n # 0
      <4>1. n \in 1..size /\ (n - 1 \in hits <=> cells[n - 1].key = k)  BY <3>2
      <4> QED  BY <1>1, <3>2, <4>1 DEF FirstHits
    <3> QED  BY <3>1, <3>2
  <2> QED  BY <2>1
<1> DEFINE g == CHOOSE h : Recursive(h)
<1>3. Recursive(g)  BY <1>2
<1>4. FindKey(k) = g[size]  BY DEF FindKey, Scan
<1>5. FirstHits(g, size, hits)
  <2> HIDE DEF g
  <2>1. \A n \in 0..size : g[n] = IF n = 0 THEN -1
                      ELSE IF g[n - 1] = -1 /\ cells[n - 1].key = k THEN n - 1 ELSE g[n - 1]
    BY <1>3
  <2>2. ASSUME NEW m \in 1..size
        PROVE  g[m] = IF g[m - 1] = -1 /\ m - 1 \in hits THEN m - 1 ELSE g[m - 1]
    <3>1. m \in 0..size /\ m # 0 /\ (m - 1 \in hits <=> cells[m - 1].key = k)  OBVIOUS
    <3> QED  BY <2>1, <3>1
  <2> QED  BY <2>1, <2>2 DEF FirstHits
<1> HIDE DEF g, hits
<1>6. IsFirst(g[size], size, hits)  BY <1>5, FirstHitIs
<1> QED  BY <1>4, <1>6 DEF hits

LEMMA FindIs ==
  ASSUME size \in Nat, NEW v
  PROVE  IsFirst(Find(v), size, {i \in 0..size - 1 : cells[i] = v})
<1> DEFINE hits == {i \in 0..size - 1 : cells[i] = v}
           Recursive(f) == f = [n \in 0..size |-> IF n = 0 THEN -1
                                  ELSE IF f[n - 1] = -1 /\ cells[n - 1] = v THEN n - 1 ELSE f[n - 1]]
<1>1. PICK f \in [0..size -> Int] : FirstHits(f, size, hits)  BY FirstHitExists
<1>2. Recursive(f)
  <2>1. ASSUME NEW n \in 0..size
        PROVE  f[n] = IF n = 0 THEN -1
                      ELSE IF f[n - 1] = -1 /\ cells[n - 1] = v THEN n - 1 ELSE f[n - 1]
    <3>1. CASE n = 0  BY <1>1, <3>1 DEF FirstHits
    <3>2. CASE n # 0
      <4>1. n \in 1..size /\ (n - 1 \in hits <=> cells[n - 1] = v)  BY <3>2
      <4> QED  BY <1>1, <3>2, <4>1 DEF FirstHits
    <3> QED  BY <3>1, <3>2
  <2> QED  BY <2>1
<1> DEFINE g == CHOOSE h : Recursive(h)
<1>3. Recursive(g)  BY <1>2
<1>4. Find(v) = g[size]  BY DEF Find, Scan
<1>5. FirstHits(g, size, hits)
  <2> HIDE DEF g
  <2>1. \A n \in 0..size : g[n] = IF n = 0 THEN -1
                      ELSE IF g[n - 1] = -1 /\ cells[n - 1] = v THEN n - 1 ELSE g[n - 1]
    BY <1>3
  <2>2. ASSUME NEW m \in 1..size
        PROVE  g[m] = IF g[m - 1] = -1 /\ m - 1 \in hits THEN m - 1 ELSE g[m - 1]
    <3>1. m \in 0..size /\ m # 0 /\ (m - 1 \in hits <=> cells[m - 1] = v)  OBVIOUS
    <3> QED  BY <2>1, <3>1
  <2> QED  BY <2>1, <2>2 DEF FirstHits
<1> HIDE DEF g, hits
<1>6. IsFirst(g[size], size, hits)  BY <1>5, FirstHitIs
<1> QED  BY <1>4, <1>6 DEF hits

-----------------------------------------------------------------------------
(***************************************************************************)
(* The other loops that only read: the last of the hits, their number, and *)
(* the first of the least weights.                                         *)
(***************************************************************************)
LastHits(f, n, hits) ==
  /\ f[0] = -1
  /\ \A m \in 1..n : f[m] = IF m - 1 \in hits THEN m - 1 ELSE f[m - 1]
IsLast(i, n, hits) ==
  \/ i = -1 /\ \A j \in 0..n - 1 : j \notin hits
  \/ i \in 0..n - 1 /\ i \in hits /\ \A j \in i + 1..n - 1 : j \notin hits

LEMMA LastHitExists ==
  ASSUME NEW n \in Nat, NEW hits
  PROVE  \E f \in [0..n -> Int] : LastHits(f, n, hits)
<1> DEFINE next == [p \in Int \X (0..n - 1) |-> IF p[2] \in hits THEN p[2] ELSE p[1]]
<1>1. -1 \in Int /\ next \in [Int \X (0..n - 1) -> Int]  OBVIOUS
<1>2. ASSUME NEW x \in Int, NEW i \in 0..n - 1
      PROVE  next[<<x, i>>] = IF i \in hits THEN i ELSE x
  OBVIOUS
<1> HIDE DEF next
<1>3. PICK f \in [0..n -> Int] : Scans(f, n, -1, next)  BY <1>1, ScanExists
<1>4. ASSUME NEW m \in 1..n
      PROVE  f[m] = IF m - 1 \in hits THEN m - 1 ELSE f[m - 1]
  <2>1. m - 1 \in 0..n - 1 /\ m - 1 \in 0..n /\ f[m - 1] \in Int  OBVIOUS
  <2> QED  BY <1>2, <1>3, <2>1 DEF Scans
<1> QED  BY <1>3, <1>4 DEF Scans, LastHits

LEMMA LastHitIs ==
  ASSUME NEW n \in Nat, NEW hits, NEW f, LastHits(f, n, hits)
  PROVE  IsLast(f[n], n, hits)
<1> DEFINE S == {m \in Nat : m <= n => IsLast(f[m], m, hits)}
<1>1. 0 \in S  BY DEF LastHits, IsLast
<1>2. ASSUME NEW m \in Nat, m \in S PROVE m + 1 \in S
  <2> SUFFICES ASSUME m + 1 <= n PROVE IsLast(f[m + 1], m + 1, hits)  OBVIOUS
  <2>1. IsLast(f[m], m, hits)  BY <1>2
  <2>2. m + 1 \in 1..n /\ (m + 1) - 1 = m  OBVIOUS
  <2>3. f[m + 1] = IF m \in hits THEN m ELSE f[m]  BY <2>2 DEF LastHits
  <2>4. CASE m \in hits  BY <2>3, <2>4 DEF IsLast
  <2>5. CASE m \notin hits  BY <2>1, <2>3, <2>5 DEF IsLast
  <2> QED  BY <2>4, <2>5
<1> HIDE DEF S
<1>3. n \in S  BY <1>1, <1>2, SetInduction
<1> QED  BY <1>3 DEF S

LastOf(v) == Scan(LAMBDA last, i : IF cells[i] = v THEN i ELSE last, -1)
LEMMA LastIs ==
  ASSUME size \in Nat, NEW v
  PROVE  IsLast(LastOf(v), size, {i \in 0..size - 1 : cells[i] = v})
<1> DEFINE hits == {i \in 0..size - 1 : cells[i] = v}
           Recursive(f) == f = [n \in 0..size |-> IF n = 0 THEN -1
                                  ELSE IF cells[n - 1] = v THEN n - 1 ELSE f[n - 1]]
<1>1. PICK f \in [0..size -> Int] : LastHits(f, size, hits)  BY LastHitExists
<1>2. Recursive(f)
  <2>1. ASSUME NEW n \in 0..size
        PROVE  f[n] = IF n = 0 THEN -1 ELSE IF cells[n - 1] = v THEN n - 1 ELSE f[n - 1]
    <3>1. CASE n = 0  BY <1>1, <3>1 DEF LastHits
    <3>2. CASE n # 0
      <4>1. n \in 1..size /\ (n - 1 \in hits <=> cells[n - 1] = v)  BY <3>2
      <4> QED  BY <1>1, <3>2, <4>1 DEF LastHits
    <3> QED  BY <3>1, <3>2
  <2> QED  BY <2>1
<1> DEFINE g == CHOOSE h : Recursive(h)
<1>3. Recursive(g)  BY <1>2
<1>4. LastOf(v) = g[size]  BY DEF LastOf, Scan
<1>5. LastHits(g, size, hits)
  <2> HIDE DEF g
  <2>1. \A n \in 0..size :
          g[n] = IF n = 0 THEN -1 ELSE IF cells[n - 1] = v THEN n - 1 ELSE g[n - 1]
    BY <1>3
  <2>2. ASSUME NEW m \in 1..size
        PROVE  g[m] = IF m - 1 \in hits THEN m - 1 ELSE g[m - 1]
    <3>1. m \in 0..size /\ m # 0 /\ (m - 1 \in hits <=> cells[m - 1] = v)  OBVIOUS
    <3> QED  BY <2>1, <3>1
  <2> QED  BY <2>1, <2>2 DEF LastHits
<1> HIDE DEF g, hits
<1>6. IsLast(g[size], size, hits)  BY <1>5, LastHitIs
<1> QED  BY <1>4, <1>6 DEF hits

Counts(f, n, hits) ==
  /\ f[0] = 0
  /\ \A m \in 1..n : f[m] = IF m - 1 \in hits THEN f[m - 1] + 1 ELSE f[m - 1]

LEMMA CountExists ==
  ASSUME NEW n \in Nat, NEW hits
  PROVE  \E f \in [0..n -> Nat] : Counts(f, n, hits)
<1> DEFINE next == [p \in Nat \X (0..n - 1) |-> IF p[2] \in hits THEN p[1] + 1 ELSE p[1]]
<1>1. 0 \in Nat /\ next \in [Nat \X (0..n - 1) -> Nat]  OBVIOUS
<1>2. ASSUME NEW x \in Nat, NEW i \in 0..n - 1
      PROVE  next[<<x, i>>] = IF i \in hits THEN x + 1 ELSE x
  OBVIOUS
<1> HIDE DEF next
<1>3. PICK f \in [0..n -> Nat] : Scans(f, n, 0, next)  BY <1>1, ScanExists
<1>4. ASSUME NEW m \in 1..n
      PROVE  f[m] = IF m - 1 \in hits THEN f[m - 1] + 1 ELSE f[m - 1]
  <2>1. m - 1 \in 0..n - 1 /\ m - 1 \in 0..n /\ f[m - 1] \in Nat  OBVIOUS
  <2> QED  BY <1>2, <1>3, <2>1 DEF Scans
<1> QED  BY <1>3, <1>4 DEF Scans, Counts

LEMMA CountIs ==
  ASSUME NEW n \in Nat, NEW hits, NEW f, Counts(f, n, hits)
  PROVE  f[n] = Cardinality({i \in 0..n - 1 : i \in hits})
<1> DEFINE T(m) == {i \in 0..m - 1 : i \in hits}
           S == {m \in Nat : m <= n => IsFiniteSet(T(m)) /\ f[m] = Cardinality(T(m))}
<1>1. 0 \in S
  <2>1. T(0) = {}  OBVIOUS
  <2> QED  BY <2>1, FS_EmptySet DEF Counts
<1>2. ASSUME NEW m \in Nat, m \in S PROVE m + 1 \in S
  <2> SUFFICES ASSUME m + 1 <= n
               PROVE  IsFiniteSet(T(m + 1)) /\ f[m + 1] = Cardinality(T(m + 1))
    OBVIOUS
  <2>1. IsFiniteSet(T(m)) /\ f[m] = Cardinality(T(m))  BY <1>2
  <2>2. m + 1 \in 1..n /\ (m + 1) - 1 = m  OBVIOUS
  <2>3. f[m + 1] = IF m \in hits THEN f[m] + 1 ELSE f[m]  BY <2>2 DEF Counts
  <2>4. m \notin T(m) /\ T(m + 1) = IF m \in hits THEN T(m) \cup {m} ELSE T(m)  OBVIOUS
  <2> HIDE DEF T
  <2>5. IsFiniteSet(T(m) \cup {m}) /\ Cardinality(T(m) \cup {m}) = Cardinality(T(m)) + 1
    BY <2>1, <2>4, FS_AddElement
  <2> QED  BY <2>1, <2>3, <2>4, <2>5
<1> HIDE DEF S
<1>3. n \in S  BY <1>1, <1>2, SetInduction
<1> QED  BY <1>3 DEF S

CountOf(v) == Scan(LAMBDA n, i : IF cells[i] = v THEN n + 1 ELSE n, 0)
LEMMA CountOfIs ==
  ASSUME size \in Nat, NEW v
  PROVE  CountOf(v) = Cardinality({i \in 0..size - 1 : cells[i] = v})
<1> DEFINE hits == {i \in 0..size - 1 : cells[i] = v}
           Recursive(f) == f = [n \in 0..size |-> IF n = 0 THEN 0
                                  ELSE IF cells[n - 1] = v THEN f[n - 1] + 1 ELSE f[n - 1]]
<1>1. PICK f \in [0..size -> Nat] : Counts(f, size, hits)  BY CountExists
<1>2. Recursive(f)
  <2>1. ASSUME NEW n \in 0..size
        PROVE  f[n] = IF n = 0 THEN 0 ELSE IF cells[n - 1] = v THEN f[n - 1] + 1 ELSE f[n - 1]
    <3>1. CASE n = 0  BY <1>1, <3>1 DEF Counts
    <3>2. CASE n # 0
      <4>1. n \in 1..size /\ (n - 1 \in hits <=> cells[n - 1] = v)  BY <3>2
      <4> QED  BY <1>1, <3>2, <4>1 DEF Counts
    <3> QED  BY <3>1, <3>2
  <2> QED  BY <2>1
<1> DEFINE g == CHOOSE h : Recursive(h)
<1>3. Recursive(g)  BY <1>2
<1>4. CountOf(v) = g[size]  BY DEF CountOf, Scan
<1>5. Counts(g, size, hits)
  <2> HIDE DEF g
  <2>1. \A n \in 0..size :
          g[n] = IF n = 0 THEN 0 ELSE IF cells[n - 1] = v THEN g[n - 1] + 1 ELSE g[n - 1]
    BY <1>3
  <2>2. ASSUME NEW m \in 1..size
        PROVE  g[m] = IF m - 1 \in hits THEN g[m - 1] + 1 ELSE g[m - 1]
    <3>1. m \in 0..size /\ m # 0 /\ (m - 1 \in hits <=> cells[m - 1] = v)  OBVIOUS
    <3> QED  BY <2>1, <3>1
  <2> QED  BY <2>1, <2>2 DEF Counts
<1> HIDE DEF g
<1>6. {i \in 0..size - 1 : i \in hits} = hits  OBVIOUS
<1> HIDE DEF hits
<1>7. g[size] = Cardinality(hits)  BY <1>5, <1>6, CountIs
<1> QED  BY <1>4, <1>7 DEF hits

Leasts(f, n, w) ==
  /\ f[0] = -1
  /\ \A m \in 1..n : f[m] = IF f[m - 1] < 0 \/ w[m - 1] < w[f[m - 1]] THEN m - 1 ELSE f[m - 1]
IsLeast(i, n, w) ==
  \/ i = -1 /\ n = 0
  \/ /\ i \in 0..n - 1
     /\ \A j \in 0..n - 1 : w[i] <= w[j]
     /\ \A j \in 0..i - 1 : w[i] < w[j]

LEMMA LeastExists ==
  ASSUME NEW n \in Nat, NEW w
  PROVE  \E f \in [0..n -> -1..n - 1] : Leasts(f, n, w)
<1> DEFINE X == -1..n - 1
           next == [p \in X \X (0..n - 1) |-> IF p[1] < 0 \/ w[p[2]] < w[p[1]] THEN p[2] ELSE p[1]]
<1>1. -1 \in X /\ next \in [X \X (0..n - 1) -> X]  OBVIOUS
<1>2. ASSUME NEW x \in X, NEW i \in 0..n - 1
      PROVE  next[<<x, i>>] = IF x < 0 \/ w[i] < w[x] THEN i ELSE x
  OBVIOUS
<1> HIDE DEF next
<1>3. PICK f \in [0..n -> X] : Scans(f, n, -1, next)
  <2> HIDE DEF X
  <2> QED  BY <1>1, ScanExists
<1>4. ASSUME NEW m \in 1..n
      PROVE  f[m] = IF f[m - 1] < 0 \/ w[m - 1] < w[f[m - 1]] THEN m - 1 ELSE f[m - 1]
  <2>1. m - 1 \in 0..n - 1 /\ m - 1 \in 0..n /\ f[m - 1] \in X  OBVIOUS
  <2>2. f[m] = next[<<f[m - 1], m - 1>>]  BY <1>3 DEF Scans
  <2> HIDE DEF X
  <2> QED  BY <1>2, <2>1, <2>2
<1>5. Leasts(f, n, w)  BY <1>3, <1>4 DEF Scans, Leasts
<1> QED  BY <1>5

LEMMA LeastIs ==
  ASSUME NEW n \in Nat, NEW w, \A i \in 0..n - 1 : w[i] \in Int, NEW f, Leasts(f, n, w)
  PROVE  IsLeast(f[n], n, w)
<1> DEFINE S == {m \in Nat : m <= n => IsLeast(f[m], m, w)}
<1>1. 0 \in S  BY DEF Leasts, IsLeast
<1>2. ASSUME NEW m \in Nat, m \in S PROVE m + 1 \in S
  <2> SUFFICES ASSUME m + 1 <= n PROVE IsLeast(f[m + 1], m + 1, w)  OBVIOUS
  <2>1. IsLeast(f[m], m, w)  BY <1>2
  <2>2. m + 1 \in 1..n /\ (m + 1) - 1 = m /\ m \in 0..n - 1 /\ w[m] \in Int  OBVIOUS
  <2>3. f[m + 1] = IF f[m] < 0 \/ w[m] < w[f[m]] THEN m ELSE f[m]  BY <2>2 DEF Leasts
  <2>4. CASE f[m] = -1 /\ m = 0  BY <2>2, <2>3, <2>4 DEF IsLeast
  <2>5. CASE /\ f[m] \in 0..m - 1
             /\ \A j \in 0..m - 1 : w[f[m]] <= w[j]
             /\ \A j \in 0..f[m] - 1 : w[f[m]] < w[j]
    <3> DEFINE i == f[m]
    <3>1. i \in 0..n - 1 /\ w[i] \in Int /\ ~(i < 0)  BY <2>5
    <3>2. \A j \in 0..m - 1 : w[j] \in Int /\ w[i] <= w[j]  BY <2>5
    <3>3. \A j \in 0..i - 1 : w[i] < w[j]  BY <2>5
    <3>4. i \in 0..m - 1 /\ f[m + 1] = IF w[m] < w[i] THEN m ELSE i  BY <2>3, <2>5, <3>1
    <3> HIDE DEF i
    <3>5. CASE w[m] < w[i]
      <4>1. \A j \in 0..m - 1 : w[m] < w[j]  BY <2>2, <3>1, <3>2, <3>5
      <4>2. f[m + 1] = m  BY <3>4, <3>5
      <4> QED  BY <2>2, <4>1, <4>2 DEF IsLeast
    <3>6. CASE ~(w[m] < w[i])
      <4>1. f[m + 1] = i  BY <3>4, <3>6
      <4>2. \A j \in 0..(m + 1) - 1 : w[i] <= w[j]
        <5> TAKE j \in 0..(m + 1) - 1
        <5>1. j = m \/ j \in 0..m - 1  OBVIOUS
        <5> QED  BY <2>2, <3>1, <3>2, <3>6, <5>1
      <4> QED  BY <3>3, <3>4, <4>1, <4>2 DEF IsLeast
    <3> QED  BY <3>5, <3>6
  <2> QED  BY <2>1, <2>4, <2>5 DEF IsLeast
<1> HIDE DEF S
<1>3. n \in S  BY <1>1, <1>2, SetInduction
<1> QED  BY <1>3 DEF S

LEMMA SmallestIs ==
  ASSUME size \in Nat, \A i \in 0..size - 1 : Key[cells[i]] \in Int,
         NEW w, \A i \in 0..size - 1 : w[i] = Key[cells[i]]
  PROVE  IsLeast(Smallest, size, w)
<1>ints. \A i \in 0..size - 1 : w[i] \in Int
  <2>1. ASSUME NEW i \in 0..size - 1 PROVE w[i] \in Int
    <3>1. w[i] = Key[cells[i]] /\ Key[cells[i]] \in Int  OBVIOUS
    <3> QED  BY <3>1
  <2> QED  BY <2>1
<1> DEFINE Recursive(f) == f = [n \in 0..size |-> IF n = 0 THEN -1
             ELSE IF f[n - 1] < 0 \/ Before(cells[n - 1], cells[f[n - 1]]) THEN n - 1 ELSE f[n - 1]]
<1>0. \A i, j \in 0..size - 1 : w[i] < w[j] <=> Before(cells[i], cells[j])
  BY DEF Before
<1>1. PICK f \in [0..size -> -1..size - 1] : Leasts(f, size, w)  BY LeastExists
<1>2. Recursive(f)
  <2>1. ASSUME NEW n \in 0..size
        PROVE  f[n] = IF n = 0 THEN -1
                      ELSE IF f[n - 1] < 0 \/ Before(cells[n - 1], cells[f[n - 1]]) THEN n - 1 ELSE f[n - 1]
    <3>1. CASE n = 0  BY <1>1, <3>1 DEF Leasts
    <3>2. CASE n # 0
      <4>1. n \in 1..size /\ n - 1 \in 0..size - 1 /\ f[n - 1] \in -1..size - 1  BY <3>2
      <4>2. f[n] = IF f[n - 1] < 0 \/ w[n - 1] < w[f[n - 1]] THEN n - 1 ELSE f[n - 1]
        BY <1>1, <4>1 DEF Leasts
      <4>3. ~(f[n - 1] < 0) => f[n - 1] \in 0..size - 1  BY <4>1
      <4> QED  BY <1>0, <3>2, <4>1, <4>2, <4>3
    <3> QED  BY <3>1, <3>2
  <2> QED  BY <2>1
<1> DEFINE g == CHOOSE h : Recursive(h)
<1>3. Recursive(g)  BY <1>2
<1>4. Smallest = g[size]  BY DEF Smallest, Scan
<1> HIDE DEF g
<1>5. \A n \in 0..size : g[n] = IF n = 0 THEN -1
                      ELSE IF g[n - 1] < 0 \/ Before(cells[n - 1], cells[g[n - 1]]) THEN n - 1 ELSE g[n - 1]
  BY <1>3
<1> DEFINE S == {m \in Nat : m <= size => g[m] \in -1..m - 1}
<1>6. \A m \in Nat : m \in S
  <2>1. 0 \in S  BY <1>5
  <2>2. ASSUME NEW m \in Nat, m \in S PROVE m + 1 \in S
    <3> SUFFICES ASSUME m + 1 <= size PROVE g[m + 1] \in -1..(m + 1) - 1  OBVIOUS
    <3>1. m + 1 \in 0..size /\ m + 1 # 0 /\ (m + 1) - 1 = m /\ g[m] \in -1..m - 1  BY <2>2
    <3>2. g[m + 1] = m \/ g[m + 1] = g[m]  BY <1>5, <3>1
    <3> QED  BY <3>1, <3>2
  <2> HIDE DEF S
  <2> QED  BY <2>1, <2>2, SetInduction
<1>7. Leasts(g, size, w)
  <2>1. ASSUME NEW m \in 1..size
        PROVE  g[m] = IF g[m - 1] < 0 \/ w[m - 1] < w[g[m - 1]] THEN m - 1 ELSE g[m - 1]
    <3>1. m \in 0..size /\ m # 0 /\ m - 1 \in 0..size - 1 /\ m - 1 \in Nat  OBVIOUS
    <3>2. g[m - 1] \in -1..(m - 1) - 1  BY <1>6, <3>1
    <3>3. ~(g[m - 1] < 0) => g[m - 1] \in 0..size - 1  BY <3>1, <3>2
    <3> QED  BY <1>0, <1>5, <3>1, <3>3
  <2> QED  BY <1>5, <2>1 DEF Leasts
<1>9. IsLeast(g[size], size, w)  BY <1>7, <1>ints, LeastIs
<1> QED  BY <1>4, <1>9

LEMMA LargestIs ==
  ASSUME size \in Nat, \A i \in 0..size - 1 : Key[cells[i]] \in Int,
         NEW w, \A i \in 0..size - 1 : w[i] = -Key[cells[i]]
  PROVE  IsLeast(Largest, size, w)
<1>ints. \A i \in 0..size - 1 : w[i] \in Int
  <2>1. ASSUME NEW i \in 0..size - 1 PROVE w[i] \in Int
    <3>1. w[i] = -Key[cells[i]] /\ Key[cells[i]] \in Int  OBVIOUS
    <3> QED  BY <3>1
  <2> QED  BY <2>1
<1> DEFINE Recursive(f) == f = [n \in 0..size |-> IF n = 0 THEN -1
             ELSE IF f[n - 1] < 0 \/ Before(cells[f[n - 1]], cells[n - 1]) THEN n - 1 ELSE f[n - 1]]
<1>0. \A i, j \in 0..size - 1 : w[i] < w[j] <=> Before(cells[j], cells[i])
  BY DEF Before
<1>1. PICK f \in [0..size -> -1..size - 1] : Leasts(f, size, w)  BY LeastExists
<1>2. Recursive(f)
  <2>1. ASSUME NEW n \in 0..size
        PROVE  f[n] = IF n = 0 THEN -1
                      ELSE IF f[n - 1] < 0 \/ Before(cells[f[n - 1]], cells[n - 1]) THEN n - 1 ELSE f[n - 1]
    <3>1. CASE n = 0  BY <1>1, <3>1 DEF Leasts
    <3>2. CASE n # 0
      <4>1. n \in 1..size /\ n - 1 \in 0..size - 1 /\ f[n - 1] \in -1..size - 1  BY <3>2
      <4>2. f[n] = IF f[n - 1] < 0 \/ w[n - 1] < w[f[n - 1]] THEN n - 1 ELSE f[n - 1]
        BY <1>1, <4>1 DEF Leasts
      <4>3. ~(f[n - 1] < 0) => f[n - 1] \in 0..size - 1  BY <4>1
      <4> QED  BY <1>0, <3>2, <4>1, <4>2, <4>3
    <3> QED  BY <3>1, <3>2
  <2> QED  BY <2>1
<1> DEFINE g == CHOOSE h : Recursive(h)
<1>3. Recursive(g)  BY <1>2
<1>4. Largest = g[size]  BY DEF Largest, Scan
<1> HIDE DEF g
<1>5. \A n \in 0..size : g[n] = IF n = 0 THEN -1
                      ELSE IF g[n - 1] < 0 \/ Before(cells[g[n - 1]], cells[n - 1]) THEN n - 1 ELSE g[n - 1]
  BY <1>3
<1> DEFINE S == {m \in Nat : m <= size => g[m] \in -1..m - 1}
<1>6. \A m \in Nat : m \in S
  <2>1. 0 \in S  BY <1>5
  <2>2. ASSUME NEW m \in Nat, m \in S PROVE m + 1 \in S
    <3> SUFFICES ASSUME m + 1 <= size PROVE g[m + 1] \in -1..(m + 1) - 1  OBVIOUS
    <3>1. m + 1 \in 0..size /\ m + 1 # 0 /\ (m + 1) - 1 = m /\ g[m] \in -1..m - 1  BY <2>2
    <3>2. g[m + 1] = m \/ g[m + 1] = g[m]  BY <1>5, <3>1
    <3> QED  BY <3>1, <3>2
  <2> HIDE DEF S
  <2> QED  BY <2>1, <2>2, SetInduction
<1>7. Leasts(g, size, w)
  <2>1. ASSUME NEW m \in 1..size
        PROVE  g[m] = IF g[m - 1] < 0 \/ w[m - 1] < w[g[m - 1]] THEN m - 1 ELSE g[m - 1]
    <3>1. m \in 0..size /\ m # 0 /\ m - 1 \in 0..size - 1 /\ m - 1 \in Nat  OBVIOUS
    <3>2. g[m - 1] \in -1..(m - 1) - 1  BY <1>6, <3>1
    <3>3. ~(g[m - 1] < 0) => g[m - 1] \in 0..size - 1  BY <3>1, <3>2
    <3> QED  BY <1>0, <1>5, <3>1, <3>3
  <2> QED  BY <1>5, <2>1 DEF Leasts
<1>9. IsLeast(g[size], size, w)  BY <1>7, <1>ints, LeastIs
<1> QED  BY <1>4, <1>9

-----------------------------------------------------------------------------
(***************************************************************************)
(* Sequences without one of their elements.                                *)
(***************************************************************************)
LEMMA RemoveAtFacts ==
  ASSUME NEW S, NEW s \in Seq(S), NEW p \in 1..Len(s)
  PROVE  /\ RemoveAt(s, p) \in Seq(S)
         /\ Len(RemoveAt(s, p)) = Len(s) - 1
         /\ \A i \in 1..Len(s) - 1 : RemoveAt(s, p)[i] = IF i < p THEN s[i] ELSE s[i + 1]
<1> DEFINE left == SubSeq(s, 1, p - 1)
           right == SubSeq(s, p + 1, Len(s))
<1>1. Len(s) \in Nat /\ p \in Int /\ \A i \in 1..Len(s) : s[i] \in S  BY LenProperties
<1>2. /\ left \in Seq(S) /\ Len(left) = p - 1
      /\ \A i \in 1..p - 1 : left[i] = s[i]
  <2>1. \A i \in 1..p - 1 : s[i] \in S  BY <1>1
  <2>2. 1 \in Int /\ p - 1 \in Int  BY <1>1
  <2> QED  BY <1>1, <2>1, <2>2, SubSeqProperties
<1>3. /\ right \in Seq(S) /\ Len(right) = Len(s) - p
      /\ \A i \in 1..Len(s) - p : right[i] = s[p + i]
  <2>1. \A i \in p + 1..Len(s) : s[i] \in S  BY <1>1
  <2>2. p + 1 \in Int /\ Len(s) \in Int  BY <1>1
  <2> QED  BY <1>1, <2>1, <2>2, SubSeqProperties
<1>4. RemoveAt(s, p) = left \o right  BY DEF RemoveAt
<1> HIDE DEF left, right
<1>5. /\ left \o right \in Seq(S) /\ Len(left \o right) = Len(left) + Len(right)
      /\ \A i \in 1..Len(left) + Len(right) :
           (left \o right)[i] = IF i <= Len(left) THEN left[i] ELSE right[i - Len(left)]
  BY <1>2, <1>3, ConcatProperties
<1>6. ASSUME NEW i \in 1..Len(s) - 1
      PROVE  (left \o right)[i] = IF i < p THEN s[i] ELSE s[i + 1]
  <2>1. (left \o right)[i] = IF i <= p - 1 THEN left[i] ELSE right[i - (p - 1)]
    <3>1. i \in 1..Len(left) + Len(right)  BY <1>1, <1>2, <1>3
    <3>2. Len(left) = p - 1  BY <1>2
    <3> QED  BY <1>5, <3>1, <3>2
  <2>2. CASE i < p  BY <1>1, <1>2, <2>1, <2>2
  <2>3. CASE ~(i < p)
    <3>1. i - (p - 1) \in 1..Len(s) - p /\ p + (i - (p - 1)) = i + 1  BY <1>1, <2>3
    <3> QED  BY <1>1, <1>3, <2>1, <2>3, <3>1
  <2> QED  BY <2>2, <2>3
<1> QED  BY <1>1, <1>2, <1>3, <1>4, <1>5, <1>6

-----------------------------------------------------------------------------
(***************************************************************************)
(* The map that cells stand for: f has the keys of the cells in L and no   *)
(* other.                                                                  *)
(***************************************************************************)
KeysDiffer(c, L) == \A i, j \in L : c[i].key = c[j].key => i = j
Represents(c, L, f) ==
  /\ f = [k \in DOMAIN f |-> f[k]]
  /\ \A k : k \in DOMAIN f <=> \E i \in L : c[i].key = k
  /\ \A i \in L : f[c[i].key] = c[i].value

LEMMA OneMap ==
  ASSUME NEW c, NEW L, NEW f, NEW g, Represents(c, L, f), Represents(c, L, g)
  PROVE  f = g
<1>1. DOMAIN f = DOMAIN g  BY DEF Represents
<1>2. ASSUME NEW k \in DOMAIN f PROVE f[k] = g[k]
  <2>1. PICK i \in L : c[i].key = k  BY DEF Represents
  <2> QED  BY <2>1 DEF Represents
<1>3. f = [k \in DOMAIN f |-> f[k]] /\ g = [k \in DOMAIN g |-> g[k]]  BY DEF Represents
<1> QED  BY <1>1, <1>2, <1>3

LEMMA MapOfRepresents ==
  ASSUME NEW n \in Nat, NEW e, Len(e) = n, DOMAIN e = 1..n,
         NEW c, NEW L, KeysDiffer(c, L), NEW place \in [1..n -> L],
         \A i \in 1..n : e[i] = c[place[i]],
         \A l \in L : \E i \in 1..n : place[i] = l
  PROVE  Represents(c, L, MapOf(e))
<1> DEFINE hits(k) == {i \in 1..Len(e) : e[i].key = k}
           f == MapOf(e)
<1>1. ASSUME NEW i \in 1..n PROVE f[e[i].key] = e[i].value
  <2> DEFINE k == e[i].key
  <2>1. k \in {e[j].key : j \in DOMAIN e}  OBVIOUS
  <2>2. f[k] = e[SelectInSeq(e, LAMBDA entry : entry.key = k)].value  BY <2>1 DEF MapOf
  <2>3. i \in hits(k) /\ hits(k) \subseteq Nat  OBVIOUS
  <2>4. SelectInSeq(e, LAMBDA entry : entry.key = k) = Min(hits(k))
    BY <2>3 DEF SelectInSeq
  <2>5. Min(hits(k)) \in hits(k)
    <3> HIDE DEF hits
    <3>1. \E least \in hits(k) : \A j \in hits(k) : least <= j  BY <2>3, LeastNat
    <3> QED  BY <3>1 DEF Min
  <2>6. PICK j \in 1..n : j = Min(hits(k)) /\ e[j].key = e[i].key  BY <2>5
  <2>7. place[i] = place[j]
    <3>1. c[place[i]].key = c[place[j]].key  BY <2>6
    <3> QED  BY <3>1 DEF KeysDiffer
  <2> QED  BY <2>2, <2>4, <2>6, <2>7
<1>2. DOMAIN f = {e[j].key : j \in 1..n} /\ f = [k \in DOMAIN f |-> f[k]]  BY DEF MapOf
<1> HIDE DEF f
<1>3. ASSUME NEW k PROVE k \in DOMAIN f <=> \E l \in L : c[l].key = k
  <2>1. ASSUME k \in DOMAIN f PROVE \E l \in L : c[l].key = k
    <3>1. PICK i \in 1..n : k = e[i].key  BY <1>2, <2>1
    <3> QED  BY <3>1
  <2>2. ASSUME NEW l \in L, c[l].key = k PROVE k \in DOMAIN f
    <3>1. PICK i \in 1..n : place[i] = l  OBVIOUS
    <3> QED  BY <1>2, <2>2, <3>1
  <2> QED  BY <2>1, <2>2
<1>4. ASSUME NEW l \in L PROVE f[c[l].key] = c[l].value
  <2>1. PICK i \in 1..n : place[i] = l  OBVIOUS
  <2> QED  BY <1>1, <2>1
<1>5. Represents(c, L, f)  BY <1>2, <1>3, <1>4 DEF Represents
<1> QED  BY <1>5 DEF f

-----------------------------------------------------------------------------
(***************************************************************************)
(* Maps and sets.  The keys of the live cells differ; while a removal runs *)
(* the cell at its cursor is dead.                                         *)
(***************************************************************************)
Removals(n) == [op : {"remove"}, cursor : 0..n - 1]
Live(n, r) == {i \in 0..n - 1 : r.op = "remove" => i # r.cursor}
MapShape(c, n, r) ==
  /\ n \in 0..Capacity /\ DOMAIN c = Positions
  /\ r \in {Idle} \cup Removals(n)
  /\ KeysDiffer(c, Live(n, r))
  /\ \A i \in Live(n, r) : c[i] = Entry(c[i].key, c[i].value)
MapInv == kind # "array" => MapShape(cells, size, run)

ViewOf(c, n) == [i \in 1..n |-> c[i - 1]]
ContentsOf(c, n, r) ==
  MapOf(IF r.op = "remove" THEN RemoveAt(ViewOf(c, n), r.cursor + 1) ELSE ViewOf(c, n))

LEMMA ShapeOfRun ==
  ASSUME NEW n \in Nat, NEW r \in {Idle} \cup Removals(n)
  PROVE  \/ r = Idle /\ r.op = "idle" /\ Live(n, r) = 0..n - 1
         \/ /\ r.op = "remove" /\ r.cursor \in 0..n - 1 /\ Live(n, r) = (0..n - 1) \ {r.cursor}
            /\ r = [op |-> "remove", cursor |-> r.cursor]
BY DEF Idle, Removals, Live

LEMMA ContentsRepresents ==
  ASSUME NEW c, NEW n, NEW r, MapShape(c, n, r)
  PROVE  Represents(c, Live(n, r), ContentsOf(c, n, r))
<1> DEFINE view == ViewOf(c, n)
           S == {c[i] : i \in 0..n - 1}
<1>1. n \in Nat /\ KeysDiffer(c, Live(n, r)) /\ r \in {Idle} \cup Removals(n)
  BY VarArrayAssumption DEF MapShape
<1>2. view \in Seq(S) /\ Len(view) = n /\ DOMAIN view = 1..n /\ \A i \in 1..n : view[i] = c[i - 1]
  <2>1. \A i \in 1..n : c[i - 1] \in S  BY <1>1
  <2> QED  BY <1>1, <2>1, IsASeq DEF ViewOf
<1> HIDE DEF view, S
<1>3. CASE r = Idle /\ r.op = "idle" /\ Live(n, r) = 0..n - 1
  <2> DEFINE place == [i \in 1..n |-> i - 1]
  <2>1. place \in [1..n -> Live(n, r)] /\ \A i \in 1..n : view[i] = c[place[i]]
    BY <1>1, <1>2, <1>3
  <2>2. ASSUME NEW l \in Live(n, r) PROVE \E i \in 1..n : place[i] = l
    <3>1. l + 1 \in 1..n /\ place[l + 1] = l  BY <1>1, <1>3
    <3> QED  BY <3>1
  <2> HIDE DEF place
  <2>3. Represents(c, Live(n, r), MapOf(view))
    BY <1>1, <1>2, <2>1, <2>2, MapOfRepresents
  <2> QED  BY <1>3, <2>3 DEF ContentsOf, view
<1>4. CASE r.op = "remove" /\ r.cursor \in 0..n - 1 /\ Live(n, r) = (0..n - 1) \ {r.cursor}
  <2> DEFINE p == r.cursor
             e == RemoveAt(view, p + 1)
             place == [i \in 1..n - 1 |-> IF i < p + 1 THEN i - 1 ELSE i]
  <2>1. p \in Nat /\ p + 1 \in 1..n /\ n - 1 \in Nat  BY <1>1, <1>4
  <2>2. e \in Seq(S) /\ Len(e) = n - 1
        /\ \A i \in 1..n - 1 : e[i] = IF i < p + 1 THEN view[i] ELSE view[i + 1]
    BY <1>2, <2>1, RemoveAtFacts
  <2>3. DOMAIN e = 1..n - 1  BY <2>2, LenProperties
  <2> HIDE DEF e
  <2>4. ASSUME NEW i \in 1..n - 1
        PROVE  place[i] \in Live(n, r) /\ e[i] = c[place[i]]
    <3>1. CASE i < p + 1
      <4>1. place[i] = i - 1 /\ i \in 1..n /\ i - 1 \in (0..n - 1) \ {p}  BY <1>1, <2>1, <3>1
      <4> QED  BY <1>2, <1>4, <2>2, <3>1, <4>1
    <3>2. CASE ~(i < p + 1)
      <4>1. place[i] = i /\ i + 1 \in 1..n /\ (i + 1) - 1 = i /\ i \in (0..n - 1) \ {p}
        BY <1>1, <2>1, <3>2
      <4> QED  BY <1>2, <1>4, <2>2, <3>2, <4>1
    <3> QED  BY <3>1, <3>2
  <2>5. ASSUME NEW l \in Live(n, r) PROVE \E i \in 1..n - 1 : place[i] = l
    <3>1. l \in 0..n - 1 /\ l # p  BY <1>4
    <3>2. CASE l < p
      <4>1. l + 1 \in 1..n - 1 /\ place[l + 1] = l  BY <1>1, <2>1, <3>1, <3>2
      <4> QED  BY <4>1
    <3>3. CASE l > p
      <4>1. l \in 1..n - 1 /\ place[l] = l  BY <1>1, <2>1, <3>1, <3>3
      <4> QED  BY <4>1
    <3> QED  BY <2>1, <3>1, <3>2, <3>3
  <2>6. place \in [1..n - 1 -> Live(n, r)]  BY <2>4
  <2> HIDE DEF place
  <2>7. Represents(c, Live(n, r), MapOf(e))
    BY <1>1, <2>1, <2>2, <2>3, <2>4, <2>5, <2>6, MapOfRepresents
  <2> QED  BY <1>4, <2>7 DEF ContentsOf, view, e
<1> QED  BY <1>1, <1>3, <1>4, ShapeOfRun

LEMMA ContentsIs ==
  ASSUME kind # "array", run.op \in {"idle", "remove"}
  PROVE  Contents = ContentsOf(cells, size, run)
<1>1. Sequence = IF run.op = "remove" THEN RemoveAt(View, run.cursor + 1) ELSE View
  BY DEF Sequence
<1> QED  BY <1>1 DEF Contents, ContentsOf, ViewOf, View

LEMMA ContentsIsNext ==
  ASSUME kind' # "array", run'.op \in {"idle", "remove"}
  PROVE  Contents' = ContentsOf(cells', size', run')
<1>1. Sequence' = IF run'.op = "remove" THEN RemoveAt(View', run'.cursor + 1) ELSE View'
  BY DEF Sequence
<1> QED  BY <1>1 DEF Contents, ContentsOf, ViewOf, View

\* Nothing else is there but a removal: what a lookup finds is what the map has.
LEMMA LookupIs ==
  ASSUME MapInv, kind # "array", run = Idle, NEW k
  PROVE  /\ Found(k) <=> k \in DOMAIN Contents
         /\ Found(k) => /\ FindKey(k) \in 0..size - 1 /\ cells[FindKey(k)].key = k
                        /\ Contents[k] = ValueOf(k)
<1>1. MapShape(cells, size, run) /\ size \in Nat  BY VarArrayAssumption DEF MapInv, MapShape
<1>2. run.op = "idle" /\ Live(size, run) = 0..size - 1  BY <1>1 DEF Idle, Live
<1>3. Represents(cells, 0..size - 1, Contents)
  BY <1>1, <1>2, ContentsRepresents, ContentsIs
<1>4. IsFirst(FindKey(k), size, {i \in 0..size - 1 : cells[i].key = k})  BY <1>1, FindKeyIs
<1>5. Found(k) <=> FindKey(k) # -1  BY DEF Found
<1>6. FindKey(k) # -1 => FindKey(k) \in 0..size - 1 /\ cells[FindKey(k)].key = k
  BY <1>4 DEF IsFirst
<1>7. FindKey(k) = -1 => \A i \in 0..size - 1 : cells[i].key # k
  BY <1>1, <1>4 DEF IsFirst
<1> QED  BY <1>3, <1>5, <1>6, <1>7 DEF Represents, ValueOf

\* The length is the number of keys.
LEMMA LengthIs ==
  ASSUME MapInv, kind # "array", run = Idle
  PROVE  Cardinality(DOMAIN Contents) = size
<1>1. MapShape(cells, size, run) /\ size \in Nat  BY VarArrayAssumption DEF MapInv, MapShape
<1>2. run.op = "idle" /\ Live(size, run) = 0..size - 1  BY <1>1 DEF Idle, Live
<1>3. Represents(cells, 0..size - 1, Contents) /\ KeysDiffer(cells, 0..size - 1)
  BY <1>1, <1>2, ContentsRepresents, ContentsIs DEF MapShape
<1> DEFINE f == [i \in 0..size - 1 |-> cells[i].key]
<1>4. f \in Bijection(0..size - 1, DOMAIN Contents)
  <2>1. f \in [0..size - 1 -> DOMAIN Contents]  BY <1>3 DEF Represents
  <2>2. \A i, j \in 0..size - 1 : f[i] = f[j] => i = j  BY <1>3 DEF KeysDiffer
  <2>3. \A k \in DOMAIN Contents : \E i \in 0..size - 1 : f[i] = k  BY <1>3 DEF Represents
  <2>4. DOMAIN f = 0..size - 1  OBVIOUS
  <2> HIDE DEF f
  <2> QED  BY <2>1, <2>2, <2>3, <2>4 DEF Bijection, Injection, Surjection, IsInjective
<1>5. ExistsBijection(0..size - 1, DOMAIN Contents)  BY <1>4 DEF ExistsBijection
<1>6. IsFiniteSet(0..size - 1) /\ Cardinality(0..size - 1) = size
  <2>1. 0 \in Int /\ size - 1 \in Int /\ (0 > size - 1 => size = 0)  BY <1>1
  <2> QED  BY <1>1, <2>1, FS_Interval
<1> QED  BY <1>5, <1>6, FS_Bijection

-----------------------------------------------------------------------------
(***************************************************************************)
(* What each kind of step of a map or a set does to the map.               *)
(***************************************************************************)
Extended(f, k, v) == [x \in DOMAIN f \cup {k} |-> IF x = k THEN v ELSE f[x]]

\* The state when nothing runs.
LEMMA AtRest ==
  ASSUME MapInv, kind # "array", run = Idle
  PROVE  /\ size \in 0..Capacity /\ size \in Nat /\ Capacity \in Nat /\ DOMAIN cells = Positions
         /\ KeysDiffer(cells, 0..size - 1)
         /\ \A i \in 0..size - 1 : cells[i] = Entry(cells[i].key, cells[i].value)
         /\ Represents(cells, 0..size - 1, Contents)
<1>1. MapShape(cells, size, run) /\ size \in Nat  BY VarArrayAssumption DEF MapInv, MapShape
<1>2. run.op = "idle" /\ Live(size, run) = 0..size - 1  BY <1>1 DEF Idle, Live
<1>3. Represents(cells, 0..size - 1, Contents)
  BY <1>1, <1>2, ContentsRepresents, ContentsIs
<1> QED  BY <1>1, <1>2, <1>3, VarArrayAssumption DEF MapShape

\* A state in which nothing runs, by what it holds.
LEMMA RestsNext ==
  ASSUME kind' # "array", run' = Idle, size' \in 0..Capacity, DOMAIN cells' = Positions,
         KeysDiffer(cells', 0..size' - 1),
         \A i \in 0..size' - 1 : cells'[i] = Entry(cells'[i].key, cells'[i].value),
         NEW f, Represents(cells', 0..size' - 1, f)
  PROVE  MapInv' /\ Contents' = f
<1>1. Idle \in {Idle} \cup Removals(size') /\ Idle.op = "idle"  BY DEF Idle
<1>2. Live(size', Idle) = 0..size' - 1  BY <1>1 DEF Live
<1>3. MapShape(cells', size', run')  BY <1>1, <1>2 DEF MapShape
<1>4. Represents(cells', 0..size' - 1, Contents')
  BY <1>1, <1>2, <1>3, ContentsRepresents, ContentsIsNext
<1> QED  BY <1>3, <1>4, OneMap DEF MapInv

LEMMA StoringStep ==
  ASSUME MapInv, kind # "array", UNCHANGED <<kind, run>>, run = Idle,
         NEW k, NEW v, k \notin DOMAIN Contents, HasCapacity,
         cells' = [cells EXCEPT ![size] = Entry(k, v)], size' = size + 1
  PROVE  MapInv' /\ Contents' = Extended(Contents, k, v)
<1>1. /\ size \in 0..Capacity /\ size \in Nat /\ Capacity \in Nat /\ DOMAIN cells = Positions
      /\ KeysDiffer(cells, 0..size - 1)
      /\ \A i \in 0..size - 1 : cells[i] = Entry(cells[i].key, cells[i].value)
      /\ Represents(cells, 0..size - 1, Contents)
  BY AtRest
<1> DEFINE f == Extended(Contents, k, v)
<1>2. size < Capacity /\ size \in Positions  BY <1>1 DEF HasCapacity, Positions
<1>3. /\ DOMAIN cells' = Positions /\ size' \in 0..Capacity
      /\ cells'[size] = Entry(k, v) /\ \A i \in 0..size - 1 : cells'[i] = cells[i]
  BY <1>1, <1>2
<1>4. Entry(k, v).key = k /\ Entry(k, v).value = v  BY DEF Entry
<1>5. \A i \in 0..size' - 1 : i \in 0..size - 1 \/ i = size  BY <1>1
<1>6. size \in 0..size' - 1 /\ \A i \in 0..size - 1 : i \in 0..size' - 1  BY <1>1
<1>7. \A i \in 0..size - 1 : cells[i].key \in DOMAIN Contents /\ cells[i].key # k
  BY <1>1 DEF Represents
<1>8. KeysDiffer(cells', 0..size' - 1)
  BY <1>1, <1>3, <1>4, <1>5, <1>7 DEF KeysDiffer
<1>9. \A i \in 0..size' - 1 : cells'[i] = Entry(cells'[i].key, cells'[i].value)
  BY <1>1, <1>3, <1>4, <1>5
<1>10. Represents(cells', 0..size' - 1, f)
  <2>1. f = [x \in DOMAIN f |-> f[x]] /\ DOMAIN f = DOMAIN Contents \cup {k}  BY DEF Extended
  <2>2. f[k] = v /\ \A x \in DOMAIN Contents : x # k => f[x] = Contents[x]  BY DEF Extended
  <2> HIDE DEF f
  <2>3. \A x : x \in DOMAIN f <=> \E i \in 0..size' - 1 : cells'[i].key = x
    <3>1. ASSUME NEW x, x \in DOMAIN f PROVE \E i \in 0..size' - 1 : cells'[i].key = x
      <4>1. CASE x = k  BY <1>3, <1>4, <1>6, <4>1
      <4>2. CASE x \in DOMAIN Contents
        <5>1. PICK i \in 0..size - 1 : cells[i].key = x  BY <1>1, <4>2 DEF Represents
        <5> QED  BY <1>3, <1>6, <5>1
      <4> QED  BY <2>1, <3>1, <4>1, <4>2
    <3>2. ASSUME NEW i \in 0..size' - 1 PROVE cells'[i].key \in DOMAIN f
      BY <1>3, <1>4, <1>5, <1>7, <2>1
    <3> QED  BY <3>1, <3>2
  <2>4. ASSUME NEW i \in 0..size' - 1 PROVE f[cells'[i].key] = cells'[i].value
    <3>1. CASE i = size  BY <1>3, <1>4, <2>2, <3>1
    <3>2. CASE i \in 0..size - 1
      <4>1. Contents[cells[i].key] = cells[i].value  BY <1>1, <3>2 DEF Represents
      <4> QED  BY <1>3, <1>7, <2>2, <3>2, <4>1
    <3> QED  BY <1>5, <3>1, <3>2
  <2> QED  BY <2>1, <2>3, <2>4 DEF Represents
<1> HIDE DEF f
<1>11. kind' # "array" /\ run' = Idle  OBVIOUS
<1>12. MapInv' /\ Contents' = f
  BY <1>3, <1>8, <1>9, <1>10, <1>11, RestsNext
<1> QED  BY <1>12 DEF f

LEMMA ReplacingStep ==
  ASSUME MapInv, kind # "array", UNCHANGED <<kind, run, size>>, run = Idle,
         NEW k, NEW v, Found(k), cells' = [cells EXCEPT ![FindKey(k)].value = v]
  PROVE  MapInv' /\ Contents' = Extended(Contents, k, v)
<1>1. /\ size \in 0..Capacity /\ size \in Nat /\ Capacity \in Nat /\ DOMAIN cells = Positions
      /\ KeysDiffer(cells, 0..size - 1)
      /\ \A i \in 0..size - 1 : cells[i] = Entry(cells[i].key, cells[i].value)
      /\ Represents(cells, 0..size - 1, Contents)
  BY AtRest
<1> DEFINE f == Extended(Contents, k, v)
           p == FindKey(k)
<1>2. k \in DOMAIN Contents /\ p \in 0..size - 1 /\ cells[p].key = k  BY LookupIs
<1> HIDE DEF p
<1>3. p \in Positions  BY <1>1, <1>2 DEF Positions
<1>4. cells' = [cells EXCEPT ![p].value = v]  BY DEF p
<1>5. Entry(k, v).key = k /\ Entry(k, v).value = v  BY DEF Entry
<1>6. [cells[p] EXCEPT !.value = v] = Entry(k, v)
  <2>1. cells[p] = Entry(k, cells[p].value)  BY <1>1, <1>2
  <2> QED  BY <2>1 DEF Entry
<1>7. /\ DOMAIN cells' = Positions /\ cells'[p] = Entry(k, v)
      /\ \A i \in 0..size - 1 : i # p => cells'[i] = cells[i]
  <2>1. cells' = [cells EXCEPT ![p] = [cells[p] EXCEPT !.value = v]]  BY <1>4
  <2>2. cells' = [cells EXCEPT ![p] = Entry(k, v)]  BY <1>6, <2>1
  <2>3. \A i \in 0..size - 1 : i \in Positions  BY <1>1 DEF Positions
  <2> QED  BY <1>1, <1>3, <2>2, <2>3
<1>8. \A i \in 0..size - 1 : cells'[i].key = cells[i].key
  BY <1>2, <1>5, <1>7
<1>9. KeysDiffer(cells', 0..size - 1)  BY <1>1, <1>8 DEF KeysDiffer
<1>10. \A i \in 0..size - 1 : cells'[i] = Entry(cells'[i].key, cells'[i].value)
  BY <1>1, <1>5, <1>7
<1>11. Represents(cells', 0..size - 1, f)
  <2>1. f = [x \in DOMAIN f |-> f[x]] /\ DOMAIN f = DOMAIN Contents  BY <1>2 DEF Extended
  <2>2. f[k] = v /\ \A x \in DOMAIN Contents : x # k => f[x] = Contents[x]  BY DEF Extended
  <2> HIDE DEF f
  <2>3. \A x : x \in DOMAIN f <=> \E i \in 0..size - 1 : cells'[i].key = x
    BY <1>1, <1>8, <2>1 DEF Represents
  <2>4. ASSUME NEW i \in 0..size - 1 PROVE f[cells'[i].key] = cells'[i].value
    <3>1. CASE i = p  BY <1>5, <1>7, <2>2, <3>1
    <3>2. CASE i # p
      <4>1. Contents[cells[i].key] = cells[i].value /\ cells[i].key \in DOMAIN Contents
        BY <1>1 DEF Represents
      <4>2. cells[i].key # k  BY <1>1, <1>2, <3>2 DEF KeysDiffer
      <4> QED  BY <1>7, <2>2, <3>2, <4>1, <4>2
    <3> QED  BY <3>1, <3>2
  <2> QED  BY <2>1, <2>3, <2>4 DEF Represents
<1> HIDE DEF f
<1>12. kind' # "array" /\ run' = Idle /\ size' = size  OBVIOUS
<1>13. MapInv' /\ Contents' = f
  BY <1>1, <1>7, <1>9, <1>10, <1>11, <1>12, RestsNext
<1> QED  BY <1>13 DEF f

LEMMA RemovingStep ==
  ASSUME MapInv, kind # "array", UNCHANGED kind, run = Idle,
         NEW k, Found(k), Loop([op |-> "remove", cursor |-> FindKey(k)])
  PROVE  MapInv' /\ Contents' = [x \in DOMAIN Contents \ {k} |-> Contents[x]]
<1>1. /\ size \in 0..Capacity /\ size \in Nat /\ Capacity \in Nat /\ DOMAIN cells = Positions
      /\ KeysDiffer(cells, 0..size - 1)
      /\ \A i \in 0..size - 1 : cells[i] = Entry(cells[i].key, cells[i].value)
      /\ Represents(cells, 0..size - 1, Contents)
  BY AtRest
<1> DEFINE f == [x \in DOMAIN Contents \ {k} |-> Contents[x]]
           p == FindKey(k)
<1>2. p \in 0..size - 1 /\ cells[p].key = k  BY LookupIs
<1>3. run' = [op |-> "remove", cursor |-> p] /\ UNCHANGED <<cells, size>>  BY DEF Loop
<1> HIDE DEF p
<1>4. run'.op = "remove" /\ run'.cursor = p /\ run' \in Removals(size)
  BY <1>2, <1>3 DEF Removals
<1>5. Live(size, run') = (0..size - 1) \ {p}  BY <1>4 DEF Live
<1>6. MapShape(cells', size', run')
  BY <1>1, <1>3, <1>4, <1>5 DEF MapShape, KeysDiffer
<1>7. \A i \in 0..size - 1 : i # p => cells[i].key # k  BY <1>1, <1>2 DEF KeysDiffer
<1>8. Represents(cells, (0..size - 1) \ {p}, f)
  <2>1. f = [x \in DOMAIN f |-> f[x]] /\ DOMAIN f = DOMAIN Contents \ {k}
        /\ \A x \in DOMAIN Contents : x # k => f[x] = Contents[x]
    OBVIOUS
  <2> HIDE DEF f
  <2>2. ASSUME NEW x PROVE x \in DOMAIN f <=> \E i \in (0..size - 1) \ {p} : cells[i].key = x
    <3>1. x \in DOMAIN Contents <=> \E i \in 0..size - 1 : cells[i].key = x
      BY <1>1 DEF Represents
    <3> QED  BY <1>2, <1>7, <2>1, <3>1
  <2>3. ASSUME NEW i \in (0..size - 1) \ {p} PROVE f[cells[i].key] = cells[i].value
    <3>1. cells[i].key \in DOMAIN Contents /\ Contents[cells[i].key] = cells[i].value
      BY <1>1 DEF Represents
    <3> QED  BY <1>7, <2>1, <3>1
  <2> QED  BY <2>1, <2>2, <2>3 DEF Represents
<1> HIDE DEF f
<1>9. Represents(cells', Live(size', run'), ContentsOf(cells', size', run'))
  BY <1>6, ContentsRepresents
<1>10. kind' # "array" /\ run'.op \in {"idle", "remove"}  BY <1>4
<1>11. Contents' = ContentsOf(cells', size', run')  BY <1>10, ContentsIsNext
<1>12. Represents(cells, (0..size - 1) \ {p}, Contents')  BY <1>3, <1>5, <1>9, <1>11
<1>13. Contents' = f  BY <1>8, <1>12, OneMap
<1> QED  BY <1>6, <1>13 DEF MapInv, f

\* The cells that move down keep the map.
LEMMA MovingStep ==
  ASSUME MapInv, kind # "array", UNCHANGED kind, RemoveStep
  PROVE  MapInv' /\ Contents' = Contents
<1>1. MapShape(cells, size, run) /\ size \in Nat /\ Capacity \in Nat /\ size \in 0..Capacity
  BY VarArrayAssumption DEF MapInv, MapShape
<1>2. run \in {Idle} \cup Removals(size) /\ run.op = "remove"  BY <1>1 DEF MapShape, RemoveStep
<1> DEFINE p == run.cursor
<1>3. /\ p \in 0..size - 1 /\ Live(size, run) = (0..size - 1) \ {p}
      /\ run = [op |-> "remove", cursor |-> p]
  BY <1>1, <1>2, ShapeOfRun DEF Idle
<1>4. Represents(cells, (0..size - 1) \ {p}, Contents)
  BY <1>1, <1>2, <1>3, ContentsRepresents, ContentsIs
<1>5. /\ KeysDiffer(cells, (0..size - 1) \ {p}) /\ DOMAIN cells = Positions
      /\ \A i \in (0..size - 1) \ {p} : cells[i] = Entry(cells[i].key, cells[i].value)
  BY <1>1, <1>3 DEF MapShape
<1>6. CASE p < size - 1
  <2>1. /\ cells' = [cells EXCEPT ![p] = cells[p + 1]] /\ size' = size
        /\ run' = [op |-> "remove", cursor |-> p + 1]
    BY <1>3, <1>6 DEF RemoveStep
  <2> HIDE DEF p
  <2>2. /\ run'.op = "remove" /\ run'.cursor = p + 1 /\ p + 1 \in 0..size - 1
        /\ run' \in Removals(size)
    BY <1>1, <1>3, <1>6, <2>1 DEF Removals
  <2>3. Live(size, run') = (0..size - 1) \ {p + 1}  BY <2>2 DEF Live
  <2>4. p \in Positions  BY <1>1, <1>3 DEF Positions
  <2>5. /\ DOMAIN cells' = Positions /\ cells'[p] = cells[p + 1]
        /\ \A i \in (0..size - 1) \ {p} : cells'[i] = cells[i]
    BY <1>1, <1>5, <2>1, <2>4 DEF Positions
  <2> DEFINE from(i) == IF i = p THEN p + 1 ELSE i
  <2>6. \A i \in (0..size - 1) \ {p + 1} :
          from(i) \in (0..size - 1) \ {p} /\ cells'[i] = cells[from(i)]
    BY <1>3, <2>2, <2>5
  <2>7. \A i, j \in (0..size - 1) \ {p + 1} : from(i) = from(j) => i = j  OBVIOUS
  <2>8. \A i \in (0..size - 1) \ {p} : \E j \in (0..size - 1) \ {p + 1} : from(j) = i
    <3> TAKE i \in (0..size - 1) \ {p}
    <3>1. CASE i = p + 1
      <4>1. p \in (0..size - 1) \ {p + 1} /\ from(p) = i  BY <1>3, <3>1
      <4> QED  BY <4>1
    <3>2. CASE i # p + 1
      <4>1. i \in (0..size - 1) \ {p + 1} /\ from(i) = i  BY <3>2
      <4> QED  BY <4>1
    <3> QED  BY <3>1, <3>2
  <2> HIDE DEF from
  <2>9. KeysDiffer(cells', (0..size - 1) \ {p + 1})
    BY <1>5, <2>6, <2>7 DEF KeysDiffer
  <2>10. \A i \in (0..size - 1) \ {p + 1} : cells'[i] = Entry(cells'[i].key, cells'[i].value)
    BY <1>5, <2>6
  <2>11. MapShape(cells', size', run')
    BY <1>1, <2>1, <2>2, <2>3, <2>5, <2>9, <2>10 DEF MapShape
  <2>12. Represents(cells', (0..size - 1) \ {p + 1}, Contents)
    <3>1. \A k : k \in DOMAIN Contents <=> \E i \in (0..size - 1) \ {p + 1} : cells'[i].key = k
      BY <1>4, <2>6, <2>8 DEF Represents
    <3>2. \A i \in (0..size - 1) \ {p + 1} : Contents[cells'[i].key] = cells'[i].value
      BY <1>4, <2>6 DEF Represents
    <3> QED  BY <1>4, <3>1, <3>2 DEF Represents
  <2>13. Contents' = ContentsOf(cells', size', run')  BY <2>2, ContentsIsNext
  <2>14. Represents(cells', (0..size - 1) \ {p + 1}, Contents')
    BY <2>1, <2>3, <2>11, <2>13, ContentsRepresents
  <2> QED  BY <2>11, <2>12, <2>14, OneMap DEF MapInv
<1>7. CASE ~(p < size - 1)
  <2>1. cells' = cells /\ size' = size - 1 /\ run' = Idle  BY <1>7 DEF RemoveStep
  <2>2. p = size - 1  BY <1>1, <1>3, <1>7
  <2>3. 0..size' - 1 = (0..size - 1) \ {p} /\ size' \in 0..Capacity
    BY <1>1, <1>3, <2>1, <2>2
  <2> HIDE DEF p
  <2> QED  BY <1>4, <1>5, <2>1, <2>3, RestsNext
<1> QED  BY <1>6, <1>7

LEMMA ClearingStep ==
  ASSUME MapInv, kind # "array", UNCHANGED kind, run = Idle, Clear
  PROVE  MapInv' /\ Contents' = [k \in {} |-> "none"]
<1>1. cells' = cells /\ size' = 0 /\ run' = Idle  BY DEF Clear
<1>2. DOMAIN cells = Positions /\ 0 \in 0..Capacity  BY AtRest
<1>3. 0..0 - 1 = {}  OBVIOUS
<1>4. Represents(cells, {}, [k \in {} |-> "none"])  BY DEF Represents
<1> QED  BY <1>1, <1>2, <1>3, <1>4, RestsNext DEF KeysDiffer

LEMMA StillStep ==
  ASSUME MapInv, UNCHANGED <<cells, size, run, kind>>
  PROVE  MapInv' /\ Contents' = Contents
BY DEF MapInv, Contents, Sequence, View, InsertedSeq, ReversedSeq

-----------------------------------------------------------------------------
(***************************************************************************)
(* Every operation of a map is one of the abstract map.                    *)
(***************************************************************************)
LEMMA MapStarts == ContainerInit => MapInv /\ (kind # "array" => AbstractMap!Init)
<1> SUFFICES ASSUME ContainerInit, kind # "array" PROVE MapInv /\ AbstractMap!Init
  BY DEF MapInv
<1>1. /\ cells = [i \in Positions |-> Junk] /\ size = 0 /\ run = Idle
      /\ reply = <<"new", "none">>
  BY DEF ContainerInit, Init
<1>2. 0..size - 1 = {} /\ Live(size, run) = {}  BY <1>1 DEF Live
<1>3. 0 \in 0..Capacity /\ DOMAIN cells = Positions  BY <1>1, VarArrayAssumption
<1>4. MapShape(cells, size, run)  BY <1>1, <1>2, <1>3 DEF MapShape, KeysDiffer
<1>5. run.op = "idle"  BY <1>1 DEF Idle
<1>6. Represents(cells, {}, Contents)
  BY <1>2, <1>4, <1>5, ContentsRepresents, ContentsIs
<1>7. Represents(cells, {}, [k \in {} |-> "none"])  BY DEF Represents
<1>8. Contents = [k \in {} |-> "none"]  BY <1>6, <1>7, OneMap
<1> QED  BY <1>1, <1>4, <1>8 DEF MapInv, AbstractMap!Init

LEMMA KeptStep ==
  ASSUME MapInv, UNCHANGED kind, NEW op, NEW value, Keep(op, value)
  PROVE  MapInv' /\ Contents' = Contents /\ reply' = <<op, value>>
BY StillStep DEF Keep, Answer

\* The abstract map counts its keys with a copy of the operator.
LEMMA SameCount == AbstractMap!Cardinality(DOMAIN Contents) = Cardinality(DOMAIN Contents)
BY DEF Cardinality, AbstractMap!Cardinality

\* With and without the first entry of a key, as the abstract map has it.
LEMMA AbstractChange ==
  ASSUME NEW k, NEW v
  PROVE  /\ AbstractMap!With(k, v) = Extended(Contents, k, v)
         /\ AbstractMap!Without(k) = [x \in DOMAIN Contents \ {k} |-> Contents[x]]
BY DEF AbstractMap!With, AbstractMap!Without, AbstractMap!Present, Extended, AbstractMap!Restrict

LEMMA MissingKey ==
  ASSUME MapInv, kind # "array", run = Idle, NEW k, ~Found(k)
  PROVE  k \notin DOMAIN Contents /\ AbstractMap!Without(k) = Contents
<1>1. k \notin DOMAIN Contents  BY LookupIs
<1>2. Contents = [x \in DOMAIN Contents |-> Contents[x]]  BY AtRest DEF Represents
<1>3. DOMAIN Contents \ {k} = DOMAIN Contents  BY <1>1
<1> QED  BY <1>1, <1>2, <1>3, AbstractChange

LEMMA RemovedIs ==
  ASSUME MapInv, kind # "array", UNCHANGED kind, run = Idle,
         NEW op, NEW k, NEW result, NEW missing, Removed(op, k, result, missing)
  PROVE  /\ MapInv' /\ Contents' = AbstractMap!Without(k)
         /\ reply' = <<op, IF k \in DOMAIN Contents THEN result ELSE missing>>
<1>1. Found(k) <=> k \in DOMAIN Contents  BY LookupIs
<1>2. CASE Found(k)
  <2>1. reply' = <<op, result>> /\ Loop([op |-> "remove", cursor |-> FindKey(k)])
    BY <1>2 DEF Removed, Answer
  <2>2. MapInv' /\ Contents' = [x \in DOMAIN Contents \ {k} |-> Contents[x]]
    BY <1>2, <2>1, RemovingStep
  <2> QED  BY <1>1, <1>2, <2>1, <2>2, AbstractChange
<1>3. CASE ~Found(k)
  <2>1. Keep(op, missing)  BY <1>3 DEF Removed
  <2> QED  BY <1>1, <1>3, <2>1, KeptStep, MissingKey
<1> QED  BY <1>2, <1>3

LEMMA StoredIs ==
  ASSUME MapInv, kind # "array", UNCHANGED kind, run = Idle,
         NEW op, NEW result, NEW k, NEW v, k \notin DOMAIN Contents,
         Stored(op, result, Entry(k, v))
  PROVE  /\ MapInv'
         /\ IF Cardinality(DOMAIN Contents) < Capacity
            THEN Contents' = AbstractMap!With(k, v) /\ reply' = <<op, result>>
            ELSE Contents' = Contents /\ reply' = <<op, Terminated>>
<1>1. HasCapacity <=> Cardinality(DOMAIN Contents) < Capacity  BY LengthIs DEF HasCapacity
<1>2. CASE HasCapacity
  <2>1. /\ cells' = [cells EXCEPT ![size] = Entry(k, v)] /\ size' = size + 1
        /\ reply' = <<op, result>> /\ UNCHANGED run
    BY <1>2 DEF Stored, Answer
  <2>2. MapInv' /\ Contents' = Extended(Contents, k, v)  BY <1>2, <2>1, StoringStep
  <2> QED  BY <1>1, <1>2, <2>1, <2>2, AbstractChange
<1>3. CASE ~HasCapacity
  <2>1. Keep(op, Terminated)  BY <1>3 DEF Stored
  <2> QED  BY <1>1, <1>3, <2>1, KeptStep
<1> QED  BY <1>2, <1>3

LEMMA MapSteps ==
  ASSUME MapInv, kind = "map", UNCHANGED kind, run = Idle, MapOperation
  PROVE  MapInv' /\ AbstractMap!MapNext
<1> DEFINE Goal == MapInv' /\ AbstractMap!MapNext
<1> SUFFICES Goal  OBVIOUS
<1>0. kind # "array"  OBVIOUS
<1>1. ASSUME NEW k \in Keys, NEW op, NEW value, Keep(op, value),
             \/ op = "Contains" /\ value = Found(k)
             \/ op = "Get" /\ value = IF Found(k) THEN ValueOf(k) ELSE Terminated
             \/ op = "GetOK" /\ value = LookedUp(k)
      PROVE  Goal
  <2>1. MapInv' /\ Contents' = Contents /\ reply' = <<op, value>>  BY <1>1, KeptStep
  <2>2. /\ Found(k) <=> k \in AbstractMap!Present
        /\ Found(k) => Contents[k] = ValueOf(k)
    BY <1>0, LookupIs DEF AbstractMap!Present
  <2>3. CASE op = "Contains" /\ value = Found(k)
    <3>1. Found(k) = (k \in AbstractMap!Present)  BY <2>2 DEF Found
    <3>2. reply' = <<"Contains", k \in AbstractMap!Present>>  BY <2>1, <2>3, <3>1
    <3>3. AbstractMap!Keep("Contains", k \in AbstractMap!Present)
      BY <2>1, <3>2 DEF AbstractMap!Keep, AbstractMap!Answer
    <3>4. AbstractMap!Look(k)  BY <3>3 DEF AbstractMap!Look
    <3> QED  BY <2>1, <3>4 DEF AbstractMap!MapNext
  <2>4. CASE op = "Get" /\ value = IF Found(k) THEN ValueOf(k) ELSE Terminated
    <3>1. reply' = <<"Get", IF k \in AbstractMap!Present THEN Contents[k] ELSE AbstractMap!Terminated>>
      BY <2>1, <2>2, <2>4 DEF Terminated, AbstractMap!Terminated
    <3>2. AbstractMap!Look(k)
      BY <2>1, <3>1 DEF AbstractMap!Look, AbstractMap!Keep, AbstractMap!Answer
    <3> QED  BY <2>1, <3>2 DEF AbstractMap!MapNext
  <2>5. CASE op = "GetOK" /\ value = LookedUp(k)
    <3>1. reply' = <<"GetOK", IF k \in AbstractMap!Present THEN <<Contents[k], TRUE>> ELSE <<"zero", FALSE>> >>
      BY <2>1, <2>2, <2>5 DEF LookedUp
    <3>2. AbstractMap!Look(k)
      BY <2>1, <3>1 DEF AbstractMap!Look, AbstractMap!Keep, AbstractMap!Answer
    <3> QED  BY <2>1, <3>2 DEF AbstractMap!MapNext
  <2> QED  BY <1>1, <2>3, <2>4, <2>5
<1>2. ASSUME NEW k \in Keys, MapPop(k) \/ MapDelete(k) PROVE Goal
  <2>1. /\ Found(k) <=> k \in AbstractMap!Present
        /\ Found(k) => Contents[k] = ValueOf(k)
    BY <1>0, LookupIs DEF AbstractMap!Present
  <2>2. LookedUp(k) = IF k \in AbstractMap!Present THEN <<Contents[k], TRUE>> ELSE <<"zero", FALSE>>
    BY <2>1 DEF LookedUp
  <2>3. CASE MapPop(k)
    <3>1. /\ MapInv' /\ Contents' = AbstractMap!Without(k)
          /\ reply' = <<"Pop", LookedUp(k)>>
      BY <1>0, <2>3, RemovedIs DEF MapPop
    <3>2. AbstractMap!Remove(k)
      BY <2>2, <3>1 DEF AbstractMap!Remove, AbstractMap!Answer
    <3> QED  BY <3>1, <3>2 DEF AbstractMap!MapNext
  <2>4. CASE MapDelete(k)
    <3>1. /\ MapInv' /\ Contents' = AbstractMap!Without(k)
          /\ reply' = <<"Delete", IF k \in DOMAIN Contents THEN "true" ELSE "false">>
      BY <1>0, <2>4, RemovedIs DEF MapDelete
    <3>2. AbstractMap!Remove(k)
      BY <3>1 DEF AbstractMap!Remove, AbstractMap!Answer, AbstractMap!Boolean, AbstractMap!Present
    <3> QED  BY <3>1, <3>2 DEF AbstractMap!MapNext
  <2> QED  BY <1>2, <2>3, <2>4
<1>3. ASSUME NEW k \in Keys, NEW v \in Values, MapSet(k, v) PROVE Goal
  <2>1. CASE Found(k)
    <3>1. /\ cells' = [cells EXCEPT ![FindKey(k)].value = v]
          /\ reply' = <<"Set", "none">> /\ UNCHANGED <<size, run>>
      BY <1>3, <2>1 DEF MapSet, Answer
    <3>2. MapInv' /\ Contents' = AbstractMap!With(k, v)
      BY <1>0, <2>1, <3>1, ReplacingStep, AbstractChange
    <3>3. k \in AbstractMap!Present  BY <1>0, <2>1, LookupIs DEF AbstractMap!Present
    <3>4. AbstractMap!Put(k, v)
      BY <3>1, <3>2, <3>3 DEF AbstractMap!Put, AbstractMap!HasRoomFor, AbstractMap!Answer
    <3> QED  BY <3>2, <3>4 DEF AbstractMap!MapNext
  <2>2. CASE ~Found(k)
    <3>1. k \notin DOMAIN Contents  BY <1>0, <2>2, LookupIs
    <3>2. Stored("Set", "none", Entry(k, v))  BY <1>3, <2>2 DEF MapSet
    <3>3. /\ MapInv'
          /\ IF Cardinality(DOMAIN Contents) < Capacity
             THEN Contents' = AbstractMap!With(k, v) /\ reply' = <<"Set", "none">>
             ELSE Contents' = Contents /\ reply' = <<"Set", Terminated>>
      BY <1>0, <3>1, <3>2, StoredIs
    <3>4. AbstractMap!HasRoomFor(k) <=> Cardinality(DOMAIN Contents) < Capacity
      BY <3>1, SameCount DEF AbstractMap!HasRoomFor, AbstractMap!Present
    <3>5. IF AbstractMap!HasRoomFor(k)
          THEN Contents' = AbstractMap!With(k, v) /\ reply' = <<"Set", "none">>
          ELSE Contents' = Contents /\ reply' = <<"Set", AbstractMap!Terminated>>
      BY <3>3, <3>4 DEF Terminated, AbstractMap!Terminated
    <3>6. AbstractMap!Put(k, v)
      BY <3>5 DEF AbstractMap!Put, AbstractMap!Keep, AbstractMap!Answer
    <3> QED  BY <3>3, <3>6 DEF AbstractMap!MapNext
  <2> QED  BY <2>1, <2>2
<1>4. ASSUME Keep("Len", size) PROVE Goal
  <2>1. MapInv' /\ Contents' = Contents /\ reply' = <<"Len", size>>  BY <1>4, KeptStep
  <2>2. size = AbstractMap!Cardinality(AbstractMap!Present)
    BY <1>0, LengthIs, SameCount DEF AbstractMap!Present
  <2>3. AbstractMap!MapNext
    BY <2>1, <2>2 DEF AbstractMap!MapNext, AbstractMap!Keep, AbstractMap!Answer
  <2> QED  BY <2>1, <2>3
<1>5. ASSUME Clear PROVE Goal
  <2>1. MapInv' /\ Contents' = [k \in {} |-> "none"]  BY <1>0, <1>5, ClearingStep
  <2>2. reply' = <<"Clear", "none">>  BY <1>5 DEF Clear, Answer
  <2>3. AbstractMap!Clear  BY <2>1, <2>2 DEF AbstractMap!Clear, AbstractMap!Answer
  <2> QED  BY <2>1, <2>3 DEF AbstractMap!MapNext
<1> HIDE DEF Goal
<1>6. ASSUME NEW k \in Keys, MapContains(k) \/ MapGet(k) \/ MapGetOK(k) PROVE Goal
  <2>1. MapContains(k) => Goal
    <3>1. MapContains(k) = Keep("Contains", Found(k))  BY DEF MapContains
    <3> QED  BY <1>1, <3>1
  <2>2. MapGet(k) => Goal
    <3>1. MapGet(k) = Keep("Get", IF Found(k) THEN ValueOf(k) ELSE Terminated)  BY DEF MapGet
    <3> QED  BY <1>1, <3>1
  <2>3. MapGetOK(k) => Goal
    <3>1. MapGetOK(k) = Keep("GetOK", LookedUp(k))  BY DEF MapGetOK
    <3> QED  BY <1>1, <3>1
  <2> QED  BY <1>6, <2>1, <2>2, <2>3
<1> QED  BY <1>2, <1>3, <1>4, <1>5, <1>6 DEF MapOperation

-----------------------------------------------------------------------------
(***************************************************************************)
(* Every operation of a set is one of the abstract set.                    *)
(***************************************************************************)
LEMMA SetSteps ==
  ASSUME MapInv, kind = "set", UNCHANGED kind, run = Idle, SetOperation
  PROVE  MapInv' /\ AbstractMap!SetNext
<1> DEFINE Goal == MapInv' /\ AbstractMap!SetNext
<1> SUFFICES Goal  OBVIOUS
<1>0. kind # "array"  OBVIOUS
<1>1. ASSUME NEW k \in Keys, SetContains(k) PROVE Goal
  <2>1. MapInv' /\ Contents' = Contents /\ reply' = <<"Contains", Found(k)>>
    BY <1>1, KeptStep DEF SetContains
  <2>2. Found(k) <=> k \in AbstractMap!Present  BY <1>0, LookupIs DEF AbstractMap!Present
  <2>3. Found(k) = (k \in AbstractMap!Present)  BY <2>2 DEF Found
  <2>4. reply' = <<"Contains", k \in AbstractMap!Present>>  BY <2>1, <2>3
  <2>5. AbstractMap!Keep("Contains", k \in AbstractMap!Present)
    BY <2>1, <2>4 DEF AbstractMap!Keep, AbstractMap!Answer
  <2> QED  BY <2>1, <2>5 DEF AbstractMap!SetNext
<1>2. ASSUME NEW k \in Keys, SetAdd(k) PROVE Goal
  <2>1. CASE Found(k)
    <3>1. MapInv' /\ Contents' = Contents /\ reply' = <<"Add", "false">>
      BY <1>2, <2>1, KeptStep DEF SetAdd
    <3>2. k \in AbstractMap!Present  BY <1>0, <2>1, LookupIs DEF AbstractMap!Present
    <3>3. AbstractMap!Add(k)
      BY <3>1, <3>2 DEF AbstractMap!Add, AbstractMap!Keep, AbstractMap!Answer
    <3> QED  BY <3>1, <3>3 DEF AbstractMap!SetNext
  <2>2. CASE ~Found(k)
    <3>1. k \notin DOMAIN Contents  BY <1>0, <2>2, LookupIs
    <3>2. Stored("Add", "true", Entry(k, "in"))  BY <1>2, <2>2 DEF SetAdd
    <3>3. /\ MapInv'
          /\ IF Cardinality(DOMAIN Contents) < Capacity
             THEN Contents' = AbstractMap!With(k, "in") /\ reply' = <<"Add", "true">>
             ELSE Contents' = Contents /\ reply' = <<"Add", Terminated>>
      BY <1>0, <3>1, <3>2, StoredIs
    <3>4. AbstractMap!HasRoomFor(k) <=> Cardinality(DOMAIN Contents) < Capacity
      BY <3>1, SameCount DEF AbstractMap!HasRoomFor, AbstractMap!Present
    <3>5. k \notin AbstractMap!Present  BY <3>1 DEF AbstractMap!Present
    <3>6. IF AbstractMap!HasRoomFor(k)
          THEN Contents' = AbstractMap!With(k, "in") /\ reply' = <<"Add", "true">>
          ELSE Contents' = Contents /\ reply' = <<"Add", AbstractMap!Terminated>>
      BY <3>3, <3>4 DEF Terminated, AbstractMap!Terminated
    <3>7. AbstractMap!Add(k)
      BY <3>5, <3>6 DEF AbstractMap!Add, AbstractMap!Keep, AbstractMap!Answer
    <3> QED  BY <3>3, <3>7 DEF AbstractMap!SetNext
  <2> QED  BY <2>1, <2>2
<1>3. ASSUME NEW k \in Keys, SetRemove(k) PROVE Goal
  <2>1. /\ MapInv' /\ Contents' = AbstractMap!Without(k)
        /\ reply' = <<"Remove", IF k \in DOMAIN Contents THEN "true" ELSE "false">>
    BY <1>0, <1>3, RemovedIs DEF SetRemove
  <2>2. AbstractMap!Answer("Remove", AbstractMap!Boolean(k \in AbstractMap!Present))
    BY <2>1 DEF AbstractMap!Answer, AbstractMap!Boolean, AbstractMap!Present
  <2> QED  BY <2>1, <2>2 DEF AbstractMap!SetNext
<1>4. ASSUME Keep("Len", size) PROVE Goal
  <2>1. MapInv' /\ Contents' = Contents /\ reply' = <<"Len", size>>  BY <1>4, KeptStep
  <2>2. size = AbstractMap!Cardinality(AbstractMap!Present)
    BY <1>0, LengthIs, SameCount DEF AbstractMap!Present
  <2>3. AbstractMap!SetNext
    BY <2>1, <2>2 DEF AbstractMap!SetNext, AbstractMap!Keep, AbstractMap!Answer
  <2> QED  BY <2>1, <2>3
<1>5. ASSUME Clear PROVE Goal
  <2>1. MapInv' /\ Contents' = [k \in {} |-> "none"]  BY <1>0, <1>5, ClearingStep
  <2>2. reply' = <<"Clear", "none">>  BY <1>5 DEF Clear, Answer
  <2>3. AbstractMap!Clear  BY <2>1, <2>2 DEF AbstractMap!Clear, AbstractMap!Answer
  <2> QED  BY <2>1, <2>3 DEF AbstractMap!SetNext
<1> HIDE DEF Goal
<1> QED  BY <1>1, <1>2, <1>3, <1>4, <1>5 DEF SetOperation

LEMMA MapOrSetSteps ==
  ASSUME MapInv, [ContainerNext]_containerVars
  PROVE  /\ MapInv'
         /\ kind = "map" => [AbstractMap!MapNext]_<<Contents, reply>>
         /\ kind = "set" => [AbstractMap!SetNext]_<<Contents, reply>>
<1>1. UNCHANGED kind  BY DEF ContainerNext, containerVars
<1>2. CASE kind = "array"  BY <1>1, <1>2 DEF MapInv
<1>3. CASE kind # "array" /\ RemoveStep
  <2>1. MapInv' /\ Contents' = Contents  BY <1>1, <1>3, MovingStep
  <2>2. reply' = reply  BY <1>3 DEF RemoveStep
  <2> QED  BY <2>1, <2>2
<1>4. CASE kind = "map" /\ run = Idle /\ MapOperation  BY <1>1, <1>4, MapSteps
<1>5. CASE kind = "set" /\ run = Idle /\ SetOperation  BY <1>1, <1>5, SetSteps
<1>6. CASE UNCHANGED containerVars
  <2>1. UNCHANGED <<cells, size, run, kind, reply>>  BY <1>6 DEF containerVars, vars
  <2> QED  BY <2>1, StillStep
<1> QED  BY <1>2, <1>3, <1>4, <1>5, <1>6 DEF ContainerNext

\* The keys of a map or a set differ in every state.
LEMMA KeysStayApart == ContainerSpec => []MapInv
<1>1. ContainerInit => MapInv  BY MapStarts
<1>2. MapInv /\ [ContainerNext]_containerVars => MapInv'  BY MapOrSetSteps
<1> QED  BY <1>1, <1>2, PTL DEF ContainerSpec

(***************************************************************************)
(* An ArrayMap implements a map, for any keys, values and capacity.        *)
(***************************************************************************)
THEOREM ArrayMapIsMap == ContainerSpec => ImplementsMap
<1>1. ContainerInit => (kind = "map" => AbstractMap!Init)  BY MapStarts
<1>2. MapInv /\ [ContainerNext]_containerVars =>
        [kind = "map" => [AbstractMap!MapNext]_<<Contents, reply>>]_containerVars
  BY MapOrSetSteps
<1> QED  BY <1>1, <1>2, KeysStayApart, PTL DEF ContainerSpec, ImplementsMap

(***************************************************************************)
(* An ArraySet implements a set, for any keys and capacity.                *)
(***************************************************************************)
THEOREM ArraySetIsSet == ContainerSpec => ImplementsSet
<1>1. ContainerInit => (kind = "set" => AbstractMap!Init)  BY MapStarts
<1>2. MapInv /\ [ContainerNext]_containerVars =>
        [kind = "set" => [AbstractMap!SetNext]_<<Contents, reply>>]_containerVars
  BY MapOrSetSteps
<1> QED  BY <1>1, <1>2, KeysStayApart, PTL DEF ContainerSpec, ImplementsSet

-----------------------------------------------------------------------------
(***************************************************************************)
(* Arrays.  The invariant: the locals of every loop, and what the cells    *)
(* hold while it runs.                                                     *)
(***************************************************************************)
InsertOK(c, n, r) ==
  /\ r = [op |-> "insert", cursor |-> r.cursor, index |-> r.index, value |-> r.value]
  /\ n < Capacity /\ r.index \in 0..n /\ r.cursor \in r.index..n /\ r.value \in Elements
  /\ \A i \in 0..n : i # r.cursor => c[i] \in Elements
ReverseOK(r) == r = [op |-> "reverse", index |-> r.index] /\ r.index \in Nat
Ascending(c, last) == \A i, j \in 0..last : i < j => Key[c[i]] <= Key[c[j]]
SortOK(c, n, r) ==
  /\ r = [op |-> "sort", index |-> r.index] /\ r.index \in Nat \ {0}
  /\ \A i, j \in 0..n - 1 : i < j /\ j < r.index => Key[c[i]] <= Key[c[j]]
ShiftOK(c, n, r) ==
  /\ r = [op |-> "shift", index |-> r.index, cursor |-> r.cursor, key |-> r.key]
  /\ r.index \in 1..n - 1 /\ r.cursor \in 0..r.index /\ r.key \in Elements
  /\ \A i, j \in 0..r.index : i < j /\ i # r.cursor /\ j # r.cursor => Key[c[i]] <= Key[c[j]]
  /\ \A j \in r.cursor + 1..r.index : Key[r.key] < Key[c[j]]
DrainOK(r) ==
  r = [op |-> "drain", buffer |-> r.buffer] /\ r.buffer \in Seq(Elements)
CopyOK(c, n, r) ==
  /\ r = [op |-> "copy", buffer |-> r.buffer, start |-> r.start, index |-> r.index]
  /\ r.buffer \in Seq(Elements) /\ r.start = n /\ n + Len(r.buffer) <= Capacity
  /\ r.index \in 0..Len(r.buffer)
  /\ \A j \in 0..r.index - 1 : c[n + j] = r.buffer[j + 1]
ShuffleOK(r, answer) ==
  r = [op |-> "shuffle", index |-> r.index] /\ r.index \in Nat /\ answer = <<"Shuffle", "none">>

ArrayShape(c, n, r, answer) ==
  /\ n \in 0..Capacity /\ DOMAIN c = Positions
  /\ \A i \in 0..n - 1 : c[i] \in Elements
  /\ \/ r = Idle
     \/ r \in Removals(n)
     \/ InsertOK(c, n, r) \/ ReverseOK(r) \/ SortOK(c, n, r) \/ ShiftOK(c, n, r)
     \/ DrainOK(r) \/ CopyOK(c, n, r) \/ ShuffleOK(r, answer)
ArrayInv == kind = "array" => ArrayShape(cells, size, run, reply)

\* What runs is told by its name.
LEMMA RunIs ==
  ASSUME NEW c, NEW n, NEW r, NEW answer, ArrayShape(c, n, r, answer)
  PROVE  /\ r.op = "remove" => r \in Removals(n)
         /\ r.op = "insert" => InsertOK(c, n, r)
         /\ r.op = "reverse" => ReverseOK(r)
         /\ r.op = "sort" => SortOK(c, n, r)
         /\ r.op = "shift" => ShiftOK(c, n, r)
         /\ r.op = "drain" => DrainOK(r)
         /\ r.op = "copy" => CopyOK(c, n, r)
         /\ r.op = "shuffle" => ShuffleOK(r, answer)
<1>1. r = Idle => r.op = "idle"  BY DEF Idle
<1>2. r \in Removals(n) => r.op = "remove"  BY DEF Removals
<1>3. InsertOK(c, n, r) => r.op = "insert"  BY DEF InsertOK
<1>4. ReverseOK(r) => r.op = "reverse"  BY DEF ReverseOK
<1>5. SortOK(c, n, r) => r.op = "sort"  BY DEF SortOK
<1>6. ShiftOK(c, n, r) => r.op = "shift"  BY DEF ShiftOK
<1>7. DrainOK(r) => r.op = "drain"  BY DEF DrainOK
<1>8. CopyOK(c, n, r) => r.op = "copy"  BY DEF CopyOK
<1>9. ShuffleOK(r, answer) => r.op = "shuffle"  BY DEF ShuffleOK
<1> QED
  BY <1>1, <1>2, <1>3, <1>4, <1>5, <1>6, <1>7, <1>8, <1>9 DEF ArrayShape

\* The part of the invariant that every step needs.
Stocked(c, n) ==
  /\ n \in 0..Capacity /\ DOMAIN c = Positions
  /\ \A i \in 0..n - 1 : c[i] \in Elements

LEMMA ArrayFacts ==
  ASSUME NEW c, NEW n, Stocked(c, n)
  PROVE  /\ n \in Nat /\ Capacity \in Nat /\ n <= Capacity
         /\ \A i : i \in Positions <=> i \in Int /\ 0 <= i /\ i < Capacity
         /\ \A v \in Elements : Key[v] \in Int
BY VarArrayAssumption DEF Stocked, Positions

LEMMA ShapeStocked ==
  ASSUME NEW c, NEW n, NEW r, NEW answer
  PROVE  /\ ArrayShape(c, n, r, answer) => Stocked(c, n)
         /\ Stocked(c, n) => ArrayShape(c, n, Idle, answer)
BY DEF ArrayShape, Stocked

LEMMA ExchangeStocked ==
  ASSUME Stocked(cells, size), NEW i \in 0..size - 1, NEW j \in 0..size - 1
  PROVE  /\ Stocked(Exchanged(i, j), size)
         /\ \A p \in 0..size - 1 : Exchanged(i, j)[p] =
              IF p = j THEN cells[i] ELSE IF p = i THEN cells[j] ELSE cells[p]
<1>1. /\ size \in Nat /\ Capacity \in Nat /\ size <= Capacity
      /\ \A p : p \in Positions <=> p \in Int /\ 0 <= p /\ p < Capacity
  BY ArrayFacts
<1>2. i \in Positions /\ j \in Positions /\ \A p \in 0..size - 1 : p \in Positions  BY <1>1
<1> DEFINE d == Exchanged(i, j)
<1>3. DOMAIN d = Positions /\ \A p \in 0..size - 1 : d[p] =
         IF p = j THEN cells[i] ELSE IF p = i THEN cells[j] ELSE cells[p]
  BY <1>2 DEF Exchanged, Stocked
<1> HIDE DEF d
<1>4. \A p \in 0..size - 1 : d[p] \in Elements  BY <1>3 DEF Stocked
<1> QED  BY <1>3, <1>4 DEF Stocked, d

\* A cell of an array is written.
LEMMA WriteStep ==
  ASSUME Stocked(cells, size), NEW i \in Positions, NEW v, cells' = [cells EXCEPT ![i] = v]
  PROVE  /\ v \in Elements => Stocked(cells', size)
         /\ DOMAIN cells' = Positions /\ cells'[i] = v
         /\ \A j \in Positions : j # i => cells'[j] = cells[j]
<1>1. /\ DOMAIN cells' = Positions /\ cells'[i] = v
      /\ \A j \in Positions : j # i => cells'[j] = cells[j]
  BY DEF Stocked
<1>2. size \in 0..Capacity /\ \A j \in 0..size - 1 : j \in Positions /\ cells[j] \in Elements
  <2>1. /\ size \in Nat /\ Capacity \in Nat /\ size <= Capacity
        /\ \A j : j \in Positions <=> j \in Int /\ 0 <= j /\ j < Capacity
    BY ArrayFacts
  <2> QED  BY <2>1 DEF Stocked
<1> QED  BY <1>1, <1>2 DEF Stocked

\* Operations of one step.
LEMMA OperationKeeps ==
  ASSUME ArrayInv, kind = "array", run = Idle, Operation
  PROVE  ArrayShape(cells', size', run', reply')
<1> DEFINE Goal == ArrayShape(cells', size', run', reply')
<1> SUFFICES Goal  OBVIOUS
<1>1. Stocked(cells, size)  BY ShapeStocked DEF ArrayInv
<1>2. /\ size \in Nat /\ Capacity \in Nat /\ size <= Capacity
      /\ \A i : i \in Positions <=> i \in Int /\ 0 <= i /\ i < Capacity
  BY <1>1, ArrayFacts
<1>3. ASSUME Stocked(cells', size'), run' = Idle PROVE Goal  BY <1>3, ShapeStocked
<1>4. ASSUME NEW op, NEW value, Keep(op, value) PROVE Goal
  BY <1>1, <1>3, <1>4 DEF Keep
<1>5. ASSUME NEW record, Loop(record), ArrayShape(cells, size, record, reply') PROVE Goal
  BY <1>5 DEF Loop
<1>6. \A answer : ArrayShape(cells, size, Idle, answer)  BY <1>1, ShapeStocked
<1>10. ASSUME NEW v \in Elements, AppendOne(v) PROVE Goal
  <2>1. CASE HasCapacity
    <3>1. size \in Positions  BY <1>2, <2>1 DEF HasCapacity
    <3>2. cells' = [cells EXCEPT ![size] = v] /\ size' = size + 1 /\ run' = Idle
      BY <1>1, <1>10, <2>1 DEF AppendOne, Keep
    <3>3. /\ DOMAIN cells' = Positions /\ cells'[size] = v
          /\ \A j \in Positions : j # size => cells'[j] = cells[j]
      BY <1>1, <3>1, <3>2, WriteStep
    <3>4. \A j \in 0..size - 1 : j \in Positions /\ cells[j] \in Elements  BY <1>1, <1>2 DEF Stocked
    <3>5. \A j \in 0..size' - 1 : cells'[j] \in Elements  BY <1>2, <3>2, <3>3, <3>4
    <3>6. size' \in 0..Capacity  BY <1>2, <2>1, <3>2 DEF HasCapacity
    <3> QED  BY <1>3, <3>2, <3>3, <3>5, <3>6 DEF Stocked
  <2>2. CASE ~HasCapacity  BY <1>4, <1>10, <2>2 DEF AppendOne
  <2> QED  BY <2>1, <2>2
<1>11. ASSUME NEW v \in Elements, RemoveValue(v) PROVE Goal
  <2>1. CASE Find(v) # -1
    <3>1. Loop([op |-> "remove", cursor |-> Find(v)])  BY <1>11, <2>1 DEF RemoveValue
    <3>2. [op |-> "remove", cursor |-> Find(v)] \in Removals(size)
      BY <1>2, <2>1, FindIs DEF IsFirst, Removals
    <3>3. ArrayShape(cells, size, [op |-> "remove", cursor |-> Find(v)], reply')
      BY <1>1, <3>2 DEF Stocked, ArrayShape
    <3> QED  BY <1>5, <3>1, <3>3
  <2>2. CASE Find(v) = -1
    <3>1. Keep("Remove", FALSE)  BY <1>11, <2>2 DEF RemoveValue
    <3> QED  BY <1>4, <3>1
  <2> QED  BY <2>1, <2>2
<1>12. ASSUME NEW v \in Elements, Index(v) \/ LastIndex(v) \/ Count(v) PROVE Goal
  <2> HIDE DEF Goal
  <2>1. Index(v) => Goal  BY <1>4 DEF Index
  <2>2. LastIndex(v) => Goal  BY <1>4 DEF LastIndex
  <2>3. Count(v) => Goal  BY <1>4 DEF Count
  <2> QED  BY <1>12, <2>1, <2>2, <2>3
<1>13. ASSUME NEW i \in Arguments, Get(i) PROVE Goal  BY <1>4, <1>13 DEF Get
<1>14. ASSUME NEW i \in Arguments, RemoveIndex(i) PROVE Goal
  <2>1. CASE InRange(i)
    <3>1. Loop([op |-> "remove", cursor |-> i])  BY <1>14, <2>1 DEF RemoveIndex
    <3>2. [op |-> "remove", cursor |-> i] \in Removals(size)
      BY <1>2, <2>1 DEF Removals, InRange, Arguments
    <3>3. ArrayShape(cells, size, [op |-> "remove", cursor |-> i], reply')
      BY <1>1, <3>2 DEF Stocked, ArrayShape
    <3> QED  BY <1>5, <3>1, <3>3
  <2>2. CASE ~InRange(i)
    <3>1. Keep("RemoveAt", Terminated)  BY <1>14, <2>2 DEF RemoveIndex
    <3> QED  BY <1>4, <3>1
  <2> QED  BY <2>1, <2>2
<1>15. ASSUME NEW i \in Arguments, NEW v \in Elements, Set(i, v) PROVE Goal
  <2>1. CASE InRange(i)
    <3>1. cells' = [cells EXCEPT ![i] = v] /\ UNCHANGED <<size, run>>
      BY <1>15, <2>1 DEF Set
    <3>2. i \in Positions  BY <1>2, <2>1 DEF InRange, Arguments
    <3> QED  BY <1>1, <1>3, <3>1, <3>2, WriteStep
  <2>2. CASE ~InRange(i)
    <3>1. Keep("Set", Terminated)  BY <1>15, <2>2 DEF Set
    <3> QED  BY <1>4, <3>1
  <2> QED  BY <2>1, <2>2
<1>16. ASSUME NEW i \in Arguments, NEW v \in Elements, Insert(i, v) PROVE Goal
  <2>1. CASE 0 <= i /\ i <= size /\ HasCapacity
    <3> DEFINE r == [op |-> "insert", cursor |-> size, index |-> i, value |-> v]
    <3>1. Loop(r)  BY <1>16, <2>1 DEF Insert
    <3>2. i \in 0..size /\ size \in i..size /\ size < Capacity
      BY <1>2, <2>1 DEF Arguments, HasCapacity
    <3>3. \A j \in 0..size : j # size => cells[j] \in Elements  BY <1>1, <1>2 DEF Stocked
    <3>4. r.cursor = size /\ r.index = i /\ r.value = v  OBVIOUS
    <3>5. r = [op |-> "insert", cursor |-> r.cursor, index |-> r.index, value |-> r.value]
      OBVIOUS
    <3> HIDE DEF r
    <3>6. InsertOK(cells, size, r)  BY <3>2, <3>3, <3>4, <3>5 DEF InsertOK
    <3>7. ArrayShape(cells, size, r, reply')  BY <1>1, <3>6 DEF Stocked, ArrayShape
    <3> QED  BY <1>5, <3>1, <3>7
  <2>2. CASE ~(0 <= i /\ i <= size /\ HasCapacity)
    <3>1. Keep("Insert", Terminated)  BY <1>16, <2>2 DEF Insert
    <3> QED  BY <1>4, <3>1
  <2> QED  BY <2>1, <2>2
<1>17. ASSUME NEW i \in Arguments, NEW j \in Arguments, Swap(i, j) PROVE Goal
  <2>1. CASE InRange(i) /\ InRange(j)
    <3>1. cells' = Exchanged(i, j) /\ UNCHANGED <<size, run>>  BY <1>17, <2>1 DEF Swap
    <3>2. i \in 0..size - 1 /\ j \in 0..size - 1  BY <1>2, <2>1 DEF InRange, Arguments
    <3>3. Stocked(cells', size)  BY <1>1, <3>1, <3>2, ExchangeStocked
    <3> QED  BY <1>3, <3>1, <3>3
  <2>2. CASE ~(InRange(i) /\ InRange(j))
    <3>1. Keep("Swap", Terminated)  BY <1>17, <2>2 DEF Swap
    <3> QED  BY <1>4, <3>1
  <2> QED  BY <2>1, <2>2
<1>18. ASSUME IndexMinFunc \/ IndexMaxFunc \/ MinFunc \/ MaxFunc PROVE Goal
  <2> HIDE DEF Goal
  <2>1. IndexMinFunc => Goal  BY <1>4 DEF IndexMinFunc
  <2>2. IndexMaxFunc => Goal  BY <1>4 DEF IndexMaxFunc
  <2>3. MinFunc => Goal  BY <1>4 DEF MinFunc, ExtremeOrTerminate
  <2>4. MaxFunc => Goal  BY <1>4 DEF MaxFunc, ExtremeOrTerminate
  <2> QED  BY <1>18, <2>1, <2>2, <2>3, <2>4
<1>19. ASSUME Clear PROVE Goal
  <2>1. cells' = cells /\ size' = 0 /\ run' = Idle  BY <1>19 DEF Clear
  <2>2. Stocked(cells', size')  BY <1>1, <1>2, <2>1 DEF Stocked
  <2> QED  BY <1>3, <2>1, <2>2
<1>20. ASSUME ReverseAll PROVE Goal
  <2>1. Loop([op |-> "reverse", index |-> 0])  BY <1>20 DEF ReverseAll
  <2>2. ReverseOK([op |-> "reverse", index |-> 0])  BY DEF ReverseOK
  <2>3. ArrayShape(cells, size, [op |-> "reverse", index |-> 0], reply')
    BY <1>1, <2>2 DEF Stocked, ArrayShape
  <2> QED  BY <1>5, <2>1, <2>3
<1>21. ASSUME SortFunc PROVE Goal
  <2>1. Loop([op |-> "sort", index |-> 1])  BY <1>21 DEF SortFunc
  <2>2. SortOK(cells, size, [op |-> "sort", index |-> 1])  BY <1>2 DEF SortOK
  <2>3. ArrayShape(cells, size, [op |-> "sort", index |-> 1], reply')
    BY <1>1, <2>2 DEF Stocked, ArrayShape
  <2> QED  BY <1>5, <2>1, <2>3
<1>22. ASSUME Shuffle PROVE Goal
  <2>1. Loop([op |-> "shuffle", index |-> 0])  BY <1>22 DEF Shuffle
  <2>2. ShuffleOK([op |-> "shuffle", index |-> 0], reply')
    BY <1>22 DEF Shuffle, Answer, ShuffleOK
  <2>3. ArrayShape(cells, size, [op |-> "shuffle", index |-> 0], reply')
    BY <1>1, <2>2 DEF Stocked, ArrayShape
  <2> QED  BY <1>5, <2>1, <2>3
<1>23. ASSUME Extend PROVE Goal
  <2>1. Loop([op |-> "drain", buffer |-> <<>>])  BY <1>23 DEF Extend
  <2>2. DrainOK([op |-> "drain", buffer |-> <<>>])  BY EmptySeq DEF DrainOK
  <2>3. ArrayShape(cells, size, [op |-> "drain", buffer |-> <<>>], reply')
    BY <1>1, <2>2 DEF Stocked, ArrayShape
  <2> QED  BY <1>5, <2>1, <2>3
<1> HIDE DEF Goal
<1>30. CASE \E v \in Elements :
              AppendOne(v) \/ RemoveValue(v) \/ Index(v) \/ LastIndex(v) \/ Count(v)
  BY <1>30, <1>10, <1>11, <1>12
<1>31. CASE \E i \in Arguments : Get(i) \/ RemoveIndex(i)  BY <1>31, <1>13, <1>14
<1>32. CASE \E i \in Arguments, v \in Elements : Set(i, v) \/ Insert(i, v)
  BY <1>32, <1>15, <1>16
<1>33. CASE \E i, j \in Arguments : Swap(i, j)  BY <1>33, <1>17
<1> QED
  BY <1>30, <1>31, <1>32, <1>33, <1>18, <1>19, <1>20, <1>21, <1>22, <1>23 DEF Operation

-----------------------------------------------------------------------------
(* Loops keep the invariant. *)

LEMMA RemoveStepKeeps ==
  ASSUME ArrayShape(cells, size, run, reply), RemoveStep
  PROVE  ArrayShape(cells', size', run', reply')
<1>1. Stocked(cells, size)  BY ShapeStocked
<1>2. /\ size \in Nat /\ Capacity \in Nat /\ size <= Capacity
      /\ \A i : i \in Positions <=> i \in Int /\ 0 <= i /\ i < Capacity
  BY <1>1, ArrayFacts
<1>3. run.cursor \in 0..size - 1 /\ run = [op |-> "remove", cursor |-> run.cursor]
  BY RunIs DEF RemoveStep, Removals
<1> DEFINE p == run.cursor
<1>4. CASE p < size - 1
  <2>1. /\ cells' = [cells EXCEPT ![p] = cells[p + 1]] /\ size' = size
        /\ run' = [op |-> "remove", cursor |-> p + 1]
    BY <1>3, <1>4 DEF RemoveStep
  <2>2. run' \in Removals(size)  BY <1>2, <1>3, <1>4, <2>1 DEF Removals
  <2>3. p + 1 \in 0..size - 1 /\ p \in Positions  BY <1>2, <1>3, <1>4
  <2>4. cells[p + 1] \in Elements  BY <1>1, <2>3 DEF Stocked
  <2> HIDE DEF p
  <2>5. Stocked(cells', size)  BY <1>1, <2>1, <2>3, <2>4, WriteStep
  <2> QED  BY <2>1, <2>2, <2>5 DEF Stocked, ArrayShape
<1>5. CASE ~(p < size - 1)
  <2>1. cells' = cells /\ size' = size - 1 /\ run' = Idle  BY <1>5 DEF RemoveStep
  <2>2. Stocked(cells', size')  BY <1>1, <1>2, <1>3, <2>1 DEF Stocked
  <2> QED  BY <2>1, <2>2, ShapeStocked
<1> QED  BY <1>4, <1>5

LEMMA InsertStepKeeps ==
  ASSUME ArrayShape(cells, size, run, reply), InsertStep
  PROVE  ArrayShape(cells', size', run', reply')
<1>1. Stocked(cells, size)  BY ShapeStocked
<1>2. /\ size \in Nat /\ Capacity \in Nat /\ size <= Capacity
      /\ \A i : i \in Positions <=> i \in Int /\ 0 <= i /\ i < Capacity
  BY <1>1, ArrayFacts
<1>3. InsertOK(cells, size, run)  BY RunIs DEF InsertStep
<1> DEFINE p == run.cursor  at == run.index  v == run.value
<1>4. /\ run = [op |-> "insert", cursor |-> p, index |-> at, value |-> v]
      /\ size < Capacity /\ at \in 0..size /\ p \in at..size /\ v \in Elements
      /\ \A i \in 0..size : i # p => cells[i] \in Elements
  BY <1>3 DEF InsertOK
<1>5. CASE p > at
  <2>1. /\ cells' = [cells EXCEPT ![p] = cells[p - 1]] /\ size' = size
        /\ run' = [op |-> "insert", cursor |-> p - 1, index |-> at, value |-> v]
    BY <1>4, <1>5 DEF InsertStep
  <2> HIDE DEF p, at, v
  <2>2. p \in Positions /\ p - 1 \in at..size /\ p - 1 \in 0..size /\ p - 1 # p
    BY <1>2, <1>4, <1>5
  <2>3. cells[p - 1] \in Elements  BY <1>4, <2>2
  <2>4. /\ Stocked(cells', size) /\ cells'[p] = cells[p - 1]
        /\ \A i \in Positions : i # p => cells'[i] = cells[i]
    BY <1>1, <2>1, <2>2, <2>3, WriteStep
  <2>5. \A i \in 0..size : i \in Positions  BY <1>2, <1>4
  <2>6. \A i \in 0..size : i # p - 1 => cells'[i] \in Elements
    BY <1>4, <2>3, <2>4, <2>5
  <2>7. InsertOK(cells', size, run')  BY <1>4, <2>1, <2>2, <2>6 DEF InsertOK
  <2> QED  BY <2>1, <2>4, <2>7 DEF Stocked, ArrayShape
<1>6. CASE ~(p > at)
  <2>1. cells' = [cells EXCEPT ![at] = v] /\ size' = size + 1 /\ run' = Idle
    BY <1>6 DEF InsertStep
  <2>2. p = at  BY <1>2, <1>4, <1>6
  <2> HIDE DEF p, at, v
  <2>3. at \in Positions /\ size' \in 0..Capacity /\ \A i \in 0..size' - 1 : i \in 0..size /\ i \in Positions
    BY <1>2, <1>4, <2>1
  <2>4. DOMAIN cells' = Positions /\ cells'[at] = v /\ \A i \in Positions : i # at => cells'[i] = cells[i]
    BY <1>1, <2>1, <2>3, WriteStep
  <2>5. Stocked(cells', size')  BY <1>4, <2>2, <2>3, <2>4 DEF Stocked
  <2> QED  BY <2>1, <2>5, ShapeStocked
<1> QED  BY <1>5, <1>6

LEMMA ReverseStepKeeps ==
  ASSUME ArrayShape(cells, size, run, reply), ReverseStep
  PROVE  ArrayShape(cells', size', run', reply')
<1>1. Stocked(cells, size)  BY ShapeStocked
<1>2. size \in Nat  BY <1>1, ArrayFacts
<1>3. run = [op |-> "reverse", index |-> run.index] /\ run.index \in Nat
  BY RunIs DEF ReverseStep, ReverseOK
<1>4. CASE 2 * run.index < size
  <2>1. /\ cells' = Exchanged(run.index, size - 1 - run.index) /\ size' = size
        /\ run' = [op |-> "reverse", index |-> run.index + 1]
    BY <1>3, <1>4 DEF ReverseStep
  <2>2. run.index \in 0..size - 1 /\ size - 1 - run.index \in 0..size - 1  BY <1>2, <1>3, <1>4
  <2>3. Stocked(cells', size)  BY <1>1, <2>1, <2>2, ExchangeStocked
  <2>4. ReverseOK(run')  BY <1>3, <2>1 DEF ReverseOK
  <2> QED  BY <2>1, <2>3, <2>4 DEF Stocked, ArrayShape
<1>5. CASE ~(2 * run.index < size)
  BY <1>1, <1>5, ShapeStocked DEF ReverseStep
<1> QED  BY <1>4, <1>5

LEMMA SortLoadKeyKeeps ==
  ASSUME ArrayShape(cells, size, run, reply), SortLoadKey
  PROVE  ArrayShape(cells', size', run', reply')
<1>1. Stocked(cells, size)  BY ShapeStocked
<1>2. size \in Nat /\ UNCHANGED <<cells, size, reply>>  BY <1>1, ArrayFacts DEF SortLoadKey
<1>3. SortOK(cells, size, run)  BY RunIs DEF SortLoadKey
<1>4. CASE run.index < size
  <2>1. run' = [op |-> "shift", index |-> run.index, cursor |-> run.index, key |-> cells[run.index]]
    BY <1>4 DEF SortLoadKey
  <2>2. run.index \in 1..size - 1  BY <1>2, <1>3, <1>4 DEF SortOK
  <2>3. cells[run.index] \in Elements  BY <1>1, <2>2 DEF Stocked
  <2>4. \A i, j \in 0..run.index : i < j /\ j # run.index => Key[cells[i]] <= Key[cells[j]]
    BY <1>2, <1>3, <2>2 DEF SortOK
  <2>5. ShiftOK(cells, size, run')  BY <2>1, <2>2, <2>3, <2>4 DEF ShiftOK
  <2> QED  BY <1>1, <1>2, <2>5 DEF Stocked, ArrayShape
<1>5. CASE ~(run.index < size)
  BY <1>1, <1>2, <1>5, ShapeStocked DEF SortLoadKey
<1> QED  BY <1>4, <1>5

LEMMA SortShiftKeeps ==
  ASSUME ArrayShape(cells, size, run, reply), SortShift
  PROVE  ArrayShape(cells', size', run', reply')
<1>1. Stocked(cells, size)  BY ShapeStocked
<1>2. /\ size \in Nat /\ Capacity \in Nat /\ size <= Capacity
      /\ \A i : i \in Positions <=> i \in Int /\ 0 <= i /\ i < Capacity
      /\ \A v \in Elements : Key[v] \in Int
  BY <1>1, ArrayFacts
<1> DEFINE p == run.cursor  at == run.index  key == run.key
<1>3. /\ run = [op |-> "shift", index |-> at, cursor |-> p, key |-> key]
      /\ at \in 1..size - 1 /\ p \in 0..at /\ key \in Elements
      /\ \A i, j \in 0..at : i < j /\ i # p /\ j # p => Key[cells[i]] <= Key[cells[j]]
      /\ \A j \in p + 1..at : Key[key] < Key[cells[j]]
  BY RunIs DEF SortShift, ShiftOK
<1>4. p \in Positions /\ \A i \in 0..at : i \in Positions /\ cells[i] \in Elements
  BY <1>1, <1>2, <1>3 DEF Stocked
<1>5. CASE p > 0 /\ Before(key, cells[p - 1])
  <2>1. /\ cells' = [cells EXCEPT ![p] = cells[p - 1]] /\ size' = size
        /\ run' = [op |-> "shift", index |-> at, cursor |-> p - 1, key |-> key]
    BY <1>3, <1>5 DEF SortShift
  <2>2. Key[key] < Key[cells[p - 1]]  BY <1>5 DEF Before
  <2> HIDE DEF p, at, key
  <2>3. p - 1 \in 0..at /\ p - 1 < p  BY <1>2, <1>3, <1>5
  <2>4. /\ Stocked(cells', size) /\ cells'[p] = cells[p - 1]
        /\ \A i \in 0..at : i # p => cells'[i] = cells[i]
    BY <1>1, <1>4, <2>1, <2>3, WriteStep
  <2>5. ASSUME NEW i \in 0..at, NEW j \in 0..at, i < j, i # p - 1, j # p - 1
        PROVE  Key[cells'[i]] <= Key[cells'[j]]
    <3>1. CASE i # p /\ j # p  BY <1>3, <2>4, <2>5, <3>1
    <3>2. CASE i = p
      <4>1. j # p /\ p - 1 < j  BY <1>3, <2>3, <2>5, <3>2
      <4> QED  BY <1>3, <2>3, <2>4, <3>2, <4>1
    <3>3. CASE j = p
      <4>1. i # p /\ i < p - 1  BY <1>3, <2>3, <2>5, <3>3
      <4> QED  BY <1>3, <2>3, <2>4, <3>3, <4>1
    <3> QED  BY <3>1, <3>2, <3>3
  <2>6. ASSUME NEW j \in (p - 1) + 1..at PROVE Key[key] < Key[cells'[j]]
    <3>1. CASE j = p  BY <2>2, <2>4, <3>1
    <3>2. CASE j # p
      <4>1. j \in p + 1..at /\ j \in 0..at  BY <1>3, <2>6, <3>2
      <4> QED  BY <1>3, <2>4, <3>2, <4>1
    <3> QED  BY <3>1, <3>2
  <2>7. ShiftOK(cells', size, run')  BY <1>3, <2>1, <2>3, <2>5, <2>6 DEF ShiftOK
  <2> QED  BY <2>1, <2>4, <2>7 DEF Stocked, ArrayShape
<1>6. CASE ~(p > 0 /\ Before(key, cells[p - 1]))
  <2>1. /\ cells' = [cells EXCEPT ![p] = key] /\ size' = size
        /\ run' = [op |-> "sort", index |-> at + 1]
    BY <1>6 DEF SortShift
  <2>2. p = 0 \/ (p - 1 \in 0..at /\ Key[cells[p - 1]] <= Key[key])
    <3>1. p # 0 => p > 0 /\ p - 1 \in 0..at  BY <1>3
    <3>2. p # 0 => Key[cells[p - 1]] \in Int /\ Key[key] \in Int  BY <1>2, <1>3, <1>4, <3>1
    <3> QED  BY <1>6, <3>1, <3>2 DEF Before
  <2> HIDE DEF p, at, key
  <2>3. /\ Stocked(cells', size) /\ cells'[p] = key
        /\ \A i \in 0..at : i # p => cells'[i] = cells[i]
    BY <1>1, <1>3, <1>4, <2>1, WriteStep
  <2>4. ASSUME NEW i \in 0..size - 1, NEW j \in 0..size - 1, i < j, j < at + 1
        PROVE  Key[cells'[i]] <= Key[cells'[j]]
    <3>1. i \in 0..at /\ j \in 0..at  BY <1>3, <2>4
    <3>2. CASE i # p /\ j # p  BY <1>3, <2>3, <2>4, <3>1, <3>2
    <3>3. CASE i = p
      <4>1. j \in p + 1..at  BY <1>3, <2>4, <3>1, <3>3
      <4>2. Key[key] < Key[cells[j]]  BY <1>3, <4>1
      <4>3. Key[key] \in Int /\ Key[cells[j]] \in Int /\ j # p
        BY <1>2, <1>3, <1>4, <2>4, <3>1, <3>3
      <4> QED  BY <2>3, <3>1, <3>3, <4>2, <4>3
    <3>4. CASE j = p
      <4>1. p - 1 \in 0..at /\ Key[cells[p - 1]] <= Key[key] /\ i # p
        BY <1>3, <2>2, <2>4, <3>1, <3>4
      <4>2. i = p - 1 \/ Key[cells[i]] <= Key[cells[p - 1]]  BY <1>3, <2>4, <3>1, <3>4, <4>1
      <4>3. Key[key] \in Int /\ Key[cells[i]] \in Int /\ Key[cells[p - 1]] \in Int
        BY <1>2, <1>3, <1>4, <3>1, <4>1
      <4>4. Key[cells[i]] <= Key[key]  BY <4>1, <4>2, <4>3
      <4> QED  BY <2>3, <3>1, <3>4, <4>1, <4>4
    <3> QED  BY <3>2, <3>3, <3>4
  <2>5. SortOK(cells', size, run')  BY <1>3, <2>1, <2>4 DEF SortOK
  <2> QED  BY <2>1, <2>3, <2>5 DEF Stocked, ArrayShape
<1> QED  BY <1>5, <1>6

LEMMA ShuffleStepKeeps ==
  ASSUME ArrayShape(cells, size, run, reply), ShuffleStep
  PROVE  ArrayShape(cells', size', run', reply')
<1>1. Stocked(cells, size)  BY ShapeStocked
<1>2. /\ size \in Nat /\ Capacity \in Nat /\ size <= Capacity
      /\ \A i : i \in Positions <=> i \in Int /\ 0 <= i /\ i < Capacity
  BY <1>1, ArrayFacts
<1>3. ShuffleOK(run, reply) /\ UNCHANGED <<size, reply>>  BY RunIs DEF ShuffleStep
<1>4. CASE run.index < size
  <2>1. PICK i \in run.index..size - 1, j \in run.index..size - 1 :
          cells' = [cells EXCEPT ![run.index] = cells[i], ![j] = cells[run.index]]
    BY <1>4 DEF ShuffleStep
  <2>2. run' = [op |-> "shuffle", index |-> run.index + 1]
    BY <1>3, <1>4 DEF ShuffleStep, ShuffleOK
  <2>3. run.index \in 0..size - 1 /\ i \in 0..size - 1 /\ j \in 0..size - 1
    BY <1>2, <1>3, <1>4 DEF ShuffleOK
  <2>4. \A q \in 0..size - 1 : q \in Positions /\ cells[q] \in Elements
    BY <1>1, <1>2 DEF Stocked
  <2>5. DOMAIN cells' = Positions /\ \A q \in 0..size - 1 : cells'[q] \in Elements
    BY <1>1, <2>1, <2>3, <2>4 DEF Stocked
  <2>6. Stocked(cells', size')  BY <1>1, <1>3, <2>5 DEF Stocked
  <2>7. ShuffleOK(run', reply')  BY <1>3, <2>2 DEF ShuffleOK
  <2> QED  BY <2>6, <2>7 DEF Stocked, ArrayShape
<1>5. CASE ~(run.index < size)
  BY <1>1, <1>3, <1>5, ShapeStocked DEF ShuffleStep
<1> QED  BY <1>4, <1>5

LEMMA YieldKeeps ==
  ASSUME ArrayShape(cells, size, run, reply), NEW v \in Elements, Yield(v)
  PROVE  ArrayShape(cells', size', run', reply')
<1>1. Stocked(cells, size)  BY ShapeStocked
<1>2. DrainOK(run)  BY RunIs DEF Yield
<1>3. CASE Len(run.buffer) < Capacity
  <2>1. run' = [op |-> "drain", buffer |-> Append(run.buffer, v)] /\ UNCHANGED <<cells, size>>
    BY <1>2, <1>3 DEF Yield, Loop, DrainOK
  <2>2. Append(run.buffer, v) \in Seq(Elements)  BY <1>2, AppendProperties DEF DrainOK
  <2>3. DrainOK(run')  BY <2>1, <2>2 DEF DrainOK
  <2> QED  BY <1>1, <2>1, <2>3 DEF Stocked, ArrayShape
<1>4. CASE ~(Len(run.buffer) < Capacity)
  <2>1. run' = Idle /\ UNCHANGED <<cells, size>>  BY <1>4 DEF Yield, Loop
  <2> QED  BY <1>1, <2>1, ShapeStocked
<1> QED  BY <1>3, <1>4

LEMMA BodyUsesKeeps ==
  ASSUME ArrayShape(cells, size, run, reply), BodyUses
  PROVE  ArrayShape(cells', size', run', reply')
<1>1. Stocked(cells, size)  BY ShapeStocked
<1>2. /\ size \in Nat /\ Capacity \in Nat /\ size <= Capacity
      /\ \A i : i \in Positions <=> i \in Int /\ 0 <= i /\ i < Capacity
  BY <1>1, ArrayFacts
<1>3. DrainOK(run)  BY RunIs DEF BodyUses
<1>4. Stocked(cells', size') /\ run' = run
  <2>1. CASE Clear  BY <1>1, <1>2, <2>1 DEF Clear, Stocked
  <2>2. CASE HasCapacity /\ \E v \in Elements : AppendOne(v)
    <3>1. PICK v \in Elements : AppendOne(v)  BY <2>2
    <3>2. size \in Positions /\ size < Capacity  BY <1>2, <2>2 DEF HasCapacity
    <3>3. cells' = [cells EXCEPT ![size] = v] /\ size' = size + 1 /\ run' = run
      BY <2>2, <3>1 DEF AppendOne, Keep
    <3>4. /\ DOMAIN cells' = Positions /\ cells'[size] = v
          /\ \A j \in Positions : j # size => cells'[j] = cells[j]
      BY <1>1, <3>2, <3>3, WriteStep
    <3>5. \A j \in 0..size - 1 : j \in Positions /\ cells[j] \in Elements  BY <1>1, <1>2 DEF Stocked
    <3>6. \A j \in 0..size' - 1 : cells'[j] \in Elements  BY <1>2, <3>3, <3>4, <3>5
    <3>7. size' \in 0..Capacity  BY <1>2, <3>2, <3>3
    <3> QED  BY <3>3, <3>4, <3>6, <3>7 DEF Stocked
  <2> QED  BY <2>1, <2>2 DEF BodyUses
<1> QED  BY <1>3, <1>4 DEF Stocked, ArrayShape

LEMMA SequenceEndsKeeps ==
  ASSUME ArrayShape(cells, size, run, reply), SequenceEnds
  PROVE  ArrayShape(cells', size', run', reply')
<1>1. Stocked(cells, size)  BY ShapeStocked
<1>2. DrainOK(run)  BY RunIs DEF SequenceEnds
<1>3. CASE size + Len(run.buffer) <= Capacity
  <2> DEFINE r == [op |-> "copy", buffer |-> run.buffer, start |-> size, index |-> 0]
  <2>1. run' = r /\ UNCHANGED <<cells, size>>  BY <1>3 DEF SequenceEnds, Loop
  <2>2. run.buffer \in Seq(Elements) /\ Len(run.buffer) \in Nat  BY <1>2, LenProperties DEF DrainOK
  <2>3. r = [op |-> "copy", buffer |-> r.buffer, start |-> r.start, index |-> r.index]
        /\ r.buffer = run.buffer /\ r.start = size /\ r.index = 0
    OBVIOUS
  <2> HIDE DEF r
  <2>4. CopyOK(cells, size, r)  BY <1>3, <2>2, <2>3 DEF CopyOK
  <2> QED  BY <1>1, <2>1, <2>4 DEF Stocked, ArrayShape
<1>4. CASE ~(size + Len(run.buffer) <= Capacity)
  <2>1. run' = Idle /\ UNCHANGED <<cells, size>>  BY <1>4 DEF SequenceEnds, Loop
  <2> QED  BY <1>1, <2>1, ShapeStocked
<1> QED  BY <1>3, <1>4

LEMMA CopyStepKeeps ==
  ASSUME ArrayShape(cells, size, run, reply), CopyStep
  PROVE  ArrayShape(cells', size', run', reply')
<1>1. Stocked(cells, size)  BY ShapeStocked
<1>2. /\ size \in Nat /\ Capacity \in Nat /\ size <= Capacity
      /\ \A i : i \in Positions <=> i \in Int /\ 0 <= i /\ i < Capacity
  BY <1>1, ArrayFacts
<1> DEFINE b == run.buffer  at == run.index
<1>3. /\ run = [op |-> "copy", buffer |-> b, start |-> size, index |-> at]
      /\ b \in Seq(Elements) /\ run.start = size /\ size + Len(b) <= Capacity
      /\ at \in 0..Len(b) /\ \A j \in 0..at - 1 : cells[size + j] = b[j + 1]
  BY RunIs DEF CopyStep, CopyOK
<1>4. Len(b) \in Nat /\ \A j \in 1..Len(b) : b[j] \in Elements  BY <1>3, LenProperties
<1>5. CASE at < Len(b)
  <2>1. /\ cells' = [cells EXCEPT ![size + at] = b[at + 1]] /\ size' = size
        /\ run' = [op |-> "copy", buffer |-> b, start |-> size, index |-> at + 1]
    BY <1>3, <1>5 DEF CopyStep
  <2> HIDE DEF b, at
  <2>2. size + at \in Positions /\ at + 1 \in 1..Len(b) /\ at + 1 \in 0..Len(b)
    BY <1>2, <1>3, <1>4, <1>5
  <2>3. /\ Stocked(cells', size) /\ cells'[size + at] = b[at + 1]
        /\ \A i \in Positions : i # size + at => cells'[i] = cells[i]
    BY <1>1, <1>4, <2>1, <2>2, WriteStep
  <2>4. ASSUME NEW j \in 0..(at + 1) - 1 PROVE cells'[size + j] = b[j + 1]
    <3>1. CASE j = at  BY <2>3, <3>1
    <3>2. CASE j # at
      <4>1. j \in 0..at - 1 /\ size + j \in Positions /\ size + j # size + at
        BY <1>2, <1>3, <1>4, <3>2
      <4> QED  BY <1>3, <2>3, <4>1
    <3> QED  BY <3>1, <3>2
  <2>5. CopyOK(cells', size, run')  BY <1>3, <2>1, <2>2, <2>4 DEF CopyOK
  <2> QED  BY <2>1, <2>3, <2>5 DEF Stocked, ArrayShape
<1>6. CASE ~(at < Len(b))
  <2>1. cells' = cells /\ size' = size + Len(b) /\ run' = Idle  BY <1>3, <1>6 DEF CopyStep
  <2>2. at = Len(b)  BY <1>3, <1>4, <1>6
  <2> HIDE DEF b, at
  <2>3. ASSUME NEW i \in 0..size' - 1 PROVE cells[i] \in Elements
    <3>1. CASE i < size  BY <1>1, <3>1 DEF Stocked
    <3>2. CASE ~(i < size)
      <4>1. i - size \in 0..at - 1 /\ size + (i - size) = i /\ (i - size) + 1 \in 1..Len(b)
        BY <1>2, <1>4, <2>1, <2>2, <3>2
      <4>2. cells[size + (i - size)] = b[(i - size) + 1]  BY <1>3, <4>1
      <4> QED  BY <1>4, <4>1, <4>2
    <3> QED  BY <3>1, <3>2
  <2>4. Stocked(cells', size')  BY <1>1, <1>2, <1>3, <1>4, <2>1, <2>3 DEF Stocked
  <2> QED  BY <2>1, <2>4, ShapeStocked
<1> QED  BY <1>5, <1>6

LEMMA ArrayInvStep ==
  ASSUME ArrayInv, [ContainerNext]_containerVars
  PROVE  ArrayInv'
<1>1. UNCHANGED kind  BY DEF ContainerNext, containerVars
<1> SUFFICES ASSUME kind = "array" PROVE ArrayShape(cells', size', run', reply')
  BY <1>1 DEF ArrayInv
<1>2. ArrayShape(cells, size, run, reply)  BY DEF ArrayInv
<1>3. CASE Operation  BY <1>3, OperationKeeps DEF Operation
<1>4. CASE LoopStep
  BY <1>2, <1>4, RemoveStepKeeps, InsertStepKeeps, ReverseStepKeeps, SortLoadKeyKeeps,
     SortShiftKeeps, ShuffleStepKeeps, BodyUsesKeeps, SequenceEndsKeeps, CopyStepKeeps,
     YieldKeeps DEF LoopStep
<1>5. CASE UNCHANGED containerVars
  <2>1. UNCHANGED <<cells, size, run, reply>>  BY <1>5 DEF containerVars, vars
  <2> QED  BY <1>2, <2>1
<1> QED  BY <1>3, <1>4, <1>5 DEF ContainerNext, Next

-----------------------------------------------------------------------------
(***************************************************************************)
(* The sequence that cells stand for while a loop runs, element by element.*)
(***************************************************************************)
LEMMA ViewFacts ==
  ASSUME NEW c, NEW n, Stocked(c, n)
  PROVE  /\ ViewOf(c, n) \in Seq(Elements) /\ Len(ViewOf(c, n)) = n
         /\ DOMAIN ViewOf(c, n) = 1..n
         /\ \A i \in 1..n : ViewOf(c, n)[i] = c[i - 1]
<1>1. n \in Nat  BY ArrayFacts
<1>2. \A i \in 1..n : c[i - 1] \in Elements  BY <1>1 DEF Stocked
<1> QED  BY <1>1, <1>2, IsASeq DEF ViewOf

LEMMA RemovingFacts ==
  ASSUME NEW c, NEW n, Stocked(c, n), NEW p \in 0..n - 1
  PROVE  /\ RemoveAt(ViewOf(c, n), p + 1) \in Seq(Elements)
         /\ Len(RemoveAt(ViewOf(c, n), p + 1)) = n - 1
         /\ \A i \in 1..n - 1 :
              RemoveAt(ViewOf(c, n), p + 1)[i] = IF i <= p THEN c[i - 1] ELSE c[i]
<1> DEFINE v == ViewOf(c, n)
<1>1. n \in Nat /\ p + 1 \in 1..n /\ p \in Int  BY ArrayFacts
<1>2. v \in Seq(Elements) /\ Len(v) = n /\ \A i \in 1..n : v[i] = c[i - 1]  BY ViewFacts
<1> HIDE DEF v
<1>3. /\ RemoveAt(v, p + 1) \in Seq(Elements) /\ Len(RemoveAt(v, p + 1)) = n - 1
      /\ \A i \in 1..n - 1 : RemoveAt(v, p + 1)[i] = IF i < p + 1 THEN v[i] ELSE v[i + 1]
  BY <1>1, <1>2, RemoveAtFacts
<1>4. ASSUME NEW i \in 1..n - 1
      PROVE  RemoveAt(v, p + 1)[i] = IF i <= p THEN c[i - 1] ELSE c[i]
  <2>1. i \in 1..n /\ i + 1 \in 1..n /\ (i + 1) - 1 = i /\ (i < p + 1 <=> i <= p)  BY <1>1
  <2> QED  BY <1>2, <1>3, <2>1
<1> QED  BY <1>3, <1>4 DEF v

\* What a sequence with an element more holds.
IsInserted(t, S, s, at, e) ==
  /\ t \in Seq(S) /\ Len(t) = Len(s) + 1
  /\ \A i \in 1..Len(s) + 1 :
       t[i] = IF i <= at THEN s[i] ELSE IF i = at + 1 THEN e ELSE s[i - 1]

LEMMA InsertAtFacts ==
  ASSUME NEW S, NEW s \in Seq(S), NEW e \in S, NEW at \in 0..Len(s)
  PROVE  IsInserted(InsertAt(s, at + 1, e), S, s, at, e)
<1> DEFINE left == SubSeq(s, 1, at)
           right == SubSeq(s, at + 1, Len(s))
<1>1. Len(s) \in Nat /\ at \in Int /\ \A i \in 1..Len(s) : s[i] \in S  BY LenProperties
<1>2. /\ left \in Seq(S) /\ Len(left) = at
      /\ \A i \in 1..at : left[i] = s[i]
  <2>1. \A i \in 1..at : s[i] \in S  BY <1>1
  <2>2. 1 \in Int /\ at \in Int  BY <1>1
  <2> QED  BY <1>1, <2>1, <2>2, SubSeqProperties
<1>3. /\ right \in Seq(S) /\ Len(right) = Len(s) - at
      /\ \A i \in 1..Len(s) - at : right[i] = s[at + i]
  <2>1. \A i \in at + 1..Len(s) : s[i] \in S  BY <1>1
  <2>2. at + 1 \in Int /\ Len(s) \in Int  BY <1>1
  <2> QED  BY <1>1, <2>1, <2>2, SubSeqProperties
<1>4. InsertAt(s, at + 1, e) = (left \o <<e>>) \o right
  <2>1. (at + 1) - 1 = at  BY <1>1
  <2> QED  BY <2>1 DEF InsertAt
<1>5. <<e>> \in Seq(S) /\ Len(<<e>>) = 1 /\ <<e>>[1] = e  OBVIOUS
<1> HIDE DEF left, right
<1>6. /\ left \o <<e>> \in Seq(S) /\ Len(left \o <<e>>) = at + 1
      /\ \A i \in 1..at + 1 : (left \o <<e>>)[i] = IF i <= at THEN s[i] ELSE e
  <2> DEFINE unit == <<e>>
  <2>1. unit \in Seq(S) /\ Len(unit) = 1 /\ unit[1] = e  BY <1>5
  <2> HIDE DEF unit
  <2>2. /\ left \o unit \in Seq(S) /\ Len(left \o unit) = at + 1
        /\ \A i \in 1..at + 1 : (left \o unit)[i] = IF i <= at THEN left[i] ELSE unit[i - at]
    <3>1. Len(left) + Len(unit) = at + 1  BY <1>1, <1>2, <2>1
    <3>2. /\ left \o unit \in Seq(S) /\ Len(left \o unit) = Len(left) + Len(unit)
          /\ \A i \in 1..Len(left) + Len(unit) :
               (left \o unit)[i] = IF i <= Len(left) THEN left[i] ELSE unit[i - Len(left)]
      BY <1>2, <2>1, ConcatProperties
    <3> QED  BY <1>2, <3>1, <3>2
  <2>3. ASSUME NEW i \in 1..at + 1 PROVE (left \o unit)[i] = IF i <= at THEN s[i] ELSE e
    <3>1. CASE i <= at  BY <1>1, <1>2, <2>2, <3>1
    <3>2. CASE ~(i <= at)  BY <1>1, <2>1, <2>2, <3>2
    <3> QED  BY <3>1, <3>2
  <2> QED  BY <2>2, <2>3 DEF unit
<1> DEFINE front == left \o <<e>>
<1>7. front \in Seq(S) /\ Len(front) = at + 1
      /\ \A i \in 1..at + 1 : front[i] = IF i <= at THEN s[i] ELSE e
  BY <1>6
<1> HIDE DEF front
<1>8. /\ front \o right \in Seq(S) /\ Len(front \o right) = Len(s) + 1
      /\ \A i \in 1..Len(s) + 1 :
           (front \o right)[i] = IF i <= at + 1 THEN front[i] ELSE right[i - (at + 1)]
  <2>1. Len(front) + Len(right) = Len(s) + 1  BY <1>1, <1>3, <1>7
  <2> QED  BY <1>3, <1>7, <2>1, ConcatProperties
<1>9. ASSUME NEW i \in 1..Len(s) + 1
      PROVE  (front \o right)[i] = IF i <= at THEN s[i] ELSE IF i = at + 1 THEN e ELSE s[i - 1]
  <2>1. CASE i <= at + 1
    <3>1. i \in 1..at + 1  BY <1>1, <2>1
    <3> QED  BY <1>1, <1>7, <1>8, <2>1, <3>1
  <2>2. CASE ~(i <= at + 1)
    <3>1. i - (at + 1) \in 1..Len(s) - at /\ at + (i - (at + 1)) = i - 1 /\ ~(i <= at) /\ i # at + 1
      BY <1>1, <2>2
    <3> QED  BY <1>3, <1>8, <2>2, <3>1
  <2> QED  BY <2>1, <2>2
<1>10. InsertAt(s, at + 1, e) = front \o right  BY <1>4 DEF front
<1> DEFINE whole == front \o right
<1>11. /\ whole \in Seq(S) /\ Len(whole) = Len(s) + 1 /\ InsertAt(s, at + 1, e) = whole
       /\ \A i \in 1..Len(s) + 1 :
            whole[i] = IF i <= at THEN s[i] ELSE IF i = at + 1 THEN e ELSE s[i - 1]
  BY <1>8, <1>9, <1>10
<1> HIDE DEF whole
<1> QED  BY <1>11 DEF IsInserted

\* What is inserted into, and the result.
InsertBaseOf(c, n, p) == [i \in 1..p |-> c[i - 1]] \o [i \in 1..n - p |-> c[p + i]]
InsertedOf(c, n, r) == InsertAt(InsertBaseOf(c, n, r.cursor), r.index + 1, r.value)

LEMMA InsertBaseFacts ==
  ASSUME NEW c, NEW n \in Nat, NEW p \in 0..n, \A i \in 0..n : i # p => c[i] \in Elements
  PROVE  /\ InsertBaseOf(c, n, p) \in Seq(Elements) /\ Len(InsertBaseOf(c, n, p)) = n
         /\ \A i \in 1..n : InsertBaseOf(c, n, p)[i] = IF i <= p THEN c[i - 1] ELSE c[i]
<1> DEFINE before == [i \in 1..p |-> c[i - 1]]
           after == [i \in 1..n - p |-> c[p + i]]
<1>1. p \in Nat /\ n - p \in Nat  OBVIOUS
<1>2. before \in Seq(Elements) /\ Len(before) = p /\ \A i \in 1..p : before[i] = c[i - 1]
  <2>1. \A i \in 1..p : c[i - 1] \in Elements  BY <1>1
  <2> QED  BY <1>1, <2>1, IsASeq
<1>3. after \in Seq(Elements) /\ Len(after) = n - p /\ \A i \in 1..n - p : after[i] = c[p + i]
  <2>1. \A i \in 1..n - p : c[p + i] \in Elements  BY <1>1
  <2> QED  BY <1>1, <2>1, IsASeq
<1>4. InsertBaseOf(c, n, p) = before \o after  BY DEF InsertBaseOf
<1> HIDE DEF before, after
<1>5. /\ before \o after \in Seq(Elements) /\ Len(before \o after) = n
      /\ \A i \in 1..n : (before \o after)[i] = IF i <= p THEN before[i] ELSE after[i - p]
  <2>1. Len(before) + Len(after) = n  BY <1>1, <1>2, <1>3
  <2> QED  BY <1>2, <1>3, <2>1, ConcatProperties
<1>6. ASSUME NEW i \in 1..n
      PROVE  (before \o after)[i] = IF i <= p THEN c[i - 1] ELSE c[i]
  <2>1. CASE i <= p
    <3>1. i \in 1..p  BY <1>1, <2>1
    <3> QED  BY <1>2, <1>5, <2>1, <3>1
  <2>2. CASE ~(i <= p)
    <3>1. i - p \in 1..n - p /\ p + (i - p) = i  BY <1>1, <2>2
    <3> QED  BY <1>3, <1>5, <2>2, <3>1
  <2> QED  BY <2>1, <2>2
<1> QED  BY <1>4, <1>5, <1>6

LEMMA InsertingFacts ==
  ASSUME NEW c, NEW n, NEW r, Stocked(c, n), InsertOK(c, n, r)
  PROVE  /\ InsertedOf(c, n, r) \in Seq(Elements) /\ Len(InsertedOf(c, n, r)) = n + 1
         /\ \A i \in 1..n + 1 : InsertedOf(c, n, r)[i] =
              IF i <= r.index THEN c[i - 1]
              ELSE IF i = r.index + 1 THEN r.value
              ELSE IF i <= r.cursor + 1 THEN c[i - 2] ELSE c[i - 1]
<1> DEFINE p == r.cursor  at == r.index  e == r.value  base == InsertBaseOf(c, n, p)
<1>1. /\ n \in Nat /\ at \in 0..n /\ p \in at..n /\ e \in Elements /\ p \in 0..n
      /\ \A i \in 0..n : i # p => c[i] \in Elements
  BY ArrayFacts DEF InsertOK
<1>2. base \in Seq(Elements) /\ Len(base) = n
      /\ \A i \in 1..n : base[i] = IF i <= p THEN c[i - 1] ELSE c[i]
  BY <1>1, InsertBaseFacts
<1> DEFINE s == InsertAt(base, at + 1, e)
<1>3. InsertedOf(c, n, r) = s  BY DEF InsertedOf
<1> HIDE DEF base, p, at, e
<1>4. /\ s \in Seq(Elements) /\ Len(s) = n + 1
      /\ \A i \in 1..n + 1 : s[i] =
           IF i <= at THEN base[i] ELSE IF i = at + 1 THEN e ELSE base[i - 1]
  <2>1. at \in 0..Len(base) /\ base \in Seq(Elements) /\ e \in Elements  BY <1>1, <1>2
  <2>2. IsInserted(s, Elements, base, at, e)  BY <2>1, InsertAtFacts
  <2> HIDE DEF s
  <2> QED  BY <1>2, <2>2 DEF IsInserted
<1> HIDE DEF s
<1>5. ASSUME NEW i \in 1..n + 1
      PROVE  s[i] = IF i <= at THEN c[i - 1] ELSE IF i = at + 1 THEN e
                    ELSE IF i <= p + 1 THEN c[i - 2] ELSE c[i - 1]
  <2>1. CASE i <= at
    <3>1. i \in 1..n /\ i <= p  BY <1>1, <2>1
    <3> QED  BY <1>2, <1>4, <2>1, <3>1
  <2>2. CASE i = at + 1  BY <1>1, <1>4, <2>2
  <2>3. CASE i > at + 1
    <3>1. i - 1 \in 1..n /\ (i - 1) - 1 = i - 2 /\ ~(i <= at) /\ i # at + 1
          /\ (i - 1 <= p <=> i <= p + 1)
      BY <1>1, <2>3
    <3> QED  BY <1>2, <1>4, <3>1
  <2> QED  BY <1>1, <2>1, <2>2, <2>3
<1> QED  BY <1>3, <1>4, <1>5 DEF p, at, e

ReversedOf(c, n, k) ==
  [p \in 1..n |-> IF p <= k \/ p > n - k THEN c[p - 1] ELSE c[n - p]]
LEMMA ReversingFacts ==
  ASSUME NEW c, NEW n, Stocked(c, n), NEW k \in Nat
  PROVE  /\ ReversedOf(c, n, k) \in Seq(Elements) /\ Len(ReversedOf(c, n, k)) = n
         /\ \A i \in 1..n : ReversedOf(c, n, k)[i] =
              IF i <= k \/ i > n - k THEN c[i - 1] ELSE c[n - i]
<1>1. n \in Nat  BY ArrayFacts
<1>2. \A i \in 1..n : (IF i <= k \/ i > n - k THEN c[i - 1] ELSE c[n - i]) \in Elements
  <2> TAKE i \in 1..n
  <2>1. i - 1 \in 0..n - 1 /\ n - i \in 0..n - 1  BY <1>1
  <2>2. c[i - 1] \in Elements /\ c[n - i] \in Elements  BY <2>1 DEF Stocked
  <2> QED  BY <2>2
<1> DEFINE e(i) == IF i <= k \/ i > n - k THEN c[i - 1] ELSE c[n - i]
<1>3. \A i \in 1..n : e(i) \in Elements  BY <1>2
<1>4. ReversedOf(c, n, k) = [i \in 1..n |-> e(i)]  BY DEF ReversedOf
<1> HIDE DEF e
<1>5. [i \in 1..n |-> e(i)] \in Seq(Elements)  BY <1>1, <1>3, IsASeq
<1> QED  BY <1>1, <1>4, <1>5 DEF e

\* The sequence of a state, as an operator of its parts.
SequenceOf(c, n, r) ==
  CASE r.op = "remove"  -> RemoveAt(ViewOf(c, n), r.cursor + 1)
    [] r.op = "insert"  -> InsertedOf(c, n, r)
    [] r.op = "reverse" -> ReversedOf(c, n, r.index)
    [] r.op = "sort"    -> SortedSeq(ViewOf(c, n))
    [] r.op = "shift"   -> SortedSeq([ViewOf(c, n) EXCEPT ![r.cursor + 1] = r.key])
    [] r.op = "copy"    -> ViewOf(c, n) \o r.buffer
    [] OTHER            -> ViewOf(c, n)

LEMMA SequenceIs ==
  /\ Sequence = SequenceOf(cells, size, run)
  /\ Sequence' = SequenceOf(cells', size', run')
BY DEF Sequence, SequenceOf, View, ViewOf, InsertedSeq, InsertedOf, InsertBaseOf, ReversedSeq, ReversedOf,
       SortedSeq

-----------------------------------------------------------------------------
(***************************************************************************)
(* The loops that move cells move no element: the sequence stays.          *)
(***************************************************************************)
LEMMA SequenceOfIdle ==
  ASSUME NEW c, NEW n
  PROVE  SequenceOf(c, n, Idle) = ViewOf(c, n)
BY DEF SequenceOf, Idle

LEMMA RemoveStepStutters ==
  ASSUME ArrayShape(cells, size, run, reply), RemoveStep
  PROVE  UNCHANGED <<Sequence, reply>>
<1>1. Stocked(cells, size) /\ Stocked(cells', size')  BY ShapeStocked, RemoveStepKeeps
<1>2. /\ size \in Nat /\ Capacity \in Nat /\ size <= Capacity
      /\ \A i : i \in Positions <=> i \in Int /\ 0 <= i /\ i < Capacity
  BY <1>1, ArrayFacts
<1> DEFINE p == run.cursor  s == RemoveAt(ViewOf(cells, size), p + 1)
<1>3. p \in 0..size - 1 /\ run = [op |-> "remove", cursor |-> p]
  BY RunIs DEF RemoveStep, Removals
<1>4. Sequence = s  BY <1>3, SequenceIs DEF SequenceOf
<1>5. /\ s \in Seq(Elements) /\ Len(s) = size - 1
      /\ \A i \in 1..size - 1 : s[i] = IF i <= p THEN cells[i - 1] ELSE cells[i]
  BY <1>1, <1>3, RemovingFacts
<1>6. CASE p < size - 1
  <2> DEFINE t == RemoveAt(ViewOf(cells', size'), (p + 1) + 1)
  <2>1. /\ cells' = [cells EXCEPT ![p] = cells[p + 1]] /\ size' = size
        /\ run' = [op |-> "remove", cursor |-> p + 1]
    BY <1>3, <1>6 DEF RemoveStep
  <2>2. Sequence' = t  BY <2>1, SequenceIs DEF SequenceOf
  <2>3. p + 1 \in 0..size' - 1  BY <1>2, <1>3, <1>6, <2>1
  <2>4. /\ t \in Seq(Elements) /\ Len(t) = size - 1
        /\ \A i \in 1..size - 1 : t[i] = IF i <= p + 1 THEN cells'[i - 1] ELSE cells'[i]
    <3>1. /\ t \in Seq(Elements) /\ Len(t) = size' - 1
          /\ \A i \in 1..size' - 1 : t[i] = IF i <= p + 1 THEN cells'[i - 1] ELSE cells'[i]
      <4> HIDE DEF p
      <4> QED  BY <1>1, <2>3, RemovingFacts
    <3> HIDE DEF t
    <3> QED  BY <2>1, <3>1
  <2> HIDE DEF t, s, p
  <2>5. p \in Positions /\ \A i \in 0..size - 1 : i \in Positions  BY <1>2, <1>3
  <2>6. cells'[p] = cells[p + 1] /\ \A i \in Positions : i # p => cells'[i] = cells[i]
    BY <1>1, <2>1, <2>5, WriteStep
  <2>7. ASSUME NEW i \in 1..size - 1 PROVE t[i] = s[i]
    <3>1. i \in 0..size - 1 /\ i - 1 \in 0..size - 1  BY <1>2
    <3>2. CASE i <= p  BY <1>2, <1>3, <1>5, <2>4, <2>5, <2>6, <3>1, <3>2
    <3>3. CASE i = p + 1  BY <1>2, <1>3, <1>5, <2>4, <2>5, <2>6, <3>1, <3>3
    <3>4. CASE i > p + 1  BY <1>2, <1>3, <1>5, <2>4, <2>5, <2>6, <3>1, <3>4
    <3> QED  BY <1>2, <1>3, <3>2, <3>3, <3>4
  <2>8. t = s  BY <1>5, <2>4, <2>7, SeqEqual
  <2> QED  BY <1>4, <2>2, <2>8 DEF RemoveStep
<1>7. CASE ~(p < size - 1)
  <2> DEFINE t == ViewOf(cells', size')
  <2>1. cells' = cells /\ size' = size - 1 /\ run' = Idle  BY <1>7 DEF RemoveStep
  <2>2. Sequence' = t  BY <2>1, SequenceIs, SequenceOfIdle
  <2>3. t \in Seq(Elements) /\ Len(t) = size - 1 /\ \A i \in 1..size - 1 : t[i] = cells[i - 1]
    BY <1>1, <2>1, ViewFacts
  <2> HIDE DEF t, s, p
  <2>4. ASSUME NEW i \in 1..size - 1 PROVE t[i] = s[i]
    <3>1. i <= p  BY <1>2, <1>3, <1>7
    <3> QED  BY <1>5, <2>3, <3>1
  <2>5. t = s  BY <1>5, <2>3, <2>4, SeqEqual
  <2> QED  BY <1>4, <2>2, <2>5 DEF RemoveStep
<1> QED  BY <1>6, <1>7

LEMMA InsertStepStutters ==
  ASSUME ArrayShape(cells, size, run, reply), InsertStep
  PROVE  UNCHANGED <<Sequence, reply>>
<1>1. Stocked(cells, size) /\ ArrayShape(cells', size', run', reply') /\ Stocked(cells', size')
  BY ShapeStocked, InsertStepKeeps
<1>2. /\ size \in Nat /\ size' \in Nat
      /\ \A i : i \in Positions <=> i \in Int /\ 0 <= i /\ i < Capacity
  BY <1>1, ArrayFacts
<1>3. InsertOK(cells, size, run) /\ run.op = "insert"  BY RunIs DEF InsertStep
<1> DEFINE p == run.cursor  at == run.index  v == run.value  s == InsertedOf(cells, size, run)
<1>4. /\ run = [op |-> "insert", cursor |-> p, index |-> at, value |-> v]
      /\ size < Capacity /\ at \in 0..size /\ p \in at..size /\ v \in Elements
  BY <1>3 DEF InsertOK
<1>5. Sequence = s  BY <1>3, SequenceIs DEF SequenceOf
<1>6. /\ s \in Seq(Elements) /\ Len(s) = size + 1
      /\ \A i \in 1..size + 1 : s[i] =
           IF i <= at THEN cells[i - 1] ELSE IF i = at + 1 THEN v
           ELSE IF i <= p + 1 THEN cells[i - 2] ELSE cells[i - 1]
  BY <1>1, <1>3, InsertingFacts
<1>7. p \in Positions /\ at \in Positions /\ \A i \in 0..size : i \in Positions
  BY <1>1, <1>2, <1>4, ArrayFacts
<1>8. CASE p > at
  <2> DEFINE t == InsertedOf(cells', size', run')
  <2>1. /\ cells' = [cells EXCEPT ![p] = cells[p - 1]] /\ size' = size
        /\ run' = [op |-> "insert", cursor |-> p - 1, index |-> at, value |-> v]
    BY <1>4, <1>8 DEF InsertStep
  <2>2. run'.op = "insert" /\ run'.cursor = p - 1 /\ run'.index = at /\ run'.value = v
    BY <2>1
  <2>3. InsertOK(cells', size', run')  BY <1>1, <2>2, RunIs
  <2>4. Sequence' = t  BY <2>2, SequenceIs DEF SequenceOf
  <2>5. /\ t \in Seq(Elements) /\ Len(t) = size + 1
        /\ \A i \in 1..size + 1 : t[i] =
             IF i <= at THEN cells'[i - 1] ELSE IF i = at + 1 THEN v
             ELSE IF i <= (p - 1) + 1 THEN cells'[i - 2] ELSE cells'[i - 1]
    <3>1. /\ t \in Seq(Elements) /\ Len(t) = size' + 1
          /\ \A i \in 1..size' + 1 : t[i] =
               IF i <= run'.index THEN cells'[i - 1] ELSE IF i = run'.index + 1 THEN run'.value
               ELSE IF i <= run'.cursor + 1 THEN cells'[i - 2] ELSE cells'[i - 1]
      BY <1>1, <2>3, InsertingFacts
    <3> HIDE DEF t, p, at, v
    <3> QED  BY <2>1, <2>2, <3>1
  <2> HIDE DEF t, s, p, at, v
  <2>6. cells'[p] = cells[p - 1] /\ \A i \in Positions : i # p => cells'[i] = cells[i]
    BY <1>1, <1>7, <2>1, WriteStep
  <2>7. ASSUME NEW i \in 1..size + 1 PROVE t[i] = s[i]
    <3>1. i \in Int /\ i - 1 \in 0..size  BY <1>2
    <3>2. CASE i <= at
      <4>1. i - 1 # p  BY <1>4, <3>1, <3>2
      <4> QED  BY <1>6, <1>7, <2>5, <2>6, <3>1, <3>2, <4>1
    <3>3. CASE i = at + 1  BY <1>2, <1>4, <1>6, <2>5, <3>3
    <3>4. CASE i > at + 1 /\ i <= p
      <4>1. i - 2 \in 0..size /\ i - 2 # p /\ i <= (p - 1) + 1 /\ i <= p + 1 /\ ~(i <= at) /\ i # at + 1
        BY <1>2, <1>4, <3>1, <3>4
      <4> QED  BY <1>6, <1>7, <2>5, <2>6, <4>1
    <3>5. CASE i > at + 1 /\ i = p + 1
      <4>1. i - 2 = p - 1 /\ i - 1 = p /\ ~(i <= (p - 1) + 1) /\ i <= p + 1 /\ ~(i <= at) /\ i # at + 1
        BY <1>2, <1>4, <3>1, <3>5
      <4> QED  BY <1>6, <1>7, <2>5, <2>6, <4>1
    <3>6. CASE i > at + 1 /\ i > p + 1
      <4>1. i - 1 # p /\ ~(i <= (p - 1) + 1) /\ ~(i <= p + 1) /\ ~(i <= at) /\ i # at + 1
        BY <1>2, <1>4, <3>1, <3>6
      <4> QED  BY <1>6, <1>7, <2>5, <2>6, <3>1, <4>1
    <3> QED  BY <1>2, <1>4, <3>1, <3>2, <3>3, <3>4, <3>5, <3>6
  <2>8. t = s  BY <1>6, <2>5, <2>7, SeqEqual
  <2> QED  BY <1>5, <2>4, <2>8 DEF InsertStep
<1>9. CASE ~(p > at)
  <2> DEFINE t == ViewOf(cells', size')
  <2>1. cells' = [cells EXCEPT ![at] = v] /\ size' = size + 1 /\ run' = Idle
    BY <1>9 DEF InsertStep
  <2>2. Sequence' = t  BY <2>1, SequenceIs, SequenceOfIdle
  <2>3. t \in Seq(Elements) /\ Len(t) = size + 1 /\ \A i \in 1..size + 1 : t[i] = cells'[i - 1]
    BY <1>1, <2>1, ViewFacts
  <2>4. p = at  BY <1>2, <1>4, <1>9
  <2> HIDE DEF t, s, p, at, v
  <2>5. cells'[at] = v /\ \A i \in Positions : i # at => cells'[i] = cells[i]
    BY <1>1, <1>7, <2>1, WriteStep
  <2>6. ASSUME NEW i \in 1..size + 1 PROVE t[i] = s[i]
    <3>1. i \in Int /\ i - 1 \in 0..size  BY <1>2
    <3>2. CASE i <= at
      <4>1. i - 1 # at  BY <1>4, <3>1, <3>2
      <4> QED  BY <1>6, <1>7, <2>3, <2>5, <3>1, <3>2, <4>1
    <3>3. CASE i = at + 1
      <4>1. i - 1 = at /\ ~(i <= at)  BY <1>4, <3>3
      <4> QED  BY <1>6, <2>3, <2>5, <3>3, <4>1
    <3>4. CASE i > at + 1
      <4>1. i - 1 # at /\ ~(i <= p + 1) /\ ~(i <= at) /\ i # at + 1  BY <1>4, <2>4, <3>1, <3>4
      <4> QED  BY <1>6, <1>7, <2>3, <2>5, <3>1, <4>1
    <3> QED  BY <1>4, <3>1, <3>2, <3>3, <3>4
  <2>7. t = s  BY <1>6, <2>3, <2>6, SeqEqual
  <2> QED  BY <1>5, <2>2, <2>7 DEF InsertStep
<1> QED  BY <1>8, <1>9

LEMMA ReverseStepStutters ==
  ASSUME ArrayShape(cells, size, run, reply), ReverseStep
  PROVE  UNCHANGED <<Sequence, reply>>
<1>1. Stocked(cells, size) /\ Stocked(cells', size')  BY ShapeStocked, ReverseStepKeeps
<1>2. size \in Nat /\ size' = size  BY <1>1, ArrayFacts DEF ReverseStep
<1> DEFINE k == run.index  s == ReversedOf(cells, size, k)
<1>3. run = [op |-> "reverse", index |-> k] /\ k \in Nat
  BY RunIs DEF ReverseStep, ReverseOK
<1>4. Sequence = s  BY <1>3, SequenceIs DEF SequenceOf
<1>5. /\ s \in Seq(Elements) /\ Len(s) = size
      /\ \A i \in 1..size : s[i] = IF i <= k \/ i > size - k THEN cells[i - 1] ELSE cells[size - i]
  BY <1>1, <1>3, ReversingFacts
<1>6. CASE 2 * k < size
  <2> DEFINE t == ReversedOf(cells', size', k + 1)
  <2>1. cells' = Exchanged(k, size - 1 - k) /\ run' = [op |-> "reverse", index |-> k + 1]
    BY <1>3, <1>6 DEF ReverseStep
  <2>2. Sequence' = t  BY <2>1, SequenceIs DEF SequenceOf
  <2>3. k \in 0..size - 1 /\ size - 1 - k \in 0..size - 1 /\ k + 1 \in Nat  BY <1>2, <1>3, <1>6
  <2>4. /\ t \in Seq(Elements) /\ Len(t) = size
        /\ \A i \in 1..size : t[i] =
             IF i <= k + 1 \/ i > size - (k + 1) THEN cells'[i - 1] ELSE cells'[size - i]
    BY <1>1, <1>2, <2>3, ReversingFacts
  <2>5. \A p \in 0..size - 1 : cells'[p] =
          IF p = size - 1 - k THEN cells[k] ELSE IF p = k THEN cells[size - 1 - k] ELSE cells[p]
    BY <1>1, <2>1, <2>3, ExchangeStocked
  <2> HIDE DEF t, s, k
  <2>6. ASSUME NEW i \in 1..size PROVE t[i] = s[i]
    <3>1. i - 1 \in 0..size - 1 /\ size - i \in 0..size - 1 /\ i \in Int /\ k \in Int  BY <1>2, <1>3
    <3>2. CASE i <= k \/ i > size - k
      <4>1. (i <= k + 1 \/ i > size - (k + 1)) /\ i - 1 # k /\ i - 1 # size - 1 - k
        BY <1>2, <1>6, <3>1, <3>2
      <4> QED  BY <1>5, <2>4, <2>5, <3>1, <3>2, <4>1
    <3>3. CASE i = k + 1
      <4>1. i <= k + 1 /\ ~(i <= k \/ i > size - k) /\ i - 1 = k /\ size - i = size - 1 - k
        BY <1>2, <1>6, <3>1, <3>3
      <4>2. t[i] = cells'[k] /\ s[i] = cells[size - 1 - k]  BY <1>5, <2>4, <4>1
      <4>3. cells'[k] = cells[size - 1 - k]
        <5>1. CASE k = size - 1 - k  BY <2>3, <2>5, <5>1
        <5>2. CASE k # size - 1 - k  BY <2>3, <2>5, <5>2
        <5> QED  BY <5>1, <5>2
      <4> QED  BY <4>2, <4>3
    <3>4. CASE i = size - k
      <4>1. i > size - (k + 1) /\ ~(i <= k \/ i > size - k) /\ i - 1 = size - 1 - k /\ size - i = k
        BY <1>2, <1>6, <3>1, <3>4
      <4>2. t[i] = cells'[size - 1 - k] /\ s[i] = cells[k]  BY <1>5, <2>4, <4>1
      <4> QED  BY <2>3, <2>5, <4>2
    <3>5. CASE k + 1 < i /\ i < size - k
      <4>1. /\ ~(i <= k + 1 \/ i > size - (k + 1)) /\ ~(i <= k \/ i > size - k)
            /\ size - i # k /\ size - i # size - 1 - k
        BY <1>2, <1>6, <3>1, <3>5
      <4> QED  BY <1>5, <2>4, <2>5, <3>1, <4>1
    <3> QED  BY <1>2, <3>1, <3>2, <3>3, <3>4, <3>5
  <2>7. t = s  BY <1>5, <2>4, <2>6, SeqEqual
  <2> QED  BY <1>4, <2>2, <2>7 DEF ReverseStep
<1>7. CASE ~(2 * k < size)
  <2> DEFINE t == ViewOf(cells', size')
  <2>1. cells' = cells /\ run' = Idle  BY <1>7 DEF ReverseStep
  <2>2. Sequence' = t  BY <2>1, SequenceIs, SequenceOfIdle
  <2>3. t \in Seq(Elements) /\ Len(t) = size /\ \A i \in 1..size : t[i] = cells[i - 1]
    BY <1>1, <1>2, <2>1, ViewFacts
  <2> HIDE DEF t, s, k
  <2>4. ASSUME NEW i \in 1..size PROVE t[i] = s[i]
    <3>1. i <= k \/ i > size - k  BY <1>2, <1>3, <1>7
    <3> QED  BY <1>5, <2>3, <3>1
  <2>5. t = s  BY <1>5, <2>3, <2>4, SeqEqual
  <2> QED  BY <1>4, <2>2, <2>5 DEF ReverseStep
<1> QED  BY <1>6, <1>7

LEMMA CopyingFacts ==
  ASSUME NEW c, NEW n, NEW b \in Seq(Elements), Stocked(c, n)
  PROVE  /\ ViewOf(c, n) \o b \in Seq(Elements) /\ Len(ViewOf(c, n) \o b) = n + Len(b)
         /\ \A i \in 1..n + Len(b) :
              (ViewOf(c, n) \o b)[i] = IF i <= n THEN c[i - 1] ELSE b[i - n]
<1> DEFINE v == ViewOf(c, n)
<1>1. v \in Seq(Elements) /\ Len(v) = n /\ \A i \in 1..n : v[i] = c[i - 1]  BY ViewFacts
<1>2. n \in Nat /\ Len(b) \in Nat  BY ArrayFacts, LenProperties
<1> HIDE DEF v
<1>3. /\ v \o b \in Seq(Elements) /\ Len(v \o b) = Len(v) + Len(b)
      /\ \A i \in 1..Len(v) + Len(b) : (v \o b)[i] = IF i <= Len(v) THEN v[i] ELSE b[i - Len(v)]
  BY <1>1, ConcatProperties
<1>4. ASSUME NEW i \in 1..n + Len(b) PROVE (v \o b)[i] = IF i <= n THEN c[i - 1] ELSE b[i - n]
  BY <1>1, <1>2, <1>3
<1> QED  BY <1>1, <1>3, <1>4 DEF v

LEMMA CopyStepStutters ==
  ASSUME ArrayShape(cells, size, run, reply), CopyStep
  PROVE  UNCHANGED <<Sequence, reply>>
<1>1. Stocked(cells, size) /\ Stocked(cells', size')  BY ShapeStocked, CopyStepKeeps
<1>2. /\ size \in Nat /\ size' \in Nat /\ size <= Capacity /\ Capacity \in Nat
      /\ \A i : i \in Positions <=> i \in Int /\ 0 <= i /\ i < Capacity
  BY <1>1, ArrayFacts
<1> DEFINE b == run.buffer  at == run.index  s == ViewOf(cells, size) \o b
<1>3. /\ run = [op |-> "copy", buffer |-> b, start |-> size, index |-> at]
      /\ b \in Seq(Elements) /\ run.start = size /\ size + Len(b) <= Capacity
      /\ at \in 0..Len(b) /\ \A j \in 0..at - 1 : cells[size + j] = b[j + 1]
  BY RunIs DEF CopyStep, CopyOK
<1>4. Len(b) \in Nat  BY <1>3, LenProperties
<1>5. Sequence = s  BY <1>3, SequenceIs DEF SequenceOf
<1>6. /\ s \in Seq(Elements) /\ Len(s) = size + Len(b)
      /\ \A i \in 1..size + Len(b) : s[i] = IF i <= size THEN cells[i - 1] ELSE b[i - size]
  BY <1>1, <1>3, CopyingFacts
<1>7. CASE at < Len(b)
  <2> DEFINE t == ViewOf(cells', size') \o b
  <2>1. /\ cells' = [cells EXCEPT ![size + at] = b[at + 1]] /\ size' = size
        /\ run' = [op |-> "copy", buffer |-> b, start |-> size, index |-> at + 1]
    BY <1>3, <1>7 DEF CopyStep
  <2>2. Sequence' = t  BY <2>1, SequenceIs DEF SequenceOf
  <2>3. /\ t \in Seq(Elements) /\ Len(t) = size + Len(b)
        /\ \A i \in 1..size + Len(b) : t[i] = IF i <= size THEN cells'[i - 1] ELSE b[i - size]
    <3>1. /\ t \in Seq(Elements) /\ Len(t) = size' + Len(b)
          /\ \A i \in 1..size' + Len(b) : t[i] = IF i <= size' THEN cells'[i - 1] ELSE b[i - size']
      <4> HIDE DEF b
      <4> QED  BY <1>1, <1>3, CopyingFacts
    <3> HIDE DEF t, b, at
    <3> QED  BY <2>1, <3>1
  <2> HIDE DEF t, s, b, at
  <2>4. size + at \in Positions  BY <1>2, <1>3, <1>4, <1>7
  <2>5. \A i \in Positions : i # size + at => cells'[i] = cells[i]
    BY <1>1, <2>1, <2>4, WriteStep
  <2>6. ASSUME NEW i \in 1..size + Len(b) PROVE t[i] = s[i]
    <3>1. CASE i <= size
      <4>1. i - 1 \in Positions /\ i - 1 # size + at  BY <1>2, <1>3, <1>4, <3>1
      <4> QED  BY <1>6, <2>3, <2>5, <3>1, <4>1
    <3>2. CASE ~(i <= size)  BY <1>6, <2>3, <3>2
    <3> QED  BY <3>1, <3>2
  <2>7. t = s  BY <1>6, <2>3, <2>6, SeqEqual
  <2> QED  BY <1>5, <2>2, <2>7 DEF CopyStep
<1>8. CASE ~(at < Len(b))
  <2> DEFINE t == ViewOf(cells', size')
  <2>1. cells' = cells /\ size' = size + Len(b) /\ run' = Idle  BY <1>3, <1>8 DEF CopyStep
  <2>2. Sequence' = t  BY <2>1, SequenceIs, SequenceOfIdle
  <2>3. t \in Seq(Elements) /\ Len(t) = size + Len(b) /\ \A i \in 1..size + Len(b) : t[i] = cells[i - 1]
    BY <1>1, <2>1, ViewFacts
  <2>4. at = Len(b)  BY <1>3, <1>4, <1>8
  <2> HIDE DEF t, s, b, at
  <2>5. ASSUME NEW i \in 1..size + Len(b) PROVE t[i] = s[i]
    <3>1. CASE i <= size  BY <1>6, <2>3, <3>1
    <3>2. CASE ~(i <= size)
      <4>1. /\ i - 1 - size \in 0..at - 1 /\ size + (i - 1 - size) = i - 1
            /\ (i - 1 - size) + 1 = i - size
        BY <1>2, <1>4, <2>4, <3>2
      <4>2. cells[size + (i - 1 - size)] = b[(i - 1 - size) + 1]  BY <1>3, <4>1
      <4> QED  BY <1>6, <2>3, <3>2, <4>1, <4>2
    <3> QED  BY <3>1, <3>2
  <2>6. t = s  BY <1>6, <2>3, <2>5, SeqEqual
  <2> QED  BY <1>5, <2>2, <2>6 DEF CopyStep
<1> QED  BY <1>7, <1>8

-----------------------------------------------------------------------------
(***************************************************************************)
(* The stable sort.  An element's rank, the number of those that precede   *)
(* it, is its place; every place has one element.                          *)
(***************************************************************************)
Precedes(s, i, j) == Key[s[i]] < Key[s[j]] \/ (Key[s[i]] = Key[s[j]] /\ i < j)
Predecessors(s, j) == {i \in DOMAIN s : Precedes(s, i, j)}
RankOf(s, j) == Cardinality(Predecessors(s, j))

LEMMA SortedSeqIs ==
  ASSUME NEW s
  PROVE  SortedSeq(s) = [p \in DOMAIN s |-> s[CHOOSE j \in DOMAIN s : RankOf(s, j) = p - 1]]
BY DEF SortedSeq, RankOf, Predecessors, Precedes

LEMMA KeysOf ==
  ASSUME NEW s \in Seq(Elements)
  PROVE  /\ Len(s) \in Nat /\ DOMAIN s = 1..Len(s)
         /\ \A i \in 1..Len(s) : s[i] \in Elements /\ Key[s[i]] \in Int
BY VarArrayAssumption, LenProperties

LEMMA PredecessorsFinite ==
  ASSUME NEW s \in Seq(Elements), NEW j \in 1..Len(s)
  PROVE  /\ IsFiniteSet(Predecessors(s, j)) /\ Predecessors(s, j) \subseteq 1..Len(s)
         /\ RankOf(s, j) \in 0..Len(s) - 1
<1>1. Len(s) \in Nat /\ DOMAIN s = 1..Len(s) /\ \A i \in 1..Len(s) : Key[s[i]] \in Int  BY KeysOf
<1> DEFINE others == (1..Len(s)) \ {j}
<1>2. Predecessors(s, j) \subseteq others  BY <1>1 DEF Predecessors, Precedes
<1>3. IsFiniteSet(others) /\ Cardinality(others) = Len(s) - 1
  <2>1. IsFiniteSet(1..Len(s)) /\ Cardinality(1..Len(s)) = Len(s)  BY <1>1, FS_Interval
  <2> QED  BY <2>1, FS_RemoveElement
<1>4. IsFiniteSet(Predecessors(s, j)) /\ Cardinality(Predecessors(s, j)) <= Len(s) - 1
  <2> HIDE DEF others
  <2> QED  BY <1>2, <1>3, FS_Subset
<1>5. Cardinality(Predecessors(s, j)) \in Nat  BY <1>4, FS_CardinalityType
<1> QED  BY <1>1, <1>2, <1>4, <1>5 DEF RankOf

LEMMA RanksDiffer ==
  ASSUME NEW s \in Seq(Elements), NEW i \in 1..Len(s), NEW j \in 1..Len(s), i # j
  PROVE  RankOf(s, i) # RankOf(s, j)
<1>1. Len(s) \in Nat /\ DOMAIN s = 1..Len(s) /\ \A k \in 1..Len(s) : Key[s[k]] \in Int  BY KeysOf
<1>2. ASSUME NEW a \in 1..Len(s), NEW b \in 1..Len(s), Precedes(s, a, b)
      PROVE  RankOf(s, a) # RankOf(s, b)
  <2>1. Predecessors(s, a) \subseteq Predecessors(s, b)
    <3>1. ASSUME NEW k \in 1..Len(s), Precedes(s, k, a) PROVE Precedes(s, k, b)
      <4>1. Key[s[k]] \in Int /\ Key[s[a]] \in Int /\ Key[s[b]] \in Int  BY <1>1
      <4> QED  BY <1>2, <3>1, <4>1 DEF Precedes
    <3> QED  BY <1>1, <3>1 DEF Predecessors
  <2>2. a \in Predecessors(s, b) /\ a \notin Predecessors(s, a)
    BY <1>1, <1>2 DEF Predecessors, Precedes
  <2>3. IsFiniteSet(Predecessors(s, b))  BY PredecessorsFinite
  <2>4. Cardinality(Predecessors(s, a)) # Cardinality(Predecessors(s, b))
    BY <2>1, <2>2, <2>3, FS_Subset
  <2> QED  BY <2>4 DEF RankOf
<1>3. Precedes(s, i, j) \/ Precedes(s, j, i)
  <2>1. Key[s[i]] \in Int /\ Key[s[j]] \in Int  BY <1>1
  <2> QED  BY <2>1 DEF Precedes
<1> QED  BY <1>2, <1>3

LEMMA EveryRank ==
  ASSUME NEW s \in Seq(Elements), NEW p \in 1..Len(s)
  PROVE  \E j \in 1..Len(s) : RankOf(s, j) = p - 1
<1> DEFINE n == Len(s)
           rank == [j \in 1..n |-> RankOf(s, j)]
<1>1. n \in Nat  BY KeysOf
<1>2. rank \in [1..n -> 0..n - 1]  BY PredecessorsFinite
<1>3. IsInjective(rank)
  <2>1. ASSUME NEW a \in 1..n, NEW b \in 1..n, rank[a] = rank[b] PROVE a = b
    <3>1. RankOf(s, a) = RankOf(s, b)  BY <2>1
    <3> QED  BY <3>1, RanksDiffer
  <2>2. DOMAIN rank = 1..n  OBVIOUS
  <2> HIDE DEF rank
  <2> QED  BY <2>1, <2>2 DEF IsInjective
<1>4. \A j \in 1..n : rank[j] = RankOf(s, j)  OBVIOUS
<1>5. p - 1 \in 0..n - 1  BY <1>1
<1> HIDE DEF n, rank
<1>6. /\ IsFiniteSet(0..n - 1) /\ Cardinality(0..n - 1) = n
      /\ Cardinality(1..n) = n
  BY <1>1, FS_Interval
<1>7. rank \in Injection(1..n, 0..n - 1)  BY <1>2, <1>3 DEF Injection
<1>8. rank \in Surjection(1..n, 0..n - 1)  BY <1>6, <1>7, FS_Injection
<1> QED  BY <1>4, <1>5, <1>8 DEF Surjection, n

\* What is at each place.
LEMMA SortedSeqFacts ==
  ASSUME NEW s \in Seq(Elements)
  PROVE  /\ SortedSeq(s) \in Seq(Elements) /\ Len(SortedSeq(s)) = Len(s)
         /\ \A j \in 1..Len(s) : SortedSeq(s)[RankOf(s, j) + 1] = s[j]
<1> DEFINE n == Len(s)
           at(p) == CHOOSE j \in DOMAIN s : RankOf(s, j) = p - 1
<1>1. n \in Nat /\ DOMAIN s = 1..n /\ \A i \in 1..n : s[i] \in Elements  BY KeysOf
<1>2. ASSUME NEW p \in 1..n PROVE at(p) \in 1..n /\ RankOf(s, at(p)) = p - 1
  <2>1. \E j \in DOMAIN s : RankOf(s, j) = p - 1  BY <1>1, EveryRank
  <2>2. at(p) \in DOMAIN s /\ RankOf(s, at(p)) = p - 1  BY <2>1
  <2> QED  BY <1>1, <2>2
<1>3. SortedSeq(s) = [p \in 1..n |-> s[at(p)]]  BY <1>1, SortedSeqIs
<1> HIDE DEF at
<1>4. \A p \in 1..n : s[at(p)] \in Elements  BY <1>1, <1>2
<1>5. [p \in 1..n |-> s[at(p)]] \in Seq(Elements)  BY <1>1, <1>4, IsASeq
<1>6. ASSUME NEW j \in 1..n PROVE SortedSeq(s)[RankOf(s, j) + 1] = s[j]
  <2> DEFINE p == RankOf(s, j) + 1
  <2>1. p \in 1..n /\ p - 1 = RankOf(s, j)  BY <1>1, PredecessorsFinite
  <2>2. SortedSeq(s)[p] = s[at(p)]  BY <1>3, <2>1
  <2>3. at(p) \in 1..n /\ RankOf(s, at(p)) = RankOf(s, j)  BY <1>2, <2>1
  <2>4. at(p) = j  BY <2>3, RanksDiffer
  <2> QED  BY <2>2, <2>4
<1>7. SortedSeq(s) \in Seq(Elements)  BY <1>3, <1>5
<1>8. Len(SortedSeq(s)) = n
  <2>1. DOMAIN SortedSeq(s) = 1..n  BY <1>3
  <2>2. DOMAIN SortedSeq(s) = 1..Len(SortedSeq(s)) /\ Len(SortedSeq(s)) \in Nat
    BY <1>7, LenProperties
  <2> QED  BY <1>1, <2>1, <2>2
<1> QED  BY <1>6, <1>7, <1>8

\* A sorted sequence is its own sort.
LEMMA SortedAlready ==
  ASSUME NEW s \in Seq(Elements),
         \A i, j \in 1..Len(s) : i < j => Key[s[i]] <= Key[s[j]]
  PROVE  SortedSeq(s) = s
<1>1. Len(s) \in Nat /\ DOMAIN s = 1..Len(s) /\ \A k \in 1..Len(s) : Key[s[k]] \in Int  BY KeysOf
<1>2. /\ SortedSeq(s) \in Seq(Elements) /\ Len(SortedSeq(s)) = Len(s)
      /\ \A j \in 1..Len(s) : SortedSeq(s)[RankOf(s, j) + 1] = s[j]
  BY SortedSeqFacts
<1>3. ASSUME NEW j \in 1..Len(s) PROVE RankOf(s, j) = j - 1
  <2>1. ASSUME NEW i \in 1..Len(s) PROVE Precedes(s, i, j) <=> i < j
    <3>1. Key[s[i]] \in Int /\ Key[s[j]] \in Int  BY <1>1
    <3>2. CASE i < j
      <4>1. Key[s[i]] <= Key[s[j]]  BY <3>2
      <4> QED  BY <3>1, <3>2, <4>1 DEF Precedes
    <3>3. CASE ~(i < j)
      <4>1. i = j \/ Key[s[j]] <= Key[s[i]]  BY <1>1, <3>3
      <4> QED  BY <3>1, <3>3, <4>1 DEF Precedes
    <3> QED  BY <3>2, <3>3
  <2>2. Predecessors(s, j) = 1..j - 1  BY <1>1, <2>1 DEF Predecessors
  <2>3. Cardinality(1..j - 1) = j - 1  BY <1>1, FS_Interval
  <2> QED  BY <2>2, <2>3 DEF RankOf
<1>4. ASSUME NEW j \in 1..Len(s) PROVE SortedSeq(s)[j] = s[j]
  <2>1. RankOf(s, j) + 1 = j  BY <1>1, <1>3
  <2> QED  BY <1>2, <2>1
<1> QED  BY <1>2, <1>4, SeqEqual

\* To exchange neighbours that are out of order does not change the sort.
LEMMA SortKeptByExchange ==
  ASSUME NEW s \in Seq(Elements), NEW t \in Seq(Elements), Len(t) = Len(s),
         NEW p \in 1..Len(s) - 1,
         t[p] = s[p + 1], t[p + 1] = s[p],
         \A i \in 1..Len(s) : i # p /\ i # p + 1 => t[i] = s[i],
         Key[s[p + 1]] < Key[s[p]]
  PROVE  SortedSeq(t) = SortedSeq(s)
<1> DEFINE n == Len(s)
           pi == [i \in 1..n |-> IF i = p THEN p + 1 ELSE IF i = p + 1 THEN p ELSE i]
<1>1. /\ n \in Nat /\ DOMAIN s = 1..n /\ DOMAIN t = 1..n /\ p \in Int
      /\ \A k \in 1..n : Key[s[k]] \in Int /\ Key[t[k]] \in Int
  BY KeysOf
<1>2. /\ pi \in [1..n -> 1..n]
      /\ \A i \in 1..n : pi[i] = IF i = p THEN p + 1 ELSE IF i = p + 1 THEN p ELSE i
      /\ \A i \in 1..n : pi[pi[i]] = i
  BY <1>1
<1> HIDE DEF pi
<1>3. \A i \in 1..n : t[i] = s[pi[i]]  BY <1>1, <1>2
<1>4. ASSUME NEW i \in 1..n, NEW j \in 1..n
      PROVE  Precedes(t, i, j) <=> Precedes(s, pi[i], pi[j])
  <2>1. t[i] = s[pi[i]] /\ t[j] = s[pi[j]]  BY <1>3
  <2>2. CASE i = p /\ j = p + 1
    <3>1. pi[i] = p + 1 /\ pi[j] = p  BY <1>1, <1>2, <2>2
    <3> QED  BY <2>1, <3>1 DEF Precedes
  <2>3. CASE i = p + 1 /\ j = p
    <3>1. pi[i] = p /\ pi[j] = p + 1  BY <1>1, <1>2, <2>3
    <3>2. p \in 1..n /\ p + 1 \in 1..n  BY <1>1
    <3>3. Key[s[p]] \in Int /\ Key[s[p + 1]] \in Int  BY <1>1, <3>2
    <3> QED  BY <2>1, <3>1, <3>3 DEF Precedes
  <2>4. CASE ~(i = p /\ j = p + 1) /\ ~(i = p + 1 /\ j = p)
    <3>1. i < j <=> pi[i] < pi[j]  BY <1>1, <1>2, <2>4
    <3> QED  BY <2>1, <3>1 DEF Precedes
  <2> QED  BY <2>2, <2>3, <2>4
<1>5. ASSUME NEW j \in 1..n PROVE RankOf(t, j) = RankOf(s, pi[j])
  <2> DEFINE A == Predecessors(s, pi[j])
             B == Predecessors(t, j)
             f == [i \in A |-> pi[i]]
  <2>1. pi[j] \in 1..n  BY <1>2
  <2>2. IsFiniteSet(A) /\ A \subseteq 1..n  BY <2>1, PredecessorsFinite
  <2>3. B = {i \in 1..n : Precedes(t, i, j)} /\ A = {i \in 1..n : Precedes(s, i, pi[j])}
    BY <1>1 DEF Predecessors
  <2>4. \A i \in A : pi[i] \in B
    <3> TAKE i \in A
    <3>1. i \in 1..n /\ pi[i] \in 1..n /\ pi[pi[i]] = i  BY <1>2, <2>2
    <3>2. Precedes(s, i, pi[j])  BY <2>3
    <3> QED  BY <1>4, <2>3, <3>1, <3>2
  <2>5. \A i \in B : pi[i] \in A
    <3> TAKE i \in B
    <3>1. i \in 1..n /\ pi[i] \in 1..n /\ Precedes(t, i, j)  BY <1>2, <2>3
    <3> QED  BY <1>4, <2>3, <3>1
  <2>6. B \subseteq 1..n  BY <2>3
  <2> HIDE DEF A, B
  <2>7. f \in [A -> B]  BY <2>4
  <2>8. \A a, b \in A : f[a] = f[b] => a = b  BY <1>2, <2>2
  <2>9. \A b \in B : \E a \in A : f[a] = b
    <3> TAKE b \in B
    <3>1. pi[b] \in A /\ pi[pi[b]] = b  BY <1>2, <2>5, <2>6
    <3> QED  BY <3>1
  <2> HIDE DEF f
  <2>10. f \in Bijection(A, B)
    BY <2>7, <2>8, <2>9 DEF Bijection, Injection, Surjection, IsInjective
  <2>11. Cardinality(B) = Cardinality(A)  BY <2>2, <2>10, FS_Bijection DEF ExistsBijection
  <2> QED  BY <2>11 DEF RankOf, A, B
<1>6. /\ SortedSeq(s) \in Seq(Elements) /\ Len(SortedSeq(s)) = n
      /\ \A j \in 1..n : SortedSeq(s)[RankOf(s, j) + 1] = s[j]
  BY SortedSeqFacts
<1>7. /\ SortedSeq(t) \in Seq(Elements) /\ Len(SortedSeq(t)) = n
      /\ \A j \in 1..n : SortedSeq(t)[RankOf(t, j) + 1] = t[j]
  BY SortedSeqFacts
<1>8. ASSUME NEW q \in 1..n PROVE SortedSeq(t)[q] = SortedSeq(s)[q]
  <2>1. PICK j \in 1..n : RankOf(t, j) = q - 1  BY EveryRank
  <2>2. RankOf(t, j) + 1 = q /\ RankOf(s, pi[j]) + 1 = q /\ pi[j] \in 1..n
    BY <1>1, <1>2, <1>5, <2>1
  <2>3. SortedSeq(t)[q] = t[j] /\ SortedSeq(s)[q] = s[pi[j]]  BY <1>6, <1>7, <2>2
  <2> QED  BY <1>3, <2>3
<1> QED  BY <1>6, <1>7, <1>8, SeqEqual

\* The abstract sequence counts with a copy of the operator.
LEMMA SameSort ==
  ASSUME NEW s
  PROVE  Abstract!StableSort(s) = SortedSeq(s)
BY DEF Abstract!StableSort, SortedSeq, Cardinality, Abstract!Cardinality

LEMMA SortLoadKeyStutters ==
  ASSUME ArrayShape(cells, size, run, reply), SortLoadKey
  PROVE  UNCHANGED <<Sequence, reply>>
<1>1. Stocked(cells, size) /\ UNCHANGED <<cells, size, reply>>  BY ShapeStocked DEF SortLoadKey
<1>2. size \in Nat  BY <1>1, ArrayFacts
<1>3. SortOK(cells, size, run) /\ run.op = "sort"  BY RunIs DEF SortLoadKey
<1> DEFINE view == ViewOf(cells, size)  at == run.index
<1>4. view \in Seq(Elements) /\ Len(view) = size /\ \A i \in 1..size : view[i] = cells[i - 1]
  BY <1>1, ViewFacts
<1>5. Sequence = SortedSeq(view)  BY <1>3, SequenceIs DEF SequenceOf
<1>6. at \in Nat \ {0} /\ \A i, j \in 0..size - 1 : i < j /\ j < at => Key[cells[i]] <= Key[cells[j]]
  BY <1>3 DEF SortOK
<1>7. CASE at < size
  <2>1. run' = [op |-> "shift", index |-> at, cursor |-> at, key |-> cells[at]]
    BY <1>7 DEF SortLoadKey
  <2>2. Sequence' = SortedSeq([ViewOf(cells', size') EXCEPT ![at + 1] = cells[at]])
    BY <2>1, SequenceIs DEF SequenceOf
  <2>3. ViewOf(cells', size') = view  BY <1>1
  <2> HIDE DEF view, at
  <2>4. at + 1 \in 1..size /\ (at + 1) - 1 = at  BY <1>2, <1>6, <1>7
  <2>5. [view EXCEPT ![at + 1] = cells[at]] = view  BY <1>4, <2>4
  <2> QED  BY <1>1, <1>5, <2>2, <2>3, <2>5
<1>8. CASE ~(at < size)
  <2>1. run' = Idle  BY <1>8 DEF SortLoadKey
  <2>2. Sequence' = ViewOf(cells', size')  BY <2>1, SequenceIs, SequenceOfIdle
  <2>3. Sequence' = view  BY <1>1, <2>2
  <2> HIDE DEF view, at
  <2>4. ASSUME NEW i \in 1..size, NEW j \in 1..size, i < j
        PROVE  Key[view[i]] <= Key[view[j]]
    <3>1. i - 1 \in 0..size - 1 /\ j - 1 \in 0..size - 1 /\ i - 1 < j - 1 /\ j - 1 < at
      BY <1>2, <1>6, <1>8, <2>4
    <3> QED  BY <1>4, <1>6, <3>1
  <2>5. SortedSeq(view) = view  BY <1>4, <2>4, SortedAlready
  <2> QED  BY <1>1, <1>5, <2>3, <2>5
<1> QED  BY <1>7, <1>8

LEMMA SortShiftStutters ==
  ASSUME ArrayShape(cells, size, run, reply), SortShift
  PROVE  UNCHANGED <<Sequence, reply>>
<1>1. Stocked(cells, size) /\ Stocked(cells', size') /\ UNCHANGED <<size, reply>>
  BY ShapeStocked, SortShiftKeeps DEF SortShift
<1>2. /\ size \in Nat /\ Capacity \in Nat /\ size <= Capacity
      /\ \A i : i \in Positions <=> i \in Int /\ 0 <= i /\ i < Capacity
  BY <1>1, ArrayFacts
<1> DEFINE p == run.cursor  at == run.index  key == run.key
           view == ViewOf(cells, size)  view2 == ViewOf(cells', size')
           s == [view EXCEPT ![p + 1] = key]
<1>3. /\ run = [op |-> "shift", index |-> at, cursor |-> p, key |-> key]
      /\ at \in 1..size - 1 /\ p \in 0..at /\ key \in Elements
  BY RunIs DEF SortShift, ShiftOK
<1>4. view \in Seq(Elements) /\ Len(view) = size /\ \A i \in 1..size : view[i] = cells[i - 1]
  BY <1>1, ViewFacts
<1>5. view2 \in Seq(Elements) /\ Len(view2) = size /\ \A i \in 1..size : view2[i] = cells'[i - 1]
  <2>1. /\ view2 \in Seq(Elements) /\ Len(view2) = size'
        /\ \A i \in 1..size' : view2[i] = cells'[i - 1]
    BY <1>1, ViewFacts
  <2> HIDE DEF view2
  <2> QED  BY <1>1, <2>1
<1>6. Sequence = SortedSeq(s)  BY <1>3, SequenceIs DEF SequenceOf
<1>7. p + 1 \in 1..size /\ p \in Positions /\ p \in Int /\ \A i \in 1..size : i - 1 \in Positions
  BY <1>2, <1>3
<1>8. s \in Seq(Elements) /\ Len(s) = size
      /\ \A i \in 1..size : s[i] = IF i = p + 1 THEN key ELSE cells[i - 1]
  <2> HIDE DEF view, p, key
  <2>1. /\ s \in Seq(Elements) /\ Len(s) = Len(view)
        /\ \A i \in 1..Len(view) : s[i] = IF i = p + 1 THEN key ELSE view[i]
    BY <1>3, <1>4, <1>7, ExceptSeq
  <2> HIDE DEF s
  <2> QED  BY <1>4, <2>1
<1>9. CASE p > 0 /\ Before(key, cells[p - 1])
  <2> DEFINE t == [view2 EXCEPT ![(p - 1) + 1] = key]
  <2>1. /\ cells' = [cells EXCEPT ![p] = cells[p - 1]]
        /\ run' = [op |-> "shift", index |-> at, cursor |-> p - 1, key |-> key]
    BY <1>3, <1>9 DEF SortShift
  <2>2. Sequence' = SortedSeq(t)  BY <2>1, SequenceIs DEF SequenceOf
  <2>3. Key[key] < Key[cells[p - 1]]  BY <1>9 DEF Before
  <2> HIDE DEF s, view, view2, p, at, key
  <2>4. p \in 1..size - 1 /\ (p - 1) + 1 = p /\ p \in 1..size  BY <1>2, <1>3, <1>9
  <2>5. t \in Seq(Elements) /\ Len(t) = size
        /\ \A i \in 1..size : t[i] = IF i = p THEN key ELSE cells'[i - 1]
    <3>1. t = [view2 EXCEPT ![p] = key]  BY <2>4
    <3>2. /\ t \in Seq(Elements) /\ Len(t) = Len(view2)
          /\ \A i \in 1..Len(view2) : t[i] = IF i = p THEN key ELSE view2[i]
      <4> HIDE DEF t
      <4>1. p \in 1..Len(view2)  BY <1>5, <2>4
      <4> QED  BY <1>3, <1>5, <3>1, <4>1, ExceptSeq
    <3> HIDE DEF t
    <3> QED  BY <1>5, <3>2
  <2> HIDE DEF t
  <2>6. cells'[p] = cells[p - 1] /\ \A i \in Positions : i # p => cells'[i] = cells[i]
    BY <1>1, <1>7, <2>1, WriteStep
  <2>7. s[p + 1] = key /\ s[p] = cells[p - 1] /\ t[p] = key /\ t[p + 1] = cells[p - 1]
    BY <1>7, <1>8, <2>4, <2>5, <2>6
  <2>8. ASSUME NEW i \in 1..size, i # p, i # p + 1 PROVE t[i] = s[i]
    <3>1. i - 1 \in Positions /\ i - 1 # p  BY <1>7, <2>8
    <3> QED  BY <1>8, <2>5, <2>6, <2>8, <3>1
  <2>9. SortedSeq(t) = SortedSeq(s)
    <3>1. p \in 1..Len(s) - 1 /\ Len(t) = Len(s)  BY <1>8, <2>4, <2>5
    <3>2. t[p] = s[p + 1] /\ t[p + 1] = s[p] /\ Key[s[p + 1]] < Key[s[p]]  BY <2>3, <2>7
    <3>3. \A i \in 1..Len(s) : i # p /\ i # p + 1 => t[i] = s[i]  BY <1>8, <2>8
    <3> QED  BY <1>8, <2>5, <3>1, <3>2, <3>3, SortKeptByExchange
  <2> QED  BY <1>1, <1>6, <2>2, <2>9
<1>10. CASE ~(p > 0 /\ Before(key, cells[p - 1]))
  <2>1. cells' = [cells EXCEPT ![p] = key] /\ run' = [op |-> "sort", index |-> at + 1]
    BY <1>10 DEF SortShift
  <2>2. Sequence' = SortedSeq(view2)  BY <2>1, SequenceIs DEF SequenceOf
  <2> HIDE DEF s, view, view2, p, at, key
  <2>3. cells'[p] = key /\ \A i \in Positions : i # p => cells'[i] = cells[i]
    BY <1>1, <1>7, <2>1, WriteStep
  <2>4. ASSUME NEW i \in 1..size PROVE view2[i] = s[i]
    <3>1. CASE i = p + 1
      <4>1. i - 1 = p  BY <1>7, <3>1
      <4> QED  BY <1>5, <1>8, <2>3, <3>1, <4>1
    <3>2. CASE i # p + 1
      <4>1. i - 1 \in Positions /\ i - 1 # p  BY <1>7, <3>2
      <4> QED  BY <1>5, <1>8, <2>3, <3>2, <4>1
    <3> QED  BY <3>1, <3>2
  <2>5. view2 = s  BY <1>5, <1>8, <2>4, SeqEqual
  <2> QED  BY <1>1, <1>6, <2>2, <2>5
<1> QED  BY <1>9, <1>10

-----------------------------------------------------------------------------
(***************************************************************************)
(* Operations, each against the abstract one.                              *)
(***************************************************************************)
LEMMA RestFacts ==
  ASSUME Stocked(cells, size), run.op \in {"idle", "drain", "shuffle"}
  PROVE  /\ Sequence = ViewOf(cells, size)
         /\ Sequence \in Seq(Elements) /\ Len(Sequence) = size /\ DOMAIN Sequence = 1..size
         /\ \A i \in 1..size : Sequence[i] = cells[i - 1]
         /\ \A i \in 0..size - 1 : i + 1 \in 1..size /\ Sequence[i + 1] = cells[i]
         /\ Abstract!Indices = 0..size - 1
         /\ size \in Nat /\ \A i : InRange(i) <=> 0 <= i /\ i < size
<1>1. Sequence = ViewOf(cells, size)  BY SequenceIs DEF SequenceOf
<1>2. /\ Sequence \in Seq(Elements) /\ Len(Sequence) = size /\ DOMAIN Sequence = 1..size
      /\ \A i \in 1..size : Sequence[i] = cells[i - 1]
  BY <1>1, ViewFacts
<1>3. size \in Nat  BY ArrayFacts
<1>4. \A i \in 0..size - 1 : i + 1 \in 1..size /\ (i + 1) - 1 = i  BY <1>3
<1>5. \A i \in 0..size - 1 : i + 1 \in 1..size /\ Sequence[i + 1] = cells[i]  BY <1>2, <1>4
<1>6. Abstract!Indices = 0..size - 1  BY <1>2 DEF Abstract!Indices
<1> QED  BY <1>1, <1>2, <1>3, <1>5, <1>6 DEF InRange

LEMMA RestFactsNext ==
  ASSUME Stocked(cells', size'), run'.op \in {"idle", "drain", "shuffle"}
  PROVE  /\ Sequence' = ViewOf(cells', size')
         /\ Sequence' \in Seq(Elements) /\ Len(Sequence') = size'
         /\ \A i \in 1..size' : Sequence'[i] = cells'[i - 1]
<1>1. Sequence' = ViewOf(cells', size')  BY SequenceIs DEF SequenceOf
<1> QED  BY <1>1, ViewFacts

\* An operation that only answers.
LEMMA KeptSequence ==
  ASSUME NEW op, NEW value, Keep(op, value)
  PROVE  Abstract!Keep(op, value)
<1>1. UNCHANGED <<cells, size, run>> /\ reply' = <<op, value>>  BY DEF Keep, Answer
<1>2. Sequence' = Sequence  BY <1>1, SequenceIs
<1> QED  BY <1>1, <1>2 DEF Abstract!Keep, Abstract!Answer

LEMMA GetIs ==
  ASSUME Stocked(cells, size), run = Idle, NEW i \in Arguments, Get(i)
  PROVE  Abstract!Get(i)
<1>1. /\ Abstract!Indices = 0..size - 1 /\ size \in Nat
      /\ \A j \in 0..size - 1 : Sequence[j + 1] = cells[j]
  BY RestFacts DEF Idle
<1>2. i \in Int /\ (InRange(i) <=> i \in 0..size - 1)
  BY <1>1, VarArrayAssumption DEF Arguments, InRange
<1>3. CASE InRange(i)
  <2>1. Keep("Get", Sequence[i + 1])  BY <1>1, <1>2, <1>3 DEF Get
  <2> QED  BY <1>1, <1>2, <1>3, <2>1, KeptSequence DEF Abstract!Get
<1>4. CASE ~InRange(i)
  <2>1. Keep("Get", Terminated)  BY <1>4 DEF Get
  <2> QED  BY <1>1, <1>2, <1>4, <2>1, KeptSequence DEF Abstract!Get, Abstract!Terminated, Terminated
<1> QED  BY <1>3, <1>4

LEMMA SetIs ==
  ASSUME Stocked(cells, size), run = Idle, NEW i \in Arguments, NEW v \in Elements, Set(i, v)
  PROVE  Abstract!Set(i, v)
<1>1. /\ Abstract!Indices = 0..size - 1 /\ size \in Nat
      /\ Sequence \in Seq(Elements) /\ Len(Sequence) = size
      /\ \A j \in 1..size : Sequence[j] = cells[j - 1]
  BY RestFacts DEF Idle
<1>2. i \in Int /\ (InRange(i) <=> i \in 0..size - 1)
  BY <1>1, VarArrayAssumption DEF Arguments, InRange
<1>3. CASE InRange(i)
  <2>1. cells' = [cells EXCEPT ![i] = v] /\ UNCHANGED <<size, run>> /\ reply' = <<"Set", "none">>
    BY <1>3 DEF Set, Answer, Keep
  <2>2. i \in Positions /\ \A j \in 1..size : j - 1 \in Positions
    BY <1>1, <1>2, <1>3, ArrayFacts
  <2>3. /\ Stocked(cells', size) /\ cells'[i] = v
        /\ \A j \in Positions : j # i => cells'[j] = cells[j]
    BY <2>1, <2>2, WriteStep
  <2>4. /\ Sequence' \in Seq(Elements) /\ Len(Sequence') = size
        /\ \A j \in 1..size : Sequence'[j] = cells'[j - 1]
    BY <2>1, <2>3, RestFactsNext DEF Idle
  <2> DEFINE t == [Sequence EXCEPT ![i + 1] = v]
  <2>5. /\ t \in Seq(Elements) /\ Len(t) = Len(Sequence)
        /\ \A j \in 1..Len(Sequence) : t[j] = IF j = i + 1 THEN v ELSE Sequence[j]
    <3>1. i + 1 \in 1..Len(Sequence)  BY <1>1, <1>2, <1>3
    <3> QED  BY <1>1, <3>1, ExceptSeq
  <2> HIDE DEF t
  <2>6. ASSUME NEW j \in 1..size PROVE Sequence'[j] = t[j]
    <3>1. CASE j = i + 1
      <4>1. j - 1 = i  BY <1>2, <3>1
      <4> QED  BY <1>1, <2>3, <2>4, <2>5, <3>1, <4>1
    <3>2. CASE j # i + 1
      <4>1. j - 1 # i /\ j - 1 \in Positions  BY <1>2, <2>2, <3>2
      <4> QED  BY <1>1, <2>3, <2>4, <2>5, <3>2, <4>1
    <3> QED  BY <3>1, <3>2
  <2>7. Sequence' = t  BY <1>1, <2>4, <2>5, <2>6, SeqEqual
  <2> QED  BY <1>1, <1>2, <1>3, <2>1, <2>7 DEF t, Abstract!Set, Abstract!Answer
<1>4. CASE ~InRange(i)
  <2>1. Keep("Set", Terminated)  BY <1>4 DEF Set
  <2> QED  BY <1>1, <1>2, <1>4, <2>1, KeptSequence DEF Abstract!Set, Abstract!Terminated, Terminated
<1> QED  BY <1>3, <1>4

\* Also what the body of an Extend does.
LEMMA AppendOneIs ==
  ASSUME Stocked(cells, size), run.op \in {"idle", "drain"}, NEW v \in Elements, AppendOne(v)
  PROVE  Abstract!AppendOne(v)
<1>1. /\ size \in Nat /\ Sequence \in Seq(Elements) /\ Len(Sequence) = size
      /\ \A j \in 1..size : Sequence[j] = cells[j - 1]
  BY RestFacts
<1>2. CASE HasCapacity
  <2>1. /\ cells' = [cells EXCEPT ![size] = v] /\ size' = size + 1 /\ run' = run
        /\ reply' = <<"Append", "none">>
    BY <1>2 DEF AppendOne, Answer, Keep
  <2>2. /\ size \in Positions /\ size < Capacity /\ size' \in 0..Capacity
        /\ \A j \in 1..size : j - 1 \in Positions /\ j - 1 # size
        /\ \A j \in 0..size - 1 : j \in Positions /\ j # size
    BY <1>1, <1>2, <2>1, ArrayFacts DEF HasCapacity
  <2>3. /\ DOMAIN cells' = Positions /\ cells'[size] = v
        /\ \A j \in Positions : j # size => cells'[j] = cells[j]
    BY <2>1, <2>2, WriteStep
  <2>4. Stocked(cells', size')
    <3>1. ASSUME NEW j \in 0..size' - 1 PROVE cells'[j] \in Elements
      <4>1. j = size \/ j \in 0..size - 1  BY <1>1, <2>1
      <4> QED  BY <2>2, <2>3, <4>1 DEF Stocked
    <3> QED  BY <2>2, <2>3, <3>1 DEF Stocked
  <2>5. /\ Sequence' \in Seq(Elements) /\ Len(Sequence') = size'
        /\ \A j \in 1..size' : Sequence'[j] = cells'[j - 1]
    <3>1. run'.op \in {"idle", "drain"}  BY <2>1
    <3> QED  BY <2>4, <3>1, RestFactsNext
  <2> DEFINE t == Append(Sequence, v)
  <2>6. /\ t \in Seq(Elements) /\ Len(t) = size + 1 /\ t[size + 1] = v
        /\ \A j \in 1..size : t[j] = Sequence[j]
    BY <1>1, AppendProperties
  <2> HIDE DEF t
  <2>7. ASSUME NEW j \in 1..size + 1 PROVE Sequence'[j] = t[j]
    <3>1. CASE j = size + 1
      <4>1. j - 1 = size  BY <1>1, <3>1
      <4> QED  BY <2>1, <2>3, <2>5, <2>6, <3>1, <4>1
    <3>2. CASE j # size + 1
      <4>1. j \in 1..size  BY <1>1, <3>2
      <4> QED  BY <1>1, <2>1, <2>2, <2>3, <2>5, <2>6, <4>1
    <3> QED  BY <3>1, <3>2
  <2>8. Sequence' = t  BY <2>1, <2>5, <2>6, <2>7, SeqEqual
  <2> QED  BY <1>1, <2>1, <2>2, <2>8 DEF t, Abstract!AppendOne, Abstract!Answer
<1>3. CASE ~HasCapacity
  <2>1. Keep("Append", Terminated)  BY <1>3 DEF AppendOne
  <2> QED  BY <1>1, <1>3, <2>1, KeptSequence DEF Abstract!AppendOne, Abstract!Terminated, Terminated, HasCapacity
<1> QED  BY <1>2, <1>3

LEMMA ClearIs ==
  ASSUME Stocked(cells, size), run.op \in {"idle", "drain"}, Clear
  PROVE  Abstract!Clear
<1>1. cells' = cells /\ size' = 0 /\ run' = run /\ reply' = <<"Clear", "none">>
  BY DEF Clear, Answer
<1>2. Stocked(cells', size')
  <2>1. Capacity \in Nat /\ DOMAIN cells = Positions  BY ArrayFacts DEF Stocked
  <2>2. size' \in 0..Capacity /\ 0..size' - 1 = {}  BY <1>1, <2>1
  <2> QED  BY <1>1, <2>1, <2>2 DEF Stocked
<1>3. Sequence' \in Seq(Elements) /\ Len(Sequence') = 0
  <2>1. run'.op \in {"idle", "drain"}  BY <1>1
  <2> QED  BY <1>1, <1>2, <2>1, RestFactsNext
<1>4. Sequence' = <<>>  BY <1>3, EmptySeq
<1> QED  BY <1>1, <1>4 DEF Abstract!Clear, Abstract!Answer

LEMMA SwapIs ==
  ASSUME Stocked(cells, size), run = Idle, NEW i \in Arguments, NEW j \in Arguments, Swap(i, j)
  PROVE  Abstract!Swap(i, j)
<1>1. /\ Abstract!Indices = 0..size - 1 /\ size \in Nat
      /\ Sequence \in Seq(Elements) /\ Len(Sequence) = size
      /\ \A k \in 1..size : Sequence[k] = cells[k - 1]
      /\ \A k \in 0..size - 1 : k + 1 \in 1..size /\ Sequence[k + 1] = cells[k]
  BY RestFacts DEF Idle
<1>2. /\ i \in Int /\ j \in Int
      /\ InRange(i) <=> i \in 0..size - 1
      /\ InRange(j) <=> j \in 0..size - 1
  BY <1>1, VarArrayAssumption DEF Arguments, InRange
<1>3. CASE InRange(i) /\ InRange(j)
  <2>1. /\ cells' = Exchanged(i, j) /\ UNCHANGED <<size, run>> /\ reply' = <<"Swap", "none">>
    BY <1>3 DEF Swap, Answer, Keep
  <2>2. i \in 0..size - 1 /\ j \in 0..size - 1  BY <1>2, <1>3
  <2>3. /\ Stocked(cells', size)
        /\ \A k \in 0..size - 1 : cells'[k] =
             IF k = j THEN cells[i] ELSE IF k = i THEN cells[j] ELSE cells[k]
    BY <2>1, <2>2, ExchangeStocked
  <2>4. /\ Sequence' \in Seq(Elements) /\ Len(Sequence') = size
        /\ \A k \in 1..size : Sequence'[k] = cells'[k - 1]
    BY <2>1, <2>3, RestFactsNext DEF Idle
  <2> DEFINE one == [Sequence EXCEPT ![i + 1] = Sequence[j + 1]]
             two == [one EXCEPT ![j + 1] = Sequence[i + 1]]
  <2>5. /\ i + 1 \in 1..size /\ j + 1 \in 1..size
        /\ Sequence[i + 1] = cells[i] /\ Sequence[j + 1] = cells[j]
        /\ Sequence[i + 1] \in Elements /\ Sequence[j + 1] \in Elements
    BY <1>1, <2>2 DEF Stocked
  <2>6. /\ one \in Seq(Elements) /\ Len(one) = Len(Sequence)
        /\ \A k \in 1..Len(Sequence) : one[k] = IF k = i + 1 THEN Sequence[j + 1] ELSE Sequence[k]
    <3>1. i + 1 \in 1..Len(Sequence)  BY <1>1, <2>5
    <3> QED  BY <1>1, <2>5, <3>1, ExceptSeq
  <2>7. two = [Sequence EXCEPT ![i + 1] = Sequence[j + 1], ![j + 1] = Sequence[i + 1]]
    OBVIOUS
  <2> HIDE DEF one
  <2>8. /\ two \in Seq(Elements) /\ Len(two) = Len(one)
        /\ \A k \in 1..Len(one) : two[k] = IF k = j + 1 THEN Sequence[i + 1] ELSE one[k]
    <3>1. j + 1 \in 1..Len(one)  BY <1>1, <2>5, <2>6
    <3> QED  BY <2>5, <2>6, <3>1, ExceptSeq
  <2> HIDE DEF two
  <2>9. ASSUME NEW k \in 1..size PROVE Sequence'[k] = two[k]
    <3>1. k - 1 \in 0..size - 1 /\ (k - 1 = i <=> k = i + 1) /\ (k - 1 = j <=> k = j + 1)
      BY <1>1, <1>2
    <3>2. two[k] = IF k = j + 1 THEN cells[i] ELSE IF k = i + 1 THEN cells[j] ELSE cells[k - 1]
      BY <1>1, <2>5, <2>6, <2>8
    <3>3. Sequence'[k] = IF k - 1 = j THEN cells[i] ELSE IF k - 1 = i THEN cells[j] ELSE cells[k - 1]
      BY <2>3, <2>4, <3>1
    <3> QED  BY <3>1, <3>2, <3>3
  <2>10. Sequence' = two  BY <1>1, <2>4, <2>6, <2>8, <2>9, SeqEqual
  <2> QED  BY <1>1, <2>1, <2>2, <2>7, <2>10 DEF Abstract!Swap, Abstract!Answer
<1>4. CASE ~(InRange(i) /\ InRange(j))
  <2>1. Keep("Swap", Terminated)  BY <1>4 DEF Swap
  <2> QED  BY <1>1, <1>2, <1>4, <2>1, KeptSequence DEF Abstract!Swap, Abstract!Terminated, Terminated
<1> QED  BY <1>3, <1>4

-----------------------------------------------------------------------------
(* What the reading loops find is what the abstract operations choose. *)

LEMMA MatchesAre ==
  ASSUME Stocked(cells, size), run = Idle, NEW v
  PROVE  Abstract!Matches(v) = {i \in 0..size - 1 : cells[i] = v}
<1>1. /\ Abstract!Indices = 0..size - 1
      /\ \A j \in 0..size - 1 : Sequence[j + 1] = cells[j]
  BY RestFacts DEF Idle
<1> QED  BY <1>1 DEF Abstract!Matches

LEMMA FirstMatchIs ==
  ASSUME Stocked(cells, size), run = Idle, NEW v
  PROVE  /\ Find(v) = -1 <=> Abstract!Matches(v) = {}
         /\ Find(v) # -1 =>
              /\ Find(v) \in 0..size - 1
              /\ Find(v) = CHOOSE i \in Abstract!Matches(v) : \A j \in Abstract!Matches(v) : i <= j
<1> DEFINE hits == {i \in 0..size - 1 : cells[i] = v}
<1>1. size \in Nat  BY ArrayFacts
<1>2. IsFirst(Find(v), size, hits)  BY <1>1, FindIs
<1>3. Abstract!Matches(v) = hits  BY MatchesAre
<1>4. hits \subseteq 0..size - 1  OBVIOUS
<1> HIDE DEF hits
<1>5. Find(v) = -1 <=> hits = {}
  BY <1>1, <1>2, <1>4 DEF IsFirst
<1>6. ASSUME Find(v) # -1
      PROVE  Find(v) \in 0..size - 1 /\ Find(v) = CHOOSE i \in hits : \A j \in hits : i <= j
  <2>1. Find(v) \in hits /\ Find(v) \in 0..size - 1 /\ \A j \in hits : Find(v) <= j
    BY <1>1, <1>2, <1>4, <1>6 DEF IsFirst
  <2>2. \A i \in hits : (\A j \in hits : i <= j) => i = Find(v)  BY <1>1, <1>4, <2>1
  <2> QED  BY <2>1, <2>2
<1> QED  BY <1>3, <1>5, <1>6

LEMMA IndexIs ==
  ASSUME Stocked(cells, size), run = Idle, NEW v \in Elements, Index(v)
  PROVE  Abstract!Index(v)
<1>1. Keep("Index", Find(v))  BY DEF Index
<1>2. Abstract!Keep("Index", Find(v))  BY <1>1, KeptSequence
<1> QED  BY <1>2, FirstMatchIs DEF Abstract!Index

LEMMA LastIndexIs ==
  ASSUME Stocked(cells, size), run = Idle, NEW v \in Elements, LastIndex(v)
  PROVE  Abstract!LastIndex(v)
<1> DEFINE hits == {i \in 0..size - 1 : cells[i] = v}
           last == LastOf(v)
<1>1. size \in Nat  BY ArrayFacts
<1>2. IsLast(last, size, hits)  BY <1>1, LastIs
<1>3. Abstract!Matches(v) = hits  BY MatchesAre
<1>4. hits \subseteq 0..size - 1  OBVIOUS
<1>5. Abstract!Keep("LastIndex", last)
  <2>1. Keep("LastIndex", last)  BY DEF LastIndex, LastOf
  <2> QED  BY <2>1, KeptSequence
<1> HIDE DEF hits, last
<1>6. CASE last = -1
  <2>1. hits = {}  BY <1>1, <1>2, <1>4, <1>6 DEF IsLast
  <2> QED  BY <1>3, <1>5, <1>6, <2>1 DEF Abstract!LastIndex
<1>7. CASE last # -1
  <2>1. last \in hits /\ last \in Int /\ \A j \in hits : j <= last
    BY <1>1, <1>2, <1>4, <1>7 DEF IsLast
  <2>2. \A i \in hits : (\A j \in hits : j <= i) => i = last  BY <1>1, <1>4, <2>1
  <2>3. last = CHOOSE i \in hits : \A j \in hits : j <= i  BY <2>1, <2>2
  <2> QED  BY <1>3, <1>5, <2>1, <2>3 DEF Abstract!LastIndex
<1> QED  BY <1>6, <1>7

LEMMA CountAs ==
  ASSUME Stocked(cells, size), run = Idle, NEW v \in Elements, Count(v)
  PROVE  Abstract!Count(v)
<1>1. size \in Nat  BY ArrayFacts
<1>2. CountOf(v) = Cardinality({i \in 0..size - 1 : cells[i] = v})  BY <1>1, CountOfIs
<1>3. Keep("Count", CountOf(v))  BY DEF Count, CountOf
<1>4. \A S : Abstract!Cardinality(S) = Cardinality(S)  BY DEF Cardinality, Abstract!Cardinality
<1>5. CountOf(v) = Abstract!Cardinality(Abstract!Matches(v))  BY <1>2, <1>4, MatchesAre
<1>6. Abstract!Keep("Count", CountOf(v))  BY <1>3, KeptSequence
<1> QED  BY <1>5, <1>6 DEF Abstract!Count

\* The first of the least: what a scan finds is what a choice takes.
Bests(n, w) == {i \in 0..n - 1 : \A j \in 0..n - 1 : ~(w[j] < w[i])}
FirstBest(n, w) == CHOOSE i \in Bests(n, w) : \A j \in Bests(n, w) : i <= j
LEMMA LeastChosen ==
  ASSUME NEW n \in Nat, NEW w, \A i \in 0..n - 1 : w[i] \in Int, NEW least, IsLeast(least, n, w)
  PROVE  /\ n = 0 => Bests(n, w) = {} /\ least = -1
         /\ n # 0 => Bests(n, w) # {} /\ least \in 0..n - 1 /\ least = FirstBest(n, w)
<1> DEFINE best == Bests(n, w)
<1>0. best = {i \in 0..n - 1 : \A j \in 0..n - 1 : ~(w[j] < w[i])}  BY DEF Bests
<1> HIDE DEF best
<1>1. CASE n = 0  BY <1>0, <1>1 DEF IsLeast, best
<1>2. CASE n # 0
  <2>1. /\ least \in 0..n - 1 /\ \A j \in 0..n - 1 : w[least] <= w[j]
        /\ \A j \in 0..least - 1 : w[least] < w[j]
    BY <1>2 DEF IsLeast
  <2>2. \A i \in best : i \in 0..n - 1 /\ w[i] \in Int /\ ~(w[least] < w[i])  BY <1>0, <2>1
  <2>3. least \in best
    <3>1. \A j \in 0..n - 1 : w[j] \in Int /\ w[least] \in Int /\ w[least] <= w[j]  BY <2>1
    <3>2. \A j \in 0..n - 1 : ~(w[j] < w[least])  BY <3>1
    <3> QED  BY <1>0, <2>1, <3>2
  <2>4. \A i \in best : least <= i
    <3> SUFFICES ASSUME NEW i \in best, ~(least <= i) PROVE FALSE  OBVIOUS
    <3>1. i \in 0..least - 1  BY <2>1, <2>2
    <3> QED  BY <2>1, <2>2, <3>1
  <2>5. \A i \in best : (\A j \in best : i <= j) => i = least  BY <2>1, <2>2, <2>3, <2>4
  <2>6. least = CHOOSE i \in best : \A j \in best : i <= j  BY <2>3, <2>4, <2>5
  <2>7. least = FirstBest(n, w)  BY <2>6 DEF best, FirstBest
  <2> QED  BY <1>2, <2>1, <2>3, <2>7 DEF best
<1> QED  BY <1>1, <1>2

LEMMA SmallestAs ==
  ASSUME Stocked(cells, size), run = Idle
  PROVE  /\ Smallest = Abstract!FirstBy(Abstract!Less)
         /\ IF size > 0 THEN Smallest \in 0..size - 1 ELSE Smallest = -1
<1>1. /\ Abstract!Indices = 0..size - 1 /\ size \in Nat
      /\ \A j \in 0..size - 1 : Sequence[j + 1] = cells[j] /\ Key[cells[j]] \in Int
  BY RestFacts, VarArrayAssumption DEF Idle, Stocked
<1> DEFINE w == [i \in 0..size - 1 |-> Key[cells[i]]]
           best == Bests(size, w)
<1>2. \A i \in 0..size - 1 : w[i] = Key[cells[i]] /\ w[i] \in Int  BY <1>1
<1> HIDE DEF w
<1>3. IsLeast(Smallest, size, w)
  <2>1. \A i \in 0..size - 1 : Key[cells[i]] \in Int  BY <1>1
  <2>2. \A i \in 0..size - 1 : w[i] = Key[cells[i]]  BY <1>2
  <2> QED  BY <1>1, <2>1, <2>2, SmallestIs
<1> DEFINE among == {i \in Abstract!Indices :
                     \A j \in Abstract!Indices : ~(Key[Sequence[j + 1]] < Key[Sequence[i + 1]])}
<1>4. among = best
  <2>1. ASSUME NEW i \in 0..size - 1, NEW j \in 0..size - 1
        PROVE  Key[Sequence[j + 1]] < Key[Sequence[i + 1]] <=> w[j] < w[i]
    <3>1. /\ Sequence[j + 1] = cells[j] /\ Sequence[i + 1] = cells[i]
          /\ Key[cells[i]] \in Int /\ Key[cells[j]] \in Int
          /\ w[i] = Key[cells[i]] /\ w[j] = Key[cells[j]]
      BY <1>1, <1>2
    <3> QED  BY <3>1
  <2> QED  BY <1>1, <2>1 DEF Bests
<1> DEFINE b == best
<1>5. Abstract!FirstBy(Abstract!Less) = IF b = {} THEN -1 ELSE FirstBest(size, w)
  <2>1. Abstract!FirstBy(Abstract!Less) =
          IF among = {} THEN -1 ELSE CHOOSE i \in among : \A j \in among : i <= j
    BY DEF Abstract!FirstBy, Abstract!Less
  <2> HIDE DEF among
  <2> QED  BY <1>4, <2>1 DEF FirstBest
<1>7. /\ size = 0 => b = {} /\ Smallest = -1
      /\ size # 0 => b # {} /\ Smallest \in 0..size - 1 /\ Smallest = FirstBest(size, w)
  <2>1. \A i \in 0..size - 1 : w[i] \in Int  BY <1>2
  <2> QED  BY <1>1, <1>3, <2>1, LeastChosen
<1> QED  BY <1>1, <1>5, <1>7

LEMMA LargestAs ==
  ASSUME Stocked(cells, size), run = Idle
  PROVE  /\ Largest = Abstract!FirstBy(Abstract!Greater)
         /\ IF size > 0 THEN Largest \in 0..size - 1 ELSE Largest = -1
<1>1. /\ Abstract!Indices = 0..size - 1 /\ size \in Nat
      /\ \A j \in 0..size - 1 : Sequence[j + 1] = cells[j] /\ Key[cells[j]] \in Int
  BY RestFacts, VarArrayAssumption DEF Idle, Stocked
<1> DEFINE w == [i \in 0..size - 1 |-> -Key[cells[i]]]
           best == Bests(size, w)
<1>2. \A i \in 0..size - 1 : w[i] = -Key[cells[i]] /\ w[i] \in Int  BY <1>1
<1> HIDE DEF w
<1>3. IsLeast(Largest, size, w)
  <2>1. \A i \in 0..size - 1 : Key[cells[i]] \in Int  BY <1>1
  <2>2. \A i \in 0..size - 1 : w[i] = -Key[cells[i]]  BY <1>2
  <2> QED  BY <1>1, <2>1, <2>2, LargestIs
<1> DEFINE among == {i \in Abstract!Indices :
                     \A j \in Abstract!Indices : ~(Key[Sequence[j + 1]] > Key[Sequence[i + 1]])}
<1>4. among = best
  <2>1. ASSUME NEW i \in 0..size - 1, NEW j \in 0..size - 1
        PROVE  Key[Sequence[j + 1]] > Key[Sequence[i + 1]] <=> w[j] < w[i]
    <3>1. /\ Sequence[j + 1] = cells[j] /\ Sequence[i + 1] = cells[i]
          /\ Key[cells[i]] \in Int /\ Key[cells[j]] \in Int
          /\ w[i] = -Key[cells[i]] /\ w[j] = -Key[cells[j]]
      BY <1>1, <1>2
    <3> QED  BY <3>1
  <2> QED  BY <1>1, <2>1 DEF Bests
<1> DEFINE b == best
<1>5. Abstract!FirstBy(Abstract!Greater) = IF b = {} THEN -1 ELSE FirstBest(size, w)
  <2>1. Abstract!FirstBy(Abstract!Greater) =
          IF among = {} THEN -1 ELSE CHOOSE i \in among : \A j \in among : i <= j
    BY DEF Abstract!FirstBy, Abstract!Greater
  <2> HIDE DEF among
  <2> QED  BY <1>4, <2>1 DEF FirstBest
<1>7. /\ size = 0 => b = {} /\ Largest = -1
      /\ size # 0 => b # {} /\ Largest \in 0..size - 1 /\ Largest = FirstBest(size, w)
  <2>1. \A i \in 0..size - 1 : w[i] \in Int  BY <1>2
  <2> QED  BY <1>1, <1>3, <2>1, LeastChosen
<1> QED  BY <1>1, <1>5, <1>7

LEMMA ExtremesAre ==
  ASSUME Stocked(cells, size), run = Idle
  PROVE  /\ IndexMinFunc => Abstract!IndexMinFunc
         /\ IndexMaxFunc => Abstract!IndexMaxFunc
         /\ MinFunc => Abstract!MinFunc
         /\ MaxFunc => Abstract!MaxFunc
<1>1. size \in Nat /\ \A j \in 0..size - 1 : Sequence[j + 1] = cells[j]
  BY RestFacts DEF Idle
<1>2. ASSUME NEW i, IF size > 0 THEN i \in 0..size - 1 ELSE i = -1
      PROVE  (IF size > 0 THEN cells[i] ELSE Terminated) = Abstract!ElementAt(i)
  BY <1>1, <1>2 DEF Abstract!ElementAt, Abstract!Terminated, Terminated
<1>3. ASSUME IndexMinFunc PROVE Abstract!IndexMinFunc
  <2>1. Abstract!Keep("IndexMinFunc", Smallest)  BY <1>3, KeptSequence DEF IndexMinFunc
  <2> QED  BY <2>1, SmallestAs DEF Abstract!IndexMinFunc
<1>4. ASSUME IndexMaxFunc PROVE Abstract!IndexMaxFunc
  <2>1. Abstract!Keep("IndexMaxFunc", Largest)  BY <1>4, KeptSequence DEF IndexMaxFunc
  <2> QED  BY <2>1, LargestAs DEF Abstract!IndexMaxFunc
<1>5. ASSUME MinFunc PROVE Abstract!MinFunc
  <2>1. Keep("MinFunc", IF size > 0 THEN cells[Smallest] ELSE Terminated)
    BY <1>5 DEF MinFunc, ExtremeOrTerminate
  <2>2. Abstract!Keep("MinFunc", Abstract!ElementAt(Smallest))
    BY <1>2, <2>1, SmallestAs, KeptSequence
  <2> QED  BY <2>2, SmallestAs DEF Abstract!MinFunc
<1>6. ASSUME MaxFunc PROVE Abstract!MaxFunc
  <2>1. Keep("MaxFunc", IF size > 0 THEN cells[Largest] ELSE Terminated)
    BY <1>6 DEF MaxFunc, ExtremeOrTerminate
  <2>2. Abstract!Keep("MaxFunc", Abstract!ElementAt(Largest))
    BY <1>2, <2>1, LargestAs, KeptSequence
  <2> QED  BY <2>2, LargestAs DEF Abstract!MaxFunc
<1> QED  BY <1>3, <1>4, <1>5, <1>6

-----------------------------------------------------------------------------
(* Operations that start a loop have taken effect then. *)

LEMMA SameOperators ==
  ASSUME NEW s, NEW i, NEW e
  PROVE  /\ Abstract!RemoveAt(s, i) = RemoveAt(s, i)
         /\ Abstract!InsertAt(s, i, e) = InsertAt(s, i, e)
         /\ Abstract!Reverse(s) = Reverse(s)
         /\ Abstract!ToSet(s) = ToSet(s)
BY DEF Abstract!RemoveAt, RemoveAt, Abstract!InsertAt, InsertAt, Abstract!Reverse, Reverse,
       Abstract!ToSet, ToSet

LEMMA LoopSequence ==
  ASSUME NEW record, Loop(record)
  PROVE  Sequence' = SequenceOf(cells, size, record)
BY SequenceIs DEF Loop

LEMMA RemoveIndexIs ==
  ASSUME Stocked(cells, size), run = Idle, NEW i \in Arguments, RemoveIndex(i)
  PROVE  Abstract!RemoveIndex(i)
<1>1. /\ Sequence = ViewOf(cells, size) /\ Abstract!Indices = 0..size - 1 /\ size \in Nat
      /\ \A j \in 0..size - 1 : Sequence[j + 1] = cells[j]
  BY RestFacts DEF Idle
<1>2. i \in Int /\ (InRange(i) <=> i \in 0..size - 1)
  BY <1>1, VarArrayAssumption DEF Arguments, InRange
<1>3. CASE InRange(i)
  <2> DEFINE r == [op |-> "remove", cursor |-> i]
  <2>1. Loop(r) /\ reply' = <<"RemoveAt", cells[i]>>  BY <1>3 DEF RemoveIndex, Answer, Keep
  <2>2. SequenceOf(cells, size, r) = RemoveAt(ViewOf(cells, size), i + 1)  BY DEF SequenceOf
  <2> HIDE DEF r
  <2>3. Sequence' = Abstract!RemoveAt(Sequence, i + 1)
    BY <1>1, <2>1, <2>2, LoopSequence, SameOperators
  <2> QED  BY <1>1, <1>2, <1>3, <2>1, <2>3 DEF Abstract!RemoveIndex, Abstract!Answer
<1>4. CASE ~InRange(i)
  <2>1. Keep("RemoveAt", Terminated)  BY <1>4 DEF RemoveIndex
  <2> QED  BY <1>1, <1>2, <1>4, <2>1, KeptSequence DEF Abstract!RemoveIndex, Abstract!Terminated, Terminated
<1> QED  BY <1>3, <1>4

LEMMA RemoveValueIs ==
  ASSUME Stocked(cells, size), run = Idle, NEW v \in Elements, RemoveValue(v)
  PROVE  Abstract!RemoveValue(v)
<1>1. Sequence = ViewOf(cells, size) /\ size \in Nat  BY RestFacts DEF Idle
<1> DEFINE i == Find(v)
<1>2. /\ i = -1 <=> Abstract!Matches(v) = {}
      /\ i # -1 =>
           /\ i \in 0..size - 1
           /\ i = CHOOSE k \in Abstract!Matches(v) : \A j \in Abstract!Matches(v) : k <= j
  BY FirstMatchIs
<1>3. CASE i # -1
  <2> DEFINE r == [op |-> "remove", cursor |-> i]
  <2>1. Loop(r) /\ reply' = <<"Remove", TRUE>>  BY <1>3 DEF RemoveValue, Answer, Keep
  <2>2. SequenceOf(cells, size, r) = RemoveAt(ViewOf(cells, size), i + 1)  BY DEF SequenceOf
  <2> HIDE DEF r, i
  <2>3. i + 1 = 1 + i  BY <1>1, <1>2, <1>3
  <2>4. Sequence' = Abstract!RemoveAt(Sequence, 1 + i)
    BY <1>1, <2>1, <2>2, <2>3, LoopSequence, SameOperators
  <2> QED  BY <1>2, <1>3, <2>1, <2>4 DEF Abstract!RemoveValue, Abstract!Answer
<1>4. CASE i = -1
  <2>1. Keep("Remove", FALSE)  BY <1>4 DEF RemoveValue
  <2>2. Abstract!Keep("Remove", FALSE)  BY <2>1, KeptSequence
  <2> QED  BY <1>2, <1>4, <2>2 DEF Abstract!RemoveValue
<1> QED  BY <1>3, <1>4

LEMMA InsertIs ==
  ASSUME Stocked(cells, size), run = Idle, NEW i \in Arguments, NEW v \in Elements, Insert(i, v)
  PROVE  Abstract!Insert(i, v)
<1>1. /\ Sequence = ViewOf(cells, size) /\ size \in Nat
      /\ Sequence \in Seq(Elements) /\ Len(Sequence) = size
      /\ \A j \in 1..size : Sequence[j] = cells[j - 1]
  BY RestFacts DEF Idle
<1>2. i \in Int  BY VarArrayAssumption DEF Arguments
<1>3. CASE 0 <= i /\ i <= size /\ HasCapacity
  <2> DEFINE r == [op |-> "insert", cursor |-> size, index |-> i, value |-> v]
             base == InsertBaseOf(cells, size, size)
  <2>1. Loop(r) /\ reply' = <<"Insert", "none">>  BY <1>3 DEF Insert, Answer, Keep
  <2>2. SequenceOf(cells, size, r) = InsertAt(base, i + 1, v)  BY DEF SequenceOf, InsertedOf
  <2> HIDE DEF r
  <2>3. /\ base \in Seq(Elements) /\ Len(base) = size
        /\ \A j \in 1..size : base[j] = IF j <= size THEN cells[j - 1] ELSE cells[j]
    <3>1. \A j \in 0..size : j # size => cells[j] \in Elements  BY <1>1 DEF Stocked
    <3>2. size \in 0..size  BY <1>1
    <3> QED  BY <1>1, <3>1, <3>2, InsertBaseFacts
  <2> HIDE DEF base
  <2>4. \A j \in 1..size : base[j] = Sequence[j]  BY <1>1, <2>3
  <2>5. base = Sequence  BY <1>1, <2>3, <2>4, SeqEqual
  <2>6. Sequence' = Abstract!InsertAt(Sequence, i + 1, v)
    BY <2>1, <2>2, <2>5, LoopSequence, SameOperators
  <2>7. i \in 0..Len(Sequence) /\ Len(Sequence) < Capacity  BY <1>1, <1>2, <1>3 DEF HasCapacity
  <2> QED  BY <2>1, <2>6, <2>7 DEF Abstract!Insert, Abstract!Answer
<1>4. CASE ~(0 <= i /\ i <= size /\ HasCapacity)
  <2>1. Keep("Insert", Terminated)  BY <1>4 DEF Insert
  <2>2. Abstract!Keep("Insert", Abstract!Terminated)
    BY <2>1, KeptSequence DEF Abstract!Terminated, Terminated
  <2>3. ~(i \in 0..Len(Sequence) /\ Len(Sequence) < Capacity)
    BY <1>1, <1>2, <1>4 DEF HasCapacity
  <2> QED  BY <2>2, <2>3 DEF Abstract!Insert
<1> QED  BY <1>3, <1>4

LEMMA ReverseAllIs ==
  ASSUME Stocked(cells, size), run = Idle, ReverseAll
  PROVE  Abstract!ReverseAll
<1>1. /\ Sequence = ViewOf(cells, size) /\ size \in Nat /\ Len(Sequence) = size
      /\ \A j \in 1..size : Sequence[j] = cells[j - 1]
  BY RestFacts DEF Idle
<1>2. Loop([op |-> "reverse", index |-> 0]) /\ reply' = <<"Reverse", "none">>
  BY DEF ReverseAll, Answer, Keep
<1>3. Sequence' = ReversedOf(cells, size, 0)
  <2> DEFINE r == [op |-> "reverse", index |-> 0]
  <2>1. SequenceOf(cells, size, r) = ReversedOf(cells, size, 0)  BY DEF SequenceOf
  <2>2. Loop(r)  BY <1>2
  <2> HIDE DEF r
  <2> QED  BY <2>1, <2>2, LoopSequence
<1>4. ReversedOf(cells, size, 0) = Reverse(Sequence)
  <2>1. ASSUME NEW p \in 1..size
        PROVE  (IF p <= 0 \/ p > size - 0 THEN cells[p - 1] ELSE cells[size - p])
                 = Sequence[(Len(Sequence) - p) + 1]
    <3>1. /\ ~(p <= 0 \/ p > size - 0) /\ (size - p) + 1 \in 1..size
          /\ ((size - p) + 1) - 1 = size - p
      BY <1>1
    <3> QED  BY <1>1, <3>1
  <2> QED  BY <1>1, <2>1 DEF ReversedOf, Reverse
<1> QED  BY <1>2, <1>3, <1>4, SameOperators DEF Abstract!ReverseAll, Abstract!Answer

LEMMA SortFuncIs ==
  ASSUME Stocked(cells, size), run = Idle, SortFunc
  PROVE  Abstract!SortFunc
<1>1. Sequence = ViewOf(cells, size)  BY RestFacts DEF Idle
<1>2. Loop([op |-> "sort", index |-> 1]) /\ reply' = <<"SortFunc", "none">>
  BY DEF SortFunc, Answer, Keep
<1>3. Sequence' = SortedSeq(ViewOf(cells, size))
  <2> DEFINE r == [op |-> "sort", index |-> 1]
  <2>1. SequenceOf(cells, size, r) = SortedSeq(ViewOf(cells, size))  BY DEF SequenceOf
  <2>2. Loop(r)  BY <1>2
  <2> HIDE DEF r
  <2> QED  BY <2>1, <2>2, LoopSequence
<1>4. Sequence' = Abstract!StableSort(Sequence)  BY <1>1, <1>3, SameSort
<1> QED  BY <1>2, <1>4 DEF Abstract!SortFunc, Abstract!Answer

LEMMA ShuffleIs ==
  ASSUME Stocked(cells, size), run = Idle, Shuffle
  PROVE  Abstract!Shuffle
<1>1. Sequence = ViewOf(cells, size) /\ Sequence \in Seq(Elements)  BY RestFacts DEF Idle
<1>2. Loop([op |-> "shuffle", index |-> 0]) /\ reply' = <<"Shuffle", "none">>
  BY DEF Shuffle, Answer, Keep
<1>3. Sequence' = Sequence
  <2> DEFINE r == [op |-> "shuffle", index |-> 0]
  <2>1. Loop(r) /\ SequenceOf(cells, size, r) = ViewOf(cells, size)  BY <1>2 DEF SequenceOf
  <2> HIDE DEF r
  <2> QED  BY <1>1, <2>1, LoopSequence
<1>4. Sequence \in [DOMAIN Sequence -> ToSet(Sequence)]
  <2>1. Sequence \in [1..Len(Sequence) -> Elements] /\ DOMAIN Sequence = 1..Len(Sequence)
    BY <1>1, LenProperties
  <2>2. \A i \in DOMAIN Sequence : Sequence[i] \in ToSet(Sequence)  BY DEF ToSet
  <2> QED  BY <2>1, <2>2
<1> QED  BY <1>2, <1>3, <1>4, SameOperators DEF Abstract!Shuffle

-----------------------------------------------------------------------------
LEMMA ExtendStutters ==
  ASSUME Stocked(cells, size), run = Idle, Extend
  PROVE  UNCHANGED <<Sequence, reply>>
<1> DEFINE r == [op |-> "drain", buffer |-> <<>>]
<1>1. Loop(r) /\ SequenceOf(cells, size, r) = ViewOf(cells, size) /\ reply' = reply
  BY DEF Extend, SequenceOf
<1>2. Sequence = ViewOf(cells, size)  BY RestFacts DEF Idle
<1> HIDE DEF r
<1> QED  BY <1>1, <1>2, LoopSequence

\* Operations of one step and the starts of the loops.
LEMMA OperationIs ==
  ASSUME Stocked(cells, size), run = Idle, Operation
  PROVE  [Abstract!Next]_<<Sequence, reply>>
<1>1. ASSUME NEW v \in Elements,
             AppendOne(v) \/ RemoveValue(v) \/ Index(v) \/ LastIndex(v) \/ Count(v)
      PROVE  Abstract!Next
  <2>1. AppendOne(v) => Abstract!AppendOne(v)  BY AppendOneIs DEF Idle
  <2>2. RemoveValue(v) => Abstract!RemoveValue(v)  BY RemoveValueIs
  <2>3. Index(v) => Abstract!Index(v)  BY IndexIs
  <2>4. LastIndex(v) => Abstract!LastIndex(v)  BY LastIndexIs
  <2>5. Count(v) => Abstract!Count(v)  BY CountAs
  <2> QED  BY <1>1, <2>1, <2>2, <2>3, <2>4, <2>5 DEF Abstract!Next
<1>2. ASSUME NEW i \in Arguments, Get(i) \/ RemoveIndex(i) PROVE Abstract!Next
  <2>1. Abstract!Get(i) \/ Abstract!RemoveIndex(i)  BY <1>2, GetIs, RemoveIndexIs
  <2> QED  BY <2>1 DEF Abstract!Next, Arguments
<1>3. ASSUME NEW i \in Arguments, NEW v \in Elements, Set(i, v) \/ Insert(i, v)
      PROVE  Abstract!Next
  <2>1. Abstract!Set(i, v) \/ Abstract!Insert(i, v)  BY <1>3, SetIs, InsertIs
  <2> QED  BY <2>1 DEF Abstract!Next, Arguments
<1>4. ASSUME NEW i \in Arguments, NEW j \in Arguments, Swap(i, j) PROVE Abstract!Next
  <2>1. Abstract!Swap(i, j)  BY <1>4, SwapIs
  <2> QED  BY <2>1 DEF Abstract!Next, Arguments
<1>5. CASE IndexMinFunc \/ IndexMaxFunc \/ MinFunc \/ MaxFunc
  BY <1>5, ExtremesAre DEF Abstract!Next
<1>6. CASE Clear
  <2>1. Abstract!Clear  BY <1>6, ClearIs DEF Idle
  <2> QED  BY <2>1 DEF Abstract!Next
<1>7. CASE ReverseAll  BY <1>7, ReverseAllIs DEF Abstract!Next
<1>8. CASE SortFunc  BY <1>8, SortFuncIs DEF Abstract!Next
<1>9. CASE Shuffle  BY <1>9, ShuffleIs DEF Abstract!Next
<1>10. CASE Extend  BY <1>10, ExtendStutters
<1>11. CASE \E v \in Elements :
              AppendOne(v) \/ RemoveValue(v) \/ Index(v) \/ LastIndex(v) \/ Count(v)
  BY <1>1, <1>11
<1>12. CASE \E i \in Arguments : Get(i) \/ RemoveIndex(i)  BY <1>2, <1>12
<1>13. CASE \E i \in Arguments, v \in Elements : Set(i, v) \/ Insert(i, v)  BY <1>3, <1>13
<1>14. CASE \E i, j \in Arguments : Swap(i, j)  BY <1>4, <1>14
<1> QED
  BY <1>5, <1>6, <1>7, <1>8, <1>9, <1>10, <1>11, <1>12, <1>13, <1>14 DEF Operation

-----------------------------------------------------------------------------
(* Loops whose steps show. *)

LEMMA ShuffleStepIs ==
  ASSUME ArrayShape(cells, size, run, reply), ShuffleStep
  PROVE  Abstract!Shuffle \/ UNCHANGED <<Sequence, reply>>
<1>1. Stocked(cells, size) /\ Stocked(cells', size')  BY ShapeStocked, ShuffleStepKeeps
<1>2. /\ size \in Nat /\ Capacity \in Nat /\ size <= Capacity
      /\ \A i : i \in Positions <=> i \in Int /\ 0 <= i /\ i < Capacity
  BY <1>1, ArrayFacts
<1> DEFINE k == run.index
<1>3. /\ run = [op |-> "shuffle", index |-> k] /\ k \in Nat /\ reply = <<"Shuffle", "none">>
      /\ UNCHANGED <<size, reply>>
  BY RunIs DEF ShuffleStep, ShuffleOK
<1>4. /\ Sequence = ViewOf(cells, size) /\ DOMAIN Sequence = 1..size
      /\ \A i \in 0..size - 1 : i + 1 \in 1..size /\ Sequence[i + 1] = cells[i]
  BY <1>1, <1>3, RestFacts
<1>5. CASE k < size
  <2>1. PICK i \in k..size - 1, j \in k..size - 1 :
          cells' = [cells EXCEPT ![k] = cells[i], ![j] = cells[k]]
    BY <1>5 DEF ShuffleStep
  <2>2. run'.op = "shuffle"  BY <1>3, <1>5 DEF ShuffleStep
  <2>3. /\ Sequence' \in Seq(Elements) /\ Len(Sequence') = size
        /\ \A p \in 1..size : Sequence'[p] = cells'[p - 1]
    <3>1. /\ Sequence' \in Seq(Elements) /\ Len(Sequence') = size'
          /\ \A p \in 1..size' : Sequence'[p] = cells'[p - 1]
      BY <1>1, <2>2, RestFactsNext
    <3> QED  BY <1>3, <3>1
  <2> HIDE DEF k
  <2>4. k \in 0..size - 1 /\ i \in 0..size - 1 /\ j \in 0..size - 1  BY <1>2, <1>3, <1>5
  <2>5. \A q \in 0..size - 1 : q \in Positions  BY <1>2
  <2>6. \A q \in 0..size - 1 : cells'[q] \in {cells[q], cells[i], cells[k]}
    BY <1>1, <2>1, <2>4, <2>5 DEF Stocked
  <2>7. \A q \in 0..size - 1 : cells[q] \in ToSet(Sequence)
    <3> TAKE q \in 0..size - 1
    <3>1. q + 1 \in DOMAIN Sequence /\ Sequence[q + 1] = cells[q]  BY <1>4
    <3> QED  BY <3>1 DEF ToSet
  <2>8. \A p \in 1..size : Sequence'[p] \in ToSet(Sequence)
    <3> TAKE p \in 1..size
    <3>1. p - 1 \in 0..size - 1  BY <1>2
    <3> QED  BY <2>3, <2>4, <2>6, <2>7, <3>1
  <2>9. Sequence' \in [DOMAIN Sequence -> ToSet(Sequence)]
    <3>1. Sequence' \in [1..size -> Elements]  BY <2>3, LenProperties
    <3> QED  BY <1>4, <2>8, <3>1
  <2> QED  BY <1>3, <2>9, SameOperators DEF Abstract!Shuffle
<1>6. CASE ~(k < size)
  <2>1. cells' = cells /\ run' = Idle  BY <1>6 DEF ShuffleStep
  <2>2. Sequence' = ViewOf(cells', size')  BY <2>1, SequenceIs, SequenceOfIdle
  <2> QED  BY <1>3, <1>4, <2>1, <2>2
<1> QED  BY <1>5, <1>6

\* An Extend that ends the callback.
LEMMA ExtendFails ==
  ASSUME Stocked(cells, size), run.op = "drain", Answer("Extend", Terminated), Loop(Idle)
  PROVE  Abstract!Extend
<1>1. Sequence = ViewOf(cells, size)  BY RestFacts
<1>2. Sequence' = ViewOf(cells, size)  BY LoopSequence, SequenceOfIdle
<1> QED
  BY <1>1, <1>2 DEF Answer, Abstract!Extend, Abstract!Keep, Abstract!Answer, Terminated,
                    Abstract!Terminated

LEMMA YieldIs ==
  ASSUME Stocked(cells, size), NEW v \in Elements, Yield(v)
  PROVE  Abstract!Extend \/ UNCHANGED <<Sequence, reply>>
<1>1. run.op = "drain"  BY DEF Yield
<1>2. CASE Len(run.buffer) < Capacity
  <2> DEFINE r == [run EXCEPT !.buffer = Append(@, v)]
  <2>1. Loop(r) /\ reply' = reply  BY <1>2 DEF Yield
  <2>2. r.op = run.op  OBVIOUS
  <2> HIDE DEF r
  <2>3. SequenceOf(cells, size, r) = ViewOf(cells, size)  BY <1>1, <2>2 DEF SequenceOf
  <2> QED  BY <1>1, <2>1, <2>3, RestFacts, LoopSequence
<1>3. CASE ~(Len(run.buffer) < Capacity)
  BY <1>1, <1>3, ExtendFails DEF Yield
<1> QED  BY <1>2, <1>3

LEMMA BodyUsesIs ==
  ASSUME Stocked(cells, size), BodyUses
  PROVE  Abstract!Next
<1>1. run.op \in {"idle", "drain"}  BY DEF BodyUses
<1>2. CASE Clear
  <2>1. Abstract!Clear  BY <1>1, <1>2, ClearIs
  <2> QED  BY <2>1 DEF Abstract!Next
<1>3. CASE \E v \in Elements : AppendOne(v)
  <2>1. PICK v \in Elements : AppendOne(v)  BY <1>3
  <2>2. Abstract!AppendOne(v)  BY <1>1, <2>1, AppendOneIs
  <2> QED  BY <2>2 DEF Abstract!Next
<1> QED  BY <1>2, <1>3 DEF BodyUses

LEMMA SequenceEndsIs ==
  ASSUME ArrayShape(cells, size, run, reply), SequenceEnds
  PROVE  Abstract!Extend
<1>1. Stocked(cells, size) /\ run.op = "drain"  BY ShapeStocked DEF SequenceEnds
<1>2. run.buffer \in Seq(Elements)  BY RunIs DEF SequenceEnds, DrainOK
<1> DEFINE b == run.buffer
<1>3. CASE size + Len(b) <= Capacity
  <2> DEFINE r == [op |-> "copy", buffer |-> b, start |-> size, index |-> 0]
  <2>1. Loop(r) /\ reply' = <<"Extend", "none">>  BY <1>3 DEF SequenceEnds, Answer
  <2>2. SequenceOf(cells, size, r) = ViewOf(cells, size) \o b  BY DEF SequenceOf
  <2>3. Sequence = ViewOf(cells, size) /\ Len(Sequence) = size /\ size \in Nat
    BY <1>1, RestFacts
  <2> HIDE DEF r, b
  <2>4. Sequence' = Sequence \o b  BY <2>1, <2>2, <2>3, LoopSequence
  <2>5. Len(b) \in Nat /\ b \in [1..Len(b) -> Elements]  BY <1>2, LenProperties DEF b
  <2>6. Len(b) \in 0..Capacity - Len(Sequence)
    BY <1>3, <2>3, <2>5, VarArrayAssumption
  <2> QED  BY <2>1, <2>4, <2>5, <2>6 DEF Abstract!Extend, Abstract!Answer
<1>4. CASE ~(size + Len(b) <= Capacity)
  BY <1>1, <1>4, ExtendFails DEF SequenceEnds
<1> QED  BY <1>3, <1>4

-----------------------------------------------------------------------------
LEMMA ArrayStarts ==
  ContainerInit => ArrayInv /\ (kind = "array" => Abstract!Init)
<1> SUFFICES ASSUME ContainerInit PROVE ArrayInv /\ Abstract!Init  OBVIOUS
<1>1. /\ cells = [i \in Positions |-> Junk] /\ size = 0 /\ run = Idle
      /\ reply = <<"new", "none">>
  BY DEF ContainerInit, Init
<1>2. Stocked(cells, size)
  <2>1. 0 \in 0..Capacity /\ 0..(0 - 1) = {}  BY VarArrayAssumption
  <2> QED  BY <1>1, <2>1 DEF Stocked
<1>3. ArrayInv  BY <1>1, <1>2, ShapeStocked DEF ArrayInv
<1>4. Sequence \in Seq(Elements) /\ Len(Sequence) = 0
  <2>1. run.op \in {"idle", "drain"}  BY <1>1 DEF Idle
  <2> QED  BY <1>1, <1>2, <2>1, RestFacts
<1>5. Sequence = <<>>  BY <1>4, EmptySeq
<1> QED  BY <1>1, <1>3, <1>5 DEF Abstract!Init

\* What the cells and the locals of a loop are, in every state of an array.
LEMMA LoopsKeepShape == ContainerSpec => []ArrayInv
<1>1. ContainerInit => ArrayInv  BY ArrayStarts
<1>2. ArrayInv /\ [ContainerNext]_containerVars => ArrayInv'  BY ArrayInvStep
<1> QED  BY <1>1, <1>2, PTL DEF ContainerSpec

LEMMA ArrayStepIs ==
  ASSUME ArrayInv, kind = "array", Next
  PROVE  [Abstract!Next]_<<Sequence, reply>>
<1>1. ArrayShape(cells, size, run, reply) /\ Stocked(cells, size)
  BY ShapeStocked DEF ArrayInv
<1>2. CASE Operation  BY <1>1, <1>2, OperationIs DEF Operation
<1>3. CASE RemoveStep \/ InsertStep \/ ReverseStep \/ SortLoadKey \/ SortShift \/ CopyStep
  BY <1>1, <1>3, RemoveStepStutters, InsertStepStutters, ReverseStepStutters,
     SortLoadKeyStutters, SortShiftStutters, CopyStepStutters
<1>4. CASE ShuffleStep  BY <1>1, <1>4, ShuffleStepIs DEF Abstract!Next
<1>5. CASE BodyUses  BY <1>1, <1>5, BodyUsesIs
<1>6. CASE SequenceEnds  BY <1>1, <1>6, SequenceEndsIs DEF Abstract!Next
<1>7. ASSUME NEW v \in Elements, Yield(v) PROVE [Abstract!Next]_<<Sequence, reply>>
  BY <1>1, <1>7, YieldIs DEF Abstract!Next
<1> QED  BY <1>2, <1>3, <1>4, <1>5, <1>6, <1>7 DEF Next, LoopStep

(***************************************************************************)
(* A VarArray implements a bounded sequence, for any elements, keys and    *)
(* capacity: every operation is atomic, the loops lose, repeat or reorder  *)
(* nothing, and the sort is stable.                                        *)
(***************************************************************************)
THEOREM VarArrayIsSequence == ContainerSpec => ArrayImplementsSequence
<1>1. ContainerInit => (kind = "array" => Abstract!Init)  BY ArrayStarts
<1>2. ArrayInv /\ [ContainerNext]_containerVars =>
        [kind = "array" => [Abstract!Next]_<<Sequence, reply>>]_containerVars
  <2> SUFFICES ASSUME ArrayInv, ContainerNext, kind = "array"
               PROVE  [Abstract!Next]_<<Sequence, reply>>
    OBVIOUS
  <2>1. Next  BY DEF ContainerNext
  <2> QED  BY <2>1, ArrayStepIs
<1> QED  BY <1>1, <1>2, LoopsKeepShape, PTL DEF ContainerSpec, ArrayImplementsSequence
=============================================================================
