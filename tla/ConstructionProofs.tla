------------------------- MODULE ConstructionProofs -------------------------
(***************************************************************************)
(* What a construction of a Project fills and what it leaves behind.       *)
(*                                                                         *)
(* First what the open-addressing index finds, and from it that the        *)
(* interning tables are exact: for every hash function, every set of texts *)
(* and tables of any size.  Then what is on disk and in memory after any   *)
(* number of constructions, kills and lanes, and for both behaviours of    *)
(* the shared memory name.                                                 *)
(*                                                                         *)
(* The provers have no induction rule.  LeastNat, that a set of naturals   *)
(* has a least element, takes its place: what a recursive function gives   *)
(* is shown by looking at the least argument where it would fail.          *)
(***************************************************************************)
EXTENDS Interning, FullConstruction, SequenceTheorems, FiniteSetTheorems, WellFoundedInduction, TLAPS

-----------------------------------------------------------------------------
(***************************************************************************)
(* The interning tables                                                    *)
(***************************************************************************)

LEMMA LeastNat ==
  ASSUME NEW T \in SUBSET Nat, T # {}
  PROVE  \E n \in T : \A m \in T : n <= m
<1> DEFINE R == {pair \in Nat \X Nat : pair[1] < pair[2]}
<1>1. IsWellFoundedOn(OpToRel(<, Nat), Nat)
  BY NatLessThanWellFounded
<1>2. OpToRel(<, Nat) = R
  BY DEF OpToRel
<1>3. IsWellFoundedOn(R, Nat)
  BY <1>1, <1>2
<1>4. \A m, n \in Nat : m < n => <<m, n>> \in R
  OBVIOUS
<1> HIDE DEF R
<1>5. PICK n \in T : \A m \in T : ~(<<m, n>> \in R)
  BY <1>3, WFMin
<1>6. ASSUME NEW m \in T PROVE n <= m
  <2>1. m \in Nat /\ n \in Nat
    OBVIOUS
  <2>2. ~(m < n)
    BY <1>4, <1>5, <2>1, Zenon
  <2>3. QED
    BY <2>1, <2>2
<1>7. QED
  BY <1>6

LEMMA MinOfNats ==
  ASSUME NEW T \in SUBSET Nat, T # {}
  PROVE  Min(T) \in T /\ \A m \in T : Min(T) <= m
BY LeastNat DEF Min

-----------------------------------------------------------------------------
(***************************************************************************)
(* The capacity                                                            *)
(***************************************************************************)

DoubledBy(g, k) == IF k = 0 THEN 8 ELSE 2 * g[k - 1]

\* The recursion has a solution on every initial segment.
LEMMA DoubledUpTo == ASSUME NEW n \in Nat PROVE \E g : g = [k \in 0..n |-> DoubledBy(g, k)]
<1> DEFINE T == {m \in Nat : ~\E g : g = [k \in 0..m |-> DoubledBy(g, k)]}
<1>1. SUFFICES ASSUME T # {} PROVE FALSE
  OBVIOUS
<1>2. PICK m \in T : \A i \in T : m <= i
  BY <1>1, LeastNat
<1>3. m # 0
  <2>1. [k \in 0..0 |-> 8] = [k \in 0..0 |-> DoubledBy([j \in 0..0 |-> 8], k)]
    BY DEF DoubledBy
  <2>2. QED
    BY <2>1
<1>4. m - 1 \in Nat /\ m - 1 \notin T
  BY <1>2, <1>3
<1>5. PICK g : g = [k \in 0..(m - 1) |-> DoubledBy(g, k)]
  BY <1>4
<1> DEFINE h == [k \in 0..m |-> IF k = m THEN DoubledBy(g, m) ELSE g[k]]
<1>6. h = [k \in 0..m |-> DoubledBy(h, k)]
  <2>1. ASSUME NEW k \in 0..m PROVE h[k] = DoubledBy(h, k)
    <3>1. CASE k = m
      BY <1>3, <3>1 DEF DoubledBy
    <3>2. CASE k # m
      <4>1. k \in 0..(m - 1)
        BY <3>2
      <4>2. h[k] = DoubledBy(g, k)
        BY <1>5, <4>1, <3>2
      <4>3. k # 0 => h[k - 1] = g[k - 1]
        BY <4>1
      <4>4. QED
        BY <4>2, <4>3 DEF DoubledBy
    <3>3. QED
      BY <3>1, <3>2
  <2> HIDE DEF h
  <2>2. h = [k \in 0..m |-> h[k]]
    BY DEF h
  <2>3. QED
    BY <2>1, <2>2
<1>7. QED
  BY <1>6

\* A capacity is at least 8 and holds twice the entries.
LEMMA CapacityIs ==
  ASSUME NEW n \in Nat
  PROVE  IndexCapacity(n) \in Nat /\ IndexCapacity(n) >= 8 /\ IndexCapacity(n) >= 2 * n
<1> DEFINE d == CHOOSE g : g = [k \in 0..n |-> DoubledBy(g, k)]
           enough == {k \in 0..n : d[k] >= 2 * n}
<1>1. IndexCapacity(n) = d[Min(enough)]
  BY DEF IndexCapacity, DoubledBy
<1>2. d = [k \in 0..n |-> DoubledBy(d, k)]
  BY DoubledUpTo
<1> HIDE DEF d
<1>3. \A k \in 0..n : d[k] \in Nat /\ d[k] >= 8 /\ d[k] >= 2 * k
  <2> DEFINE T == {k \in Nat : k <= n /\ ~(d[k] \in Nat /\ d[k] >= 8 /\ d[k] >= 2 * k)}
  <2>1. SUFFICES ASSUME T # {} PROVE FALSE
    OBVIOUS
  <2>2. PICK k \in T : \A i \in T : k <= i
    BY <2>1, LeastNat
  <2>3. k # 0
    BY <1>2 DEF DoubledBy
  <2>4. k - 1 \in Nat /\ k - 1 <= n /\ k - 1 \notin T
    BY <2>2, <2>3
  <2>5. d[k] = 2 * d[k - 1]
    BY <1>2, <2>3 DEF DoubledBy
  <2>6. QED
    BY <2>4, <2>5
<1>4. enough \in SUBSET Nat /\ n \in enough
  BY <1>3
<1>5. Min(enough) \in enough
  BY <1>4, MinOfNats
<1>6. QED
  BY <1>1, <1>3, <1>5

-----------------------------------------------------------------------------
(***************************************************************************)
(* Probing                                                                 *)
(***************************************************************************)

LEMMA Remainder ==
  ASSUME NEW L \in Nat \ {0}, NEW a \in Nat, NEW q \in Nat, NEW r \in 0..(L - 1), a = L * q + r
  PROVE  a % L = r
<1>1. PICK s, t : s = a \div L /\ t = a % L
  OBVIOUS
<1>2. s \in Int /\ t \in 0..(L - 1) /\ a = L * s + t
  BY <1>1
<1>3. PICK x \in Int : x = q - s /\ L * x = t - r
  BY <1>2
<1>4. t - r < L /\ r - t < L /\ L * x \in Int
  BY <1>2
<1>5. ~(x >= 1)
  <2>1. x >= 1 => L * x >= L
    OBVIOUS
  <2>2. QED
    BY <1>3, <1>4, <2>1
<1>6. ~(x <= -1)
  <2>1. x <= -1 => L * x <= 0 - L
    OBVIOUS
  <2>2. QED
    BY <1>2, <1>3, <1>4, <2>1
<1>7. q = s
  BY <1>2, <1>3, <1>5, <1>6
<1>8. QED
  BY <1>1, <1>2, <1>7

LEMMA ProbeIn ==
  ASSUME NEW L \in Nat \ {0}, NEW h \in Nat, NEW k \in Nat
  PROVE  ((h + k) % L) + 1 \in 1..L
OBVIOUS

\* A probe reaches every entry.
LEMMA ProbeReaches ==
  ASSUME NEW L \in Nat \ {0}, NEW h \in Nat, NEW p \in 1..L
  PROVE  \E k \in 0..(L - 1) : ((h + k) % L) + 1 = p
<1>1. PICK q, r : q = h \div L /\ r = h % L
  OBVIOUS
<1>2. q \in Nat /\ r \in 0..(L - 1) /\ h = L * q + r
  BY <1>1
<1>3. CASE p - 1 >= r
  <2>1. /\ p - 1 - r \in 0..(L - 1) /\ h + (p - 1 - r) \in Nat /\ p - 1 \in 0..(L - 1)
        /\ h + (p - 1 - r) = L * q + (p - 1)
    BY <1>2, <1>3
  <2>2. (h + (p - 1 - r)) % L = p - 1
    BY <1>2, <2>1, Remainder
  <2>3. PICK k \in 0..(L - 1) : k = p - 1 - r
    BY <2>1
  <2>4. ((h + k) % L) + 1 = p
    BY <2>2, <2>3
  <2>5. QED
    BY <2>4
<1>4. CASE p - 1 < r
  <2>1. /\ p - 1 - r + L \in 0..(L - 1) /\ h + (p - 1 - r + L) \in Nat /\ p - 1 \in 0..(L - 1)
        /\ q + 1 \in Nat
    BY <1>2, <1>4
  <2>2. h + (p - 1 - r + L) = L * (q + 1) + (p - 1)
    BY <1>2
  <2>3. (h + (p - 1 - r + L)) % L = p - 1
    BY <2>1, <2>2, Remainder
  <2>4. PICK k \in 0..(L - 1) : k = p - 1 - r + L
    BY <2>1
  <2>5. ((h + k) % L) + 1 = p
    BY <2>3, <2>4
  <2>6. QED
    BY <2>5
<1>5. QED
  BY <1>2, <1>3, <1>4

-----------------------------------------------------------------------------
(***************************************************************************)
(* The index of the first n keys of a table                                *)
(***************************************************************************)

\* What an index may hold: nothing, or the fingerprint and the slot of a key.
Entries(space, keys, n, base) ==
  {NoEntry} \cup {[fp |-> HashOf(space, keys[i]), raw |-> base + i] : i \in 1..n}

Occupied(index) == {p \in DOMAIN index : index[p].raw # 0}

\* A probe for the hash meets the slot before it meets an empty entry.
Reachable(index, hash, raw) ==
  \E k \in 0..(Len(index) - 1) :
    /\ index[ProbeAt(index, hash, k)] = [fp |-> hash, raw |-> raw]
    /\ \A j \in 0..(k - 1) : index[ProbeAt(index, hash, j)].raw # 0

\* The index is exact: no other entries, every key within reach, and no more
\* entries than keys, of which it could hold more.
ExactIndex(space, index, keys, n, base) ==
  /\ index \in Seq(Entries(space, keys, n, base))
  /\ \A i \in 1..n : Reachable(index, HashOf(space, keys[i]), base + i)
  /\ IsFiniteSet(Occupied(index)) /\ Cardinality(Occupied(index)) <= n
  /\ n < Len(index)

Hashed(space, keys, n) == \A i \in 1..n : HashOf(space, keys[i]) \in Nat

LEMMA EntryFields ==
  ASSUME NEW space, NEW keys, NEW n \in Nat, NEW base \in Nat,
         NEW e \in Entries(space, keys, n, base)
  PROVE  e.raw \in Nat /\ (e.raw = 0 => e = NoEntry)
         /\ (e.raw # 0 => \E i \in 1..n : e = [fp |-> HashOf(space, keys[i]), raw |-> base + i])
BY DEF Entries, NoEntry

\* An exact index has a free entry, and every probe comes to one.
LEMMA FreeEntry ==
  ASSUME NEW space, NEW index, NEW keys, NEW n \in Nat, NEW base \in Nat,
         ExactIndex(space, index, keys, n, base), NEW hash \in Nat
  PROVE  \E k \in 0..(Len(index) - 1) : index[ProbeAt(index, hash, k)] = NoEntry
<1> DEFINE L == Len(index)
<1>1. L \in Nat \ {0} /\ DOMAIN index = 1..L
  BY DEF ExactIndex
<1>2. Occupied(index) # 1..L
  <2>1. Cardinality(1..L) = L
    BY <1>1, FS_Interval, SMTT(20)
  <2>2. QED
    BY <1>1, <2>1 DEF ExactIndex
<1>3. PICK p \in 1..L : index[p].raw = 0
  BY <1>1, <1>2 DEF Occupied
<1>4. index[p] = NoEntry
  <2>1. index[p] \in Entries(space, keys, n, base)
    BY <1>1 DEF ExactIndex
  <2>2. QED
    BY <1>3, <2>1, EntryFields
<1>5. PICK k \in 0..(L - 1) : ((hash + k) % L) + 1 = p
  BY <1>1, ProbeReaches
<1>6. QED
  BY <1>4, <1>5 DEF ProbeAt

\* An entry put into the first free place of its probe is found, and what was
\* found before still is.
LEMMA InsertExact ==
  ASSUME NEW space, NEW index, NEW keys, NEW n \in Nat, NEW base \in Nat,
         ExactIndex(space, index, keys, n, base), Hashed(space, keys, n), n + 1 < Len(index),
         NEW more, \A i \in 1..n : more[i] = keys[i], HashOf(space, more[n + 1]) \in Nat
  PROVE  LET new == InsertIndex(index, HashOf(space, more[n + 1]), base + (n + 1))
         IN  ExactIndex(space, new, more, n + 1, base) /\ Len(new) = Len(index)
<1> DEFINE L == Len(index)
           hash == HashOf(space, more[n + 1])
           free == {k \in 0..(L - 1) : index[ProbeAt(index, hash, k)].raw = 0}
           entry == [fp |-> hash, raw |-> base + (n + 1)]
           new == InsertIndex(index, hash, base + (n + 1))
<1>1. L \in Nat \ {0} /\ DOMAIN index = 1..L /\ hash \in Nat
  BY DEF ExactIndex
<1>2. \A h \in Nat, k \in Nat : ProbeAt(index, h, k) \in 1..L
  BY <1>1, ProbeIn DEF ProbeAt
<1>3. PICK m \in 0..(L - 1) :
        /\ m = Min(free)
        /\ index[ProbeAt(index, hash, m)].raw = 0
        /\ \A j \in 0..(m - 1) : index[ProbeAt(index, hash, j)].raw # 0
  <2>1. free # {}
    <3>1. PICK k \in 0..(L - 1) : index[ProbeAt(index, hash, k)] = NoEntry
      BY <1>1, FreeEntry
    <3>2. k \in free
      BY <3>1 DEF NoEntry
    <3>3. QED
      BY <3>2
  <2>2. free \in SUBSET Nat
    BY <1>1
  <2>3. PICK m \in free : m = Min(free) /\ \A k \in free : m <= k
    BY <2>1, <2>2, MinOfNats
  <2>4. \A j \in 0..(m - 1) : j \in 0..(L - 1) /\ ~(m <= j)
    BY <1>1, <2>3
  <2>5. \A j \in 0..(m - 1) : index[ProbeAt(index, hash, j)].raw # 0
    BY <2>3, <2>4
  <2>6. QED
    BY <2>3, <2>5
<1> DEFINE at == ProbeAt(index, hash, m)
<1>4. at \in 1..L /\ index[at].raw = 0 /\ m \in Nat
  <2>1. m \in Nat
    BY <1>1
  <2>2. at \in 1..L
    BY <1>1, <1>2, <2>1
  <2>3. QED
    BY <1>3, <2>1, <2>2
<1>5. new = [index EXCEPT ![at] = entry]
  BY <1>3 DEF InsertIndex
<1>6. entry.raw # 0 /\ entry \in Entries(space, more, n + 1, base)
  <2>1. n + 1 \in 1..(n + 1) /\ base + (n + 1) # 0
    OBVIOUS
  <2>2. QED
    BY <2>1 DEF Entries
<1>7. Entries(space, keys, n, base) \subseteq Entries(space, more, n + 1, base)
  BY SMTT(20) DEF Entries
<1>8. entry = [fp |-> hash, raw |-> base + (n + 1)]
  OBVIOUS
<1> HIDE DEF free, at, entry, new, hash
<1>9. new \in Seq(Entries(space, more, n + 1, base)) /\ Len(new) = L /\ DOMAIN new = 1..L
  <2>1. index \in Seq(Entries(space, more, n + 1, base))
    BY <1>7 DEF ExactIndex
  <2>2. QED
    BY <1>1, <1>4, <1>5, <1>6, <2>1
<1>10. /\ new[at] = entry
       /\ \A p \in 1..L : p # at => new[p] = index[p]
       /\ \A p \in 1..L : index[p].raw # 0 => new[p] = index[p]
       /\ \A p \in 1..L : index[p].raw # 0 => new[p].raw # 0
  BY <1>1, <1>4, <1>5
<1>11. \A h, k : ProbeAt(new, h, k) = ProbeAt(index, h, k)
  BY <1>9 DEF ProbeAt
<1>12. ASSUME NEW i \in 1..(n + 1) PROVE Reachable(new, HashOf(space, more[i]), base + i)
  <2>1. CASE i = n + 1
    <3>1. new[ProbeAt(new, hash, m)] = [fp |-> hash, raw |-> base + i]
      BY <1>10, <1>11, <1>8, <2>1 DEF at
    <3>2. ASSUME NEW j \in 0..(m - 1) PROVE new[ProbeAt(new, hash, j)].raw # 0
      <4>1. j \in Nat /\ index[ProbeAt(index, hash, j)].raw # 0
        BY <1>3, <1>4
      <4>2. ProbeAt(index, hash, j) \in 1..L
        BY <1>1, <1>2, <4>1
      <4>3. QED
        BY <1>10, <1>11, <4>1, <4>2
    <3>3. QED
      BY <1>3, <1>9, <2>1, <3>1, <3>2 DEF Reachable, hash
  <2>2. CASE i # n + 1
    <3> DEFINE h == HashOf(space, keys[i])
    <3>1. i \in 1..n /\ HashOf(space, more[i]) = h /\ h \in Nat
      BY <2>2 DEF Hashed
    <3> HIDE DEF h
    <3>2. PICK k \in 0..(L - 1) :
            /\ index[ProbeAt(index, h, k)] = [fp |-> h, raw |-> base + i]
            /\ \A j \in 0..(k - 1) : index[ProbeAt(index, h, j)].raw # 0
      BY <3>1 DEF ExactIndex, Reachable, h
    <3>3. new[ProbeAt(new, h, k)] = [fp |-> h, raw |-> base + i]
      <4>1. k \in Nat /\ base + i # 0
        BY <1>1, <3>1
      <4>2. ProbeAt(index, h, k) \in 1..L /\ base + i # 0
        BY <1>2, <3>1, <4>1
      <4>3. index[ProbeAt(index, h, k)].raw # 0
        BY <3>2, <4>2
      <4>4. QED
        BY <1>10, <1>11, <3>2, <4>2, <4>3
    <3>4. ASSUME NEW j \in 0..(k - 1) PROVE new[ProbeAt(new, h, j)].raw # 0
      <4>1. j \in Nat /\ index[ProbeAt(index, h, j)].raw # 0
        BY <1>1, <3>2
      <4>2. ProbeAt(index, h, j) \in 1..L
        BY <1>2, <3>1, <4>1
      <4>3. QED
        BY <1>10, <1>11, <4>1, <4>2
    <3>5. QED
      BY <1>9, <3>1, <3>3, <3>4 DEF Reachable
  <2>3. QED
    BY <2>1, <2>2
<1>13. IsFiniteSet(Occupied(new)) /\ Cardinality(Occupied(new)) <= n + 1
  <2>1. Occupied(new) = Occupied(index) \cup {at} /\ at \notin Occupied(index)
    BY <1>1, <1>4, <1>6, <1>9, <1>10 DEF Occupied
  <2>2. IsFiniteSet(Occupied(index)) /\ Cardinality(Occupied(index)) <= n
    BY DEF ExactIndex
  <2>3. Cardinality(Occupied(index)) \in Nat
    BY <2>2, FS_CardinalityType
  <2>4. IsFiniteSet(Occupied(new)) /\ Cardinality(Occupied(new)) = Cardinality(Occupied(index)) + 1
    BY <2>1, <2>2, FS_AddElement
  <2>5. QED
    BY <2>2, <2>3, <2>4
<1>14. QED
  BY <1>9, <1>12, <1>13 DEF ExactIndex, hash, new

\* A lookup ends at the key it is for, and at no key when nothing holds it.
LEMMA LookupPresent ==
  ASSUME NEW space, NEW index, NEW keys, NEW n \in Nat, NEW base \in Nat,
         ExactIndex(space, index, keys, n, base), NEW i \in 1..n, HashOf(space, keys[i]) \in Nat,
         NEW holders, base + i \in holders, \A h \in holders : h = base + i
  PROVE  LookupIndex(index, HashOf(space, keys[i]), holders) = base + i
<1> DEFINE L == Len(index)
           hash == HashOf(space, keys[i])
           hit(k) == /\ index[ProbeAt(index, hash, k)].raw # 0
                     /\ index[ProbeAt(index, hash, k)].fp = hash
                     /\ index[ProbeAt(index, hash, k)].raw \in holders
           stops == {k \in 0..(L - 1) : hit(k) \/ index[ProbeAt(index, hash, k)].raw = 0}
<1>1. L \in Nat
  BY DEF ExactIndex
<1>2. PICK k \in 0..(L - 1) :
        /\ index[ProbeAt(index, hash, k)] = [fp |-> hash, raw |-> base + i]
        /\ \A j \in 0..(k - 1) : index[ProbeAt(index, hash, j)].raw # 0
  BY DEF ExactIndex, Reachable
<1>3. k \in stops
  BY <1>2
<1>4. stops \in SUBSET Nat
  BY <1>1
<1>5. Min(stops) \in stops /\ Min(stops) <= k
  BY <1>3, <1>4, MinOfNats
<1>6. hit(Min(stops))
  <2>1. PICK m : m = Min(stops) /\ m \in stops /\ m <= k
    BY <1>5
  <2>2. m \in 0..(L - 1) /\ (hit(m) \/ index[ProbeAt(index, hash, m)].raw = 0)
    BY <2>1
  <2>3. m = k \/ m \in 0..(k - 1)
    <3>1. m \in Nat /\ k \in Nat /\ m <= k
      BY <1>3, <1>4, <2>1
    <3>2. QED
      BY ONLY <3>1
  <2>4. hit(k)
    BY <1>2
  <2>5. hit(m)
    BY <1>2, <2>2, <2>3, <2>4
  <2>6. QED
    BY <2>1, <2>5
<1>7. LookupIndex(index, hash, holders) = index[ProbeAt(index, hash, Min(stops))].raw
  BY <1>3, <1>6 DEF LookupIndex
<1>8. QED
  BY <1>6, <1>7

LEMMA LookupAbsent ==
  ASSUME NEW index, NEW hash, NEW holders,
         \A p \in DOMAIN index : index[p].raw \notin holders,
         Len(index) \in Nat, DOMAIN index = 1..Len(index), hash \in Nat
  PROVE  LookupIndex(index, hash, holders) = 0
<1> DEFINE L == Len(index)
           hit(k) == /\ index[ProbeAt(index, hash, k)].raw # 0
                     /\ index[ProbeAt(index, hash, k)].fp = hash
                     /\ index[ProbeAt(index, hash, k)].raw \in holders
           stops == {k \in 0..(L - 1) : hit(k) \/ index[ProbeAt(index, hash, k)].raw = 0}
<1>1. \A k \in 0..(L - 1) : ~hit(k)
  <2>1. SUFFICES ASSUME NEW k \in 0..(L - 1) PROVE ~hit(k)
    OBVIOUS
  <2>2. L \in Nat \ {0} /\ k \in Nat
    OBVIOUS
  <2>3. ProbeAt(index, hash, k) \in DOMAIN index
    BY <2>2, ProbeIn DEF ProbeAt
  <2>4. QED
    BY <2>3
<1>2. stops \in SUBSET Nat
  OBVIOUS
<1>3. ~(stops # {} /\ hit(Min(stops)))
  <2>1. ASSUME stops # {} PROVE Min(stops) \in stops
    BY <1>2, <2>1, MinOfNats
  <2>2. QED
    BY <1>1, <2>1
<1>4. QED
  BY <1>3 DEF LookupIndex

-----------------------------------------------------------------------------
(***************************************************************************)
(* Building an index                                                       *)
(***************************************************************************)

BuiltBy(g, space, keys, base, capacity, n) ==
  IF n = 0 THEN EmptyIndex(capacity)
  ELSE InsertIndex(g[n - 1], HashOf(space, keys[n]), base + n)

LEMMA BuiltUpTo ==
  ASSUME NEW space, NEW keys, NEW base, NEW capacity, NEW n \in Nat
  PROVE  \E g : g = [k \in 0..n |-> BuiltBy(g, space, keys, base, capacity, k)]
<1> DEFINE By(g, k) == BuiltBy(g, space, keys, base, capacity, k)
           T == {m \in Nat : ~\E g : g = [k \in 0..m |-> By(g, k)]}
<1>1. \A g, h, k : (k # 0 => g[k - 1] = h[k - 1]) => By(g, k) = By(h, k)
  BY DEF BuiltBy
<1>2. \A g, h : By(g, 0) = By(h, 0)
  BY DEF BuiltBy
<1> HIDE DEF By
<1>3. SUFFICES ASSUME T # {} PROVE FALSE
  BY DEF By
<1>4. PICK m \in T : \A i \in T : m <= i
  BY <1>3, LeastNat
<1>5. m # 0
  <2> DEFINE g == [k \in 0..0 |-> By(<<>>, 0)]
  <2>1. g = [k \in 0..0 |-> By(g, k)]
    BY <1>2
  <2>2. QED
    BY <2>1
<1>6. m - 1 \in Nat /\ m - 1 \notin T
  BY <1>4, <1>5
<1>7. PICK g : g = [k \in 0..(m - 1) |-> By(g, k)]
  BY <1>6
<1> DEFINE h == [k \in 0..m |-> IF k = m THEN By(g, m) ELSE g[k]]
<1>8. h = [k \in 0..m |-> By(h, k)]
  <2>1. ASSUME NEW k \in 0..m PROVE h[k] = By(h, k)
    <3>1. k # 0 => k - 1 \in 0..m /\ k - 1 # m
      OBVIOUS
    <3>2. k # 0 => h[k - 1] = g[k - 1]
      BY <3>1
    <3>3. By(h, k) = By(g, k)
      BY <1>1, <3>2
    <3>4. h[k] = By(g, k)
      <4>1. k # m => k \in 0..(m - 1)
        OBVIOUS
      <4>2. k # m => g[k] = By(g, k)
        BY <1>7, <4>1
      <4>3. QED
        BY <4>2
    <3>5. QED
      BY <3>3, <3>4
  <2>2. h = [k \in 0..m |-> h[k]]
    OBVIOUS
  <2> HIDE DEF h
  <2>3. QED
    BY <2>1, <2>2
<1>9. QED
  BY <1>8

\* The index built for a table is exact for all its keys.
LEMMA BuildExact ==
  ASSUME NEW space, NEW keys, Len(keys) \in Nat, NEW base \in Nat, NEW capacity \in Nat,
         Hashed(space, keys, Len(keys)), Len(keys) < capacity
  PROVE  /\ ExactIndex(space, BuildIndex(space, keys, base, capacity), keys, Len(keys), base)
         /\ Len(BuildIndex(space, keys, base, capacity)) = capacity
<1> DEFINE N == Len(keys)
           built == CHOOSE g : g = [k \in 0..N |-> BuiltBy(g, space, keys, base, capacity, k)]
           Good(k) == ExactIndex(space, built[k], keys, k, base) /\ Len(built[k]) = capacity
           T == {k \in Nat : k <= N /\ ~Good(k)}
<1>1. BuildIndex(space, keys, base, capacity) = built[N]
  BY DEF BuildIndex, BuiltBy
<1>2. built = [k \in 0..N |-> BuiltBy(built, space, keys, base, capacity, k)]
  BY BuiltUpTo
<1> HIDE DEF built
<1>3. Good(0)
  <2>1. built[0] = EmptyIndex(capacity)
    BY <1>2 DEF BuiltBy
  <2>2. EmptyIndex(capacity) \in Seq({NoEntry}) /\ Len(EmptyIndex(capacity)) = capacity
    BY DEF EmptyIndex
  <2>3. Occupied(EmptyIndex(capacity)) = {}
    BY DEF EmptyIndex, Occupied, NoEntry
  <2>4. {NoEntry} \subseteq Entries(space, keys, 0, base)
    BY DEF Entries
  <2>5. QED
    BY <2>1, <2>2, <2>3, <2>4, FS_EmptySet DEF ExactIndex
<1>4. SUFFICES ASSUME T # {} PROVE FALSE
  BY <1>1
<1>5. PICK k \in T : \A i \in T : k <= i
  BY <1>4, LeastNat
<1>6. k # 0
  BY <1>3
<1>7. PICK j \in Nat : k = j + 1
  BY <1>6
<1>8. j \notin T /\ j <= N /\ j + 1 <= N
  BY <1>5, <1>7
<1>9. Good(j)
  BY <1>8
<1>10. built[j + 1] = InsertIndex(built[j], HashOf(space, keys[j + 1]), base + (j + 1))
  BY <1>2, <1>8 DEF BuiltBy
<1>11. Hashed(space, keys, j) /\ HashOf(space, keys[j + 1]) \in Nat
  BY <1>8 DEF Hashed
<1>12. Good(j + 1)
  BY <1>8, <1>9, <1>10, <1>11, InsertExact
<1>13. QED
  BY <1>7, <1>12

\* Making room for one more key keeps the index exact.
LEMMA EnsureExact ==
  ASSUME NEW space, NEW index, NEW keys, Len(keys) \in Nat, NEW base \in Nat,
         Hashed(space, keys, Len(keys)),
         index # <<>> => ExactIndex(space, index, keys, Len(keys), base)
  PROVE  LET room == EnsureIndexCapacity(space, index, keys, base)
         IN  /\ ExactIndex(space, room, keys, Len(keys), base)
             /\ Len(keys) + 1 < Len(room)
<1> DEFINE C == IndexCapacity(Len(keys) + 1)
<1>1. CASE index # <<>> /\ 2 * (Len(keys) + 1) <= Len(index)
  <2>1. Len(index) \in Nat
    BY <1>1 DEF ExactIndex
  <2>2. QED
    BY <1>1, <2>1 DEF EnsureIndexCapacity
<1>2. CASE ~(index # <<>> /\ 2 * (Len(keys) + 1) <= Len(index))
  <2>1. Len(keys) + 1 \in Nat
    OBVIOUS
  <2>2. C \in Nat /\ C >= 2 * (Len(keys) + 1)
    BY <2>1, CapacityIs
  <2>3. Len(keys) < C /\ Len(keys) + 1 < C
    BY <2>2
  <2> HIDE DEF C
  <2>4. EnsureIndexCapacity(space, index, keys, base) = BuildIndex(space, keys, base, C)
    BY <1>2 DEF EnsureIndexCapacity, C
  <2>5. QED
    BY <2>2, <2>3, <2>4, BuildExact
<1>3. QED
  BY <1>1, <1>2

-----------------------------------------------------------------------------
(***************************************************************************)
(* Tables: the entries of the baseline, the local ones behind them, and    *)
(* the index of the local ones                                             *)
(***************************************************************************)

HashedIn(space, New) == \A x \in New : HashOf(space, x) \in Nat

Distinct(s) == \A i, j \in DOMAIN s : s[i] = s[j] => i = j

\* A local index exists once there are local entries.
TableOk(space, t, Old, New) ==
  /\ t = [base |-> t.base, local |-> t.local, index |-> t.index]
  /\ t.base \in Seq(Old) /\ t.local \in Seq(New)
  /\ Distinct(t.base \o t.local)
  /\ IF t.index = <<>> THEN t.local = <<>>
     ELSE ExactIndex(space, t.index, t.local, Len(t.local), Len(t.base))

LEMMA AllEntries ==
  ASSUME NEW Old, NEW New, NEW base \in Seq(Old), NEW local \in Seq(New)
  PROVE  /\ Len(base) \in Nat /\ DOMAIN base = 1..Len(base)
         /\ Len(local) \in Nat /\ DOMAIN local = 1..Len(local)
         /\ base \o local \in Seq(Old \cup New)
         /\ Len(base \o local) = Len(base) + Len(local)
         /\ DOMAIN (base \o local) = 1..(Len(base) + Len(local))
         /\ \A i \in 1..Len(base) : (base \o local)[i] = base[i]
         /\ \A i \in 1..Len(local) : (base \o local)[Len(base) + i] = local[i]
<1>1. base \in Seq(Old \cup New) /\ local \in Seq(Old \cup New)
  OBVIOUS
<1>2. /\ base \o local \in Seq(Old \cup New) /\ Len(base \o local) = Len(base) + Len(local)
      /\ \A i \in 1..(Len(base) + Len(local)) :
            (base \o local)[i] = IF i <= Len(base) THEN base[i] ELSE local[i - Len(base)]
  BY <1>1, ConcatProperties
<1>3. \A i \in 1..Len(base) : (base \o local)[i] = base[i]
  BY <1>2
<1>4. ASSUME NEW i \in 1..Len(local) PROVE (base \o local)[Len(base) + i] = local[i]
  <2>1. /\ Len(base) + i \in 1..(Len(base) + Len(local)) /\ ~(Len(base) + i <= Len(base))
        /\ Len(base) + i - Len(base) = i
    OBVIOUS
  <2>2. QED
    BY <1>2, <2>1
<1>5. QED
  BY <1>2, <1>3, <1>4

\* A slot of the whole table is a slot of the baseline or of the local part.
LEMMA WhichSide ==
  ASSUME NEW b \in Nat, NEW l \in Nat, NEW s \in 1..(b + l)
  PROVE  s \in 1..b \/ (s > b /\ \E i \in 1..l : s = b + i)
<1>1. CASE s > b
  <2>1. s - b \in 1..l /\ s = b + (s - b)
    BY <1>1
  <2>2. QED
    BY <1>1, <2>1
<1>2. QED
  BY <1>1

\* A table with one more entry behind the old ones.
LengthenedBy(old, new, x) ==
  /\ DOMAIN old = 1..Len(old) /\ Len(old) \in Nat
  /\ DOMAIN new = 1..(Len(old) + 1) /\ Len(new) = Len(old) + 1
  /\ \A i \in 1..Len(old) : new[i] = old[i]
  /\ new[Len(old) + 1] = x

LEMMA AppendBehind ==
  ASSUME NEW Old, NEW New, NEW base \in Seq(Old), NEW local \in Seq(New), NEW x \in New
  PROVE  LengthenedBy(base \o local, base \o Append(local, x), x)
<1>1. PICK more, b, n : more = Append(local, x) /\ b = Len(base) /\ n = Len(local)
  OBVIOUS
<1>2. /\ more \in Seq(New) /\ Len(more) = n + 1 /\ n \in Nat /\ b \in Nat
      /\ \A i \in 1..n : more[i] = local[i]
      /\ more[n + 1] = x
  BY <1>1
<1>3. PICK old, new : old = base \o local /\ new = base \o more
  OBVIOUS
<1>4. /\ Len(old) = b + n /\ DOMAIN old = 1..(b + n)
      /\ \A i \in 1..b : old[i] = base[i]
      /\ \A i \in 1..n : old[b + i] = local[i]
  BY <1>1, <1>3, AllEntries
<1>5. /\ Len(new) = b + (n + 1) /\ DOMAIN new = 1..(b + (n + 1))
      /\ \A i \in 1..b : new[i] = base[i]
      /\ \A i \in 1..(n + 1) : new[b + i] = more[i]
  <2>1. /\ Len(new) = Len(base) + Len(more) /\ DOMAIN new = 1..(Len(base) + Len(more))
        /\ \A i \in 1..Len(base) : new[i] = base[i]
        /\ \A i \in 1..Len(more) : new[Len(base) + i] = more[i]
    <3>1. base \in Seq(Old) /\ more \in Seq(New)
      BY <1>2
    <3>2. /\ Len(base \o more) = Len(base) + Len(more)
          /\ DOMAIN (base \o more) = 1..(Len(base) + Len(more))
          /\ \A i \in 1..Len(base) : (base \o more)[i] = base[i]
          /\ \A i \in 1..Len(more) : (base \o more)[Len(base) + i] = more[i]
      BY ONLY <3>1, AllEntries
    <3>3. QED
      BY ONLY <1>3, <3>2
  <2>2. QED
    BY ONLY <1>1, <1>2, <2>1
<1>6. ASSUME NEW i \in 1..(b + n) PROVE new[i] = old[i]
  <2>1. i \in 1..b \/ \E k \in 1..n : i = b + k
    BY <1>2, WhichSide
  <2>2. \A k \in 1..n : k \in 1..(n + 1)
    BY <1>2
  <2>3. ASSUME NEW k \in 1..n PROVE new[b + k] = old[b + k]
    BY ONLY <1>2, <1>4, <1>5, <2>2, k \in 1..n
  <2>4. QED
    BY <1>4, <1>5, <2>1, <2>3
<1>7. new[b + (n + 1)] = x
  <2>1. n + 1 \in 1..(n + 1)
    BY <1>2
  <2>2. QED
    BY <1>2, <1>5, <2>1
<1>8. b + (n + 1) = b + n + 1 /\ b + n \in Nat
  BY <1>2
<1>9. LengthenedBy(old, new, x)
  BY ONLY <1>4, <1>5, <1>6, <1>7, <1>8 DEF LengthenedBy
<1>10. QED
  BY <1>1, <1>3, <1>9

\* In a table without duplicates the slot of a value is the one that holds it.
LEMMA SlotIs ==
  ASSUME NEW table, Distinct(table), NEW s \in DOMAIN table
  PROVE  SlotOf(table, table[s]) = s
BY DEF SlotOf, Distinct

LEMMA SlotNone ==
  ASSUME NEW table, NEW x, \A s \in DOMAIN table : table[s] # x
  PROVE  SlotOf(table, x) = 0
BY DEF SlotOf

\* The index knows no slot of the baseline.
LEMMA IndexAbove ==
  ASSUME NEW space, NEW Old, NEW New, NEW t, TableOk(space, t, Old, New)
  PROVE  /\ Len(t.index) \in Nat /\ DOMAIN t.index = 1..Len(t.index)
         /\ \A p \in DOMAIN t.index : t.index[p].raw = 0 \/ t.index[p].raw > Len(t.base)
<1>1. CASE t.index = <<>>
  BY <1>1
<1>2. CASE t.index # <<>>
  <2>1. t.index \in Seq(Entries(space, t.local, Len(t.local), Len(t.base)))
    BY <1>2 DEF TableOk, ExactIndex
  <2>2. Len(t.base) \in Nat /\ Len(t.local) \in Nat
    BY DEF TableOk
  <2>3. ASSUME NEW p \in DOMAIN t.index
        PROVE  t.index[p].raw = 0 \/ t.index[p].raw > Len(t.base)
    <3>1. t.index[p] \in Entries(space, t.local, Len(t.local), Len(t.base))
      BY <2>1
    <3>2. CASE t.index[p].raw # 0
      <4>1. PICK e, k, n, b : /\ e = t.index[p] /\ k = t.local
                              /\ n = Len(t.local) /\ b = Len(t.base)
        OBVIOUS
      <4>2. n \in Nat /\ b \in Nat /\ e \in Entries(space, k, n, b) /\ e.raw # 0
        BY <2>2, <3>1, <3>2, <4>1
      <4>3. PICK i \in 1..n : e = [fp |-> HashOf(space, k[i]), raw |-> b + i]
        BY <4>2, EntryFields
      <4>4. e.raw > b
        BY <4>2, <4>3
      <4>5. QED
        BY <4>1, <4>4
    <3>3. QED
      BY <3>2
  <2>4. QED
    BY <2>1, <2>3
<1>3. QED
  BY <1>1, <1>2

\* A table can take a new value: with room made for it, and with it inserted.
LEMMA GrowTable ==
  ASSUME NEW space, NEW Old, NEW New, NEW t, TableOk(space, t, Old, New),
         HashedIn(space, New),
         NEW x \in New, \A s \in DOMAIN (t.base \o t.local) : (t.base \o t.local)[s] # x
  PROVE  LET room == EnsureIndexCapacity(space, t.index, t.local, Len(t.base))
         IN  /\ TableOk(space, [t EXCEPT !.index = room], Old, New)
             /\ TableOk(space, [t EXCEPT !.local = Append(@, x),
                                         !.index = InsertIndex(room, HashOf(space, x),
                                                               Len(t.base \o t.local) + 1)],
                        Old, New)
<1>1. PICK n, b, size, room, more, old, all :
        /\ n = Len(t.local) /\ b = Len(t.base)
        /\ old = t.base \o t.local /\ size = Len(old)
        /\ room = EnsureIndexCapacity(space, t.index, t.local, b)
        /\ more = Append(t.local, x) /\ all = t.base \o more
  OBVIOUS
<1>2. /\ t.base \in Seq(Old) /\ t.local \in Seq(New) /\ Distinct(old)
      /\ n \in Nat /\ b \in Nat /\ more \in Seq(New) /\ Len(more) = n + 1
      /\ size = b + n
  BY <1>1, AllEntries DEF TableOk
<1>3. Hashed(space, t.local, n)
  BY <1>1, <1>2 DEF Hashed, HashedIn
<1>4. t.index # <<>> => ExactIndex(space, t.index, t.local, n, b)
  BY <1>1 DEF TableOk
<1>5. ExactIndex(space, room, t.local, n, b) /\ n + 1 < Len(room)
  BY <1>1, <1>2, <1>3, <1>4, EnsureExact
<1>6. room # <<>>
  BY <1>2, <1>5
<1>7. /\ \A i \in 1..n : more[i] = t.local[i]
      /\ more[n + 1] = x
  BY <1>1, <1>2
<1> DEFINE index == InsertIndex(room, HashOf(space, x), size + 1)
<1>8. ExactIndex(space, index, more, n + 1, b) /\ Len(index) = Len(room)
  <2>1. size + 1 = b + (n + 1)
    BY ONLY <1>2
  <2>2. HashOf(space, more[n + 1]) \in Nat
    BY <1>7 DEF HashedIn
  <2>3. LET new == InsertIndex(room, HashOf(space, more[n + 1]), b + (n + 1))
        IN  ExactIndex(space, new, more, n + 1, b) /\ Len(new) = Len(room)
    <3>1. PICK keys : keys = t.local
      OBVIOUS
    <3>2. /\ n \in Nat /\ b \in Nat /\ ExactIndex(space, room, keys, n, b) /\ Hashed(space, keys, n)
          /\ n + 1 < Len(room) /\ \A i \in 1..n : more[i] = keys[i]
      BY <1>2, <1>3, <1>5, <1>7, <3>1
    <3>3. QED
      BY ONLY <2>2, <3>2, InsertExact
  <2>4. QED
    BY <1>7, <2>1, <2>3
<1> HIDE DEF index
<1>9. index # <<>>
  <2>1. Len(index) > 0
    BY <1>2, <1>5, <1>8
  <2>2. QED
    BY <2>1
<1>10. Distinct(all)
  <2>1. /\ DOMAIN all = 1..(b + (n + 1)) /\ DOMAIN old = 1..(b + n)
        /\ \A i \in 1..(b + n) : all[i] = old[i]
        /\ all[b + (n + 1)] = x
    <3>1. PICK base, local : base = t.base /\ local = t.local
      OBVIOUS
    <3>2. /\ base \in Seq(Old) /\ local \in Seq(New) /\ old = base \o local
          /\ all = base \o Append(local, x) /\ b = Len(base) /\ n = Len(local)
      BY <1>1, <1>2, <3>1
    <3>3. LengthenedBy(base \o local, base \o Append(local, x), x)
      BY ONLY <3>2, x \in New, AppendBehind
    <3>4. size + 1 = b + (n + 1)
      BY ONLY <1>2
    <3>5. QED
      BY <1>1, <1>2, <3>2, <3>3, <3>4 DEF LengthenedBy
  <2>2. \A s \in 1..(b + n) : old[s] # x
    BY <1>1, <2>1
  <2>3. \A i, j \in 1..(b + n) : old[i] = old[j] => i = j
    BY <1>2, <2>1 DEF Distinct
  <2>4. SUFFICES ASSUME NEW i \in 1..(b + (n + 1)), NEW j \in 1..(b + (n + 1)), all[i] = all[j]
                 PROVE  i = j
    BY <2>1 DEF Distinct
  <2>5. \A k \in 1..(b + (n + 1)) : k \in 1..(b + n) \/ k = b + (n + 1)
    BY <1>2
  <2>6. QED
    BY <2>1, <2>2, <2>3, <2>4, <2>5
<1> DEFINE grown == [t EXCEPT !.local = more, !.index = index]
           roomy == [t EXCEPT !.index = room]
<1>11. t = [base |-> t.base, local |-> t.local, index |-> t.index]
  BY DEF TableOk
<1>12. grown = [base |-> t.base, local |-> more, index |-> index]
  <2>1. /\ DOMAIN grown = {"base", "local", "index"} /\ grown = [f \in DOMAIN grown |-> grown[f]]
        /\ grown.base = t.base /\ grown.local = more /\ grown.index = index
    BY ONLY <1>11
  <2> HIDE DEF grown
  <2>2. QED
    BY ONLY <2>1
<1>13. roomy = [base |-> t.base, local |-> t.local, index |-> room]
  BY ONLY <1>11
<1>14. LET room_ == EnsureIndexCapacity(space, t.index, t.local, Len(t.base))
       IN  /\ roomy = [t EXCEPT !.index = room_]
           /\ grown = [t EXCEPT !.local = Append(@, x),
                                !.index = InsertIndex(room_, HashOf(space, x),
                                                      Len(t.base \o t.local) + 1)]
  BY <1>1 DEF index
<1> HIDE DEF grown, roomy
<1>15. TableOk(space, grown, Old, New)
  BY <1>1, <1>2, <1>8, <1>9, <1>10, <1>12 DEF TableOk
<1>16. TableOk(space, roomy, Old, New)
  BY <1>1, <1>2, <1>5, <1>6, <1>13 DEF TableOk
<1>17. QED
  BY <1>14, <1>15, <1>16

\* The local index answers no lookup for an entry of the baseline.
LEMMA LookupElsewhere ==
  ASSUME NEW space, NEW Old, NEW New, NEW t, TableOk(space, t, Old, New), NEW hash \in Nat,
         NEW holders \in SUBSET (1..Len(t.base))
  PROVE  LookupIndex(t.index, hash, holders) = 0
<1>1. Len(t.base) \in Nat
  BY DEF TableOk
<1>2. /\ Len(t.index) \in Nat /\ DOMAIN t.index = 1..Len(t.index)
      /\ \A p \in DOMAIN t.index : t.index[p].raw = 0 \/ t.index[p].raw > Len(t.base)
  BY IndexAbove
<1>3. ASSUME NEW p \in DOMAIN t.index PROVE t.index[p].raw \notin holders
  <2>1. PICK b, raw : b = Len(t.base) /\ raw = t.index[p].raw
    OBVIOUS
  <2>2. b \in Nat /\ holders \subseteq 1..b /\ (raw = 0 \/ raw > b)
    BY <1>1, <1>2, <2>1
  <2>3. raw \notin 1..b
    BY <2>2
  <2>4. QED
    BY <2>1, <2>2, <2>3
<1>4. QED
  BY <1>2, <1>3, LookupAbsent

\* The whole table: b entries of the baseline, then n local ones.
Layout(t, all, b, n) ==
  /\ b \in Nat /\ n \in Nat
  /\ b = Len(t.base) /\ n = Len(t.local)
  /\ DOMAIN t.base = 1..b /\ DOMAIN t.local = 1..n /\ DOMAIN all = 1..(b + n)
  /\ \A i \in 1..b : all[i] = t.base[i] /\ i \in 1..(b + n)
  /\ \A i \in 1..n : all[b + i] = t.local[i]

LEMMA TableLayout ==
  ASSUME NEW space, NEW Old, NEW New, NEW t, TableOk(space, t, Old, New),
         NEW all, all = t.base \o t.local
  PROVE  Layout(t, all, Len(t.base), Len(t.local))
<1>1. PICK base, local : base = t.base /\ local = t.local
  OBVIOUS
<1>2. base \in Seq(Old) /\ local \in Seq(New) /\ all = base \o local
  BY <1>1 DEF TableOk
<1>3. /\ Len(base) \in Nat /\ DOMAIN base = 1..Len(base)
      /\ Len(local) \in Nat /\ DOMAIN local = 1..Len(local)
      /\ DOMAIN all = 1..(Len(base) + Len(local))
      /\ \A i \in 1..Len(base) : all[i] = base[i]
      /\ \A i \in 1..Len(local) : all[Len(base) + i] = local[i]
  BY <1>2, AllEntries
<1>4. \A i \in 1..Len(base) : i \in 1..(Len(base) + Len(local))
  BY <1>3
<1>5. QED
  BY ONLY <1>1, <1>3, <1>4 DEF Layout

LEMMA TableDistinct ==
  ASSUME NEW space, NEW Old, NEW New, NEW t, TableOk(space, t, Old, New),
         NEW all, all = t.base \o t.local
  PROVE  Distinct(t.base) /\ Distinct(all)
<1>1. Distinct(all)
  BY DEF TableOk
<1>2. PICK b, n : Layout(t, all, b, n)
  BY TableLayout
<1>3. \A i, j \in DOMAIN all : all[i] = all[j] => i = j
  BY <1>1 DEF Distinct
<1>4. ASSUME NEW i \in DOMAIN t.base, NEW j \in DOMAIN t.base, t.base[i] = t.base[j] PROVE i = j
  <2>1. /\ i \in DOMAIN all /\ all[i] = t.base[i]
        /\ j \in DOMAIN all /\ all[j] = t.base[j]
    BY <1>2 DEF Layout
  <2>2. QED
    BY <1>3, <1>4, <2>1
<1>5. QED
  BY <1>1, <1>4 DEF Distinct

\* What a find over the local index and then over the baseline gives.
Found(space, t, key, holders) ==
  LET found == LookupIndex(t.index, HashOf(space, key), holders)
  IN  IF found # 0 THEN found ELSE SlotOf(t.base, key)

\* The holders of a slot are the slot, without it when it is of the baseline and
\* the lookup takes none of these.
HoldersOf(t, all, s, holders) ==
  /\ all = t.base \o t.local /\ s \in DOMAIN all
  /\ holders \subseteq {s} /\ (s > Len(t.base) => s \in holders)

\* A key of the table is found under its slot, whether or not the lookup in the
\* local index would take an entry of the baseline.
LEMMA FindPresent ==
  ASSUME NEW space, NEW Old, NEW New, NEW t, TableOk(space, t, Old, New),
         HashedIn(space, New),
         NEW all, NEW s, NEW holders, HoldersOf(t, all, s, holders), HashOf(space, all[s]) \in Nat
  PROVE  Found(space, t, all[s], holders) = s
<1>1. /\ all = t.base \o t.local /\ s \in DOMAIN all
      /\ holders \subseteq {s} /\ (s > Len(t.base) => s \in holders)
  BY DEF HoldersOf
<1>2. PICK b, n : Layout(t, all, b, n)
  BY <1>1, TableLayout
<1>3. PICK key, hash, base : key = all[s] /\ hash = HashOf(space, key) /\ base = t.base
  OBVIOUS
<1>4. hash \in Nat /\ b \in Nat /\ n \in Nat /\ s \in 1..(b + n) /\ b = Len(base)
  BY <1>1, <1>2, <1>3 DEF Layout
<1>5. Found(space, t, key, holders) =
        IF LookupIndex(t.index, hash, holders) # 0 THEN LookupIndex(t.index, hash, holders)
        ELSE SlotOf(base, key)
  BY <1>3 DEF Found
<1>6. CASE s \in 1..b
  <2>1. holders \in SUBSET (1..Len(t.base))
    BY <1>1, <1>3, <1>4, <1>6
  <2>2. LookupIndex(t.index, hash, holders) = 0
    <3>1. TableOk(space, t, Old, New) /\ hash \in Nat /\ holders \in SUBSET (1..Len(t.base))
      BY <1>4, <2>1
    <3>2. QED
      BY ONLY <3>1, LookupElsewhere
  <2>3. s \in DOMAIN base /\ key = base[s]
    BY <1>2, <1>3, <1>6 DEF Layout
  <2>4. Distinct(base)
    BY <1>1, <1>3, TableDistinct
  <2>5. SlotOf(base, key) = s
    BY ONLY <2>3, <2>4, SlotIs
  <2>6. QED
    BY <1>3, <1>5, <2>2, <2>5
<1>7. CASE s > b /\ \E i \in 1..n : s = b + i
  <2>1. PICK i \in 1..n : s = b + i
    BY <1>7
  <2>2. key = t.local[i] /\ i \in DOMAIN t.local /\ s = Len(t.base) + i
    BY <1>2, <1>3, <2>1 DEF Layout
  <2>3. holders = {s}
    BY <1>1, <1>3, <1>4, <1>7, <2>2
  <2>4. LookupIndex(t.index, HashOf(space, t.local[i]), {s}) = s
    <3>1. PICK keys, index : keys = t.local /\ index = t.index
      OBVIOUS
    <3>2. HashOf(space, keys[i]) \in Nat
      BY <1>3, <2>2, <3>1
    <3>3. ExactIndex(space, index, keys, n, b)
      BY <1>2, <2>2, <3>1 DEF TableOk, Layout
    <3>4. b + i \in holders /\ \A h \in holders : h = b + i
      BY <2>1, <2>3
    <3>5. b \in Nat /\ n \in Nat /\ i \in 1..n
      BY <1>4
    <3>6. LookupIndex(index, HashOf(space, keys[i]), holders) = b + i
      BY ONLY <3>2, <3>3, <3>4, <3>5, LookupPresent
    <3>7. QED
      BY <2>1, <2>3, <3>1, <3>6
  <2>5. s # 0
    BY <1>4
  <2>6. QED
    BY <1>3, <1>5, <2>2, <2>3, <2>4, <2>5
<1>8. QED
  BY ONLY <1>4, <1>6, <1>7, WhichSide

\* A key that is not in the table is not found.
LEMMA FindAbsent ==
  ASSUME NEW space, NEW Old, NEW New, NEW t, TableOk(space, t, Old, New),
         NEW all, all = t.base \o t.local,
         NEW key, HashOf(space, key) \in Nat, \A s \in DOMAIN all : all[s] # key
  PROVE  Found(space, t, key, {}) = 0
<1>1. PICK b, n : Layout(t, all, b, n)
  BY TableLayout
<1>2. \A s \in DOMAIN t.base : t.base[s] # key
  BY <1>1 DEF Layout
<1>3. SlotOf(t.base, key) = 0
  <2>1. PICK base : base = t.base
    OBVIOUS
  <2>2. SlotOf(base, key) = 0
    BY <1>2, <2>1, SlotNone
  <2>3. QED
    BY <2>1, <2>2
<1>4. LookupIndex(t.index, HashOf(space, key), {}) = 0
  <2>1. PICK hash : hash = HashOf(space, key)
    OBVIOUS
  <2>2. TableOk(space, t, Old, New) /\ hash \in Nat /\ {} \in SUBSET (1..Len(t.base))
    BY <2>1
  <2>3. LookupIndex(t.index, hash, {}) = 0
    BY ONLY <2>2, LookupElsewhere
  <2>4. QED
    BY <2>1, <2>3
<1>5. QED
  BY <1>3, <1>4 DEF Found

Grow(space, t, x, fails) ==
  LET index == EnsureIndexCapacity(space, t.index, t.local, Len(t.base))
  IN  IF fails THEN [t EXCEPT !.index = index]
      ELSE [t EXCEPT !.local = Append(@, x),
                     !.index = InsertIndex(index, HashOf(space, x), Len(t.base \o t.local) + 1)]

NotListed(t, x) == \A s \in DOMAIN (t.base \o t.local) : (t.base \o t.local)[s] # x

\* The table keeps what it has and may have the value behind it.
Kept(t, r, x) ==
  /\ r.base = t.base
  /\ \/ r.base \o r.local = t.base \o t.local
     \/ LengthenedBy(t.base \o t.local, r.base \o r.local, x)

\* A table that takes a new value stays exact, and nothing in it moves.
LEMMA GrowKeeps ==
  ASSUME NEW space, NEW Old, NEW New, NEW t, TableOk(space, t, Old, New), HashedIn(space, New),
         NEW x \in New, NotListed(t, x), NEW fails \in BOOLEAN
  PROVE  TableOk(space, Grow(space, t, x, fails), Old, New) /\ Kept(t, Grow(space, t, x, fails), x)
<1>1. PICK r : r = Grow(space, t, x, fails)
  OBVIOUS
<1>2. PICK room, index :
        /\ room = EnsureIndexCapacity(space, t.index, t.local, Len(t.base))
        /\ index = InsertIndex(room, HashOf(space, x), Len(t.base \o t.local) + 1)
  OBVIOUS
<1>3. /\ TableOk(space, [t EXCEPT !.index = room], Old, New)
      /\ TableOk(space, [t EXCEPT !.local = Append(@, x), !.index = index], Old, New)
  BY <1>2, GrowTable DEF NotListed
<1>4. t = [base |-> t.base, local |-> t.local, index |-> t.index]
  BY DEF TableOk
<1>5. r = IF fails THEN [t EXCEPT !.index = room]
          ELSE [t EXCEPT !.local = Append(@, x), !.index = index]
  BY <1>1, <1>2 DEF Grow
<1>6. CASE fails
  <2>1. r = [t EXCEPT !.index = room]
    BY <1>5, <1>6
  <2>2. r.base = t.base /\ r.local = t.local
    BY ONLY <1>4, <2>1
  <2>3. QED
    BY <1>1, <1>3, <2>1, <2>2 DEF Kept
<1>7. CASE ~fails
  <2>1. r = [t EXCEPT !.local = Append(@, x), !.index = index]
    BY <1>5, <1>7
  <2>2. r.base = t.base /\ r.local = Append(t.local, x)
    BY ONLY <1>4, <2>1
  <2>3. LengthenedBy(t.base \o t.local, t.base \o Append(t.local, x), x)
    <3>1. PICK base, local : base = t.base /\ local = t.local
      OBVIOUS
    <3>2. base \in Seq(Old) /\ local \in Seq(New)
      BY <3>1 DEF TableOk
    <3>3. LengthenedBy(base \o local, base \o Append(local, x), x)
      BY ONLY <3>2, x \in New, AppendBehind
    <3>4. QED
      BY <3>1, <3>3
  <2>4. QED
    BY <1>1, <1>3, <2>1, <2>2, <2>3 DEF Kept
<1>8. QED
  BY <1>6, <1>7

\* A table that becomes a baseline.
Bound(t) == [base |-> t.base \o t.local, local |-> <<>>, index |-> <<>>]

LEMMA BindKeeps ==
  ASSUME NEW space, NEW Old, NEW New, New \subseteq Old, NEW t, TableOk(space, t, Old, New)
  PROVE  /\ TableOk(space, Bound(t), Old, New)
         /\ Bound(t).base = t.base \o t.local
         /\ Bound(t).base \o Bound(t).local = t.base \o t.local
<1>1. PICK r : r = Bound(t)
  OBVIOUS
<1>2. PICK all : all = t.base \o t.local
  OBVIOUS
<1>3. all \in Seq(Old)
  <2>1. PICK base, local : base = t.base /\ local = t.local
    OBVIOUS
  <2>2. base \in Seq(Old) /\ local \in Seq(New)
    BY <2>1 DEF TableOk
  <2>3. base \o local \in Seq(Old \cup New) /\ Old \cup New = Old
    BY <2>2, AllEntries
  <2>4. QED
    BY <1>2, <2>1, <2>3
<1>4. Distinct(all)
  BY <1>2 DEF TableOk
<1>5. all \o <<>> = all
  BY <1>3, ConcatEmptySeq
<1>6. r.base = all /\ r.local = <<>> /\ r.index = <<>>
      /\ r = [base |-> r.base, local |-> r.local, index |-> r.index]
  BY <1>1, <1>2 DEF Bound
<1>7. QED
  BY <1>1, <1>2, <1>3, <1>4, <1>5, <1>6 DEF TableOk

\* An index that exists has a free entry.
LEMMA IndexHasFree ==
  ASSUME NEW space, NEW Old, NEW New, NEW t, TableOk(space, t, Old, New), t.index # <<>>
  PROVE  NoEntry \in Range(t.index)
<1>1. PICK index, keys, n, b : /\ index = t.index /\ keys = t.local
                               /\ n = Len(t.local) /\ b = Len(t.base)
  OBVIOUS
<1>2. n \in Nat /\ b \in Nat /\ ExactIndex(space, index, keys, n, b)
  BY <1>1 DEF TableOk
<1>3. PICK k \in 0..(Len(index) - 1) : index[ProbeAt(index, 0, k)] = NoEntry
  BY ONLY <1>2, 0 \in Nat, FreeEntry
<1>4. Len(index) \in Nat \ {0} /\ DOMAIN index = 1..Len(index)
  BY <1>2 DEF ExactIndex
<1>5. ProbeAt(index, 0, k) \in DOMAIN index
  <2>1. k \in Nat /\ 0 \in Nat
    BY <1>4
  <2>2. PICK length : length = Len(index)
    OBVIOUS
  <2>3. ((0 + k) % length) + 1 \in 1..length
    BY <1>4, <2>1, <2>2, ProbeIn
  <2>4. QED
    BY <1>4, <2>2, <2>3 DEF ProbeAt
<1>6. QED
  BY <1>1, <1>3, <1>5 DEF Range

-----------------------------------------------------------------------------
(***************************************************************************)
(* Strings and identities                                                  *)
(***************************************************************************)

StringsOk(t) == TableOk("string", t, Texts, Texts) /\ Len(AllStrings(t)) <= MaxStrings

IdentitiesOk(t) ==
  /\ TableOk("identity", t, IdentityKeys \cup {RootIdentity}, IdentityKeys)
  /\ 1 \in DOMAIN t.base /\ t.base[1] = RootIdentity

\* Every identity but the root is behind its parent and has a name.
Rooted(all, names) ==
  \A i \in DOMAIN all \ {1} : all[i].parent < i /\ all[i].name \in names

\* The baselines hold everything that was interned before they were bound, and
\* a child is behind its parent and its name.
InterningInv ==
  /\ StringsOk(strings) /\ IdentitiesOk(identities)
  /\ Rooted(AllIdentities(identities), DOMAIN AllStrings(strings))

LEMMA HashedKeys ==
  HashedIn("string", Texts) /\ HashedIn("identity", IdentityKeys)
BY HashPositive DEF HashedIn

LEMMA RootIsNoKey == RootIdentity \notin IdentityKeys
<1>1. \A key \in IdentityKeys : key.parent # 0
  BY InterningBounds DEF IdentityKeys
<1>2. RootIdentity.parent = 0
  BY DEF RootIdentity
<1>3. QED
  BY <1>1, <1>2

LEMMA FindPresentString ==
  ASSUME NEW t, StringsOk(t), NEW s \in DOMAIN AllStrings(t)
  PROVE  FindString(t, AllStrings(t)[s]) = s
<1>1. PICK all, text, holders :
        /\ all = t.base \o t.local /\ text = all[s]
        /\ holders = {raw \in DOMAIN all : all[raw] = text}
  OBVIOUS
<1>2. TableOk("string", t, Texts, Texts) /\ all = AllStrings(t) /\ s \in DOMAIN all
  BY <1>1 DEF StringsOk, AllStrings
<1>3. Distinct(all)
  BY <1>1, <1>2, TableDistinct
<1>4. holders = {s}
  BY <1>1, <1>2, <1>3 DEF Distinct
<1>5. text \in Texts
  <2>1. PICK base, local : base = t.base /\ local = t.local
    OBVIOUS
  <2>2. base \in Seq(Texts) /\ local \in Seq(Texts) /\ all = base \o local
    BY <1>1, <1>2, <2>1 DEF TableOk
  <2>3. all \in Seq(Texts)
    BY <2>2, AllEntries
  <2>4. QED
    BY <1>1, <1>2, <2>3
<1>6. HashOf("string", all[s]) \in Nat
  BY <1>1, <1>5, HashedKeys DEF HashedIn
<1>7. Found("string", t, all[s], holders) = s
  <2>1. /\ TableOk("string", t, Texts, Texts) /\ HashedIn("string", Texts)
        /\ HoldersOf(t, all, s, holders) /\ HashOf("string", all[s]) \in Nat
    BY <1>1, <1>2, <1>4, <1>6, HashedKeys DEF HoldersOf
  <2>2. QED
    BY ONLY <2>1, FindPresent
<1>8. FindString(t, text) = Found("string", t, text, holders)
  BY <1>1, <1>2 DEF FindString, Found
<1>9. QED
  BY <1>1, <1>2, <1>7, <1>8

LEMMA FindAbsentString ==
  ASSUME NEW t, StringsOk(t), NEW text \in Texts,
         \A s \in DOMAIN AllStrings(t) : AllStrings(t)[s] # text
  PROVE  FindString(t, text) = 0
<1>1. PICK all : all = t.base \o t.local
  OBVIOUS
<1>2. TableOk("string", t, Texts, Texts) /\ all = AllStrings(t)
  BY <1>1 DEF StringsOk, AllStrings
<1>3. HashOf("string", text) \in Nat
  BY HashedKeys DEF HashedIn
<1>4. Found("string", t, text, {}) = 0
  <2>1. /\ TableOk("string", t, Texts, Texts) /\ all = t.base \o t.local
        /\ HashOf("string", text) \in Nat /\ \A s \in DOMAIN all : all[s] # text
    BY <1>1, <1>2, <1>3
  <2>2. QED
    BY ONLY <2>1, FindAbsent
<1>5. {raw \in DOMAIN AllStrings(t) : AllStrings(t)[raw] = text} = {}
  OBVIOUS
<1>6. FindString(t, text) = Found("string", t, text, {})
  BY <1>5 DEF FindString, Found
<1>7. QED
  BY <1>4, <1>6

LEMMA FindPresentIdentity ==
  ASSUME NEW t, IdentitiesOk(t), NEW s \in DOMAIN AllIdentities(t), s # 1
  PROVE  FindIdentity(t, AllIdentities(t)[s]) = s /\ AllIdentities(t)[s] \in IdentityKeys
<1> DEFINE Old == IdentityKeys \cup {RootIdentity}
<1>1. PICK all, key, holders :
        /\ all = t.base \o t.local /\ key = all[s]
        /\ holders = {raw \in DOMAIN all : raw > Len(t.base) /\ all[raw] = key}
  OBVIOUS
<1>2. TableOk("identity", t, Old, IdentityKeys) /\ all = AllIdentities(t) /\ s \in DOMAIN all
  BY <1>1 DEF IdentitiesOk, AllIdentities
<1>3. Distinct(all)
  BY <1>1, <1>2, TableDistinct
<1>4. holders \subseteq {s} /\ (s > Len(t.base) => s \in holders)
  BY <1>1, <1>2, <1>3 DEF Distinct
<1>5. key \in IdentityKeys
  <2>1. PICK base, local : base = t.base /\ local = t.local
    OBVIOUS
  <2>2. base \in Seq(Old) /\ local \in Seq(IdentityKeys) /\ all = base \o local
    BY <1>1, <1>2, <2>1 DEF TableOk
  <2>3. all \in Seq(Old \cup IdentityKeys) /\ Old \cup IdentityKeys = Old
    BY <2>2, AllEntries
  <2>4. key \in Old
    BY <1>1, <1>2, <2>3
  <2>5. PICK b, n : Layout(t, all, b, n)
    BY <1>1, <1>2, TableLayout
  <2>6. 1 \in DOMAIN all /\ all[1] = RootIdentity
    BY <2>5 DEF Layout, IdentitiesOk
  <2>7. key # RootIdentity
    BY <1>1, <1>2, <1>3, <2>6 DEF Distinct
  <2>8. QED
    BY <2>4, <2>7
<1>6. HashOf("identity", all[s]) \in Nat
  BY <1>1, <1>5, HashedKeys DEF HashedIn
<1>7. Found("identity", t, all[s], holders) = s
  <2>1. /\ TableOk("identity", t, Old, IdentityKeys) /\ HashedIn("identity", IdentityKeys)
        /\ HoldersOf(t, all, s, holders) /\ HashOf("identity", all[s]) \in Nat
    BY <1>1, <1>2, <1>4, <1>6, HashedKeys DEF HoldersOf
  <2> HIDE DEF Old
  <2>2. QED
    BY ONLY <2>1, FindPresent
<1>8. FindIdentity(t, key) = Found("identity", t, key, holders)
  BY <1>1, <1>2 DEF FindIdentity, Found
<1>9. QED
  BY <1>1, <1>2, <1>5, <1>7, <1>8

\* A text that was interned is in the table from then on, and only it is new.
LEMMA InternKeeps ==
  ASSUME NEW t, StringsOk(t), Len(AllStrings(t)) < MaxStrings, NEW text \in Texts,
         NEW fails \in BOOLEAN, NEW r, r = InternString(t, text, fails)
  PROVE  StringsOk(r) /\ DOMAIN AllStrings(t) \subseteq DOMAIN AllStrings(r)
<1>1. CASE FindString(t, text) # 0
  BY <1>1 DEF InternString
<1>2. CASE FindString(t, text) = 0
  <2>1. PICK old, new : old = t.base \o t.local /\ new = r.base \o r.local
    OBVIOUS
  <2>2. /\ TableOk("string", t, Texts, Texts) /\ HashedIn("string", Texts)
        /\ old = AllStrings(t) /\ new = AllStrings(r) /\ Len(old) < MaxStrings
    BY <2>1, HashedKeys DEF StringsOk, AllStrings
  <2>3. ASSUME NEW s \in DOMAIN old PROVE old[s] # text
    <3>1. PICK b, n : Layout(t, old, b, n)
      BY <2>1, <2>2, TableLayout
    <3>2. s # 0
      BY <3>1 DEF Layout
    <3>3. FindString(t, old[s]) = s
      BY <2>2, FindPresentString
    <3>4. QED
      BY <1>2, <3>2, <3>3
  <2>4. r = Grow("string", t, text, fails)
    BY <1>2 DEF InternString, Grow, AllStrings
  <2>5. /\ TableOk("string", r, Texts, Texts)
        /\ new = old \/ LengthenedBy(old, new, text)
    <3>1. NotListed(t, text)
      BY <2>1, <2>3 DEF NotListed
    <3>2. TableOk("string", r, Texts, Texts) /\ Kept(t, r, text)
      BY <2>2, <2>4, <3>1, GrowKeeps
    <3>3. QED
      BY <2>1, <3>2 DEF Kept
  <2>6. CASE new = old
    BY <2>2, <2>5, <2>6 DEF StringsOk
  <2>7. CASE LengthenedBy(old, new, text)
    <3>1. /\ Len(old) \in Nat /\ Len(new) = Len(old) + 1
          /\ DOMAIN old = 1..Len(old) /\ DOMAIN new = 1..(Len(old) + 1)
      BY <2>7 DEF LengthenedBy
    <3>2. Len(new) <= MaxStrings /\ DOMAIN old \subseteq DOMAIN new
      BY <2>2, <3>1, InterningBounds
    <3>3. QED
      BY <2>2, <2>5, <3>2 DEF StringsOk
  <2>8. QED
    BY <2>5, <2>6, <2>7
<1>3. QED
  BY <1>1, <1>2

\* An identity that was resolved is in the table from then on, behind its parent.
LEMMA ResolveKeeps ==
  ASSUME NEW t, IdentitiesOk(t), Len(AllIdentities(t)) < MaxIdentities,
         NEW s, StringsOk(s), Rooted(AllIdentities(t), DOMAIN AllStrings(s)),
         NEW key, key.kind \in IdentityKinds,
         key = [parent |-> key.parent, name |-> key.name, kind |-> key.kind],
         NEW fails \in BOOLEAN, NEW r, r = ResolveIdentity(s, t, key, fails)
  PROVE  IdentitiesOk(r) /\ Rooted(AllIdentities(r), DOMAIN AllStrings(s))
<1> DEFINE Old == IdentityKeys \cup {RootIdentity}
<1>1. CASE ~CanResolve(s, t, key) \/ FindIdentity(t, key) # 0
  BY <1>1 DEF ResolveIdentity
<1>2. CASE CanResolve(s, t, key) /\ FindIdentity(t, key) = 0
  <2>1. PICK old, new : old = t.base \o t.local /\ new = r.base \o r.local
    OBVIOUS
  <2>2. /\ TableOk("identity", t, Old, IdentityKeys) /\ HashedIn("identity", IdentityKeys)
        /\ old = AllIdentities(t) /\ new = AllIdentities(r) /\ Len(old) < MaxIdentities
    BY <2>1, HashedKeys DEF IdentitiesOk, AllIdentities
  <2>3. PICK b, n : Layout(t, old, b, n)
    BY <2>1, <2>2, TableLayout
  <2>4. /\ b \in Nat /\ n \in Nat /\ DOMAIN old = 1..(b + n)
        /\ 1 \in DOMAIN old /\ old[1] = RootIdentity
    BY <2>3 DEF Layout, IdentitiesOk
  <2>5. key \in IdentityKeys
    <3>1. Len(old) \in Nat /\ DOMAIN old = 1..Len(old)
      <4>1. PICK base, local : base = t.base /\ local = t.local
        OBVIOUS
      <4>2. base \in Seq(Old) /\ local \in Seq(IdentityKeys) /\ old = base \o local
        BY <2>1, <2>2, <4>1 DEF TableOk
      <4> HIDE DEF Old
      <4>3. base \o local \in Seq(Old \cup IdentityKeys)
        BY ONLY <4>2, AllEntries
      <4>4. QED
        BY <4>2, <4>3
    <3>2. key.parent \in 1..MaxIdentities
      <4>1. key.parent \in DOMAIN old
        BY <1>2, <2>2 DEF CanResolve
      <4>2. QED
        BY <2>2, <3>1, <4>1, InterningBounds
    <3>3. key.name \in 1..MaxStrings
      <4>1. PICK texts : texts = s.base \o s.local
        OBVIOUS
      <4>2. /\ TableOk("string", s, Texts, Texts) /\ texts = AllStrings(s)
            /\ Len(texts) <= MaxStrings
        BY <4>1 DEF StringsOk, AllStrings
      <4>3. Len(texts) \in Nat /\ DOMAIN texts = 1..Len(texts)
        <5>1. PICK base, local : base = s.base /\ local = s.local
          OBVIOUS
        <5>2. base \in Seq(Texts) /\ local \in Seq(Texts) /\ texts = base \o local
          BY <4>1, <4>2, <5>1 DEF TableOk
        <5>3. texts \in Seq(Texts)
          BY <5>2, AllEntries
        <5>4. QED
          BY <5>3
      <4>4. key.name \in DOMAIN texts
        BY <1>2, <4>2 DEF CanResolve
      <4>5. QED
        BY <4>2, <4>3, <4>4, InterningBounds
    <3>4. QED
      BY <3>2, <3>3 DEF IdentityKeys
  <2>6. ASSUME NEW i \in DOMAIN old PROVE old[i] # key
    <3>1. CASE i = 1
      BY <2>4, <2>5, <3>1, RootIsNoKey
    <3>2. CASE i # 1
      <4>1. FindIdentity(t, old[i]) = i
        BY <2>2, <3>2, FindPresentIdentity
      <4>2. i # 0
        BY <2>4
      <4>3. QED
        BY <1>2, <4>1, <4>2
    <3>3. QED
      BY <3>1, <3>2
  <2>7. r = Grow("identity", t, key, fails)
    BY <1>2 DEF ResolveIdentity, Grow, AllIdentities
  <2>8. /\ TableOk("identity", r, Old, IdentityKeys) /\ r.base = t.base
        /\ new = old \/ LengthenedBy(old, new, key)
    <3> HIDE DEF Old
    <3>1. NotListed(t, key)
      BY <2>1, <2>6 DEF NotListed
    <3>2. TableOk("identity", r, Old, IdentityKeys) /\ Kept(t, r, key)
      BY <2>2, <2>5, <2>7, <3>1, GrowKeeps
    <3>3. QED
      BY <2>1, <3>2 DEF Kept
  <2>9. IdentitiesOk(r)
    BY <2>8 DEF IdentitiesOk
  <2>10. CASE new = old
    BY <2>2, <2>9, <2>10
  <2>11. CASE LengthenedBy(old, new, key)
    <3>1. key.parent \in 1..Len(old) /\ key.name \in DOMAIN AllStrings(s)
      BY <1>2, <2>2, <2>11 DEF CanResolve, LengthenedBy
    <3>2. ASSUME NEW i \in DOMAIN new \ {1}
          PROVE  new[i].parent < i /\ new[i].name \in DOMAIN AllStrings(s)
      <4>1. CASE i \in DOMAIN old
        <5>1. new[i] = old[i]
          BY <2>11, <4>1 DEF LengthenedBy
        <5>2. QED
          BY <2>2, <3>2, <4>1, <5>1 DEF Rooted
      <4>2. CASE i \notin DOMAIN old
        <5>1. i = Len(old) + 1 /\ Len(old) \in Nat /\ new[i] = key
          BY <2>11, <4>2 DEF LengthenedBy
        <5>2. QED
          BY <3>1, <5>1
      <4>3. QED
        BY <4>1, <4>2
    <3>3. QED
      BY <2>2, <2>9, <3>2 DEF Rooted
  <2>12. QED
    BY <2>8, <2>10, <2>11
<1>3. QED
  BY <1>1, <1>2

-----------------------------------------------------------------------------
(***************************************************************************)
(* The specification                                                       *)
(***************************************************************************)

LEMMA InterningStarts == InterningInit => InterningInv
<1>1. SUFFICES ASSUME InterningInit PROVE InterningInv
  OBVIOUS
<1>2. /\ strings = [base |-> <<>>, local |-> <<>>, index |-> <<>>]
      /\ identities = [base |-> <<RootIdentity>>, local |-> <<>>, index |-> <<>>]
  BY <1>1 DEF InterningInit, EmptyStrings, EmptyIdentities
<1>3. /\ strings.base = <<>> /\ strings.local = <<>> /\ strings.index = <<>>
      /\ identities.base = <<RootIdentity>> /\ identities.local = <<>> /\ identities.index = <<>>
  BY <1>2
<1>4. PICK empty : empty = <<>>
  OBVIOUS
<1>5. empty \in Seq(Texts) /\ empty \o empty = empty /\ Len(empty) = 0 /\ DOMAIN empty = {}
  BY <1>4
<1>6. StringsOk(strings)
  BY <1>2, <1>3, <1>4, <1>5, InterningBounds DEF StringsOk, TableOk, Distinct, AllStrings
<1>7. PICK root : root = <<RootIdentity>>
  OBVIOUS
<1>8. /\ root \in Seq(IdentityKeys \cup {RootIdentity}) /\ DOMAIN root = {1} /\ root[1] = RootIdentity
      /\ empty \in Seq(IdentityKeys)
  BY <1>4, <1>7
<1>9. root \o empty = root
  BY <1>4, <1>8, ConcatEmptySeq
<1>10. IdentitiesOk(identities) /\ DOMAIN AllIdentities(identities) = {1}
  BY <1>2, <1>3, <1>4, <1>7, <1>8, <1>9 DEF IdentitiesOk, TableOk, Distinct, AllIdentities
<1>11. QED
  BY <1>6, <1>10 DEF InterningInv, Rooted

LEMMA InterningStep == InterningInv /\ [InterningNext]_internVars => InterningInv'
<1>1. SUFFICES ASSUME InterningInv, [InterningNext]_internVars PROVE InterningInv'
  OBVIOUS
<1>2. ASSUME NEW text \in Texts, NEW fails \in BOOLEAN, InternText(text, fails) PROVE InterningInv'
  <2>1. /\ strings' = InternString(strings, text, fails) /\ identities' = identities
        /\ StringsOk(strings) /\ Len(AllStrings(strings)) < MaxStrings
    BY <1>1, <1>2 DEF InternText, InterningInv
  <2>2. StringsOk(strings') /\ DOMAIN AllStrings(strings) \subseteq DOMAIN AllStrings(strings')
    BY <2>1, InternKeeps
  <2>3. Rooted(AllIdentities(identities), DOMAIN AllStrings(strings'))
    BY <1>1, <2>2 DEF InterningInv, Rooted
  <2>4. QED
    BY <1>1, <2>1, <2>2, <2>3 DEF InterningInv
<1>3. ASSUME NEW key \in Keys(identities), NEW fails \in BOOLEAN, ResolveKey(key, fails)
      PROVE  InterningInv'
  <2>1. /\ identities' = ResolveIdentity(strings, identities, key, fails) /\ strings' = strings
        /\ Len(AllIdentities(identities)) < MaxIdentities
    BY <1>3 DEF ResolveKey
  <2>2. key = [parent |-> key.parent, name |-> key.name, kind |-> key.kind]
        /\ key.kind \in IdentityKinds
    BY <1>3 DEF Keys
  <2>3. IdentitiesOk(identities') /\ Rooted(AllIdentities(identities'), DOMAIN AllStrings(strings))
    BY <1>1, <2>1, <2>2, ResolveKeeps DEF InterningInv
  <2>4. QED
    BY <1>1, <2>1, <2>3 DEF InterningInv
<1>4. ASSUME BindTables PROVE InterningInv'
  <2>1. PICK texts, ids : texts = strings.base \o strings.local /\ ids = identities.base \o identities.local
    OBVIOUS
  <2>2. texts = AllStrings(strings) /\ ids = AllIdentities(identities)
    BY <2>1 DEF AllStrings, AllIdentities
  <2>3. strings' = Bound(strings) /\ identities' = Bound(identities)
    BY <1>4, <2>1, <2>2 DEF BindTables, EmptyStrings, EmptyIdentities, Bound
  <2>4. TableOk("string", strings', Texts, Texts) /\ AllStrings(strings') = texts
    <3>1. TableOk("string", strings, Texts, Texts)
      BY <1>1 DEF InterningInv, StringsOk
    <3>2. /\ TableOk("string", Bound(strings), Texts, Texts)
          /\ Bound(strings).base \o Bound(strings).local = strings.base \o strings.local
      BY <3>1, BindKeeps
    <3>3. QED
      BY <2>1, <2>3, <3>2 DEF AllStrings
  <2>5. /\ TableOk("identity", identities', IdentityKeys \cup {RootIdentity}, IdentityKeys)
        /\ identities'.base = ids /\ AllIdentities(identities') = ids
    <3>1. PICK Old : Old = IdentityKeys \cup {RootIdentity}
      OBVIOUS
    <3>2. TableOk("identity", identities, Old, IdentityKeys) /\ IdentityKeys \subseteq Old
      BY <1>1, <3>1 DEF InterningInv, IdentitiesOk
    <3>3. /\ TableOk("identity", Bound(identities), Old, IdentityKeys)
          /\ Bound(identities).base = identities.base \o identities.local
          /\ Bound(identities).base \o Bound(identities).local = identities.base \o identities.local
      BY <3>2, BindKeeps
    <3>4. QED
      BY <2>1, <2>3, <3>1, <3>3 DEF AllIdentities
  <2>6. 1 \in DOMAIN ids /\ ids[1] = RootIdentity
    <3>1. TableOk("identity", identities, IdentityKeys \cup {RootIdentity}, IdentityKeys)
      BY <1>1 DEF InterningInv, IdentitiesOk
    <3>2. PICK b, n : Layout(identities, ids, b, n)
      BY <2>1, <3>1, TableLayout
    <3>3. QED
      BY <1>1, <3>2 DEF Layout, InterningInv, IdentitiesOk
  <2>7. QED
    BY <1>1, <2>2, <2>4, <2>5, <2>6 DEF InterningInv, StringsOk, IdentitiesOk
<1>5. CASE UNCHANGED internVars
  BY <1>1, <1>5 DEF InterningInv, internVars
<1>6. QED
  BY <1>1, <1>2, <1>3, <1>4, <1>5 DEF InterningNext

LEMMA InterningInvExact == InterningInv => InterningExact
<1>1. SUFFICES ASSUME InterningInv PROVE InterningExact
  OBVIOUS
<1>2. StringsOk(strings) /\ IdentitiesOk(identities)
      /\ Rooted(AllIdentities(identities), DOMAIN AllStrings(strings))
  BY <1>1 DEF InterningInv
<1>3. \A s \in DOMAIN AllStrings(strings) : FindString(strings, AllStrings(strings)[s]) = s
  BY <1>2, FindPresentString
<1>4. \A text \in Texts \ Range(AllStrings(strings)) : FindString(strings, text) = 0
  BY <1>2, FindAbsentString DEF Range
<1>5. ASSUME NEW i \in DOMAIN AllIdentities(identities) \ {1}
      PROVE  /\ FindIdentity(identities, AllIdentities(identities)[i]) = i
             /\ AllIdentities(identities)[i].parent < i
             /\ AllIdentities(identities)[i].name \in DOMAIN AllStrings(strings)
  BY <1>2, FindPresentIdentity DEF Rooted
<1>6. ASSUME NEW index \in {strings.index, identities.index} \ {<<>>} PROVE NoEntry \in Range(index)
  <2>1. TableOk("string", strings, Texts, Texts)
        /\ TableOk("identity", identities, IdentityKeys \cup {RootIdentity}, IdentityKeys)
    BY <1>2 DEF StringsOk, IdentitiesOk
  <2>2. QED
    BY <1>6, <2>1, IndexHasFree
<1>7. QED
  BY <1>3, <1>4, <1>5, <1>6 DEF InterningExact

\* Whatever the hash function and however it collides, for every set of texts
\* and kinds and every size of the tables: each interned spelling and identity
\* is found under its own slot and under no other, before and after a BUILD
\* binds the tables over an image, and although memory may run out while one is
\* interned (string_table::intern, identity_space::resolve).
THEOREM InterningIsExact == InterningSpec => []InterningExact
<1>1. InterningInit => InterningInv
  BY InterningStarts
<1>2. InterningInv /\ [InterningNext]_internVars => InterningInv'
  BY InterningStep
<1>3. InterningInv => InterningExact
  BY InterningInvExact
<1>4. QED
  BY <1>1, <1>2, <1>3, PTL DEF InterningSpec

-----------------------------------------------------------------------------
(***************************************************************************)
(* The artifacts of a construction                                         *)
(***************************************************************************)

USE DEF Artifacts, Contents, Generations, Results, FullOps

-----------------------------------------------------------------------------
(***************************************************************************)
(* Type correctness                                                        *)
(***************************************************************************)

Files == [content : Contents, gen : Generations]

LEMMA FileType ==
  ASSUME NEW c \in Contents, NEW g \in Generations
  PROVE  File(c, g) \in Files /\ File(c, g).content = c /\ File(c, g).gen = g
  BY DEF Files, File

LEMMA AbsentType == Absent \in Files /\ Absent.content = "absent" /\ Absent.gen = 0
  BY FileType, BoundsAssumption DEF Absent

\* A step of the persistence branch of one artifact keeps the types.
LEMMA PersistTypes ==
  ASSUME TypeOK, NEW a \in Artifacts,
         Create(a) \/ EncodeHeader(a) \/ EncodeRest(a) \/ ValidateAndFlush(a)
  PROVE  TypeOK'
<1>1. \A c \in Contents : File(c, generation) \in Files
  BY FileType DEF TypeOK
<1>2. disk \in [Artifacts -> Files]
  BY DEF TypeOK, Files
<1>3. disk' \in [Artifacts -> Files]
  BY <1>1, <1>2 DEF Create, EncodeHeader, EncodeRest, ValidateAndFlush
<1>4. result' \in [Artifacts -> Results] /\ stage' \in [Artifacts -> {"waiting", "created", "header", "encoded"}]
  BY DEF TypeOK, Create, EncodeHeader, EncodeRest, ValidateAndFlush, PersistFails
<1>5. UNCHANGED unchangedByPersist
  BY DEF Create, EncodeHeader, EncodeRest, ValidateAndFlush
<1> QED
  BY <1>3, <1>4, <1>5 DEF TypeOK, Files, unchangedByPersist, cleanVars

\* full_persistence_artifact_count
LEMMA FS_FourArtifacts == \A o : Cardinality(Pending(o)) \in 1..4
<1>1. Cardinality({"compiled"}) = 1
  BY FS_Singleton
<1>2. IsFiniteSet({"compiled"})
  BY FS_Singleton
<1>3. IsFiniteSet({"compiled", "source"}) /\ Cardinality({"compiled", "source"}) = 2
  <2>1. {"compiled", "source"} = {"compiled"} \cup {"source"} /\ "source" \notin {"compiled"}
    OBVIOUS
  <2> QED
    BY <1>1, <1>2, <2>1, FS_AddElement
<1>4. IsFiniteSet({"compiled", "source", "database"})
      /\ Cardinality({"compiled", "source", "database"}) = 3
  <2>1. /\ {"compiled", "source", "database"} = {"compiled", "source"} \cup {"database"}
        /\ "database" \notin {"compiled", "source"}
    OBVIOUS
  <2> QED
    BY <1>3, <2>1, FS_AddElement
<1>5. Cardinality(Artifacts) = 4
  <2>1. /\ Artifacts = {"compiled", "source", "database"} \cup {"manifest"}
        /\ "manifest" \notin {"compiled", "source", "database"}
    OBVIOUS
  <2> QED
    BY <1>4, <2>1, FS_AddElement
<1> QED
  BY <1>1, <1>5 DEF Pending

LEMMA NoJobTypes ==
  ASSUME NoJob
  PROVE  /\ result' \in [Artifacts -> Results]
         /\ stage' \in [Artifacts -> {"waiting", "created", "header", "encoded"}]
         /\ active' \in 1..4 /\ lanes' \subseteq 0..3
  BY DEF NoJob

LEMMA TypeStep == TypeOK /\ [Next]_vars => TypeOK'
<1> SUFFICES ASSUME TypeOK, [Next]_vars PROVE TypeOK'
  OBVIOUS
<1> USE BoundsAssumption
<1>1. CASE \E o \in FullOps : Begin(o)
  <2>1. PICK o \in FullOps : Begin(o)
    BY <1>1
  <2>2. generation' \in Generations
    BY <2>1 DEF TypeOK, Begin
  <2>3. toClean' \subseteq Artifacts /\ refused' = FALSE
    BY <2>1 DEF Begin
  <2>4. baseline' \in SUBSET [content : Contents, gen : Generations]
    BY <2>1 DEF Begin
  <2> QED
    BY <2>1, <2>2, <2>3, <2>4 DEF TypeOK, Begin, persistVars
<1>2. CASE \E a \in Artifacts : RemoveArtifact(a)
  <2>1. PICK a \in Artifacts : RemoveArtifact(a)
    BY <1>2
  <2>2. disk' \in [Artifacts -> Files]
    BY <2>1, AbsentType DEF TypeOK, RemoveArtifact, Files
  <2> QED
    BY <2>1, <2>2 DEF TypeOK, RemoveArtifact, NextToClean, Files, persistVars
<1>3. CASE \E a \in Artifacts : Create(a) \/ EncodeHeader(a) \/ EncodeRest(a) \/ ValidateAndFlush(a)
  BY <1>3, PersistTypes
<1>4. CASE PreCleanDone \/ PostCleanDone
  BY <1>4 DEF TypeOK, PreCleanDone, PostCleanDone, cleanVars, persistVars
<1>5. CASE ConstructFails
  BY <1>5 DEF TypeOK, ConstructFails, PostClean, persistVars
<1>6. CASE \E n \in 1..MaxLanes : Dispatch(n)
  <2>1. PICK n \in 1..MaxLanes : Dispatch(n)
    BY <1>6
  <2>2. Cardinality(Pending(op)) \in 1..4
    BY FS_FourArtifacts
  <2>3. n \in 1..4 /\ n - 1 \in 0..3
    BY <2>1, <2>2, LanesAssumption DEF Dispatch
  <2>4. active' \in 1..4 /\ lanes' \subseteq 0..3
    BY <2>1, <2>3 DEF Dispatch
  <2>5. /\ stage' \in [Artifacts -> {"waiting", "created", "header", "encoded"}]
        /\ result' \in [Artifacts -> Results]
    BY <2>1 DEF Dispatch, Results
  <2> QED
    BY <2>1, <2>4, <2>5 DEF TypeOK, Dispatch, cleanVars
<1>7. CASE DispatchFailed
  BY <1>7 DEF TypeOK, DispatchFailed, cleanVars
<1>8. CASE PersistDone
  BY <1>8, NoJobTypes DEF TypeOK, PersistDone, PostClean, cleanVars
<1>9. CASE BeginLoad
  BY <1>9 DEF TypeOK, BeginLoad, cleanVars, persistVars
<1>10. CASE OpenCompiled \/ CreateShm
  BY <1>10 DEF TypeOK, OpenCompiled, CreateShm, OperationFails, PostClean, cleanVars, persistVars
<1>11. CASE Materialize
  <2>1. disk["compiled"].gen \in Generations
    BY DEF TypeOK
  <2> QED
    BY <1>11, <2>1 DEF TypeOK, Materialize, OperationFails, PostClean, cleanVars, persistVars
<1>12. CASE Unload
  BY <1>12 DEF TypeOK, Unload, cleanVars, persistVars
<1>13. CASE Build
  <2>1. baseline' \in SUBSET Files
    <3>1. disk \in [Artifacts -> Files]
      BY DEF TypeOK, Files
    <3>2. \A required \in Baselines : {disk[a] : a \in required} \in SUBSET Files
      BY <3>1 DEF Baselines
    <3> QED
      BY <1>13, <3>2 DEF Build
  <2> QED
    BY <1>13, <2>1 DEF TypeOK, Build, Files, cleanVars, persistVars
<1>14. CASE Crash
  <2>1. crashes' \in 0..CrashBudget
    BY <1>14 DEF TypeOK, Crash
  <2>2. resident' \in Generations /\ generation' \in Generations
    BY <1>14 DEF TypeOK, Crash
  <2>3. shm' \in {"free", "ours", "orphan"}
    BY <1>14 DEF TypeOK, Crash
  <2>4. toClean' \subseteq Artifacts /\ refused' \in BOOLEAN
    BY <1>14 DEF Crash
  <2>5. baseline' \in SUBSET [content : Contents, gen : Generations]
    BY <1>14 DEF Crash
  <2>6. NoJob
    BY <1>14 DEF Crash
  <2> QED
    BY <1>14, <2>1, <2>2, <2>3, <2>4, <2>5, <2>6, NoJobTypes DEF TypeOK, Crash
<1>15. CASE UNCHANGED vars
  BY <1>15 DEF TypeOK, vars, cleanVars, persistVars
<1>16. CASE \E o \in FullOps : LayoutFails(o)
  <2>1. PICK o \in FullOps : LayoutFails(o)
    BY <1>16
  <2>2. baseline' \in SUBSET [content : Contents, gen : Generations]
    BY <2>1 DEF LayoutFails
  <2>3. op' \in {"publish", "rebuild"}
    BY <2>1 DEF LayoutFails, FullOps
  <2> QED
    BY <2>1, <2>2, <2>3 DEF TypeOK, LayoutFails, cleanVars, persistVars
<1> QED
  BY <1>1, <1>2, <1>3, <1>4, <1>5, <1>6, <1>7, <1>8, <1>9, <1>10, <1>11, <1>12, <1>13, <1>14,
     <1>15, <1>16 DEF Next

LEMMA TypeInit == Init => TypeOK
<1> SUFFICES ASSUME Init PROVE TypeOK
  OBVIOUS
<1>1. disk \in [Artifacts -> [content : Contents, gen : Generations]]
  BY AbsentType DEF Init, Files
<1>2. baseline \in SUBSET [content : Contents, gen : Generations]
  BY DEF Init
<1>3. toClean \subseteq Artifacts /\ refused \in BOOLEAN /\ lanes \subseteq 0..3
  BY DEF Init
<1>4. crashes \in 0..CrashBudget /\ generation \in Generations /\ resident \in Generations
  BY BoundsAssumption DEF Init
<1> QED
  BY <1>1, <1>2, <1>3, <1>4 DEF Init, TypeOK

\* Every variable keeps its type in every behaviour, for every constant.
THEOREM TypeCorrect == Spec => []TypeOK
  BY TypeInit, TypeStep, PTL DEF Spec

-----------------------------------------------------------------------------
(***************************************************************************)
(* The inductive invariants.  DiskInv says what the control thread knows   *)
(* of the disk at each of its steps: what the cleanup has visited is gone, *)
(* a construction starts on an empty directory, and from then on every     *)
(* file is of its own generation.  ResidentInv says who owns the shared    *)
(* memory name and that a resident Project excludes every step that        *)
(* touches the disk.                                                       *)
(***************************************************************************)

OneGeneration(d) ==
  \A a, b \in Artifacts : d[a] # Absent /\ d[b] # Absent => d[a].gen = d[b].gen

Numbered(d) == \A a \in Artifacts : d[a].content # "absent" => d[a].gen > 0

DiskInv ==
  /\ OneGeneration(disk)
  /\ Numbered(disk)
  /\ disk["compiled"].content # "torn"
  /\ pc \in {"preclean", "construct", "persist"} => generation > 0
  /\ pc \in {"preclean", "postclean"} /\ ~refused =>
       \A a \in Artifacts : a \notin toClean => disk[a] = Absent
  /\ pc = "construct" => \A a \in Artifacts : disk[a] = Absent
  /\ pc = "persist" => \A a \in Artifacts : disk[a] # Absent => disk[a].gen = generation
  /\ pc \in {"shm", "materialize"} => disk["compiled"].content = "whole"
  /\ pc = "idle" /\ op \in FullOps /\ status = "failed" =>
       \A a \in Artifacts : disk[a] = Absent

ResidentInv ==
  /\ resident # 0 => pc = "idle" /\ disk["compiled"] = File("whole", resident)
  /\ shm = "ours" <=> resident # 0 \/ pc = "materialize"

IInv == TypeOK /\ DiskInv /\ ResidentInv

LEMMA IInvInit == Init => IInv
  BY TypeInit, AbsentType DEF Init, IInv, DiskInv, ResidentInv, OneGeneration, Numbered

\* What DiskInv says of the directory d while the artifacts are persisted.
Persisting(d) ==
  /\ OneGeneration(d) /\ Numbered(d)
  /\ d["compiled"].content # "torn"
  /\ \A b \in Artifacts : d[b] # Absent => d[b].gen = generation

\* A content that a step of the persistence may leave artifact a with.
MayHold(a, c) == c \in {"blank", "torn", "whole"} /\ (a = "compiled" => c # "torn")

\* Writing a file of the current generation into a directory that holds no other.
LEMMA Written ==
  ASSUME TypeOK, DiskInv, pc = "persist", NEW a \in Artifacts, NEW c, MayHold(a, c),
         NEW d, d = [disk EXCEPT ![a] = File(c, generation)]
  PROVE  Persisting(d)
<1>0. c \in {"blank", "torn", "whole"} /\ (a = "compiled" => c # "torn")
  BY DEF MayHold
<1>1. File(c, generation).content = c /\ File(c, generation).gen = generation
  BY <1>0, FileType DEF TypeOK
<1>2. generation > 0
  BY DEF DiskInv
<1>3. \A b \in Artifacts : d[b] = IF b = a THEN File(c, generation) ELSE disk[b]
  BY DEF TypeOK
<1>4. \A b \in Artifacts : d[b] # Absent => d[b].gen = generation
  BY <1>1, <1>3 DEF DiskInv
<1> QED
  BY <1>0, <1>1, <1>2, <1>3, <1>4 DEF DiskInv, Persisting, OneGeneration, Numbered

LEMMA PersistKeeps ==
  ASSUME IInv, NEW a \in Artifacts,
         Create(a) \/ EncodeHeader(a) \/ EncodeRest(a) \/ ValidateAndFlush(a)
  PROVE  DiskInv' /\ ResidentInv'
<1>1. pc = "persist" /\ pc' = "persist" /\ resident = 0
  BY DEF IInv, ResidentInv, Create, EncodeHeader, EncodeRest, ValidateAndFlush, MayPersist,
         unchangedByPersist
<1>2. UNCHANGED <<resident, shm, generation>>
  BY DEF Create, EncodeHeader, EncodeRest, ValidateAndFlush, unchangedByPersist
<1>3. ResidentInv'
  BY <1>1, <1>2 DEF IInv, ResidentInv
<1>4. \/ disk' = disk
      \/ \E c : MayHold(a, c) /\ disk' = [disk EXCEPT ![a] = File(c, generation)]
  BY DEF Create, EncodeHeader, EncodeRest, ValidateAndFlush, HeaderFirst, MayHold
<1>5. Persisting(disk')
  <2>0. TypeOK /\ DiskInv
    BY DEF IInv
  <2>1. CASE disk' = disk
    BY <1>1, <2>0, <2>1 DEF DiskInv, Persisting
  <2>2. CASE disk' # disk
    <3>1. PICK c : MayHold(a, c) /\ disk' = [disk EXCEPT ![a] = File(c, generation)]
      BY <1>4, <2>2
    <3> QED
      BY <1>1, <2>0, <3>1, Written
  <2> QED
    BY <2>1, <2>2
<1>6. generation > 0
  BY <1>1 DEF IInv, DiskInv
<1> QED
  BY <1>1, <1>2, <1>3, <1>5, <1>6 DEF DiskInv, Persisting, OneGeneration, Numbered

LEMMA RemoveKeeps ==
  ASSUME IInv, NEW a \in Artifacts, RemoveArtifact(a)
  PROVE  DiskInv' /\ ResidentInv'
<1>1. pc \in {"preclean", "postclean"} /\ pc' = pc /\ resident = 0
  BY DEF IInv, ResidentInv, RemoveArtifact
<1>2. ResidentInv'
  BY <1>1 DEF IInv, ResidentInv, RemoveArtifact
<1>3. \A b \in Artifacts : disk'[b] = disk[b] \/ disk'[b] = Absent
  BY DEF IInv, TypeOK, RemoveArtifact
<1>4. OneGeneration(disk') /\ Numbered(disk') /\ disk'["compiled"].content # "torn"
  BY <1>3, AbsentType DEF IInv, DiskInv, OneGeneration, Numbered
<1>5. ~refused' => \A b \in Artifacts : b \notin toClean' => disk'[b] = Absent
  BY <1>1, <1>3 DEF IInv, TypeOK, DiskInv, RemoveArtifact
<1>6. pc' = "preclean" => generation' > 0
  BY <1>1 DEF IInv, DiskInv, RemoveArtifact
<1> QED
  BY <1>1, <1>2, <1>4, <1>5, <1>6 DEF DiskInv, OneGeneration, Numbered

LEMMA IInvStep == IInv /\ [Next]_vars => IInv'
<1> SUFFICES ASSUME IInv, [Next]_vars PROVE IInv'
  OBVIOUS
<1>0. TypeOK'
  BY TypeStep DEF IInv
<1> SUFFICES DiskInv' /\ ResidentInv'
  BY <1>0 DEF IInv
<1> USE DEF OneGeneration, Numbered
<1>1. CASE \E o \in FullOps : Begin(o)
  BY <1>1 DEF IInv, TypeOK, DiskInv, ResidentInv, Begin
<1>2. CASE \E a \in Artifacts : RemoveArtifact(a)
  BY <1>2, RemoveKeeps
<1>3. CASE \E a \in Artifacts : Create(a) \/ EncodeHeader(a) \/ EncodeRest(a) \/ ValidateAndFlush(a)
  BY <1>3, PersistKeeps
<1>4. CASE PreCleanDone
  BY <1>4 DEF IInv, TypeOK, DiskInv, ResidentInv, PreCleanDone
<1>5. CASE ConstructFails
  BY <1>5 DEF IInv, DiskInv, ResidentInv, ConstructFails, PostClean
<1>6. CASE \E n \in 1..MaxLanes : Dispatch(n)
  BY <1>6 DEF IInv, DiskInv, ResidentInv, Dispatch
<1>7. CASE DispatchFailed
  BY <1>7 DEF IInv, DiskInv, ResidentInv, DispatchFailed
<1>8. CASE PersistDone
  BY <1>8 DEF IInv, DiskInv, ResidentInv, PersistDone, PostClean
<1>9. CASE PostCleanDone
  BY <1>9 DEF IInv, DiskInv, ResidentInv, PostCleanDone
<1>10. CASE BeginLoad
  BY <1>10 DEF IInv, DiskInv, ResidentInv, BeginLoad
<1>11. CASE OpenCompiled
  BY <1>11 DEF IInv, TypeOK, DiskInv, ResidentInv, OpenCompiled, OperationFails, PostClean, Binds
<1>12. CASE CreateShm
  BY <1>12 DEF IInv, DiskInv, ResidentInv, CreateShm, OperationFails, PostClean
<1>13. CASE Materialize
  <2>1. resident = 0 /\ disk["compiled"].content = "whole" /\ shm = "ours" /\ UNCHANGED disk
    BY <1>13 DEF IInv, DiskInv, ResidentInv, Materialize
  <2>2. disk["compiled"] = File("whole", disk["compiled"].gen) /\ disk["compiled"].gen > 0
    BY <2>1 DEF IInv, TypeOK, DiskInv, File
  <2>3. CASE resident' = disk["compiled"].gen /\ pc' = "idle" /\ status' = "success"
             /\ UNCHANGED <<shm, cleanVars>>
    BY <1>13, <2>1, <2>2, <2>3 DEF IInv, TypeOK, DiskInv, ResidentInv, Materialize, cleanVars
  <2>4. CASE OperationFails /\ shm' = "free" /\ UNCHANGED resident
    BY <1>13, <2>1, <2>4 DEF IInv, DiskInv, ResidentInv, Materialize, OperationFails, PostClean
  <2> QED
    BY <1>13, <2>3, <2>4 DEF Materialize
<1>14. CASE Unload
  BY <1>14 DEF IInv, DiskInv, ResidentInv, Unload
<1>15. CASE Build
  BY <1>15 DEF IInv, DiskInv, ResidentInv, Build
<1>16. CASE Crash
  BY <1>16 DEF IInv, TypeOK, DiskInv, ResidentInv, Crash
<1>17. CASE UNCHANGED vars
  BY <1>17 DEF IInv, DiskInv, ResidentInv, vars, cleanVars, persistVars
<1>18. CASE \E o \in FullOps : LayoutFails(o)
  BY <1>18 DEF IInv, DiskInv, ResidentInv, LayoutFails, cleanVars
<1> QED
  BY <1>1, <1>2, <1>3, <1>4, <1>5, <1>6, <1>7, <1>8, <1>9, <1>10, <1>11, <1>12, <1>13, <1>14,
     <1>15, <1>16, <1>17, <1>18 DEF Next

\* The inductive invariant holds in every behaviour.
THEOREM Invariance == Spec => []IInv
  BY IInvInit, IInvStep, PTL DEF Spec

\* Files of two generations never lie side by side: the pre-clean, its early
\* return and the order of the steps are enough, whatever fails or is killed.
THEOREM GenerationsNeverMix == Spec => []NoMixedGenerations
<1>1. IInv => NoMixedGenerations
  BY DEF IInv, DiskInv, OneGeneration, NoMixedGenerations, Present
<1> QED
  BY <1>1, Invariance, PTL

\* The compiled.bin behind a resident Project is complete and stays as it is.
THEOREM ResidentFileUntouched == Spec => []ResidentMatchesDisk
<1>1. IInv => ResidentMatchesDisk
  BY DEF IInv, ResidentInv, ResidentMatchesDisk
<1> QED
  BY <1>1, Invariance, PTL

\* A full construction that reports failure, other than of a cleanup or of the
\* artifacts' paths, has left no artifact.
THEOREM FailuresClean == Spec => []FailureLeavesNothing
<1>1. IInv => FailureLeavesNothing
  BY DEF IInv, DiskInv, FailureLeavesNothing, Present
<1> QED
  BY <1>1, Invariance, PTL

\* The shared memory name is ours exactly while a Project is resident.
THEOREM ShmExact == Spec => []ShmOwned
<1>1. IInv => ShmOwned
  BY DEF IInv, ResidentInv, ShmOwned
<1> QED
  BY <1>1, Invariance, PTL

=============================================================================
