-------------------------- MODULE RuntimeIcProofs ---------------------------
(***************************************************************************)
(* The commands on the initial conditions of a Runtime, for every Project  *)
(* a construction accepts, any versions of it and any snapshots: what a    *)
(* path resolves to is a scalar with the type and the flags the commands   *)
(* are told, the reset with the cached prefix plans what resolving each    *)
(* record alone plans, a snapshot comes back as it was taken and holds     *)
(* every path that names a scalar once, and GET_VALUE agrees with both.    *)
(*                                                                         *)
(* What a recursive function gives is shown by induction on its argument   *)
(* (LeastNat, UpTo); that it exists is shown once for each of them.        *)
(***************************************************************************)
EXTENDS RuntimeIc, Integers, FiniteSetTheorems, SequenceTheorems, WellFoundedInduction, TLAPS

\* A set of numbers that is not empty has a least one.
LEMMA LeastNat ==
  ASSUME NEW T \in SUBSET Nat, T # {}
  PROVE  \E n \in T : \A m \in T : n <= m
<1> DEFINE R == {pair \in Nat \X Nat : pair[1] < pair[2]}
<1>1. IsWellFoundedOn(OpToRel(<, Nat), Nat)
  BY NatLessThanWellFounded
<1>2. OpToRel(<, Nat) = R
  BY DEF OpToRel
<1>3. IsWellFoundedOn(R, Nat)
  BY <1>1, <1>2
<1>4. \A m, n \in Nat : m < n => <<m, n>> \in R
  OBVIOUS
<1> HIDE DEF R
<1>5. PICK n \in T : \A m \in T : ~(<<m, n>> \in R)
  BY <1>3, WFMin
<1>6. ASSUME NEW m \in T PROVE n <= m
  <2>1. m \in Nat /\ n \in Nat
    OBVIOUS
  <2>2. ~(m < n)
    BY <1>4, <1>5, <2>1, Zenon
  <2>3. QED
    BY <2>1, <2>2
<1>7. QED
  BY <1>6

\* What holds of 0 and goes on from each number holds up to any bound.
LEMMA UpTo ==
  ASSUME NEW N \in Nat, NEW S, 0 \in S, \A n \in Nat : n < N /\ n \in S => n + 1 \in S
  PROVE  \A n \in 0..N : n \in S
<1> DEFINE T == {n \in Nat : n <= N /\ n \notin S}
<1>1. SUFFICES ASSUME T # {} PROVE FALSE
  OBVIOUS
<1>2. PICK n \in T : \A m \in T : n <= m
  BY <1>1, LeastNat
<1>3. n # 0
  OBVIOUS
<1>4. n - 1 \in Nat /\ n - 1 \notin T /\ n - 1 < N
  BY <1>2, <1>3
<1>5. n - 1 \in S
  BY <1>4
<1>6. QED
  BY <1>4, <1>5

-----------------------------------------------------------------------------
(***************************************************************************)
(* The recursive functions                                                 *)
(***************************************************************************)

SearchBy(s, name, g, n) ==
  [t \in DOMAIN s.types |->
     IF n = 0 THEN Outcome("invalid") ELSE SearchRecord(s.types[t], name, g[n - 1])]

\* A function with the values of each recursion exists, and any such function has
\* them.
LEMMA SearchExists ==
  ASSUME NEW s, NEW name, NEW N \in Nat
  PROVE  \E g : g = [n \in 0..N |-> SearchBy(s, name, g, n)]
<1> DEFINE By(g, n) == SearchBy(s, name, g, n)
           T == {m \in Nat : ~\E g : g = [n \in 0..m |-> By(g, n)]}
<1>1. \A g, h, n : (n # 0 => g[n - 1] = h[n - 1]) => By(g, n) = By(h, n)
  BY DEF SearchBy
<1>2. \A g, h : By(g, 0) = By(h, 0)
  BY DEF SearchBy
<1> HIDE DEF By
<1>3. SUFFICES ASSUME T # {} PROVE FALSE
  BY DEF By
<1>4. PICK m \in T : \A i \in T : m <= i
  BY <1>3, LeastNat
<1>5. m # 0
  <2> DEFINE g == [n \in 0..0 |-> By(<<>>, 0)]
  <2>1. g = [n \in 0..0 |-> By(g, n)]
    BY <1>2
  <2>2. QED
    BY <2>1
<1>6. m - 1 \in Nat /\ m - 1 \notin T
  BY <1>4, <1>5
<1>7. PICK g : g = [n \in 0..(m - 1) |-> By(g, n)]
  BY <1>6
<1> DEFINE h == [n \in 0..m |-> IF n = m THEN By(g, m) ELSE g[n]]
<1>8. h = [n \in 0..m |-> By(h, n)]
  <2>1. ASSUME NEW n \in 0..m PROVE h[n] = By(h, n)
    <3>1. n # 0 => n - 1 \in 0..m /\ n - 1 # m
      OBVIOUS
    <3>2. n # 0 => h[n - 1] = g[n - 1]
      BY <3>1
    <3>3. By(h, n) = By(g, n)
      BY <1>1, <3>2
    <3>4. h[n] = By(g, n)
      <4>1. n # m => n \in 0..(m - 1)
        OBVIOUS
      <4>2. n # m => g[n] = By(g, n)
        BY <1>7, <4>1
      <4>3. QED
        BY <4>2
    <3>5. QED
      BY <3>3, <3>4
  <2>2. h = [n \in 0..m |-> h[n]]
    OBVIOUS
  <2> HIDE DEF h
  <2>3. QED
    BY <2>1, <2>2
<1>9. QED
  BY <1>8

LEMMA SearchValues ==
  ASSUME NEW s, NEW name, NEW N \in Nat, NEW g, g = [n \in 0..N |-> SearchBy(s, name, g, n)]
  PROVE  \A n \in 0..N : g[n] = SearchBy(s, name, g, n)
<1> DEFINE Value(n) == SearchBy(s, name, g, n)
<1>1. g = [n \in 0..N |-> Value(n)]
  OBVIOUS
<1> HIDE DEF Value
<1>2. \A n \in 0..N : g[n] = Value(n)
  BY <1>1
<1>3. QED
  BY <1>2 DEF Value

FollowBy(s, start, names, through, g, n) ==
  IF n = 0 THEN start
  ELSE MemberStep(s, IF through THEN Normalize(g[n - 1]) ELSE g[n - 1], names[n])

\* The same of the states along a path.
LEMMA FollowExists ==
  ASSUME NEW s, NEW start, NEW names, NEW through, NEW N \in Nat
  PROVE  \E g : g = [n \in 0..N |-> FollowBy(s, start, names, through, g, n)]
<1> DEFINE By(g, n) == FollowBy(s, start, names, through, g, n)
           T == {m \in Nat : ~\E g : g = [n \in 0..m |-> By(g, n)]}
<1>1. \A g, h, n : (n # 0 => g[n - 1] = h[n - 1]) => By(g, n) = By(h, n)
  BY DEF FollowBy
<1>2. \A g, h : By(g, 0) = By(h, 0)
  BY DEF FollowBy
<1> HIDE DEF By
<1>3. SUFFICES ASSUME T # {} PROVE FALSE
  BY DEF By
<1>4. PICK m \in T : \A i \in T : m <= i
  BY <1>3, LeastNat
<1>5. m # 0
  <2> DEFINE g == [n \in 0..0 |-> By(<<>>, 0)]
  <2>1. g = [n \in 0..0 |-> By(g, n)]
    BY <1>2
  <2>2. QED
    BY <2>1
<1>6. m - 1 \in Nat /\ m - 1 \notin T
  BY <1>4, <1>5
<1>7. PICK g : g = [n \in 0..(m - 1) |-> By(g, n)]
  BY <1>6
<1> DEFINE h == [n \in 0..m |-> IF n = m THEN By(g, m) ELSE g[n]]
<1>8. h = [n \in 0..m |-> By(h, n)]
  <2>1. ASSUME NEW n \in 0..m PROVE h[n] = By(h, n)
    <3>1. n # 0 => n - 1 \in 0..m /\ n - 1 # m
      OBVIOUS
    <3>2. n # 0 => h[n - 1] = g[n - 1]
      BY <3>1
    <3>3. By(h, n) = By(g, n)
      BY <1>1, <3>2
    <3>4. h[n] = By(g, n)
      <4>1. n # m => n \in 0..(m - 1)
        OBVIOUS
      <4>2. n # m => g[n] = By(g, n)
        BY <1>7, <4>1
      <4>3. QED
        BY <4>2
    <3>5. QED
      BY <3>3, <3>4
  <2>2. h = [n \in 0..m |-> h[n]]
    OBVIOUS
  <2> HIDE DEF h
  <2>3. QED
    BY <2>1, <2>2
<1>9. QED
  BY <1>8

LEMMA FollowValues ==
  ASSUME NEW s, NEW start, NEW names, NEW through, NEW N \in Nat, NEW g, g = [n \in 0..N |-> FollowBy(s, start, names, through, g, n)]
  PROVE  \A n \in 0..N : g[n] = FollowBy(s, start, names, through, g, n)
<1> DEFINE Value(n) == FollowBy(s, start, names, through, g, n)
<1>1. g = [n \in 0..N |-> Value(n)]
  OBVIOUS
<1> HIDE DEF Value
<1>2. \A n \in 0..N : g[n] = Value(n)
  BY <1>1
<1>3. QED
  BY <1>2 DEF Value

WalkBy(s, g, n) ==
  [t \in DOMAIN s.types |->
     IF n = 0 THEN <<>> ELSE WalkRecord(NamedType(t), s.types[t], g[n - 1])]

\* The same of the levels of the walk.
LEMMA WalkExists ==
  ASSUME NEW s, NEW N \in Nat
  PROVE  \E g : g = [n \in 0..N |-> WalkBy(s, g, n)]
<1> DEFINE By(g, n) == WalkBy(s, g, n)
           T == {m \in Nat : ~\E g : g = [n \in 0..m |-> By(g, n)]}
<1>1. \A g, h, n : (n # 0 => g[n - 1] = h[n - 1]) => By(g, n) = By(h, n)
  BY DEF WalkBy
<1>2. \A g, h : By(g, 0) = By(h, 0)
  BY DEF WalkBy
<1> HIDE DEF By
<1>3. SUFFICES ASSUME T # {} PROVE FALSE
  BY DEF By
<1>4. PICK m \in T : \A i \in T : m <= i
  BY <1>3, LeastNat
<1>5. m # 0
  <2> DEFINE g == [n \in 0..0 |-> By(<<>>, 0)]
  <2>1. g = [n \in 0..0 |-> By(g, n)]
    BY <1>2
  <2>2. QED
    BY <2>1
<1>6. m - 1 \in Nat /\ m - 1 \notin T
  BY <1>4, <1>5
<1>7. PICK g : g = [n \in 0..(m - 1) |-> By(g, n)]
  BY <1>6
<1> DEFINE h == [n \in 0..m |-> IF n = m THEN By(g, m) ELSE g[n]]
<1>8. h = [n \in 0..m |-> By(h, n)]
  <2>1. ASSUME NEW n \in 0..m PROVE h[n] = By(h, n)
    <3>1. n # 0 => n - 1 \in 0..m /\ n - 1 # m
      OBVIOUS
    <3>2. n # 0 => h[n - 1] = g[n - 1]
      BY <3>1
    <3>3. By(h, n) = By(g, n)
      BY <1>1, <3>2
    <3>4. h[n] = By(g, n)
      <4>1. n # m => n \in 0..(m - 1)
        OBVIOUS
      <4>2. n # m => g[n] = By(g, n)
        BY <1>7, <4>1
      <4>3. QED
        BY <4>2
    <3>5. QED
      BY <3>3, <3>4
  <2>2. h = [n \in 0..m |-> h[n]]
    OBVIOUS
  <2> HIDE DEF h
  <2>3. QED
    BY <2>1, <2>2
<1>9. QED
  BY <1>8

LEMMA WalkValues ==
  ASSUME NEW s, NEW N \in Nat, NEW g, g = [n \in 0..N |-> WalkBy(s, g, n)]
  PROVE  \A n \in 0..N : g[n] = WalkBy(s, g, n)
<1> DEFINE Value(n) == WalkBy(s, g, n)
<1>1. g = [n \in 0..N |-> Value(n)]
  OBVIOUS
<1> HIDE DEF Value
<1>2. \A n \in 0..N : g[n] = Value(n)
  BY <1>1
<1>3. QED
  BY <1>2 DEF Value

StatesBy(s, image, g, n) ==
  IF n = 0 THEN <<>>
  ELSE PathStates(s, IF n = 1 THEN NoCache ELSE Cached(image.records[n - 1], g[n - 1]),
                  image.records[n], image.strings)

\* The same of the states that a reset keeps.
LEMMA StatesExist ==
  ASSUME NEW s, NEW image, NEW N \in Nat
  PROVE  \E g : g = [n \in 0..N |-> StatesBy(s, image, g, n)]
<1> DEFINE By(g, n) == StatesBy(s, image, g, n)
           T == {m \in Nat : ~\E g : g = [n \in 0..m |-> By(g, n)]}
<1>1. \A g, h, n : (n # 0 => g[n - 1] = h[n - 1]) => By(g, n) = By(h, n)
  BY DEF StatesBy
<1>2. \A g, h : By(g, 0) = By(h, 0)
  BY DEF StatesBy
<1> HIDE DEF By
<1>3. SUFFICES ASSUME T # {} PROVE FALSE
  BY DEF By
<1>4. PICK m \in T : \A i \in T : m <= i
  BY <1>3, LeastNat
<1>5. m # 0
  <2> DEFINE g == [n \in 0..0 |-> By(<<>>, 0)]
  <2>1. g = [n \in 0..0 |-> By(g, n)]
    BY <1>2
  <2>2. QED
    BY <2>1
<1>6. m - 1 \in Nat /\ m - 1 \notin T
  BY <1>4, <1>5
<1>7. PICK g : g = [n \in 0..(m - 1) |-> By(g, n)]
  BY <1>6
<1> DEFINE h == [n \in 0..m |-> IF n = m THEN By(g, m) ELSE g[n]]
<1>8. h = [n \in 0..m |-> By(h, n)]
  <2>1. ASSUME NEW n \in 0..m PROVE h[n] = By(h, n)
    <3>1. n # 0 => n - 1 \in 0..m /\ n - 1 # m
      OBVIOUS
    <3>2. n # 0 => h[n - 1] = g[n - 1]
      BY <3>1
    <3>3. By(h, n) = By(g, n)
      BY <1>1, <3>2
    <3>4. h[n] = By(g, n)
      <4>1. n # m => n \in 0..(m - 1)
        OBVIOUS
      <4>2. n # m => g[n] = By(g, n)
        BY <1>7, <4>1
      <4>3. QED
        BY <4>2
    <3>5. QED
      BY <3>3, <3>4
  <2>2. h = [n \in 0..m |-> h[n]]
    OBVIOUS
  <2> HIDE DEF h
  <2>3. QED
    BY <2>1, <2>2
<1>9. QED
  BY <1>8

LEMMA StatesValues ==
  ASSUME NEW s, NEW image, NEW N \in Nat, NEW g, g = [n \in 0..N |-> StatesBy(s, image, g, n)]
  PROVE  \A n \in 0..N : g[n] = StatesBy(s, image, g, n)
<1> DEFINE Value(n) == StatesBy(s, image, g, n)
<1>1. g = [n \in 0..N |-> Value(n)]
  OBVIOUS
<1> HIDE DEF Value
<1>2. \A n \in 0..N : g[n] = Value(n)
  BY <1>1
<1>3. QED
  BY <1>2 DEF Value

LevelBy(s, g, n) ==
  IF n = 0 THEN ObjectPlaces(s) ELSE UNION {PartsOf(s, p) : p \in g[n - 1]}

\* The same of the levels of places.
LEMMA LevelsExist ==
  ASSUME NEW s, NEW N \in Nat
  PROVE  \E g : g = [n \in 0..N |-> LevelBy(s, g, n)]
<1> DEFINE By(g, n) == LevelBy(s, g, n)
           T == {m \in Nat : ~\E g : g = [n \in 0..m |-> By(g, n)]}
<1>1. \A g, h, n : (n # 0 => g[n - 1] = h[n - 1]) => By(g, n) = By(h, n)
  BY DEF LevelBy
<1>2. \A g, h : By(g, 0) = By(h, 0)
  BY DEF LevelBy
<1> HIDE DEF By
<1>3. SUFFICES ASSUME T # {} PROVE FALSE
  BY DEF By
<1>4. PICK m \in T : \A i \in T : m <= i
  BY <1>3, LeastNat
<1>5. m # 0
  <2> DEFINE g == [n \in 0..0 |-> By(<<>>, 0)]
  <2>1. g = [n \in 0..0 |-> By(g, n)]
    BY <1>2
  <2>2. QED
    BY <2>1
<1>6. m - 1 \in Nat /\ m - 1 \notin T
  BY <1>4, <1>5
<1>7. PICK g : g = [n \in 0..(m - 1) |-> By(g, n)]
  BY <1>6
<1> DEFINE h == [n \in 0..m |-> IF n = m THEN By(g, m) ELSE g[n]]
<1>8. h = [n \in 0..m |-> By(h, n)]
  <2>1. ASSUME NEW n \in 0..m PROVE h[n] = By(h, n)
    <3>1. n # 0 => n - 1 \in 0..m /\ n - 1 # m
      OBVIOUS
    <3>2. n # 0 => h[n - 1] = g[n - 1]
      BY <3>1
    <3>3. By(h, n) = By(g, n)
      BY <1>1, <3>2
    <3>4. h[n] = By(g, n)
      <4>1. n # m => n \in 0..(m - 1)
        OBVIOUS
      <4>2. n # m => g[n] = By(g, n)
        BY <1>7, <4>1
      <4>3. QED
        BY <4>2
    <3>5. QED
      BY <3>3, <3>4
  <2>2. h = [n \in 0..m |-> h[n]]
    OBVIOUS
  <2> HIDE DEF h
  <2>3. QED
    BY <2>1, <2>2
<1>9. QED
  BY <1>8

LEMMA LevelValues ==
  ASSUME NEW s, NEW N \in Nat, NEW g, g = [n \in 0..N |-> LevelBy(s, g, n)]
  PROVE  \A n \in 0..N : g[n] = LevelBy(s, g, n)
<1> DEFINE Value(n) == LevelBy(s, g, n)
<1>1. g = [n \in 0..N |-> Value(n)]
  OBVIOUS
<1> HIDE DEF Value
<1>2. \A n \in 0..N : g[n] = Value(n)
  BY <1>1
<1>3. QED
  BY <1>2 DEF Value

JoinBy(seqs, g, n) ==
  IF n = 0 THEN <<>> ELSE g[n - 1] \o seqs[n]

\* The same of the joins of sequences.
LEMMA JoinExists ==
  ASSUME NEW seqs, NEW N \in Nat
  PROVE  \E g : g = [n \in 0..N |-> JoinBy(seqs, g, n)]
<1> DEFINE By(g, n) == JoinBy(seqs, g, n)
           T == {m \in Nat : ~\E g : g = [n \in 0..m |-> By(g, n)]}
<1>1. \A g, h, n : (n # 0 => g[n - 1] = h[n - 1]) => By(g, n) = By(h, n)
  BY DEF JoinBy
<1>2. \A g, h : By(g, 0) = By(h, 0)
  BY DEF JoinBy
<1> HIDE DEF By
<1>3. SUFFICES ASSUME T # {} PROVE FALSE
  BY DEF By
<1>4. PICK m \in T : \A i \in T : m <= i
  BY <1>3, LeastNat
<1>5. m # 0
  <2> DEFINE g == [n \in 0..0 |-> By(<<>>, 0)]
  <2>1. g = [n \in 0..0 |-> By(g, n)]
    BY <1>2
  <2>2. QED
    BY <2>1
<1>6. m - 1 \in Nat /\ m - 1 \notin T
  BY <1>4, <1>5
<1>7. PICK g : g = [n \in 0..(m - 1) |-> By(g, n)]
  BY <1>6
<1> DEFINE h == [n \in 0..m |-> IF n = m THEN By(g, m) ELSE g[n]]
<1>8. h = [n \in 0..m |-> By(h, n)]
  <2>1. ASSUME NEW n \in 0..m PROVE h[n] = By(h, n)
    <3>1. n # 0 => n - 1 \in 0..m /\ n - 1 # m
      OBVIOUS
    <3>2. n # 0 => h[n - 1] = g[n - 1]
      BY <3>1
    <3>3. By(h, n) = By(g, n)
      BY <1>1, <3>2
    <3>4. h[n] = By(g, n)
      <4>1. n # m => n \in 0..(m - 1)
        OBVIOUS
      <4>2. n # m => g[n] = By(g, n)
        BY <1>7, <4>1
      <4>3. QED
        BY <4>2
    <3>5. QED
      BY <3>3, <3>4
  <2>2. h = [n \in 0..m |-> h[n]]
    OBVIOUS
  <2> HIDE DEF h
  <2>3. QED
    BY <2>1, <2>2
<1>9. QED
  BY <1>8

LEMMA JoinValues ==
  ASSUME NEW seqs, NEW N \in Nat, NEW g, g = [n \in 0..N |-> JoinBy(seqs, g, n)]
  PROVE  \A n \in 0..N : g[n] = JoinBy(seqs, g, n)
<1> DEFINE Value(n) == JoinBy(seqs, g, n)
<1>1. g = [n \in 0..N |-> Value(n)]
  OBVIOUS
<1> HIDE DEF Value
<1>2. \A n \in 0..N : g[n] = Value(n)
  BY <1>1
<1>3. QED
  BY <1>2 DEF Value

-----------------------------------------------------------------------------
(***************************************************************************)
(* Sequences                                                               *)
(***************************************************************************)

\* A sequence is one of its own elements.
LEMMA OwnElements == ASSUME NEW S, NEW q \in Seq(S) PROVE q \in Seq(ToSet(q)) /\ ToSet(q) \subseteq S
<1>1. q \in [1..Len(q) -> ToSet(q)] /\ Len(q) \in Nat
  BY DEF ToSet
<1>2. QED
  BY <1>1, SeqDef DEF ToSet

\* A join has the elements of both.
LEMMA JoinedElements ==
  ASSUME NEW S, NEW q \in Seq(S), NEW r \in Seq(S)
  PROVE  /\ q \o r \in Seq(S)
         /\ \A x : x \in ToSet(q \o r) <=> x \in ToSet(q) \/ x \in ToSet(r)
<1>1. /\ q \o r \in Seq(S) /\ Len(q \o r) = Len(q) + Len(r)
      /\ Len(q) \in Nat /\ Len(r) \in Nat
      /\ DOMAIN (q \o r) = 1..(Len(q) + Len(r))
      /\ DOMAIN q = 1..Len(q) /\ DOMAIN r = 1..Len(r)
      /\ \A i \in 1..(Len(q) + Len(r)) :
            (q \o r)[i] = IF i <= Len(q) THEN q[i] ELSE r[i - Len(q)]
  OBVIOUS
<1>2. ASSUME NEW x, x \in ToSet(q \o r) PROVE x \in ToSet(q) \/ x \in ToSet(r)
  <2>1. PICK i \in 1..(Len(q) + Len(r)) : x = (q \o r)[i]
    BY <1>1, <1>2 DEF ToSet
  <2>2. i <= Len(q) => i \in 1..Len(q)
    BY <1>1
  <2>3. ~(i <= Len(q)) => i - Len(q) \in 1..Len(r)
    BY <1>1
  <2>4. QED
    BY <1>1, <2>1, <2>2, <2>3 DEF ToSet
<1>3. ASSUME NEW x, x \in ToSet(q) PROVE x \in ToSet(q \o r)
  <2>1. PICK i \in 1..Len(q) : x = q[i]
    BY <1>1, <1>3 DEF ToSet
  <2>2. i \in 1..(Len(q) + Len(r)) /\ i <= Len(q)
    BY <1>1
  <2>3. QED
    BY <1>1, <2>1, <2>2 DEF ToSet
<1>4. ASSUME NEW x, x \in ToSet(r) PROVE x \in ToSet(q \o r)
  <2>1. PICK i \in 1..Len(r) : x = r[i]
    BY <1>1, <1>4 DEF ToSet
  <2>2. Len(q) + i \in 1..(Len(q) + Len(r)) /\ ~(Len(q) + i <= Len(q)) /\ (Len(q) + i) - Len(q) = i
    BY <1>1
  <2>3. QED
    BY <1>1, <2>1, <2>2 DEF ToSet
<1>5. QED
  BY <1>1, <1>2, <1>3, <1>4

\* The function FlattenSeq is defined with.
Flattened(g, seqs) ==
  g = [i \in 1..Len(seqs) |-> IF i = 1 THEN seqs[i] ELSE g[i - 1] \o seqs[i]]

\* The whole is built part by part.
JoinsUp(h, seqs) ==
  /\ h[0] = <<>> /\ \A n \in 1..Len(seqs) : h[n] = h[n - 1] \o seqs[n]
  /\ FlattenSeq(seqs) = h[Len(seqs)]

\* FlattenSeq joins one sequence after the other.
LEMMA FlattenSteps ==
  ASSUME NEW S, NEW seqs \in Seq(Seq(S))
  PROVE  \E h : JoinsUp(h, seqs)
<1> DEFINE N == Len(seqs)
<1>1. N \in Nat /\ DOMAIN seqs = 1..N /\ \A i \in 1..N : seqs[i] \in Seq(S)
  OBVIOUS
<1>2. PICK h : h = [n \in 0..N |-> JoinBy(seqs, h, n)]
  BY <1>1, JoinExists
<1>3. /\ h[0] = <<>>
      /\ \A n \in 1..N : h[n] = h[n - 1] \o seqs[n]
  <2> HIDE DEF N
  <2>1. h[0] = JoinBy(seqs, h, 0) /\ \A n \in 1..N : h[n] = JoinBy(seqs, h, n)
    <3>1. \A n \in 0..N : h[n] = JoinBy(seqs, h, n)
      BY <1>1, <1>2, JoinValues
    <3>2. 0 \in 0..N /\ \A n \in 1..N : n \in 0..N
      BY <1>1
    <3>3. QED
      BY <3>1, <3>2
  <2>2. \A n \in 1..N : n # 0
    OBVIOUS
  <2>3. QED
    BY <2>1, <2>2 DEF JoinBy
<1>4. CASE N = 0
  <2>1. seqs = <<>> /\ FlattenSeq(seqs) = seqs
    BY <1>4 DEF FlattenSeq
  <2>2. QED
    BY <1>3, <1>4, <2>1 DEF JoinsUp
<1>5. CASE N # 0
  <2> HIDE DEF N
  <2> DEFINE g == [n \in 1..N |-> h[n]]
  <2>1. Flattened(g, seqs)
    <3>1. ASSUME NEW n \in 1..N PROVE g[n] = IF n = 1 THEN seqs[n] ELSE g[n - 1] \o seqs[n]
      <4>1. CASE n = 1
        <5>1. h[1] = h[1 - 1] \o seqs[1] /\ 1 - 1 = 0 /\ seqs[1] \in Seq(S)
          BY <1>1, <1>3, <4>1
        <5>2. <<>> \o seqs[1] = seqs[1]
          BY <5>1
        <5>3. QED
          BY <1>3, <4>1, <5>1, <5>2
      <4>2. CASE n # 1
        <5>1. n - 1 \in 1..N
          BY <1>1, <4>2
        <5>2. QED
          BY <1>3, <4>2, <5>1
      <4>3. QED
        BY <4>1, <4>2
    <3>2. g = [n \in 1..N |-> g[n]]
      OBVIOUS
    <3> HIDE DEF g
    <3> DEFINE Value(n) == IF n = 1 THEN seqs[n] ELSE g[n - 1] \o seqs[n]
    <3>3. \A n \in 1..N : g[n] = Value(n)
      BY <3>1
    <3> HIDE DEF Value
    <3>4. g = [n \in 1..N |-> Value(n)]
      BY <3>2, <3>3
    <3>5. QED
      BY <3>4 DEF Flattened, Value, N
  <2> HIDE DEF g
  <2> DEFINE f == CHOOSE k : Flattened(k, seqs)
  <2>2. Flattened(f, seqs)
    BY <2>1, Zenon
  <2>3. FlattenSeq(seqs) = f[N]
    BY <1>5, Zenon DEF FlattenSeq, Flattened, N
  <2> HIDE DEF f
  <2> DEFINE Same == {n \in 0..N : n # 0 => f[n] = h[n]}
  <2>4. 0 \in Same
    BY <1>1
  <2>5. ASSUME NEW n \in Nat, n < N, n \in Same PROVE n + 1 \in Same
    <3>1. n + 1 \in 1..N /\ (n + 1) - 1 = n /\ n + 1 \in 0..N
      BY <1>1, <2>5
    <3>2. f[n + 1] = IF n + 1 = 1 THEN seqs[n + 1] ELSE f[n] \o seqs[n + 1]
      <4>1. \A k \in 1..N : f[k] = IF k = 1 THEN seqs[k] ELSE f[k - 1] \o seqs[k]
        <5> DEFINE Value(k) == IF k = 1 THEN seqs[k] ELSE f[k - 1] \o seqs[k]
        <5>1. f = [k \in 1..N |-> Value(k)]
          BY <2>2 DEF Flattened, N
        <5> HIDE DEF Value
        <5>2. \A k \in 1..N : f[k] = Value(k)
          BY <5>1
        <5>3. QED
          BY <5>2 DEF Value
      <4>2. QED
        BY <3>1, <4>1
    <3>3. h[n + 1] = h[n] \o seqs[n + 1] /\ seqs[n + 1] \in Seq(S)
      BY <1>1, <1>3, <3>1
    <3>4. CASE n = 0
      <4>1. <<>> \o seqs[n + 1] = seqs[n + 1]
        BY <3>3
      <4>2. QED
        <5>1. n + 1 = 1 /\ h[n] = <<>>
          BY <1>3, <3>4
        <5>2. f[n + 1] = seqs[n + 1] /\ h[n + 1] = seqs[n + 1]
          BY <3>2, <3>3, <4>1, <5>1
        <5>3. QED
          BY <3>1, <5>2 DEF Same
    <3>5. CASE n # 0
      <4>1. f[n] = h[n] /\ n + 1 # 1
        BY <2>5, <3>5 DEF Same
      <4>2. QED
        BY <3>1, <3>2, <3>3, <4>1 DEF Same
    <3>6. QED
      BY <3>4, <3>5
  <2> HIDE DEF Same
  <2>6. \A n \in 0..N : n \in Same
    BY <1>1, <2>4, <2>5, UpTo
  <2>7. FlattenSeq(seqs) = h[N]
    BY <1>1, <1>5, <2>3, <2>6 DEF Same
  <2>8. QED
    BY <1>3, <2>7 DEF JoinsUp, N
<1>6. QED
  BY <1>4, <1>5

\* The elements of the parts are the elements of the whole.
LEMMA FlattenElements ==
  ASSUME NEW S, NEW seqs \in Seq(Seq(S))
  PROVE  /\ FlattenSeq(seqs) \in Seq(S)
         /\ \A x : x \in ToSet(FlattenSeq(seqs)) <=> \E i \in DOMAIN seqs : x \in ToSet(seqs[i])
<1> DEFINE N == Len(seqs)
           Gathered(q, n) == /\ q \in Seq(S)
                             /\ \A x : x \in ToSet(q) <=> \E i \in 1..n : x \in ToSet(seqs[i])
<1>1. N \in Nat /\ DOMAIN seqs = 1..N /\ \A i \in 1..N : seqs[i] \in Seq(S)
  OBVIOUS
<1>2. PICK h : JoinsUp(h, seqs)
  BY FlattenSteps
<1>3. h[0] = <<>> /\ (\A n \in 1..N : h[n] = h[n - 1] \o seqs[n]) /\ FlattenSeq(seqs) = h[N]
  BY <1>2 DEF JoinsUp
<1> HIDE DEF N
<1> DEFINE Good == {n \in 0..N : Gathered(h[n], n)}
<1>4. 0 \in Good
  <2>1. ToSet(<<>>) = {} /\ <<>> \in Seq(S) /\ 1..0 = {} /\ 0 \in 0..N
    BY <1>1 DEF ToSet
  <2>2. QED
    BY <1>3, <2>1
<1>5. ASSUME NEW n \in Nat, n < N, n \in Good PROVE n + 1 \in Good
  <2>1. n + 1 \in 1..N /\ n + 1 \in 0..N /\ (n + 1) - 1 = n
    BY <1>1, <1>5
  <2>2. h[n + 1] = h[n] \o seqs[n + 1] /\ h[n] \in Seq(S) /\ seqs[n + 1] \in Seq(S)
    BY <1>1, <1>3, <1>5, <2>1
  <2>3. ASSUME NEW x PROVE x \in ToSet(h[n + 1]) <=> \E i \in 1..(n + 1) : x \in ToSet(seqs[i])
    <3>1. x \in ToSet(h[n + 1]) <=> x \in ToSet(h[n]) \/ x \in ToSet(seqs[n + 1])
      BY <2>2, JoinedElements
    <3>2. x \in ToSet(h[n]) <=> \E i \in 1..n : x \in ToSet(seqs[i])
      BY <1>5
    <3>3. 1..(n + 1) = 1..n \cup {n + 1}
      BY <1>5
    <3>4. QED
      BY <3>1, <3>2, <3>3
  <2>4. h[n] \o seqs[n + 1] \in Seq(S)
    BY <2>2
  <2>5. QED
    BY <2>1, <2>2, <2>3, <2>4
<1> HIDE DEF Good
<1>6. \A n \in 0..N : n \in Good
  BY <1>1, <1>4, <1>5, UpTo
<1>7. \A n \in 0..N : Gathered(h[n], n)
  BY <1>6 DEF Good
<1>8. Gathered(h[N], N)
  <2>1. N \in 0..N
    BY <1>1
  <2> HIDE DEF Gathered
  <2>2. QED
    BY <1>7, <2>1
<1>9. QED
  BY <1>1, <1>3, <1>8

LEMMA LeastOf == ASSUME NEW T \in SUBSET Nat, T # {} PROVE Min(T) \in T /\ \A n \in T : Min(T) <= n
<1>1. PICK n \in T : \A m \in T : n <= m
  BY LeastNat
<1>2. \E x \in T : \A y \in T : x <= y
  BY <1>1
<1>3. QED
  BY <1>2 DEF Min

\* A set of numbers up to a bound that is not empty has a greatest one.
LEMMA GreatestOf ==
  ASSUME NEW N \in Nat, NEW T \in SUBSET (0..N), T # {}
  PROVE  Max(T) \in T /\ \A n \in T : n <= Max(T)
<1> DEFINE D == {N - n : n \in T}
<1>1. D \in SUBSET Nat /\ D # {}
  <2>1. \A n \in T : n \in 0..N /\ N - n \in Nat
    OBVIOUS
  <2>2. PICK n : n \in T
    OBVIOUS
  <2>3. N - n \in D
    BY <2>2
  <2>4. D \subseteq Nat
    BY <2>1
  <2>5. QED
    BY <2>3, <2>4
<1>2. PICK d \in D : \A e \in D : d <= e
  BY <1>1, LeastNat
<1>3. PICK n \in T : d = N - n
  OBVIOUS
<1>4. ASSUME NEW m \in T PROVE m <= n
  <2>1. N - m \in D
    OBVIOUS
  <2>2. d <= N - m
    BY <1>2, <2>1
  <2> HIDE DEF D
  <2>3. QED
    BY <1>3, <2>2
<1>5. \E x \in T : \A y \in T : x >= y
  BY <1>3, <1>4
<1>6. Max(T) \in T /\ \A y \in T : Max(T) >= y
  BY <1>5 DEF Max
<1>7. QED
  BY <1>6

-----------------------------------------------------------------------------
(***************************************************************************)
(* Accepted Projects and their places                                      *)
(***************************************************************************)

\* What the locations of a Project are made of.
Steps(s) ==
  {o.path : o \in ToSet(s.objects)} \cup {InBase(t) : t \in DOMAIN s.types}
    \cup {InMember(m.name) : m \in Members(s)}

Locations(s) == Seq(Steps(s))

\* A step into a base and one into a member differ, and each tells what it enters.
LEMMA StepsDiffer ==
  ASSUME NEW x, NEW y
  PROVE  /\ InBase(x) # InMember(y)
         /\ InBase(x) = InBase(y) => x = y
         /\ InMember(x) = InMember(y) => x = y
BY DEF InBase, InMember

LEMMA SeqElements ==
  ASSUME NEW S, NEW q \in Seq(S)
  PROVE  DOMAIN q = 1..Len(q) /\ Len(q) \in Nat /\ \A i \in DOMAIN q : q[i] \in S
OBVIOUS

LEMMA Appended ==
  ASSUME NEW S, NEW l \in Seq(S), NEW e \in S
  PROVE  Append(l, e) \in Seq(S) /\ Len(Append(l, e)) = Len(l) + 1
OBVIOUS

LEMMA Single == ASSUME NEW S, NEW e \in S PROVE <<e>> \in Seq(S) /\ Len(<<e>>) = 1
OBVIOUS

\* What an accepted Project says of the bases of a type, of its members, of its
\* objects and of a type in use.
LEMMA AcceptedBases ==
  ASSUME NEW s, SchemaAccepted(s), NEW t \in DOMAIN s.types
  PROVE  /\ \A b \in ToSet(s.types[t].bases) : b.type \in DOMAIN s.types /\ b.type \in STRING
         /\ \A b \in ToSet(s.types[t].bases) : b.virtual \in BOOLEAN /\ InBase(b.type) \in Steps(s)
         /\ DOMAIN s.types[t].bases = 1..Len(s.types[t].bases) /\ Len(s.types[t].bases) \in Nat
         /\ \A b, c \in ToSet(s.types[t].bases) : b.type = c.type => b = c
<1> DEFINE bases == s.types[t].bases
<1>1. /\ bases \in Seq([type : DOMAIN s.types, virtual : BOOLEAN])
      /\ \A i, j \in DOMAIN bases : bases[i].type = bases[j].type => i = j
      /\ DOMAIN s.types \subseteq STRING
  BY DEF SchemaAccepted, RecordAccepted
<1> HIDE DEF bases
<1>2. \A i \in DOMAIN bases : bases[i] \in [type : DOMAIN s.types, virtual : BOOLEAN]
  BY <1>1, SeqElements
<1>3. \A b \in ToSet(bases) : b \in [type : DOMAIN s.types, virtual : BOOLEAN]
  BY <1>2 DEF ToSet
<1>4. \A b, c \in ToSet(bases) : b.type = c.type => b = c
  BY <1>1 DEF ToSet
<1>5. DOMAIN bases = 1..Len(bases) /\ Len(bases) \in Nat
  BY <1>1, SeqElements
<1>6. \A b \in ToSet(bases) : b.type \in DOMAIN s.types /\ b.type \in STRING /\ b.virtual \in BOOLEAN
  BY <1>1, <1>3
<1>7. \A b \in ToSet(bases) : InBase(b.type) \in Steps(s)
  BY <1>6 DEF Steps
<1>8. QED
  BY <1>4, <1>5, <1>6, <1>7 DEF bases

LEMMA AcceptedMembers ==
  ASSUME NEW s, SchemaAccepted(s), NEW t \in DOMAIN s.types
  PROVE  /\ \A m \in ToSet(s.types[t].members) :
              /\ m.name \in STRING /\ m.plain \in BOOLEAN /\ TypeAccepted(s, m.type)
              /\ InMember(m.name) \in Steps(s)
         /\ DOMAIN s.types[t].members = 1..Len(s.types[t].members) /\ Len(s.types[t].members) \in Nat
         /\ \A m, n \in ToSet(s.types[t].members) : m.name = n.name => m = n
<1> DEFINE members == s.types[t].members
           kinds == {m.type : m \in ToSet(members)}
<1>1. /\ members \in Seq([name : STRING, type : kinds, plain : BOOLEAN])
      /\ \A i, j \in DOMAIN members : members[i].name = members[j].name => i = j
      /\ \A m \in ToSet(members) : TypeAccepted(s, m.type)
  BY DEF SchemaAccepted, RecordAccepted
<1> HIDE DEF kinds, members
<1>2. \A i \in DOMAIN members : members[i] \in [name : STRING, type : kinds, plain : BOOLEAN]
  BY <1>1, SeqElements
<1>3. \A m \in ToSet(members) : m \in [name : STRING, type : kinds, plain : BOOLEAN]
  BY <1>2 DEF ToSet
<1>4. \A m, n \in ToSet(members) : m.name = n.name => m = n
  BY <1>1 DEF ToSet
<1>5. DOMAIN members = 1..Len(members) /\ Len(members) \in Nat
  BY <1>1, SeqElements
<1>6. \A m \in ToSet(members) : m.name \in STRING /\ m.plain \in BOOLEAN /\ TypeAccepted(s, m.type)
  BY <1>1, <1>3
<1>7. \A m \in ToSet(members) : InMember(m.name) \in Steps(s)
  BY DEF Steps, Members, members
<1>8. QED
  BY <1>4, <1>5, <1>6, <1>7 DEF members

LEMMA AcceptedObjects ==
  ASSUME NEW s, SchemaAccepted(s)
  PROVE  /\ \A o \in ToSet(s.objects) :
              /\ o.path \in Seq(STRING) /\ o.path \in Steps(s) /\ o.path # <<>> /\ o.plain \in BOOLEAN
              /\ TypeAccepted(s, o.type)
         /\ DOMAIN s.objects = 1..Len(s.objects) /\ Len(s.objects) \in Nat
         /\ \A o, r \in ToSet(s.objects) : o.path = r.path => o = r
<1> DEFINE kinds == {o.type : o \in ToSet(s.objects)}
<1>1. /\ s.objects \in Seq([path : Seq(STRING), type : kinds, plain : BOOLEAN])
      /\ \A i, j \in DOMAIN s.objects : s.objects[i].path = s.objects[j].path => i = j
      /\ \A o \in ToSet(s.objects) : o.path # <<>> /\ TypeAccepted(s, o.type)
  BY DEF SchemaAccepted
<1> HIDE DEF kinds
<1>2. \A i \in DOMAIN s.objects : s.objects[i] \in [path : Seq(STRING), type : kinds, plain : BOOLEAN]
  BY <1>1, SeqElements
<1>3. \A o \in ToSet(s.objects) : o \in [path : Seq(STRING), type : kinds, plain : BOOLEAN]
  BY <1>2 DEF ToSet
<1>4. \A o, r \in ToSet(s.objects) : o.path = r.path => o = r
  BY <1>1 DEF ToSet
<1>5. DOMAIN s.objects = 1..Len(s.objects) /\ Len(s.objects) \in Nat
  BY <1>1, SeqElements
<1>6. \A o \in ToSet(s.objects) : o.path \in Steps(s)
  BY DEF Steps
<1>7. \A o \in ToSet(s.objects) : o.path \in Seq(STRING) /\ o.plain \in BOOLEAN
  BY <1>3
<1>8. QED
  BY <1>1, <1>4, <1>5, <1>6, <1>7

LEMMA AcceptedType ==
  ASSUME NEW s, NEW type, TypeAccepted(s, type)
  PROVE  /\ type.const \in BOOLEAN
         /\ type.kind \in {"intrinsic", "structural", "named", "reference"}
         /\ type.kind = "named" =>
              /\ type.of \in DOMAIN s.types
              /\ type = [kind |-> "named", of |-> type.of, const |-> type.const]
         /\ type.kind = "reference" =>
              \E p \in Places(s) : /\ p.loc = type.at
                                   /\ p.type.kind = type.to.kind /\ p.type.of = type.to.of
                                   /\ p.type.kind # "reference"
<1>1. CASE type \in [kind : {"intrinsic", "structural"}, of : STRING, const : BOOLEAN]
  BY <1>1
<1>2. CASE type \in [kind : {"named"}, of : DOMAIN s.types, const : BOOLEAN]
  BY <1>2
<1>3. CASE /\ type \in [kind : {"reference"}, of : {"reference"}, const : BOOLEAN,
                        at : {type.at}, to : {type.to}]
           /\ \E p \in Places(s) : /\ p.loc = type.at
                                   /\ p.type.kind = type.to.kind /\ p.type.of = type.to.of
                                   /\ p.type.kind # "reference"
  <2>1. type.kind = "reference" /\ type.const \in BOOLEAN
    BY <1>3
  <2>2. QED
    BY <1>3, <2>1
<1>4. QED
  BY <1>1, <1>2, <1>3 DEF TypeAccepted

\* What the fields of a place hold.
PlaceOk(s, p) ==
  /\ p.loc \in Locations(s) /\ p.const \in BOOLEAN /\ p.plain \in BOOLEAN
  /\ TypeAccepted(s, p.type)
  /\ p = [loc |-> p.loc, type |-> p.type, const |-> p.const, plain |-> p.plain]

LEMMA NamedAccepted ==
  ASSUME NEW s, NEW t \in DOMAIN s.types, NEW c \in BOOLEAN
  PROVE  TypeAccepted(s, [kind |-> "named", of |-> t, const |-> c])
BY DEF TypeAccepted

\* What a part has of the place it is a part of.
IsBasePart(p, q, b) ==
  /\ ~b.virtual /\ q.loc = Append(p.loc, InBase(b.type)) /\ q.plain = p.plain
  /\ q.type = [kind |-> "named", of |-> b.type, const |-> p.type.const]

IsMemberPart(p, q, m) ==
  q.loc = Append(p.loc, InMember(m.name)) /\ q.type = m.type /\ q.plain = m.plain

\* A part of a place is a base or a member of its record.
LEMMA PartFacts ==
  ASSUME NEW s, SchemaAccepted(s), NEW p, PlaceOk(s, p), NEW q \in PartsOf(s, p)
  PROVE  /\ PlaceOk(s, q) /\ p.type.kind = "named" /\ p.type.of \in DOMAIN s.types
         /\ q.const = (p.const \/ p.type.const)
         /\ \/ \E b \in ToSet(s.types[p.type.of].bases) : IsBasePart(p, q, b)
            \/ \E m \in ToSet(s.types[p.type.of].members) : IsMemberPart(p, q, m)
<1> DEFINE entry == s.types[p.type.of]
           const == p.const \/ p.type.const
           basePart(b) == [loc |-> Append(p.loc, InBase(b.type)), type |-> [p.type EXCEPT !.of = b.type],
                           const |-> const, plain |-> p.plain]
           memberPart(m) == [loc |-> Append(p.loc, InMember(m.name)), type |-> m.type,
                             const |-> const, plain |-> m.plain]
<1>1. p.type.kind = "named"
  BY DEF PartsOf
<1>2. /\ p.type.of \in DOMAIN s.types /\ p.type.const \in BOOLEAN
      /\ p.type = [kind |-> "named", of |-> p.type.of, const |-> p.type.const]
  BY <1>1, AcceptedType DEF PlaceOk
<1>3. const \in BOOLEAN /\ p.loc \in Locations(s) /\ p.plain \in BOOLEAN
  BY <1>2 DEF PlaceOk
<1>4. \/ \E b \in {b \in ToSet(entry.bases) : ~b.virtual} : q = basePart(b)
      \/ \E m \in ToSet(entry.members) : q = memberPart(m)
  BY <1>1 DEF PartsOf
<1> HIDE DEF const
<1>5. CASE \E b \in {b \in ToSet(entry.bases) : ~b.virtual} : q = basePart(b)
  <2>1. PICK b \in ToSet(entry.bases) : ~b.virtual /\ q = basePart(b)
    BY <1>5
  <2>2. b.type \in DOMAIN s.types /\ InBase(b.type) \in Steps(s)
    BY <1>2, AcceptedBases
  <2>3. [p.type EXCEPT !.of = b.type] = [kind |-> "named", of |-> b.type, const |-> p.type.const]
    BY <1>2
  <2>4. Append(p.loc, InBase(b.type)) \in Locations(s)
    BY <1>3, <2>2, Appended DEF Locations
  <2>5. /\ q.loc = Append(p.loc, InBase(b.type)) /\ q.const = const /\ q.plain = p.plain
        /\ q.type = [kind |-> "named", of |-> b.type, const |-> p.type.const]
    BY <2>1, <2>3
  <2>6. TypeAccepted(s, q.type)
    BY <1>2, <2>2, <2>5, NamedAccepted
  <2>7. PlaceOk(s, q)
    <3>1. q = [loc |-> q.loc, type |-> q.type, const |-> q.const, plain |-> q.plain]
      BY <2>1
    <3>2. QED
      BY <1>3, <2>4, <2>5, <2>6, <3>1, Zenon DEF PlaceOk
  <2>8. QED
    BY <1>1, <1>2, <2>1, <2>5, <2>7 DEF const, IsBasePart
<1>6. CASE \E m \in ToSet(entry.members) : q = memberPart(m)
  <2>1. PICK m \in ToSet(entry.members) : q = memberPart(m)
    BY <1>6
  <2>2. InMember(m.name) \in Steps(s) /\ m.plain \in BOOLEAN /\ TypeAccepted(s, m.type)
    BY <1>2, AcceptedMembers
  <2>3. Append(p.loc, InMember(m.name)) \in Locations(s)
    BY <1>3, <2>2, Appended DEF Locations
  <2>4. /\ q.loc = Append(p.loc, InMember(m.name)) /\ q.const = const /\ q.plain = m.plain
        /\ q.type = m.type
    BY <2>1
  <2>5. PlaceOk(s, q)
    <3>1. q = [loc |-> q.loc, type |-> q.type, const |-> q.const, plain |-> q.plain]
      BY <2>1
    <3>2. QED
      BY <1>3, <2>2, <2>3, <2>4, <3>1, Zenon DEF PlaceOk
  <2>6. QED
    BY <1>1, <1>2, <2>1, <2>4, <2>5 DEF const, IsMemberPart
<1>7. QED
  BY <1>4, <1>5, <1>6

LevelsOf(s, level) ==
  /\ Places(s) = UNION {level[n] : n \in 0..TypeCount(s)}
  /\ level[0] = ObjectPlaces(s)
  /\ \A n \in 1..TypeCount(s) : level[n] = UNION {PartsOf(s, p) : p \in level[n - 1]}

LEMMA CountIsNat == ASSUME NEW s, SchemaAccepted(s) PROVE TypeCount(s) \in Nat
BY FS_CardinalityType DEF SchemaAccepted, TypeCount

\* The places of a Project are those of its objects and, level by level, of their
\* parts.
LEMMA PlacesHaveLevels == ASSUME NEW s, SchemaAccepted(s) PROVE \E level : LevelsOf(s, level)
<1> DEFINE N == TypeCount(s)
           level == CHOOSE g : g = [n \in 0..N |-> LevelBy(s, g, n)]
<1>1. N \in Nat
  BY CountIsNat
<1>2. level = [n \in 0..N |-> LevelBy(s, level, n)]
  BY <1>1, LevelsExist
<1>3. Places(s) = UNION {level[n] : n \in 0..N}
  BY DEF Places, LevelBy
<1> HIDE DEF level
<1>4. \A n \in 0..N : level[n] = LevelBy(s, level, n)
  BY <1>1, <1>2, LevelValues
<1>5. 0 \in 0..N /\ \A n \in 1..N : n \in 0..N /\ n # 0
  BY <1>1
<1>6. level[0] = ObjectPlaces(s)
  BY <1>4, <1>5 DEF LevelBy
<1>7. \A n \in 1..N : level[n] = UNION {PartsOf(s, p) : p \in level[n - 1]}
  BY <1>4, <1>5 DEF LevelBy
<1>8. QED
  BY <1>3, <1>6, <1>7 DEF LevelsOf

\* A place of level n has n steps below its object; the record of a named one
\* has as many types below it as there are levels left.
LEMMA LevelFacts ==
  ASSUME NEW s, SchemaAccepted(s), NEW level, LevelsOf(s, level),
         NEW height \in [DOMAIN s.types -> 0..TypeCount(s) - 1], NoneContainsItself(s, height)
  PROVE  \A n \in 0..TypeCount(s) : \A p \in level[n] :
            /\ PlaceOk(s, p) /\ Len(p.loc) = n + 1
            /\ p.type.kind = "named" => height[p.type.of] + n < TypeCount(s)
<1> DEFINE N == TypeCount(s)
           Fits(p, n) == /\ PlaceOk(s, p) /\ Len(p.loc) = n + 1
                         /\ p.type.kind = "named" => height[p.type.of] + n < N
           Good == {n \in 0..N : \A p \in level[n] : Fits(p, n)}
<1>1. N \in Nat
  BY CountIsNat
<1>2. 0 \in Good
  <2>1. ASSUME NEW p \in level[0] PROVE Fits(p, 0)
    <3>1. PICK o \in ToSet(s.objects) :
             p = [loc |-> <<o.path>>, type |-> o.type, const |-> FALSE, plain |-> o.plain]
      BY <2>1 DEF LevelsOf, ObjectPlaces
    <3>2. o.path \in Steps(s) /\ o.plain \in BOOLEAN /\ TypeAccepted(s, o.type)
      BY AcceptedObjects
    <3>3. p.loc = <<o.path>> /\ p.type = o.type /\ p.const = FALSE /\ p.plain = o.plain
      BY <3>1
    <3>4. PlaceOk(s, p) /\ Len(p.loc) = 0 + 1
      <4>1. <<o.path>> \in Locations(s) /\ Len(<<o.path>>) = 1
        BY <3>2, Single DEF Locations
      <4>2. FALSE \in BOOLEAN /\ p = [loc |-> p.loc, type |-> p.type, const |-> p.const, plain |-> p.plain]
        BY <3>1
      <4>3. PlaceOk(s, p)
        BY <3>2, <3>3, <4>1, <4>2, Zenon DEF PlaceOk
      <4>4. Len(p.loc) = 1
        BY <3>3, <4>1, Zenon
      <4>5. QED
        BY <4>3, <4>4
    <3>5. ASSUME p.type.kind = "named" PROVE height[p.type.of] + 0 < N
      <4>1. p.type.of \in DOMAIN s.types
        BY <3>2, <3>3, <3>5, AcceptedType
      <4>2. height[p.type.of] \in 0..N - 1
        BY <4>1
      <4>3. QED
        BY <1>1, <4>2
    <3>6. QED
      BY <3>4, <3>5
  <2>2. 0 \in 0..N
    BY <1>1
  <2>3. QED
    BY <2>1, <2>2
<1>3. ASSUME NEW n \in Nat, n < N, n \in Good PROVE n + 1 \in Good
  <2>1. n + 1 \in 1..N /\ n + 1 \in 0..N /\ (n + 1) - 1 = n
    BY <1>1, <1>3
  <2>2. level[n + 1] = UNION {PartsOf(s, p) : p \in level[n]}
    BY <2>1 DEF LevelsOf
  <2>3. ASSUME NEW q \in level[n + 1] PROVE Fits(q, n + 1)
    <3>1. PICK p \in level[n] : q \in PartsOf(s, p)
      BY <2>2
    <3>2. PlaceOk(s, p) /\ Len(p.loc) = n + 1 /\ (p.type.kind = "named" => height[p.type.of] + n < N)
      BY <1>3
    <3>3. /\ PlaceOk(s, q) /\ p.type.kind = "named" /\ p.type.of \in DOMAIN s.types
          /\ \/ \E b \in ToSet(s.types[p.type.of].bases) : IsBasePart(p, q, b)
             \/ \E m \in ToSet(s.types[p.type.of].members) : IsMemberPart(p, q, m)
      BY <3>1, <3>2, PartFacts
    <3>4. Len(q.loc) = (n + 1) + 1
      <4>1. \A e \in Steps(s) : Len(Append(p.loc, e)) = (n + 1) + 1
        BY <3>2, Appended DEF PlaceOk, Locations
      <4>2. CASE \E b \in ToSet(s.types[p.type.of].bases) : IsBasePart(p, q, b)
        BY <3>3, <4>1, <4>2, AcceptedBases DEF IsBasePart
      <4>3. CASE \E m \in ToSet(s.types[p.type.of].members) : IsMemberPart(p, q, m)
        BY <3>3, <4>1, <4>3, AcceptedMembers DEF IsMemberPart
      <4>4. QED
        BY <3>3, <4>2, <4>3
    <3>5. ASSUME q.type.kind = "named" PROVE height[q.type.of] + (n + 1) < N
      <4>1. height[q.type.of] < height[p.type.of]
        <5>1. CASE \E b \in ToSet(s.types[p.type.of].bases) : IsBasePart(p, q, b)
          BY <3>3, <5>1 DEF NoneContainsItself, IsBasePart
        <5>2. CASE \E m \in ToSet(s.types[p.type.of].members) : IsMemberPart(p, q, m)
          BY <3>3, <3>5, <5>2 DEF NoneContainsItself, IsMemberPart
        <5>3. QED
          BY <3>3, <5>1, <5>2
      <4>2. q.type.of \in DOMAIN s.types
        BY <3>3, <3>5, AcceptedType DEF PlaceOk
      <4>3. height[q.type.of] \in Int /\ height[p.type.of] \in Int
        BY <1>1, <3>3, <4>2
      <4>4. QED
        BY <1>1, <3>2, <3>3, <4>1, <4>3
    <3>6. QED
      BY <3>3, <3>4, <3>5
  <2>4. QED
    BY <2>1, <2>3
<1> HIDE DEF Good
<1>4. \A n \in 0..N : n \in Good
  BY <1>1, <1>2, <1>3, UpTo
<1>5. QED
  BY <1>4 DEF Good

\* A place is a location of the Project with a type of its own.
LEMMA PlacesOk == ASSUME NEW s, SchemaAccepted(s), NEW p \in Places(s) PROVE PlaceOk(s, p)
<1>1. PICK level : LevelsOf(s, level)
  BY PlacesHaveLevels
<1>2. PICK height \in [DOMAIN s.types -> 0..TypeCount(s) - 1] : NoneContainsItself(s, height)
  BY DEF SchemaAccepted
<1>3. PICK n \in 0..TypeCount(s) : p \in level[n]
  BY <1>1 DEF LevelsOf
<1>4. QED
  BY <1>1, <1>2, <1>3, LevelFacts

\* The parts of a place are places.
LEMMA PlacesClosed ==
  ASSUME NEW s, SchemaAccepted(s), NEW p \in Places(s), NEW q \in PartsOf(s, p)
  PROVE  q \in Places(s)
<1>1. PICK level : LevelsOf(s, level)
  BY PlacesHaveLevels
<1>2. PICK height \in [DOMAIN s.types -> 0..TypeCount(s) - 1] : NoneContainsItself(s, height)
  BY DEF SchemaAccepted
<1>3. PICK n \in 0..TypeCount(s) : p \in level[n]
  BY <1>1 DEF LevelsOf
<1>4. PlaceOk(s, p) /\ (p.type.kind = "named" => height[p.type.of] + n < TypeCount(s))
  BY <1>1, <1>2, <1>3, LevelFacts
<1>5. p.type.kind = "named" /\ p.type.of \in DOMAIN s.types
  BY <1>4, PartFacts
<1>6. n + 1 \in 1..TypeCount(s) /\ n + 1 \in 0..TypeCount(s) /\ (n + 1) - 1 = n
  <2>1. height[p.type.of] \in 0..TypeCount(s) - 1 /\ TypeCount(s) \in Nat
    BY <1>5, CountIsNat
  <2>2. QED
    BY <1>4, <1>5, <2>1
<1>7. level[n + 1] = UNION {PartsOf(s, r) : r \in level[n]}
  BY <1>1, <1>6 DEF LevelsOf
<1>8. q \in level[n + 1]
  BY <1>3, <1>7
<1>9. QED
  BY <1>1, <1>6, <1>8 DEF LevelsOf

-----------------------------------------------------------------------------
(***************************************************************************)
(* Places are where they are                                               *)
(***************************************************************************)

LEMMA AppendDiffers ==
  ASSUME NEW S, NEW l \in Seq(S), NEW m \in Seq(S), NEW e \in S, NEW f \in S, Append(l, e) = Append(m, f)
  PROVE  l = m /\ e = f
<1>1. Len(l) \in Nat /\ Len(m) \in Nat /\ Len(Append(l, e)) = Len(l) + 1 /\ Len(Append(m, f)) = Len(m) + 1
  OBVIOUS
<1>2. Len(l) = Len(m)
  BY <1>1
<1>3. Append(l, e)[Len(l) + 1] = e /\ Append(m, f)[Len(l) + 1] = f
  BY <1>2
<1>4. \A i \in 1..Len(l) : Append(l, e)[i] = l[i] /\ Append(m, f)[i] = m[i]
  BY <1>2
<1>5. \A i \in 1..Len(l) : l[i] = m[i]
  BY <1>4
<1>6. l = m
  BY <1>2, <1>5
<1>7. QED
  BY <1>3, <1>6

\* Two parts of a place with one location are one.
LEMMA PartUnique ==
  ASSUME NEW s, SchemaAccepted(s), NEW p, PlaceOk(s, p), NEW q \in PartsOf(s, p), NEW r \in PartsOf(s, p),
         q.loc = r.loc
  PROVE  q = r
<1> DEFINE bases == ToSet(s.types[p.type.of].bases)
           members == ToSet(s.types[p.type.of].members)
<1>1. /\ p.type.of \in DOMAIN s.types /\ p.loc \in Seq(Steps(s))
      /\ PlaceOk(s, q) /\ q.const = (p.const \/ p.type.const)
      /\ PlaceOk(s, r) /\ r.const = (p.const \/ p.type.const)
      /\ (\E b \in bases : IsBasePart(p, q, b)) \/ (\E m \in members : IsMemberPart(p, q, m))
      /\ (\E b \in bases : IsBasePart(p, r, b)) \/ (\E m \in members : IsMemberPart(p, r, m))
  <2>1. p.loc \in Seq(Steps(s))
    BY DEF PlaceOk, Locations
  <2>2. QED
    BY <2>1, PartFacts
<1>2. /\ \A b \in bases : InBase(b.type) \in Steps(s)
      /\ \A b, c \in bases : b.type = c.type => b = c
  BY <1>1, AcceptedBases
<1>3. /\ \A m \in members : InMember(m.name) \in Steps(s)
      /\ \A m, n \in members : m.name = n.name => m = n
  BY <1>1, AcceptedMembers
<1> HIDE DEF bases, members
<1>4. \A e, f \in Steps(s) : Append(p.loc, e) = Append(p.loc, f) => e = f
  BY <1>1, AppendDiffers
<1>5. q.type = r.type /\ q.plain = r.plain
  <2>1. CASE \E b \in bases : IsBasePart(p, q, b)
    <3>1. PICK b \in bases : IsBasePart(p, q, b)
      BY <2>1
    <3>2. CASE \E c \in bases : IsBasePart(p, r, c)
      <4>1. PICK c \in bases : IsBasePart(p, r, c)
        BY <3>2
      <4>2. InBase(b.type) = InBase(c.type)
        BY <1>2, <1>4, <3>1, <4>1 DEF IsBasePart
      <4>3. b.type = c.type
        BY <4>2, StepsDiffer
      <4>4. QED
        BY <3>1, <4>1, <4>3 DEF IsBasePart
    <3>3. CASE \E m \in members : IsMemberPart(p, r, m)
      <4>1. PICK m \in members : IsMemberPart(p, r, m)
        BY <3>3
      <4>2. InBase(b.type) = InMember(m.name)
        BY <1>2, <1>3, <1>4, <3>1, <4>1 DEF IsBasePart, IsMemberPart
      <4>3. QED
        BY <4>2, StepsDiffer
    <3>4. QED
      BY <1>1, <3>2, <3>3
  <2>2. CASE \E m \in members : IsMemberPart(p, q, m)
    <3>1. PICK m \in members : IsMemberPart(p, q, m)
      BY <2>2
    <3>2. CASE \E b \in bases : IsBasePart(p, r, b)
      <4>1. PICK b \in bases : IsBasePart(p, r, b)
        BY <3>2
      <4>2. InBase(b.type) = InMember(m.name)
        BY <1>2, <1>3, <1>4, <3>1, <4>1 DEF IsBasePart, IsMemberPart
      <4>3. QED
        BY <4>2, StepsDiffer
    <3>3. CASE \E n \in members : IsMemberPart(p, r, n)
      <4>1. PICK n \in members : IsMemberPart(p, r, n)
        BY <3>3
      <4>2. InMember(m.name) = InMember(n.name)
        BY <1>3, <1>4, <3>1, <4>1 DEF IsMemberPart
      <4>3. m = n
        BY <1>3, <4>2, StepsDiffer
      <4>4. QED
        BY <3>1, <4>1, <4>3 DEF IsMemberPart
    <3>4. QED
      BY <1>1, <3>2, <3>3
  <2>3. QED
    BY <1>1, <2>1, <2>2
<1>6. q.const = r.const
  BY <1>1, Zenon
<1>7. /\ q = [loc |-> q.loc, type |-> q.type, const |-> q.const, plain |-> q.plain]
      /\ r = [loc |-> r.loc, type |-> r.type, const |-> r.const, plain |-> r.plain]
  BY <1>1 DEF PlaceOk
<1>8. QED
  BY <1>5, <1>6, <1>7, Zenon

\* The part of a place ends with a step from it.
LEMMA PartStep ==
  ASSUME NEW s, SchemaAccepted(s), NEW p, PlaceOk(s, p), NEW q \in PartsOf(s, p)
  PROVE  \E e \in Steps(s) : q.loc = Append(p.loc, e)
<1> DEFINE bases == ToSet(s.types[p.type.of].bases)
           members == ToSet(s.types[p.type.of].members)
<1>1. /\ p.type.of \in DOMAIN s.types
      /\ (\E b \in bases : IsBasePart(p, q, b)) \/ (\E m \in members : IsMemberPart(p, q, m))
  BY PartFacts
<1>2. \A b \in bases : InBase(b.type) \in Steps(s)
  BY <1>1, AcceptedBases
<1>3. \A m \in members : InMember(m.name) \in Steps(s)
  BY <1>1, AcceptedMembers
<1> HIDE DEF bases, members
<1>4. CASE \E b \in bases : IsBasePart(p, q, b)
  BY <1>2, <1>4 DEF IsBasePart
<1>5. CASE \E m \in members : IsMemberPart(p, q, m)
  BY <1>3, <1>5 DEF IsMemberPart
<1>6. QED
  BY <1>1, <1>4, <1>5

\* Two declarations of a Project never lie at one location.
LEMMA PlaceUnique ==
  ASSUME NEW s, SchemaAccepted(s), NEW p \in Places(s), NEW q \in Places(s), p.loc = q.loc
  PROVE  p = q
<1>1. PICK level : LevelsOf(s, level)
  BY PlacesHaveLevels
<1>2. PICK height \in [DOMAIN s.types -> 0..TypeCount(s) - 1] : NoneContainsItself(s, height)
  BY DEF SchemaAccepted
<1> DEFINE N == TypeCount(s)
<1>3. N \in Nat
  BY CountIsNat
<1>4. \A n \in 0..N : \A r \in level[n] : PlaceOk(s, r) /\ Len(r.loc) = n + 1
  BY <1>1, <1>2, LevelFacts
<1> HIDE DEF N
<1> DEFINE Good == {n \in 0..N : \A r, t \in level[n] : r.loc = t.loc => r = t}
<1>5. 0 \in Good
  <2>1. ASSUME NEW r \in level[0], NEW t \in level[0], r.loc = t.loc PROVE r = t
    <3>1. level[0] = ObjectPlaces(s)
      BY <1>1 DEF LevelsOf
    <3>2. PICK o \in ToSet(s.objects) :
             r = [loc |-> <<o.path>>, type |-> o.type, const |-> FALSE, plain |-> o.plain]
      BY <3>1 DEF ObjectPlaces
    <3>3. PICK u \in ToSet(s.objects) :
             t = [loc |-> <<u.path>>, type |-> u.type, const |-> FALSE, plain |-> u.plain]
      BY <3>1 DEF ObjectPlaces
    <3>4. <<o.path>> = <<u.path>>
      BY <2>1, <3>2, <3>3
    <3>5. o.path = u.path
      BY <3>4
    <3>6. o = u
      BY <3>5, AcceptedObjects
    <3>7. QED
      BY <3>2, <3>3, <3>6
  <2>2. QED
    BY <1>3, <2>1
<1>6. ASSUME NEW n \in Nat, n < N, n \in Good PROVE n + 1 \in Good
  <2>1. n + 1 \in 1..N /\ n + 1 \in 0..N /\ (n + 1) - 1 = n /\ n \in 0..N
    BY <1>3, <1>6
  <2>2. level[n + 1] = UNION {PartsOf(s, r) : r \in level[n]}
    BY <1>1, <2>1 DEF LevelsOf, N
  <2>3. ASSUME NEW r \in level[n + 1], NEW t \in level[n + 1], r.loc = t.loc PROVE r = t
    <3>1. PICK v \in level[n] : r \in PartsOf(s, v)
      BY <2>2
    <3>2. PICK w \in level[n] : t \in PartsOf(s, w)
      BY <2>2
    <3>3. PlaceOk(s, v) /\ PlaceOk(s, w)
      BY <1>4, <2>1
    <3>4. PICK e \in Steps(s) : r.loc = Append(v.loc, e)
      BY <3>1, <3>3, PartStep
    <3>5. PICK f \in Steps(s) : t.loc = Append(w.loc, f)
      BY <3>2, <3>3, PartStep
    <3>6. v.loc \in Seq(Steps(s)) /\ w.loc \in Seq(Steps(s))
      BY <3>3 DEF PlaceOk, Locations
    <3>7. Append(v.loc, e) = Append(w.loc, f)
      BY <2>3, <3>4, <3>5
    <3>8. v.loc = w.loc
      <4>1. \A l, m \in Seq(Steps(s)) : \A x, y \in Steps(s) : Append(l, x) = Append(m, y) => l = m
        BY AppendDiffers
      <4>2. QED
        BY <3>6, <3>7, <4>1, Zenon
    <3>9. v = w
      BY <1>6, <3>8
    <3>10. QED
      BY <2>3, <3>1, <3>2, <3>3, <3>9, PartUnique
  <2>4. QED
    BY <2>1, <2>3
<1> HIDE DEF Good
<1>7. \A n \in 0..N : n \in Good
  BY <1>3, <1>5, <1>6, UpTo
<1>8. PICK n \in 0..N : p \in level[n]
  BY <1>1 DEF LevelsOf, N
<1>9. PICK m \in 0..N : q \in level[m]
  BY <1>1 DEF LevelsOf, N
<1>10. Len(p.loc) = n + 1 /\ Len(q.loc) = m + 1
  BY <1>4, <1>8, <1>9
<1>11. n = m
  BY <1>10
<1>12. QED
  BY <1>7, <1>8, <1>9, <1>11 DEF Good

-----------------------------------------------------------------------------
(***************************************************************************)
(* The walk                                                                *)
(***************************************************************************)

Known(s) == {m.name : m \in Members(s)}

\* The types that a walk meets.
Types(s) == {NamedType(t) : t \in DOMAIN s.types} \cup {m.type : m \in Members(s)} \cup {o.type : o \in ToSet(s.objects)}

Visits(s) == [members : Seq(Known(s)), loc : Seq(Steps(s)), type : Types(s), inherited : BOOLEAN, depth : Nat]

WalkLevels(s) == CHOOSE g : g = [n \in 0..TypeCount(s) |-> WalkBy(s, g, n)]
Full(s) == WalkLevels(s)[TypeCount(s)]

\* The walk of a type is that of its record, on the last level.
LEMMA TreeIs == ASSUME NEW s, NEW type PROVE WalkTree(s, type) = WalkType(type, Full(s))
BY DEF WalkTree, Full, WalkLevels, WalkBy

\* A level of the walk is made of the level before.
LEMMA LevelsAre ==
  ASSUME NEW s, SchemaAccepted(s)
  PROVE  /\ \A t \in DOMAIN s.types : WalkLevels(s)[0][t] = <<>>
         /\ \A n \in 1..TypeCount(s) : \A t \in DOMAIN s.types :
              WalkLevels(s)[n][t] = WalkRecord(NamedType(t), s.types[t], WalkLevels(s)[n - 1])
<1> DEFINE g == WalkLevels(s)
           N == TypeCount(s)
<1>1. N \in Nat
  BY CountIsNat
<1>2. g = [n \in 0..N |-> WalkBy(s, g, n)]
  BY <1>1, WalkExists DEF WalkLevels
<1> HIDE DEF g
<1>3. \A n \in 0..N : g[n] = WalkBy(s, g, n)
  BY <1>1, <1>2, WalkValues
<1>4. 0 \in 0..N /\ \A n \in 1..N : n \in 0..N /\ n # 0
  BY <1>1
<1>5. \A t \in DOMAIN s.types : g[0][t] = <<>>
  BY <1>3, <1>4 DEF WalkBy
<1>6. ASSUME NEW n \in 1..N, NEW t \in DOMAIN s.types
      PROVE  g[n][t] = WalkRecord(NamedType(t), s.types[t], g[n - 1])
  <2>1. g[n] = WalkBy(s, g, n) /\ n # 0
    BY <1>3, <1>4
  <2>2. QED
    BY <2>1 DEF WalkBy
<1>7. QED
  BY <1>5, <1>6 DEF g

\* A visit of a part, seen from what it is a part of.
Shifted(v, members, loc, inherited) ==
  [v EXCEPT !.members = members \o @, !.loc = loc \o @, !.depth = @ + 1, !.inherited = @ \/ inherited]

\* A visit moved into a base or a member keeps all but its path.
LEMMA ShiftedIs ==
  ASSUME NEW s, NEW v \in Visits(s), NEW members \in Seq(Known(s)), NEW loc \in Seq(Steps(s)), NEW inh \in BOOLEAN
  PROVE  LET x == Shifted(v, members, loc, inh)
         IN  /\ x \in Visits(s) /\ x.members = members \o v.members /\ x.loc = loc \o v.loc /\ x.type = v.type
             /\ x.inherited = (v.inherited \/ inh)
<1>1. /\ v.members \in Seq(Known(s)) /\ v.loc \in Seq(Steps(s)) /\ v.type \in Types(s)
      /\ v.inherited \in BOOLEAN /\ v.depth \in Nat
      /\ v = [members |-> v.members, loc |-> v.loc, type |-> v.type, inherited |-> v.inherited, depth |-> v.depth]
  BY DEF Visits
<1> DEFINE x == Shifted(v, members, loc, inh)
           y == [members |-> members \o v.members, loc |-> loc \o v.loc, type |-> v.type,
                 inherited |-> v.inherited \/ inh, depth |-> v.depth + 1]
<1>2. x = y
  <2>1. PICK m, l, ty, ih, d : v = [members |-> m, loc |-> l, type |-> ty, inherited |-> ih, depth |-> d]
    BY <1>1
  <2>2. v.members = m /\ v.loc = l /\ v.type = ty /\ v.inherited = ih /\ v.depth = d
    BY <2>1
  <2> DEFINE mm == members \o m
             ll == loc \o l
             hh == ih \/ inh
             dd == d + 1
  <2>3. x = [v EXCEPT !.members = mm, !.loc = ll, !.depth = dd, !.inherited = hh]
    BY <2>2 DEF Shifted
  <2>4. y = [members |-> mm, loc |-> ll, type |-> ty, inherited |-> hh, depth |-> dd]
    BY <2>2
  <2> HIDE DEF mm, ll, hh, dd, x, y
  <2> DEFINE a == [v EXCEPT !.members = mm]
             b == [a EXCEPT !.loc = ll]
             c == [b EXCEPT !.depth = dd]
  <2>5. x = [c EXCEPT !.inherited = hh]
    BY <2>3
  <2>6. a = [members |-> mm, loc |-> l, type |-> ty, inherited |-> ih, depth |-> d]
    BY <2>1
  <2> HIDE DEF a
  <2>7. b = [members |-> mm, loc |-> ll, type |-> ty, inherited |-> ih, depth |-> d]
    BY <2>6
  <2> HIDE DEF b
  <2>8. c = [members |-> mm, loc |-> ll, type |-> ty, inherited |-> ih, depth |-> dd]
    BY <2>7
  <2> HIDE DEF c
  <2>9. QED
    BY <2>4, <2>5, <2>8
<1>3. members \o v.members \in Seq(Known(s)) /\ loc \o v.loc \in Seq(Steps(s))
  BY <1>1
<1>4. (v.inherited \/ inh) \in BOOLEAN /\ v.depth + 1 \in Nat
  BY <1>1
<1>5. y \in Visits(s)
  BY <1>1, <1>3, <1>4 DEF Visits
<1>6. /\ y.members = members \o v.members /\ y.loc = loc \o v.loc /\ y.type = v.type
      /\ y.inherited = (v.inherited \/ inh)
  OBVIOUS
<1> HIDE DEF x, y
<1>7. QED
  BY <1>2, <1>5, <1>6, Zenon DEF x

\* q are the visits, each one shifted.
IsShift(s, q, visits, members, loc, inh) ==
  /\ q \in Seq(Visits(s)) /\ Len(q) = Len(visits)
  /\ \A i \in 1..Len(visits) : q[i] = Shifted(visits[i], members, loc, inh)
  /\ \A x : x \in ToSet(q) <=> \E v \in ToSet(visits) : x = Shifted(v, members, loc, inh)

\* Shift moves each visit.
LEMMA ShiftIs ==
  ASSUME NEW s, NEW visits \in Seq(Visits(s)), NEW members \in Seq(Known(s)), NEW loc \in Seq(Steps(s)), NEW inh \in BOOLEAN
  PROVE  IsShift(s, Shift(visits, members, loc, inh), visits, members, loc, inh)
<1> DEFINE q == [i \in 1..Len(visits) |-> Shifted(visits[i], members, loc, inh)]
           N == Len(visits)
<1>1. Shift(visits, members, loc, inh) = q
  <2>1. DOMAIN visits = 1..Len(visits)
    OBVIOUS
  <2>2. QED
    BY <2>1 DEF Shift, Shifted
<1>2. N \in Nat /\ \A i \in 1..N : visits[i] \in Visits(s)
  OBVIOUS
<1>3. \A i \in 1..N : Shifted(visits[i], members, loc, inh) \in Visits(s)
  BY <1>2, ShiftedIs
<1>4. q \in [1..N -> Visits(s)] /\ \A i \in 1..N : q[i] = Shifted(visits[i], members, loc, inh)
  BY <1>3
<1>5. DOMAIN q = 1..N
  OBVIOUS
<1>6. ToSet(visits) = {visits[i] : i \in 1..N}
  BY DEF ToSet
<1>7. ToSet(q) = {q[i] : i \in 1..N}
  BY <1>5 DEF ToSet
<1> HIDE DEF q
<1>8. q \in Seq(Visits(s)) /\ Len(q) = N
  <2> HIDE DEF N
  <2>1. q \in Seq(Visits(s))
    BY <1>2, <1>4, SeqDef
  <2>2. QED
    BY <1>2, <1>4, <2>1, LenProperties
<1>9. \A x : x \in ToSet(q) <=> \E v \in ToSet(visits) : x = Shifted(v, members, loc, inh)
  BY <1>4, <1>6, <1>7
<1>10. QED
  BY <1>1, <1>4, <1>8, <1>9 DEF IsShift

\* The visit of a type itself.
Root(type) == [members |-> <<>>, loc |-> <<>>, type |-> type, inherited |-> FALSE, depth |-> 0]

LEMMA RootIs ==
  ASSUME NEW s, NEW type \in Types(s)
  PROVE  /\ Root(type) \in Visits(s) /\ Root(type).members = <<>> /\ Root(type).loc = <<>>
         /\ Root(type).type = type /\ Root(type).inherited = FALSE
<1>1. <<>> \in Seq(Known(s)) /\ <<>> \in Seq(Steps(s))
  OBVIOUS
<1>2. QED
  BY <1>1 DEF Root, Visits

\* What the parts of a record are to a walk: below has the visits of the records below.
PartsListed(s, below) == \A t \in DOMAIN s.types : below[t] \in Seq(Visits(s))

\* What is visited in a type.
TypeVisits(type, below, x) ==
  \/ x = Root(type)
  \/ type.kind = "named" /\ \E v \in ToSet(below[type.of]) : x = Shifted(v, <<>>, <<>>, FALSE)

\* The walk visits the type itself and, in a record, what the record holds.
LEMMA WalkTypeIs ==
  ASSUME NEW s, SchemaAccepted(s), NEW below, PartsListed(s, below), NEW type \in Types(s),
         type.kind = "named" => type.of \in DOMAIN s.types
  PROVE  LET q == WalkType(type, below)
         IN  /\ q \in Seq(Visits(s))
             /\ \A x : x \in ToSet(q) <=> TypeVisits(type, below, x)
<1> DEFINE rest == IF type.kind = "named" THEN Shift(below[type.of], <<>>, <<>>, FALSE) ELSE <<>>
           V == Visits(s)
<1>1. WalkType(type, below) = <<Root(type)>> \o rest
  BY DEF WalkType, Root
<1>2. Root(type) \in V
  BY RootIs
<1> DEFINE nothing == <<>>
           no == FALSE
<1>3. nothing \in Seq(Known(s)) /\ nothing \in Seq(Steps(s)) /\ no \in BOOLEAN
  OBVIOUS
<1>4. rest \in Seq(V) /\ \A x : x \in ToSet(rest) <=>
         type.kind = "named" /\ \E v \in ToSet(below[type.of]) : x = Shifted(v, <<>>, <<>>, FALSE)
  <2>1. CASE type.kind = "named"
    <3> DEFINE visits == below[type.of]
    <3>1. visits \in Seq(Visits(s))
      BY <2>1 DEF PartsListed
    <3>2. rest = Shift(visits, nothing, nothing, no)
      BY <2>1
    <3> HIDE DEF visits, nothing, no, rest
    <3>3. IsShift(s, rest, visits, nothing, nothing, no)
      BY <1>3, <3>1, <3>2, ShiftIs
    <3>4. rest \in Seq(V) /\ \A x : x \in ToSet(rest) <=> \E v \in ToSet(visits) : x = Shifted(v, nothing, nothing, no)
      BY <3>3 DEF IsShift
    <3>5. QED
      BY <2>1, <3>4 DEF visits, nothing, no
  <2>2. CASE type.kind # "named"
    <3>1. rest = <<>>
      BY <2>2
    <3> HIDE DEF rest, V
    <3>2. rest \in Seq(V) /\ ToSet(rest) = {}
      BY <3>1 DEF ToSet
    <3>3. QED
      BY <2>2, <3>2
  <2>3. QED
    BY <2>1, <2>2
<1> HIDE DEF rest, V
<1> DEFINE r == Root(type)
<1>5. <<r>> \in Seq(V) /\ ToSet(<<r>>) = {r}
  <2> HIDE DEF r
  <2>1. r \in V
    BY <1>2 DEF r
  <2>2. QED
    BY <2>1 DEF ToSet
<1> HIDE DEF r
<1>6. /\ <<r>> \o rest \in Seq(V)
      /\ \A x : x \in ToSet(<<r>> \o rest) <=> x \in ToSet(<<r>>) \/ x \in ToSet(rest)
  <2> DEFINE one == <<r>>
  <2>1. one \in Seq(V)
    BY <1>5
  <2> HIDE DEF one
  <2>2. /\ one \o rest \in Seq(V)
        /\ \A x : x \in ToSet(one \o rest) <=> x \in ToSet(one) \/ x \in ToSet(rest)
    BY <1>4, <2>1, JoinedElements
  <2>3. QED
    BY <2>2 DEF one
<1>7. \A x : x \in ToSet(<<r>> \o rest) <=> TypeVisits(type, below, x)
  BY <1>4, <1>5, <1>6 DEF r, TypeVisits
<1>8. QED
  BY <1>1, <1>6, <1>7 DEF r, V

\* The walk of a record: the record, its bases, its members.
BaseWalk(b, below) == IF b.virtual THEN <<>> ELSE Shift(below[b.type], <<>>, <<InBase(b.type)>>, TRUE)
MemberWalk(m, below) == Shift(WalkType(m.type, below), <<m.name>>, <<InMember(m.name)>>, FALSE)
BaseWalks(entry, below) == [i \in DOMAIN entry.bases |-> BaseWalk(entry.bases[i], below)]
MemberWalks(entry, below) == [i \in DOMAIN entry.members |-> MemberWalk(entry.members[i], below)]

LEMMA RecordIs ==
  ASSUME NEW type, NEW entry, NEW below
  PROVE  WalkRecord(type, entry, below)
           = <<Root(type)>> \o FlattenSeq(BaseWalks(entry, below)) \o FlattenSeq(MemberWalks(entry, below))
BY DEF WalkRecord, BaseWalks, MemberWalks, BaseWalk, MemberWalk, Root

\* The walk looks only at the records of the parts.
LEMMA SameBelow ==
  ASSUME NEW type, NEW entry, NEW g, NEW h,
         \A b \in ToSet(entry.bases) : g[b.type] = h[b.type],
         \A m \in ToSet(entry.members) : m.type.kind = "named" => g[m.type.of] = h[m.type.of]
  PROVE  WalkRecord(type, entry, g) = WalkRecord(type, entry, h)
<1>1. BaseWalks(entry, g) = BaseWalks(entry, h)
  <2>1. ASSUME NEW i \in DOMAIN entry.bases PROVE BaseWalk(entry.bases[i], g) = BaseWalk(entry.bases[i], h)
    <3>1. entry.bases[i] \in ToSet(entry.bases)
      BY DEF ToSet
    <3>2. QED
      BY <3>1 DEF BaseWalk
  <2>2. QED
    BY <2>1 DEF BaseWalks
<1>2. MemberWalks(entry, g) = MemberWalks(entry, h)
  <2>1. ASSUME NEW i \in DOMAIN entry.members PROVE MemberWalk(entry.members[i], g) = MemberWalk(entry.members[i], h)
    <3>1. entry.members[i] \in ToSet(entry.members)
      BY DEF ToSet
    <3>2. WalkType(entry.members[i].type, g) = WalkType(entry.members[i].type, h)
      BY <3>1 DEF WalkType
    <3>3. QED
      BY <3>2 DEF MemberWalk
  <2>2. QED
    BY <2>1 DEF MemberWalks
<1>3. QED
  BY <1>1, <1>2, RecordIs

\* Every level that is above a record has the same walk of it: the full one.
LEMMA FullIs ==
  ASSUME NEW s, SchemaAccepted(s), NEW t \in DOMAIN s.types
  PROVE  Full(s)[t] = WalkRecord(NamedType(t), s.types[t], Full(s))
<1> DEFINE g == WalkLevels(s)
           N == TypeCount(s)
           Entry(u) == s.types[u]
<1>1. N \in Nat
  BY CountIsNat
<1>2. PICK height \in [DOMAIN s.types -> 0..N - 1] : NoneContainsItself(s, height)
  BY DEF SchemaAccepted
<1>3. \A n \in 1..N : \A u \in DOMAIN s.types : g[n][u] = WalkRecord(NamedType(u), Entry(u), g[n - 1])
  BY LevelsAre
<1> HIDE DEF g, N
<1>4. \A u \in DOMAIN s.types : height[u] \in Nat /\ height[u] < N
  BY <1>1, <1>2
<1>5. \A u \in DOMAIN s.types :
        /\ \A b \in ToSet(Entry(u).bases) : b.type \in DOMAIN s.types /\ height[b.type] < height[u]
        /\ \A m \in ToSet(Entry(u).members) :
              m.type.kind = "named" => m.type.of \in DOMAIN s.types /\ height[m.type.of] < height[u]
  <2>1. ASSUME NEW u \in DOMAIN s.types, NEW b \in ToSet(Entry(u).bases)
        PROVE  b.type \in DOMAIN s.types /\ height[b.type] < height[u]
    BY <1>2, AcceptedBases DEF NoneContainsItself
  <2>2. ASSUME NEW u \in DOMAIN s.types, NEW m \in ToSet(Entry(u).members), m.type.kind = "named"
        PROVE  m.type.of \in DOMAIN s.types /\ height[m.type.of] < height[u]
    <3>1. TypeAccepted(s, m.type)
      BY AcceptedMembers
    <3>2. m.type.of \in DOMAIN s.types
      BY <2>2, <3>1, AcceptedType
    <3>3. QED
      BY <1>2, <2>2, <3>2 DEF NoneContainsItself
  <2>3. QED
    BY <2>1, <2>2
<1> DEFINE Settled(n) == \A m \in n..N : \A u \in DOMAIN s.types : height[u] < n => g[m][u] = g[n][u]
           Good == {n \in 0..N : Settled(n)}
<1>6. 0 \in Good
  <2>1. \A u \in DOMAIN s.types : ~(height[u] < 0)
    BY <1>4
  <2>2. QED
    BY <1>1, <2>1
<1>7. ASSUME NEW n \in Nat, n < N, n \in Good PROVE n + 1 \in Good
  <2>1. n + 1 \in 0..N /\ n + 1 \in 1..N /\ (n + 1) - 1 = n
    BY <1>1, <1>7
  <2>2. ASSUME NEW m \in (n + 1)..N, NEW u \in DOMAIN s.types, height[u] < n + 1
        PROVE  g[m][u] = g[n + 1][u]
    <3>1. m \in 1..N /\ m - 1 \in n..N /\ \A k \in Nat : k < height[u] => k < n
      BY <1>1, <1>4, <1>7, <2>2
    <3>2. \A w \in DOMAIN s.types : height[w] < n => g[m - 1][w] = g[n][w]
      BY <1>7, <3>1
    <3>3. \A b \in ToSet(Entry(u).bases) : g[m - 1][b.type] = g[n][b.type]
      BY <1>4, <1>5, <3>1, <3>2
    <3>4. \A d \in ToSet(Entry(u).members) : d.type.kind = "named" => g[m - 1][d.type.of] = g[n][d.type.of]
      BY <1>4, <1>5, <3>1, <3>2
    <3> DEFINE x == g[m - 1]
               y == g[n]
               e == Entry(u)
    <3>5. /\ \A b \in ToSet(e.bases) : x[b.type] = y[b.type]
          /\ \A d \in ToSet(e.members) : d.type.kind = "named" => x[d.type.of] = y[d.type.of]
      BY <3>3, <3>4
    <3> HIDE DEF x, y, e
    <3>6. WalkRecord(NamedType(u), e, x) = WalkRecord(NamedType(u), e, y)
      BY <3>5, SameBelow
    <3>7. g[m][u] = WalkRecord(NamedType(u), e, x) /\ g[n + 1][u] = WalkRecord(NamedType(u), e, y)
      BY <1>3, <2>1, <3>1 DEF x, y, e
    <3>8. QED
      BY <3>6, <3>7
  <2>3. QED
    BY <2>1, <2>2
<1> HIDE DEF Good
<1>8. \A n \in 0..N : n \in Good
  BY <1>1, <1>6, <1>7, UpTo
<1>9. N \in 1..N /\ N - 1 \in 0..N /\ N \in (N - 1)..N /\ \A k \in Nat : k < height[t] => k < N - 1
  BY <1>1, <1>4
<1>10. \A u \in DOMAIN s.types : height[u] < N - 1 => g[N][u] = g[N - 1][u]
  <2>1. Settled(N - 1)
    BY <1>8, <1>9 DEF Good
  <2>2. QED
    BY <1>9, <2>1
<1> DEFINE x == g[N]
           y == g[N - 1]
           e == Entry(t)
<1>11. /\ \A b \in ToSet(e.bases) : x[b.type] = y[b.type]
       /\ \A m \in ToSet(e.members) : m.type.kind = "named" => x[m.type.of] = y[m.type.of]
  BY <1>4, <1>5, <1>9, <1>10
<1>12. x[t] = WalkRecord(NamedType(t), e, y) /\ Full(s) = x
  BY <1>3, <1>9 DEF Full, g, N
<1> HIDE DEF x, y, e
<1>13. WalkRecord(NamedType(t), e, x) = WalkRecord(NamedType(t), e, y)
  BY <1>11, SameBelow
<1>14. QED
  BY <1>12, <1>13 DEF e

\* What is visited in a base, and in a member.
BaseVisits(b, below, x) ==
  ~b.virtual /\ \E v \in ToSet(below[b.type]) : x = Shifted(v, <<>>, <<InBase(b.type)>>, TRUE)
MemberVisits(m, below, x) ==
  \E v \in ToSet(WalkType(m.type, below)) : x = Shifted(v, <<m.name>>, <<InMember(m.name)>>, FALSE)

\* The walk of a base that is not virtual is the walk of its type, one step down.
LEMMA BaseWalkIs ==
  ASSUME NEW s, SchemaAccepted(s), NEW below, PartsListed(s, below), NEW t \in DOMAIN s.types,
         NEW b \in ToSet(s.types[t].bases)
  PROVE  /\ BaseWalk(b, below) \in Seq(Visits(s))
         /\ ~b.virtual => IsShift(s, BaseWalk(b, below), below[b.type], <<>>, <<InBase(b.type)>>, TRUE)
         /\ \A x : x \in ToSet(BaseWalk(b, below)) <=> BaseVisits(b, below, x)
<1> DEFINE visits == below[b.type]
           nothing == <<>>
           loc == <<InBase(b.type)>>
           yes == TRUE
           q == BaseWalk(b, below)
<1>1. b.type \in DOMAIN s.types /\ InBase(b.type) \in Steps(s)
  BY AcceptedBases
<1>2. visits \in Seq(Visits(s)) /\ nothing \in Seq(Known(s)) /\ yes \in BOOLEAN
  BY <1>1 DEF PartsListed
<1>3. loc \in Seq(Steps(s))
  BY <1>1, Single
<1>4. CASE ~b.virtual
  <2>1. q = Shift(visits, nothing, loc, yes)
    BY <1>4 DEF BaseWalk
  <2> HIDE DEF visits, nothing, loc, yes, q
  <2>2. IsShift(s, q, visits, nothing, loc, yes)
    BY <1>2, <1>3, <2>1, ShiftIs
  <2>3. q \in Seq(Visits(s)) /\ \A x : x \in ToSet(q) <=> \E v \in ToSet(visits) : x = Shifted(v, nothing, loc, yes)
    BY <2>2 DEF IsShift
  <2>4. QED
    BY <1>4, <2>2, <2>3 DEF visits, nothing, loc, yes, q, BaseVisits
<1>5. CASE b.virtual
  <2>1. q = <<>>
    BY <1>5 DEF BaseWalk
  <2> HIDE DEF q
  <2>2. q \in Seq(Visits(s)) /\ ToSet(q) = {}
    BY <2>1 DEF ToSet
  <2>3. QED
    BY <1>5, <2>2 DEF q, BaseVisits
<1>6. QED
  BY <1>4, <1>5

LEMMA MemberType ==
  ASSUME NEW s, SchemaAccepted(s), NEW t \in DOMAIN s.types, NEW m \in ToSet(s.types[t].members)
  PROVE  /\ m \in Members(s) /\ m.type \in Types(s) /\ m.name \in Known(s) /\ InMember(m.name) \in Steps(s)
         /\ m.type.kind = "named" => m.type.of \in DOMAIN s.types
<1>1. m \in Members(s)
  BY DEF Members
<1>2. m.type \in Types(s) /\ m.name \in Known(s)
  BY <1>1 DEF Types, Known
<1>3. TypeAccepted(s, m.type) /\ InMember(m.name) \in Steps(s)
  BY AcceptedMembers
<1>4. m.type.kind = "named" => m.type.of \in DOMAIN s.types
  BY <1>3, AcceptedType
<1>5. QED
  BY <1>1, <1>2, <1>3, <1>4

\* The walk of a member is the walk of its type, one step down.
LEMMA MemberWalkIs ==
  ASSUME NEW s, SchemaAccepted(s), NEW below, PartsListed(s, below), NEW t \in DOMAIN s.types,
         NEW m \in ToSet(s.types[t].members)
  PROVE  /\ WalkType(m.type, below) \in Seq(Visits(s))
         /\ MemberWalk(m, below) \in Seq(Visits(s))
         /\ IsShift(s, MemberWalk(m, below), WalkType(m.type, below), <<m.name>>, <<InMember(m.name)>>, FALSE)
         /\ \A x : x \in ToSet(MemberWalk(m, below)) <=> MemberVisits(m, below, x)
<1> DEFINE visits == WalkType(m.type, below)
           members == <<m.name>>
           loc == <<InMember(m.name)>>
           no == FALSE
           q == MemberWalk(m, below)
<1>1. /\ m.type \in Types(s) /\ m.name \in Known(s) /\ InMember(m.name) \in Steps(s)
      /\ m.type.kind = "named" => m.type.of \in DOMAIN s.types
  BY MemberType
<1>2. visits \in Seq(Visits(s))
  <2> DEFINE type == m.type
  <2>1. type \in Types(s) /\ (type.kind = "named" => type.of \in DOMAIN s.types)
    BY <1>1
  <2> HIDE DEF type
  <2>2. WalkType(type, below) \in Seq(Visits(s))
    BY <2>1, WalkTypeIs
  <2>3. QED
    BY <2>2 DEF type
<1>3. loc \in Seq(Steps(s)) /\ members \in Seq(Known(s)) /\ no \in BOOLEAN
  BY <1>1, Single
<1>4. q = Shift(visits, members, loc, no)
  BY DEF MemberWalk
<1> HIDE DEF visits, members, loc, no, q
<1>5. IsShift(s, q, visits, members, loc, no)
  BY <1>2, <1>3, <1>4, ShiftIs
<1>6. q \in Seq(Visits(s)) /\ \A x : x \in ToSet(q) <=> \E v \in ToSet(visits) : x = Shifted(v, members, loc, no)
  BY <1>5 DEF IsShift
<1>7. QED
  BY <1>2, <1>5, <1>6 DEF visits, members, loc, no, q, MemberVisits

\* The visits of a record.
Visited(s, t, below, x) ==
  \/ x = Root(NamedType(t))
  \/ \E b \in ToSet(s.types[t].bases) : x \in ToSet(BaseWalk(b, below))
  \/ \E m \in ToSet(s.types[t].members) : x \in ToSet(MemberWalk(m, below))

\* A record's walk visits the record, its bases and its members, and nothing else.
LEMMA RecordElements ==
  ASSUME NEW s, SchemaAccepted(s), NEW below, PartsListed(s, below), NEW t \in DOMAIN s.types
  PROVE  /\ BaseWalks(s.types[t], below) \in Seq(Seq(Visits(s)))
         /\ MemberWalks(s.types[t], below) \in Seq(Seq(Visits(s)))
         /\ FlattenSeq(BaseWalks(s.types[t], below)) \in Seq(Visits(s))
         /\ FlattenSeq(MemberWalks(s.types[t], below)) \in Seq(Visits(s))
         /\ WalkRecord(NamedType(t), s.types[t], below) \in Seq(Visits(s))
         /\ \A x : x \in ToSet(WalkRecord(NamedType(t), s.types[t], below)) <=> Visited(s, t, below, x)
<1> DEFINE e == s.types[t]
           V == Visits(s)
           bs == BaseWalks(e, below)
           ms == MemberWalks(e, below)
           r == Root(NamedType(t))
           one == <<r>>
           B == FlattenSeq(bs)
           M == FlattenSeq(ms)
<1>1. /\ DOMAIN e.bases = 1..Len(e.bases) /\ Len(e.bases) \in Nat
      /\ DOMAIN e.members = 1..Len(e.members) /\ Len(e.members) \in Nat
  BY AcceptedBases, AcceptedMembers
<1>2. \A i \in DOMAIN e.bases : e.bases[i] \in ToSet(e.bases)
  BY DEF ToSet
<1>3. \A i \in DOMAIN e.members : e.members[i] \in ToSet(e.members)
  BY DEF ToSet
<1>4. /\ bs \in Seq(Seq(V)) /\ DOMAIN bs = DOMAIN e.bases
      /\ \A i \in DOMAIN e.bases : bs[i] = BaseWalk(e.bases[i], below)
  <2>1. \A i \in DOMAIN e.bases : BaseWalk(e.bases[i], below) \in Seq(V)
    BY <1>2, BaseWalkIs
  <2>2. bs = [i \in DOMAIN e.bases |-> BaseWalk(e.bases[i], below)]
    BY DEF BaseWalks
  <2> HIDE DEF V, bs
  <2>3. bs \in [1..Len(e.bases) -> Seq(V)]
    BY <1>1, <2>1, <2>2
  <2>4. bs \in Seq(Seq(V))
    BY <1>1, <2>3, SeqDef
  <2>5. QED
    BY <2>2, <2>4
<1>5. /\ ms \in Seq(Seq(V)) /\ DOMAIN ms = DOMAIN e.members
      /\ \A i \in DOMAIN e.members : ms[i] = MemberWalk(e.members[i], below)
  <2>1. \A i \in DOMAIN e.members : MemberWalk(e.members[i], below) \in Seq(V)
    BY <1>3, MemberWalkIs
  <2>2. ms = [i \in DOMAIN e.members |-> MemberWalk(e.members[i], below)]
    BY DEF MemberWalks
  <2> HIDE DEF V, ms
  <2>3. ms \in [1..Len(e.members) -> Seq(V)]
    BY <1>1, <2>1, <2>2
  <2>4. ms \in Seq(Seq(V))
    BY <1>1, <2>3, SeqDef
  <2>5. QED
    BY <2>2, <2>4
<1>6. WalkRecord(NamedType(t), e, below) = one \o B \o M
  BY RecordIs
<1>7. r \in V
  <2>1. NamedType(t) \in Types(s)
    BY DEF Types
  <2>2. QED
    BY <2>1, RootIs
<1>8. ToSet(e.bases) = {e.bases[i] : i \in DOMAIN e.bases} /\ ToSet(e.members) = {e.members[i] : i \in DOMAIN e.members}
  BY DEF ToSet
<1> HIDE DEF e, V, bs, ms, r
<1>9. one \in Seq(V) /\ ToSet(one) = {r}
  BY <1>7 DEF ToSet
<1>10. B \in Seq(V) /\ \A x : x \in ToSet(B) <=> \E i \in DOMAIN bs : x \in ToSet(bs[i])
  BY <1>4, FlattenElements
<1>11. M \in Seq(V) /\ \A x : x \in ToSet(M) <=> \E i \in DOMAIN ms : x \in ToSet(ms[i])
  BY <1>5, FlattenElements
<1> HIDE DEF one, B, M
<1>12. one \o B \in Seq(V) /\ \A x : x \in ToSet(one \o B) <=> x \in ToSet(one) \/ x \in ToSet(B)
  BY <1>9, <1>10, JoinedElements
<1> DEFINE oB == one \o B
<1> HIDE DEF oB
<1>13. oB \o M \in Seq(V) /\ \A x : x \in ToSet(oB \o M) <=> x \in ToSet(oB) \/ x \in ToSet(M)
  <2>1. oB \in Seq(V)
    BY <1>12 DEF oB
  <2>2. QED
    BY <1>11, <2>1, JoinedElements
<1>14. \A x : x \in ToSet(B) <=> \E b \in ToSet(e.bases) : x \in ToSet(BaseWalk(b, below))
  BY <1>4, <1>8, <1>10
<1>15. \A x : x \in ToSet(M) <=> \E m \in ToSet(e.members) : x \in ToSet(MemberWalk(m, below))
  BY <1>5, <1>8, <1>11
<1>16. \A x : x \in ToSet(oB \o M) <=> Visited(s, t, below, x)
  <2>1. \A x : x \in ToSet(oB \o M) <=> x = r \/ x \in ToSet(B) \/ x \in ToSet(M)
    BY <1>9, <1>12, <1>13 DEF oB
  <2>2. QED
    BY <1>14, <1>15, <2>1 DEF Visited, e, r
<1>17. QED
  BY <1>4, <1>5, <1>6, <1>10, <1>11, <1>13, <1>16 DEF oB, e, V, bs, ms, B, M

\* The last level has a list of visits for each type.
LEMMA FullListed == ASSUME NEW s, SchemaAccepted(s) PROVE PartsListed(s, Full(s))
<1> DEFINE g == WalkLevels(s)
           N == TypeCount(s)
           Good == {n \in 0..N : PartsListed(s, g[n])}
<1>1. N \in Nat
  BY CountIsNat
<1>2. /\ \A t \in DOMAIN s.types : g[0][t] = <<>>
      /\ \A n \in 1..N : \A t \in DOMAIN s.types : g[n][t] = WalkRecord(NamedType(t), s.types[t], g[n - 1])
  BY LevelsAre
<1> HIDE DEF g, N
<1>3. 0 \in Good
  <2> DEFINE x == g[0]
  <2>1. \A t \in DOMAIN s.types : x[t] = <<>>
    BY <1>2
  <2> HIDE DEF x
  <2>2. <<>> \in Seq(Visits(s))
    OBVIOUS
  <2>3. PartsListed(s, x)
    BY <2>1, <2>2, Zenon DEF PartsListed
  <2>4. QED
    BY <1>1, <2>3 DEF x
<1>4. ASSUME NEW n \in Nat, n < N, n \in Good PROVE n + 1 \in Good
  <2>1. n + 1 \in 0..N /\ n + 1 \in 1..N /\ (n + 1) - 1 = n
    BY <1>1, <1>4
  <2> DEFINE x == g[n]
             y == g[n + 1]
  <2>2. PartsListed(s, x) /\ \A t \in DOMAIN s.types : y[t] = WalkRecord(NamedType(t), s.types[t], x)
    BY <1>2, <1>4, <2>1
  <2> HIDE DEF x, y
  <2>3. \A t \in DOMAIN s.types : WalkRecord(NamedType(t), s.types[t], x) \in Seq(Visits(s))
    BY <2>2, RecordElements
  <2>4. PartsListed(s, y)
    BY <2>2, <2>3 DEF PartsListed
  <2>5. QED
    BY <2>1, <2>4 DEF y
<1> HIDE DEF Good
<1>5. \A n \in 0..N : n \in Good
  BY <1>1, <1>3, <1>4, UpTo
<1>6. N \in 0..N
  BY <1>1
<1>7. QED
  BY <1>5, <1>6 DEF Good, Full, g, N

\* The full walk of a record.
LEMMA FullElements ==
  ASSUME NEW s, SchemaAccepted(s), NEW t \in DOMAIN s.types
  PROVE  /\ Full(s)[t] \in Seq(Visits(s)) /\ ToSet(Full(s)[t]) \subseteq Visits(s)
         /\ \A x : x \in ToSet(Full(s)[t]) <=> Visited(s, t, Full(s), x)
<1>1. PartsListed(s, Full(s))
  BY FullListed
<1>2. Full(s)[t] = WalkRecord(NamedType(t), s.types[t], Full(s))
  BY FullIs
<1>3. \A x : x \in ToSet(WalkRecord(NamedType(t), s.types[t], Full(s))) <=> Visited(s, t, Full(s), x)
  BY <1>1, RecordElements
<1> DEFINE q == Full(s)[t]
<1>4. q \in Seq(Visits(s))
  BY <1>1 DEF PartsListed
<1> HIDE DEF q
<1>5. ToSet(q) \subseteq Visits(s)
  BY <1>4, OwnElements
<1>6. QED
  BY <1>2, <1>3, <1>4, <1>5 DEF q

LEMMA EmptyJoin == ASSUME NEW S, NEW q \in Seq(S) PROVE <<>> \o q = q /\ q \o <<>> = q
OBVIOUS

\* The four ways to be visited in the record t.
AsRecord(t, x) == x = Root(NamedType(t))
InBaseOf(s, t, x, b, v) ==
  /\ x.members = v.members /\ x.loc = <<InBase(b.type)>> \o v.loc /\ x.type = v.type /\ x.inherited = TRUE
AsMember(x, m) ==
  /\ x.members = <<m.name>> /\ x.loc = <<InMember(m.name)>> /\ x.type = m.type /\ x.inherited = FALSE
InMemberOf(x, m, v) ==
  /\ x.members = <<m.name>> \o v.members /\ x.loc = <<InMember(m.name)>> \o v.loc
  /\ x.type = v.type /\ x.inherited = v.inherited

LEMMA ShiftedBase ==
  ASSUME NEW s, SchemaAccepted(s), NEW t \in DOMAIN s.types, NEW b \in ToSet(s.types[t].bases), NEW v \in Visits(s)
  PROVE  InBaseOf(s, t, Shifted(v, <<>>, <<InBase(b.type)>>, TRUE), b, v)
<1> DEFINE nothing == <<>>
           loc == <<InBase(b.type)>>
           yes == TRUE
           x == Shifted(v, nothing, loc, yes)
<1>1. InBase(b.type) \in Steps(s)
  BY AcceptedBases
<1>2. nothing \in Seq(Known(s)) /\ loc \in Seq(Steps(s)) /\ yes \in BOOLEAN
  BY <1>1, Single
<1>3. v.members \in Seq(Known(s))
  BY DEF Visits
<1>4. nothing \o v.members = v.members
  BY <1>3, EmptyJoin
<1> HIDE DEF nothing, loc, yes
<1>5. x.members = nothing \o v.members /\ x.loc = loc \o v.loc /\ x.type = v.type /\ x.inherited = (v.inherited \/ yes)
  BY <1>2, ShiftedIs
<1>6. (v.inherited \/ yes) = TRUE
  BY DEF yes
<1> HIDE DEF x
<1>7. x.inherited = TRUE
  BY <1>5, <1>6, Zenon
<1>8. QED
  BY <1>4, <1>5, <1>7 DEF nothing, loc, yes, InBaseOf, x

LEMMA ShiftedMember ==
  ASSUME NEW s, SchemaAccepted(s), NEW t \in DOMAIN s.types, NEW m \in ToSet(s.types[t].members), NEW v \in Visits(s)
  PROVE  InMemberOf(Shifted(v, <<m.name>>, <<InMember(m.name)>>, FALSE), m, v)
<1> DEFINE members == <<m.name>>
           loc == <<InMember(m.name)>>
           no == FALSE
           x == Shifted(v, members, loc, no)
<1>1. InMember(m.name) \in Steps(s) /\ m.name \in Known(s)
  BY MemberType
<1>2. members \in Seq(Known(s)) /\ loc \in Seq(Steps(s)) /\ no \in BOOLEAN
  BY <1>1, Single
<1> HIDE DEF members, loc, no
<1>3. x.members = members \o v.members /\ x.loc = loc \o v.loc /\ x.type = v.type /\ x.inherited = (v.inherited \/ no)
  BY <1>2, ShiftedIs
<1>4. v.inherited \in BOOLEAN
  BY DEF Visits
<1>5. (v.inherited \/ no) = v.inherited
  BY <1>4 DEF no
<1> HIDE DEF x
<1>6. x.inherited = v.inherited
  BY <1>3, <1>5, Zenon
<1>7. QED
  BY <1>3, <1>6, Zenon DEF members, loc, no, InMemberOf, x

LEMMA ShiftedHere ==
  ASSUME NEW s, NEW v \in Visits(s)
  PROVE  LET x == Shifted(v, <<>>, <<>>, FALSE)
         IN  /\ x \in Visits(s) /\ x.members = v.members /\ x.loc = v.loc /\ x.type = v.type
             /\ x.inherited = v.inherited
<1> DEFINE nothing == <<>>
           no == FALSE
           x == Shifted(v, nothing, nothing, no)
<1>1. nothing \in Seq(Known(s)) /\ nothing \in Seq(Steps(s)) /\ no \in BOOLEAN
  OBVIOUS
<1>2. v.members \in Seq(Known(s)) /\ v.loc \in Seq(Steps(s)) /\ v.inherited \in BOOLEAN
  BY DEF Visits
<1>3. nothing \o v.members = v.members /\ nothing \o v.loc = v.loc
  BY <1>2, EmptyJoin
<1> HIDE DEF nothing, no
<1>4. /\ x \in Visits(s) /\ x.members = nothing \o v.members /\ x.loc = nothing \o v.loc /\ x.type = v.type
      /\ x.inherited = (v.inherited \/ no)
  BY <1>1, ShiftedIs
<1>5. (v.inherited \/ no) = v.inherited
  BY <1>2 DEF no
<1> HIDE DEF x
<1>6. x.inherited = v.inherited
  BY <1>4, <1>5, Zenon
<1>7. QED
  BY <1>3, <1>4, <1>6, Zenon DEF nothing, no, x

LEMMA RootMember ==
  ASSUME NEW s, SchemaAccepted(s), NEW t \in DOMAIN s.types, NEW m \in ToSet(s.types[t].members), NEW x,
         InMemberOf(x, m, Root(m.type))
  PROVE  AsMember(x, m)
<1> DEFINE r == Root(m.type)
           name == <<m.name>>
           loc == <<InMember(m.name)>>
<1>1. m.type \in Types(s) /\ InMember(m.name) \in Steps(s) /\ m.name \in Known(s)
  BY MemberType
<1>2. r.members = <<>> /\ r.loc = <<>> /\ r.type = m.type /\ r.inherited = FALSE
  BY <1>1, RootIs
<1>3. name \in Seq(Known(s)) /\ loc \in Seq(Steps(s))
  BY <1>1, Single
<1>4. name \o <<>> = name /\ loc \o <<>> = loc
  BY <1>3, EmptyJoin
<1> HIDE DEF r
<1>5. QED
  BY <1>2, <1>4, Zenon DEF InMemberOf, AsMember, r

\* What is visited in a record, and that it is.
LEMMA VisitCases ==
  ASSUME NEW s, SchemaAccepted(s), NEW t \in DOMAIN s.types, NEW x \in ToSet(Full(s)[t])
  PROVE  \/ AsRecord(t, x)
         \/ \E b \in ToSet(s.types[t].bases) : ~b.virtual /\ \E v \in ToSet(Full(s)[b.type]) : InBaseOf(s, t, x, b, v)
         \/ \E m \in ToSet(s.types[t].members) : AsMember(x, m)
         \/ \E m \in ToSet(s.types[t].members) :
              m.type.kind = "named" /\ \E v \in ToSet(Full(s)[m.type.of]) : InMemberOf(x, m, v)
<1> DEFINE below == Full(s)
<1>1. PartsListed(s, below)
  BY FullListed
<1>2. Visited(s, t, below, x)
  BY FullElements
<1> HIDE DEF below
<1>3. CASE x = Root(NamedType(t))
  BY <1>3 DEF AsRecord
<1>4. ASSUME NEW b \in ToSet(s.types[t].bases), x \in ToSet(BaseWalk(b, below))
      PROVE  ~b.virtual /\ \E v \in ToSet(below[b.type]) : InBaseOf(s, t, x, b, v)
  <2>1. BaseVisits(b, below, x)
    BY <1>1, <1>4, BaseWalkIs
  <2>2. PICK v \in ToSet(below[b.type]) : x = Shifted(v, <<>>, <<InBase(b.type)>>, TRUE)
    BY <2>1 DEF BaseVisits
  <2>3. b.type \in DOMAIN s.types
    BY AcceptedBases
  <2>4. v \in Visits(s)
    BY <2>2, <2>3, FullElements DEF below
  <2>5. QED
    BY <2>1, <2>2, <2>4, ShiftedBase DEF BaseVisits
<1>5. ASSUME NEW m \in ToSet(s.types[t].members), x \in ToSet(MemberWalk(m, below))
      PROVE  AsMember(x, m) \/ (m.type.kind = "named" /\ \E v \in ToSet(below[m.type.of]) : InMemberOf(x, m, v))
  <2>1. PICK w \in ToSet(WalkType(m.type, below)) : x = Shifted(w, <<m.name>>, <<InMember(m.name)>>, FALSE)
    <3>1. MemberVisits(m, below, x)
      BY <1>1, <1>5, MemberWalkIs
    <3>2. QED
      BY <3>1 DEF MemberVisits
  <2>2. m.type \in Types(s) /\ (m.type.kind = "named" => m.type.of \in DOMAIN s.types)
    BY MemberType
  <2> DEFINE type == m.type
  <2>3. WalkType(type, below) \in Seq(Visits(s))
    BY <1>1, MemberWalkIs
  <2>4. w \in Visits(s)
    <3> DEFINE q == WalkType(type, below)
    <3> HIDE DEF q
    <3>1. w \in ToSet(q) /\ q \in Seq(Visits(s))
      BY <2>1, <2>3 DEF q
    <3>2. QED
      BY <3>1, OwnElements
  <2>5. InMemberOf(x, m, w)
    BY <2>1, <2>4, ShiftedMember
  <2>6. w = Root(type) \/ (type.kind = "named" /\ \E v \in ToSet(below[type.of]) : w = Shifted(v, <<>>, <<>>, FALSE))
    <3>1. type \in Types(s) /\ (type.kind = "named" => type.of \in DOMAIN s.types) /\ w \in ToSet(WalkType(type, below))
      BY <2>1, <2>2
    <3> HIDE DEF type
    <3>2. TypeVisits(type, below, w)
      BY <1>1, <3>1, WalkTypeIs
    <3>3. QED
      BY <3>2 DEF TypeVisits
  <2>7. CASE w = Root(type)
    BY <2>5, <2>7, RootMember
  <2>8. ASSUME type.kind = "named", NEW v \in ToSet(below[type.of]), w = Shifted(v, <<>>, <<>>, FALSE)
        PROVE  InMemberOf(x, m, v)
    <3>1. v \in Visits(s)
      BY <2>2, <2>8, FullElements DEF below
    <3>2. w.members = v.members /\ w.loc = v.loc /\ w.type = v.type /\ w.inherited = v.inherited
      BY <2>8, <3>1, ShiftedHere
    <3>3. QED
      BY <2>5, <3>2, Zenon DEF InMemberOf
  <2>9. QED
    BY <2>6, <2>7, <2>8
<1>6. QED
  BY <1>2, <1>3, <1>4, <1>5 DEF Visited, below

\* The walk of a type visits the record, all of each base that is not virtual, each
\* member and all below it.
LEMMA VisitsAll ==
  ASSUME NEW s, SchemaAccepted(s), NEW t \in DOMAIN s.types
  PROVE  /\ \E x \in ToSet(Full(s)[t]) : AsRecord(t, x)
         /\ \A b \in ToSet(s.types[t].bases) : ~b.virtual =>
              \A v \in ToSet(Full(s)[b.type]) : \E x \in ToSet(Full(s)[t]) : InBaseOf(s, t, x, b, v)
         /\ \A m \in ToSet(s.types[t].members) : \E x \in ToSet(Full(s)[t]) : AsMember(x, m)
         /\ \A m \in ToSet(s.types[t].members) : m.type.kind = "named" =>
              \A v \in ToSet(Full(s)[m.type.of]) : \E x \in ToSet(Full(s)[t]) : InMemberOf(x, m, v)
<1> DEFINE below == Full(s)
<1>1. PartsListed(s, below)
  BY FullListed
<1>2. \A x : x \in ToSet(below[t]) <=> Visited(s, t, below, x)
  BY FullElements
<1> HIDE DEF below
<1>3. \E x \in ToSet(below[t]) : AsRecord(t, x)
  BY <1>2 DEF Visited, AsRecord
<1>4. ASSUME NEW b \in ToSet(s.types[t].bases), ~b.virtual, NEW v \in ToSet(below[b.type])
      PROVE  \E x \in ToSet(below[t]) : InBaseOf(s, t, x, b, v)
  <2> DEFINE x == Shifted(v, <<>>, <<InBase(b.type)>>, TRUE)
  <2>1. x \in ToSet(BaseWalk(b, below))
    <3>1. BaseVisits(b, below, x)
      BY <1>4 DEF BaseVisits
    <3> HIDE DEF x
    <3>2. QED
      BY <1>1, <3>1, BaseWalkIs
  <2>2. b.type \in DOMAIN s.types
    BY AcceptedBases
  <2>3. v \in Visits(s)
    BY <2>2, FullElements DEF below
  <2>4. InBaseOf(s, t, x, b, v)
    BY <2>3, ShiftedBase
  <2> HIDE DEF x
  <2>5. x \in ToSet(below[t])
    BY <1>2, <2>1 DEF Visited
  <2>6. QED
    BY <2>4, <2>5
<1>5. ASSUME NEW m \in ToSet(s.types[t].members), NEW w \in ToSet(WalkType(m.type, below)), w \in Visits(s)
      PROVE  \E x \in ToSet(below[t]) : InMemberOf(x, m, w)
  <2> DEFINE x == Shifted(w, <<m.name>>, <<InMember(m.name)>>, FALSE)
  <2>1. x \in ToSet(MemberWalk(m, below))
    <3>1. MemberVisits(m, below, x)
      BY DEF MemberVisits
    <3> HIDE DEF x
    <3>2. QED
      BY <1>1, <3>1, MemberWalkIs
  <2>2. InMemberOf(x, m, w)
    BY <1>5, ShiftedMember
  <2> HIDE DEF x
  <2>3. x \in ToSet(below[t])
    BY <1>2, <2>1 DEF Visited
  <2>4. QED
    BY <2>2, <2>3
<1>6. ASSUME NEW m \in ToSet(s.types[t].members)
      PROVE  /\ Root(m.type) \in ToSet(WalkType(m.type, below)) /\ Root(m.type) \in Visits(s)
             /\ m.type.kind = "named" => /\ m.type.of \in DOMAIN s.types
                                         /\ \A v \in ToSet(below[m.type.of]) :
                                               Shifted(v, <<>>, <<>>, FALSE) \in ToSet(WalkType(m.type, below))
  <2> DEFINE type == m.type
  <2>1. type \in Types(s) /\ (type.kind = "named" => type.of \in DOMAIN s.types)
    BY MemberType
  <2> HIDE DEF type
  <2>2. \A x : x \in ToSet(WalkType(type, below)) <=> TypeVisits(type, below, x)
    BY <1>1, <2>1, WalkTypeIs
  <2>3. Root(type) \in Visits(s)
    BY <2>1, RootIs
  <2>4. QED
    BY <2>1, <2>2, <2>3 DEF type, TypeVisits
<1>7. ASSUME NEW m \in ToSet(s.types[t].members) PROVE \E x \in ToSet(below[t]) : AsMember(x, m)
  BY <1>5, <1>6, RootMember
<1>8. ASSUME NEW m \in ToSet(s.types[t].members), m.type.kind = "named", NEW v \in ToSet(below[m.type.of])
      PROVE  \E x \in ToSet(below[t]) : InMemberOf(x, m, v)
  <2> DEFINE w == Shifted(v, <<>>, <<>>, FALSE)
  <2>1. w \in ToSet(WalkType(m.type, below))
    BY <1>6, <1>8
  <2>2. v \in Visits(s)
    BY <1>6, <1>8, FullElements DEF below
  <2>3. w \in Visits(s) /\ w.members = v.members /\ w.loc = v.loc /\ w.type = v.type /\ w.inherited = v.inherited
    BY <2>2, ShiftedHere
  <2> HIDE DEF w
  <2>4. PICK x \in ToSet(below[t]) : InMemberOf(x, m, w)
    BY <1>5, <2>1, <2>3
  <2>5. InMemberOf(x, m, v)
    BY <2>3, <2>4, Zenon DEF InMemberOf
  <2>6. QED
    BY <2>5
<1>9. QED
  BY <1>3, <1>4, <1>7, <1>8 DEF below

-----------------------------------------------------------------------------
(***************************************************************************)
(* The member search                                                       *)
(***************************************************************************)

Answers == {"found", "none", "ambiguous", "invalid"}

\* The way to a member: bases, then the member itself.
WayTo(s, name, loc) ==
  /\ loc \in Locations(s) /\ Len(loc) > 0 /\ loc[Len(loc)] = InMember(name)
  /\ \A i \in 1..Len(loc) : i < Len(loc) => \A x : loc[i] # InMember(x)

\* q is the member that the answer a of a search in the record at p has found.
AtMember(p, q, a) ==
  /\ q.loc = p.loc \o a.loc /\ q.type = a.type /\ q.plain = a.plain
  /\ q.const = (p.const \/ p.type.const)

\* The walk of the record comes to the member that the search has found.
HasVisit(s, t, name, a) ==
  \E v \in ToSet(Full(s)[t]) : v.members = <<name>> /\ v.loc = a.loc /\ v.type = a.type

FoundIn(s, t, name, a) ==
  /\ a = [status |-> "found", loc |-> a.loc, type |-> a.type, plain |-> a.plain]
  /\ WayTo(s, name, a.loc)
  /\ \E m \in Members(s) : m.name = name
  /\ \A p \in Places(s) : p.type.kind = "named" /\ p.type.of = t =>
        \E q \in Places(s) : AtMember(p, q, a)
  /\ HasVisit(s, t, name, a)

Answered(s, t, name, a) ==
  a.status \in Answers /\ (a.status = "found" => FoundIn(s, t, name, a))

\* The answers of the bases combine to one of them, if any found the name.
LEMMA CombineFacts ==
  ASSUME NEW answers, NEW n \in Nat, DOMAIN answers = 1..n,
         \A i \in 1..n : answers[i].status \in Answers
  PROVE  /\ Combine(answers).status \in Answers
         /\ Combine(answers).status = "found" =>
              \E i \in 1..n : answers[i].status = "found" /\ Combine(answers) = answers[i]
<1> DEFINE found == {i \in DOMAIN answers : Is(answers[i], "found")}
           broken == {i \in DOMAIN answers : answers[i].status \in {"invalid", "ambiguous"}}
           ends == broken \cup {i \in found : \E j \in found : j < i}
<1>1. CASE ends # {}
  <2>1. ends \in SUBSET Nat
    OBVIOUS
  <2>2. Min(ends) \in ends
    BY <1>1, <2>1, LeastOf
  <2>3. Combine(answers) = Outcome(IF Min(ends) \in broken THEN answers[Min(ends)].status ELSE "ambiguous")
    BY <1>1 DEF Combine
  <2>4. Min(ends) \in broken => answers[Min(ends)].status \in {"invalid", "ambiguous"}
    OBVIOUS
  <2> HIDE DEF ends, broken
  <2>5. Combine(answers).status \in {"invalid", "ambiguous"}
    BY <2>3, <2>4 DEF Outcome
  <2>6. QED
    BY <2>5 DEF Answers
<1>2. CASE ends = {} /\ found # {}
  <2> DEFINE one == CHOOSE i \in found : TRUE
  <2>1. one \in found
    BY <1>2
  <2>2. Combine(answers) = answers[one]
    BY <1>2 DEF Combine
  <2> HIDE DEF one
  <2>3. one \in 1..n /\ answers[one].status = "found"
    BY <2>1 DEF Is
  <2>4. QED
    BY <2>2, <2>3 DEF Answers
<1>3. CASE ends = {} /\ found = {}
  <2>1. Combine(answers) = Outcome("none")
    BY <1>3 DEF Combine
  <2>2. QED
    BY <2>1 DEF Outcome, Answers
<1>4. QED
  BY <1>1, <1>2, <1>3

\* A member of the record at a place is a place below it.
LEMMA MemberPlace ==
  ASSUME NEW s, SchemaAccepted(s), NEW p \in Places(s), p.type.kind = "named",
         NEW m \in ToSet(s.types[p.type.of].members)
  PROVE  \E q \in Places(s) : /\ q.loc = p.loc \o <<InMember(m.name)>> /\ q.type = m.type
                              /\ q.plain = m.plain /\ q.const = (p.const \/ p.type.const)
<1> DEFINE q == [loc |-> Append(p.loc, InMember(m.name)), type |-> m.type,
                 const |-> p.const \/ p.type.const, plain |-> m.plain]
<1>1. q \in PartsOf(s, p)
  BY DEF PartsOf
<1>2. q \in Places(s)
  BY <1>1, PlacesClosed
<1>3. PlaceOk(s, p) /\ p.type.of \in DOMAIN s.types
  BY PlacesOk, AcceptedType DEF PlaceOk
<1>4. InMember(m.name) \in Steps(s) /\ p.loc \in Seq(Steps(s))
  BY <1>3, AcceptedMembers DEF PlaceOk, Locations
<1>5. Append(p.loc, InMember(m.name)) = p.loc \o <<InMember(m.name)>>
  <2>1. \A l \in Seq(Steps(s)), e \in Steps(s) : Append(l, e) = l \o <<e>>
    BY AppendIsConcat
  <2>2. QED
    BY <1>4, <2>1, Zenon
<1>6. QED
  <2>1. q.loc = Append(p.loc, InMember(m.name)) /\ q.type = m.type /\ q.plain = m.plain /\ q.const = (p.const \/ p.type.const)
    OBVIOUS
  <2> HIDE DEF q
  <2>2. QED
    BY <1>2, <1>5, <2>1, Zenon

\* A place of a type with a base that is not virtual has a place for the base.
LEMMA BasePlace ==
  ASSUME NEW s, SchemaAccepted(s), NEW p \in Places(s), p.type.kind = "named",
         NEW b \in ToSet(s.types[p.type.of].bases), ~b.virtual
  PROVE  \E q \in Places(s) : /\ q.loc = Append(p.loc, InBase(b.type)) /\ q.plain = p.plain
                              /\ q.type.kind = "named" /\ q.type.of = b.type /\ q.type.const = p.type.const
                              /\ q.const = (p.const \/ p.type.const)
<1> DEFINE q == [loc |-> Append(p.loc, InBase(b.type)), type |-> [p.type EXCEPT !.of = b.type],
                 const |-> p.const \/ p.type.const, plain |-> p.plain]
<1>1. q \in PartsOf(s, p)
  BY DEF PartsOf
<1>2. q \in Places(s)
  BY <1>1, PlacesClosed
<1>3. PlaceOk(s, p)
  BY PlacesOk
<1>4. p.type = [kind |-> "named", of |-> p.type.of, const |-> p.type.const]
  BY <1>3, AcceptedType DEF PlaceOk
<1>5. [p.type EXCEPT !.of = b.type] = [kind |-> "named", of |-> b.type, const |-> p.type.const]
  BY <1>4
<1>6. QED
  <2>1. /\ q.loc = Append(p.loc, InBase(b.type)) /\ q.type = [kind |-> "named", of |-> b.type, const |-> p.type.const]
        /\ q.plain = p.plain /\ q.const = (p.const \/ p.type.const)
    BY <1>5
  <2> HIDE DEF q
  <2>2. q.type.kind = "named" /\ q.type.of = b.type /\ q.type.const = p.type.const
    BY <2>1
  <2>3. QED
    BY <1>2, <2>1, <2>2, Zenon

\* A member the type declares is found in it.
LEMMA OwnFound ==
  ASSUME NEW s, SchemaAccepted(s), NEW t \in DOMAIN s.types, NEW m \in ToSet(s.types[t].members), NEW name,
         m.name = name
  PROVE  FoundIn(s, t, name, [status |-> "found", loc |-> <<InMember(name)>>, type |-> m.type, plain |-> m.plain])
<1> DEFINE a == [status |-> "found", loc |-> <<InMember(name)>>, type |-> m.type, plain |-> m.plain]
<1>1. InMember(name) \in Steps(s)
  BY AcceptedMembers
<1>2. <<InMember(name)>> \in Seq(Steps(s)) /\ Len(<<InMember(name)>>) = 1 /\ <<InMember(name)>>[1] = InMember(name)
  BY <1>1
<1>3. WayTo(s, name, <<InMember(name)>>)
  BY <1>2 DEF WayTo, Locations
<1>4. \E x \in Members(s) : x.name = name
  BY DEF Members
<1>5. ASSUME NEW p \in Places(s), p.type.kind = "named", p.type.of = t
      PROVE  \E q \in Places(s) : AtMember(p, q, a)
  <2>1. PICK q \in Places(s) : /\ q.loc = p.loc \o <<InMember(m.name)>> /\ q.type = m.type
                               /\ q.plain = m.plain /\ q.const = (p.const \/ p.type.const)
    BY <1>5, MemberPlace
  <2>2. AtMember(p, q, a)
    BY <2>1 DEF AtMember
  <2>3. QED
    BY <2>2
<1>6. a.loc = <<InMember(name)>> /\ a = [status |-> "found", loc |-> a.loc, type |-> a.type, plain |-> a.plain]
  OBVIOUS
<1>7. HasVisit(s, t, name, a)
  <2>1. PICK v \in ToSet(Full(s)[t]) : AsMember(v, m)
    BY VisitsAll
  <2>2. v.members = <<name>> /\ v.loc = <<InMember(name)>> /\ v.type = m.type
    BY <2>1 DEF AsMember
  <2>3. a.loc = <<InMember(name)>> /\ a.type = m.type
    OBVIOUS
  <2> HIDE DEF a
  <2>4. QED
    BY <2>2, <2>3 DEF HasVisit
<1> HIDE DEF a
<1>8. QED
  BY <1>3, <1>4, <1>5, <1>6, <1>7, Zenon DEF FoundIn, a

\* A way to a name within a base is a way to the name, one step longer.
LEMMA LongerWay ==
  ASSUME NEW s, NEW name, NEW loc, WayTo(s, name, loc), NEW x, InBase(x) \in Steps(s)
  PROVE  WayTo(s, name, <<InBase(x)>> \o loc)
<1>1. loc \in Seq(Steps(s)) /\ Len(loc) \in Nat /\ Len(loc) > 0
  BY DEF WayTo, Locations
<1> DEFINE e == InBase(x)
           way == <<e>> \o loc
<1>2. \A y : e # InMember(y)
  BY StepsDiffer
<1>3. e \in Steps(s)
  OBVIOUS
<1> HIDE DEF e
<1>4. /\ way \in Seq(Steps(s)) /\ Len(way) = Len(loc) + 1 /\ way[1] = e
      /\ \A i \in 1..Len(loc) : way[i + 1] = loc[i]
  <2>1. <<e>> \in Seq(Steps(s)) /\ Len(<<e>>) = 1 /\ <<e>>[1] = e
    BY <1>3
  <2>2. QED
    BY <1>1, <2>1
<1> HIDE DEF way
<1>5. way[Len(way)] = InMember(name)
  <2>1. Len(loc) \in 1..Len(loc)
    BY <1>1
  <2>2. QED
    BY <1>4, <2>1 DEF WayTo
<1>6. ASSUME NEW i \in 1..Len(way), i < Len(way), NEW y PROVE way[i] # InMember(y)
  <2>1. CASE i = 1
    BY <1>2, <1>4, <2>1
  <2>2. CASE i # 1
    <3>1. i - 1 \in 1..Len(loc) /\ i - 1 < Len(loc) /\ (i - 1) + 1 = i
      BY <1>1, <1>4, <1>6, <2>2
    <3>2. way[i] = loc[i - 1]
      BY <1>4, <3>1
    <3>3. QED
      BY <3>1, <3>2 DEF WayTo
  <2>3. QED
    BY <2>1, <2>2
<1>7. Len(way) > 0
  BY <1>1, <1>4
<1>8. QED
  BY <1>4, <1>5, <1>6, <1>7 DEF WayTo, Locations, way, e

\* What the search finds in a base is found in the type.
LEMMA BelowFound ==
  ASSUME NEW s, SchemaAccepted(s), NEW t \in DOMAIN s.types, NEW b \in ToSet(s.types[t].bases), ~b.virtual,
         NEW name, NEW d, d.status = "found", FoundIn(s, b.type, name, d)
  PROVE  Below(b.type, d).status = "found" /\ FoundIn(s, t, name, Below(b.type, d))
<1> DEFINE a == [status |-> "found", loc |-> <<InBase(b.type)>> \o d.loc, type |-> d.type, plain |-> d.plain]
<1>1. Below(b.type, d) = a
  <2>1. d = [status |-> "found", loc |-> d.loc, type |-> d.type, plain |-> d.plain]
    BY DEF FoundIn
  <2>2. [d EXCEPT !.loc = <<InBase(b.type)>> \o @] = a
    <3>1. PICK x, y, z : d = [status |-> "found", loc |-> x, type |-> y, plain |-> z]
      BY <2>1
    <3>2. d.loc = x /\ d.type = y /\ d.plain = z
      BY <3>1
    <3>3. \A w : [[status |-> "found", loc |-> x, type |-> y, plain |-> z] EXCEPT !.loc = w]
                   = [status |-> "found", loc |-> w, type |-> y, plain |-> z]
      OBVIOUS
    <3>4. QED
      BY <3>1, <3>2, <3>3
  <2>3. QED
    BY <2>2 DEF Below, Is
<1>2. InBase(b.type) \in Steps(s)
  BY AcceptedBases
<1>3. WayTo(s, name, <<InBase(b.type)>> \o d.loc)
  BY <1>2, LongerWay DEF FoundIn
<1>4. \E x \in Members(s) : x.name = name
  BY DEF FoundIn
<1>5. ASSUME NEW p \in Places(s), p.type.kind = "named", p.type.of = t
      PROVE  \E q \in Places(s) : AtMember(p, q, a)
  <2>1. PICK r \in Places(s) : /\ r.loc = Append(p.loc, InBase(b.type)) /\ r.plain = p.plain
                               /\ r.type.kind = "named" /\ r.type.of = b.type /\ r.type.const = p.type.const
                               /\ r.const = (p.const \/ p.type.const)
    BY <1>5, BasePlace
  <2>2. PICK q \in Places(s) : AtMember(r, q, d)
    BY <2>1 DEF FoundIn
  <2>3. r.loc \o d.loc = p.loc \o (<<InBase(b.type)>> \o d.loc)
    <3>1. \A l, k \in Seq(Steps(s)), e \in Steps(s) : Append(l, e) \o k = l \o (<<e>> \o k)
      <4>1. SUFFICES ASSUME NEW l \in Seq(Steps(s)), NEW k \in Seq(Steps(s)), NEW e \in Steps(s)
                     PROVE  Append(l, e) \o k = l \o (<<e>> \o k)
        OBVIOUS
      <4>2. Append(l, e) = l \o <<e>> /\ <<e>> \in Seq(Steps(s))
        BY AppendIsConcat
      <4>3. QED
        BY <4>2, ConcatAssociative
    <3>2. p.loc \in Seq(Steps(s)) /\ d.loc \in Seq(Steps(s))
      BY PlacesOk DEF PlaceOk, Locations, FoundIn, WayTo
    <3>3. QED
      BY <1>2, <2>1, <3>1, <3>2, Zenon
  <2>4. /\ q.loc = r.loc \o d.loc /\ q.type = d.type /\ q.plain = d.plain
        /\ q.const = (r.const \/ r.type.const)
    BY <2>2 DEF AtMember
  <2>5. q.const = (p.const \/ p.type.const)
    BY <2>1, <2>4
  <2>6. a.loc = <<InBase(b.type)>> \o d.loc /\ a.type = d.type /\ a.plain = d.plain
    OBVIOUS
  <2> HIDE DEF a
  <2>7. AtMember(p, q, a)
    BY <2>3, <2>4, <2>5, <2>6, Zenon DEF AtMember
  <2>8. QED
    BY <2>7
<1>6. /\ a.loc = <<InBase(b.type)>> \o d.loc /\ a.status = "found"
      /\ a = [status |-> "found", loc |-> a.loc, type |-> a.type, plain |-> a.plain]
  OBVIOUS
<1>7. HasVisit(s, t, name, a)
  <2>1. PICK v \in ToSet(Full(s)[b.type]) : v.members = <<name>> /\ v.loc = d.loc /\ v.type = d.type
    BY DEF FoundIn, HasVisit
  <2>2. PICK x \in ToSet(Full(s)[t]) : InBaseOf(s, t, x, b, v)
    BY VisitsAll
  <2>3. x.members = <<name>> /\ x.loc = <<InBase(b.type)>> \o d.loc /\ x.type = d.type
    BY <2>1, <2>2 DEF InBaseOf
  <2>4. a.loc = <<InBase(b.type)>> \o d.loc /\ a.type = d.type
    OBVIOUS
  <2> HIDE DEF a
  <2>5. QED
    BY <2>3, <2>4 DEF HasVisit
<1> HIDE DEF a
<1>8. QED
  BY <1>1, <1>3, <1>4, <1>5, <1>6, <1>7, Zenon DEF FoundIn

\* One level of the search, if the level below is right.
LEMMA SearchStep ==
  ASSUME NEW s, SchemaAccepted(s), NEW t \in DOMAIN s.types, NEW name, NEW deeper,
         \A u \in DOMAIN s.types : Answered(s, u, name, deeper[u])
  PROVE  Answered(s, t, name, SearchRecord(s.types[t], name, deeper))
<1> DEFINE entry == s.types[t]
           own == {m \in ToSet(entry.members) : m.name = name}
           Answer(base) == IF base.virtual THEN Outcome("invalid") ELSE Below(base.type, deeper[base.type])
           answers == [i \in DOMAIN entry.bases |-> Answer(entry.bases[i])]
<1>1. CASE own # {}
  <2> DEFINE member == CHOOSE m \in own : TRUE
  <2>1. member \in own
    BY <1>1
  <2>2. SearchRecord(entry, name, deeper)
          = [status |-> "found", loc |-> <<InMember(name)>>, type |-> member.type, plain |-> member.plain]
    BY <1>1 DEF SearchRecord
  <2> HIDE DEF member
  <2>3. FoundIn(s, t, name, SearchRecord(entry, name, deeper))
    BY <2>1, <2>2, OwnFound
  <2>4. SearchRecord(entry, name, deeper).status = "found"
    BY <2>2
  <2>5. QED
    BY <2>3, <2>4 DEF Answered, Answers
<1>2. CASE own = {}
  <2>1. SearchRecord(entry, name, deeper) = Combine(answers)
    BY <1>2 DEF SearchRecord
  <2> DEFINE n == Len(entry.bases)
  <2>2. DOMAIN entry.bases = 1..n /\ n \in Nat
    BY AcceptedBases
  <2>3. \A i \in 1..n : entry.bases[i] \in ToSet(entry.bases)
    BY <2>2 DEF ToSet
  <2> HIDE DEF n, own
  <2>4. ASSUME NEW i \in 1..n
        PROVE  /\ answers[i].status \in Answers
               /\ answers[i].status = "found" => FoundIn(s, t, name, answers[i])
    <3> DEFINE b == entry.bases[i]
    <3>1. b \in ToSet(entry.bases) /\ answers[i] = Answer(b)
      BY <2>2, <2>3
    <3>2. b.type \in DOMAIN s.types
      BY <3>1, AcceptedBases
    <3> HIDE DEF b, answers
    <3>3. CASE b.virtual
      <4>1. answers[i].status = "invalid"
        BY <3>1, <3>3 DEF Outcome
      <4>2. QED
        BY <4>1 DEF Answers
    <3>4. CASE ~b.virtual
      <4>1. Answered(s, b.type, name, deeper[b.type]) /\ answers[i] = Below(b.type, deeper[b.type])
        BY <3>1, <3>2, <3>4
      <4>2. CASE deeper[b.type].status = "found"
        <5>1. FoundIn(s, b.type, name, deeper[b.type])
          BY <4>1, <4>2 DEF Answered
        <5>2. answers[i].status = "found" /\ FoundIn(s, t, name, answers[i])
          BY <3>1, <3>4, <4>1, <4>2, <5>1, BelowFound
        <5>3. QED
          BY <5>2 DEF Answers
      <4>3. CASE deeper[b.type].status # "found"
        <5>1. answers[i] = deeper[b.type]
          BY <4>1, <4>3 DEF Below, Is
        <5>2. QED
          BY <4>1, <4>3, <5>1 DEF Answered
      <4>4. QED
        BY <4>2, <4>3
    <3>5. QED
      BY <3>3, <3>4
  <2>5. DOMAIN answers = 1..n
    BY <2>2
  <2> HIDE DEF answers
  <2>6. /\ Combine(answers).status \in Answers
        /\ Combine(answers).status = "found" =>
             \E i \in 1..n : answers[i].status = "found" /\ Combine(answers) = answers[i]
    BY <2>2, <2>4, <2>5, CombineFacts
  <2>7. QED
    BY <2>1, <2>4, <2>6 DEF Answered
<1>3. QED
  BY <1>1, <1>2

\* A search gives the member at the end of a way through bases, or none.
LEMMA SearchFacts ==
  ASSUME NEW s, SchemaAccepted(s), NEW t \in DOMAIN s.types, NEW name
  PROVE  /\ Answered(s, t, name, FindMember(s, t, name))
         /\ \A m \in ToSet(s.types[t].members) : m.name = name =>
              FindMember(s, t, name)
                = [status |-> "found", loc |-> <<InMember(name)>>, type |-> m.type, plain |-> m.plain]
<1> DEFINE N == TypeCount(s) + 1
           search == CHOOSE g : g = [n \in 0..N |-> SearchBy(s, name, g, n)]
<1>1. N \in Nat /\ N # 0
  BY CountIsNat
<1>2. search = [n \in 0..N |-> SearchBy(s, name, search, n)]
  BY <1>1, SearchExists
<1>3. FindMember(s, t, name) = search[N][t]
  BY DEF FindMember, SearchBy
<1> HIDE DEF search, N
<1>4. \A n \in 0..N : search[n] = SearchBy(s, name, search, n)
  BY <1>1, <1>2, SearchValues
<1>5. \A n \in 1..N : \A u \in DOMAIN s.types :
         search[n][u] = SearchRecord(s.types[u], name, search[n - 1])
  <2>1. \A n \in 1..N : n \in 0..N /\ n # 0
    OBVIOUS
  <2>2. QED
    BY <1>4, <2>1 DEF SearchBy
<1>6. \A u \in DOMAIN s.types : search[0][u] = Outcome("invalid")
  <2>1. 0 \in 0..N
    BY <1>1
  <2>2. QED
    BY <1>4, <2>1 DEF SearchBy
<1> DEFINE Good == {n \in 0..N : \A u \in DOMAIN s.types : Answered(s, u, name, search[n][u])}
<1>7. 0 \in Good
  <2>1. \A u \in DOMAIN s.types : search[0][u].status = "invalid"
    BY <1>6 DEF Outcome
  <2>2. QED
    BY <1>1, <2>1 DEF Answered, Answers
<1>8. ASSUME NEW n \in Nat, n < N, n \in Good PROVE n + 1 \in Good
  <2>1. n + 1 \in 1..N /\ n + 1 \in 0..N /\ (n + 1) - 1 = n
    BY <1>1, <1>8
  <2>2. \A u \in DOMAIN s.types : Answered(s, u, name, search[n][u])
    BY <1>8
  <2>3. \A u \in DOMAIN s.types : search[n + 1][u] = SearchRecord(s.types[u], name, search[n])
    BY <1>5, <2>1
  <2>4. \A u \in DOMAIN s.types : Answered(s, u, name, SearchRecord(s.types[u], name, search[n]))
    BY <2>2, SearchStep
  <2>5. QED
    BY <2>1, <2>3, <2>4
<1> HIDE DEF Good
<1>9. N \in Good /\ N \in 1..N
  BY <1>1, <1>7, <1>8, UpTo
<1>10. Answered(s, t, name, FindMember(s, t, name))
  BY <1>3, <1>9 DEF Good
<1>11. ASSUME NEW m \in ToSet(s.types[t].members), m.name = name
       PROVE  FindMember(s, t, name)
                = [status |-> "found", loc |-> <<InMember(name)>>, type |-> m.type, plain |-> m.plain]
  <2>1. FindMember(s, t, name) = SearchRecord(s.types[t], name, search[N - 1])
    BY <1>3, <1>5, <1>9
  <2> DEFINE own == {x \in ToSet(s.types[t].members) : x.name = name}
             member == CHOOSE x \in own : TRUE
  <2>2. m \in own
    BY <1>11
  <2>3. member \in own
    BY <2>2
  <2>4. member = m
    BY <2>2, <2>3, AcceptedMembers
  <2>5. SearchRecord(s.types[t], name, search[N - 1])
          = [status |-> "found", loc |-> <<InMember(name)>>, type |-> member.type, plain |-> member.plain]
    BY <2>2 DEF SearchRecord
  <2>6. QED
    BY <2>1, <2>4, <2>5
<1>12. QED
  BY <1>10, <1>11

-----------------------------------------------------------------------------
(***************************************************************************)
(* The states along a path                                                 *)
(***************************************************************************)

Statuses == {"success", "not_found", "invalid_input", "invalid_runtime", "unsupported_type"}

StateBefore(through, state) == IF through THEN Normalize(state) ELSE state

\* The states along a path: the start, then one step for each name.
LEMMA FollowSteps ==
  ASSUME NEW s, NEW start, NEW names, Len(names) \in Nat, NEW through
  PROVE  LET f == Follow(s, start, names, through)
         IN  /\ DOMAIN f = 0..Len(names) /\ f[0] = start
             /\ \A n \in 1..Len(names) : f[n] = MemberStep(s, StateBefore(through, f[n - 1]), names[n])
<1> DEFINE N == Len(names)
           f == CHOOSE g : g = [n \in 0..N |-> FollowBy(s, start, names, through, g, n)]
<1>1. f = [n \in 0..N |-> FollowBy(s, start, names, through, f, n)]
  BY FollowExists
<1>2. Follow(s, start, names, through) = f
  BY DEF Follow, FollowBy
<1> HIDE DEF f
<1>3. \A n \in 0..N : f[n] = FollowBy(s, start, names, through, f, n)
  BY <1>1, FollowValues
<1>4. DOMAIN f = 0..N
  <2> DEFINE Value(n) == FollowBy(s, start, names, through, f, n)
  <2>1. f = [n \in 0..N |-> Value(n)]
    BY <1>1
  <2> HIDE DEF Value
  <2>2. QED
    BY <2>1
<1>5. 0 \in 0..N /\ \A n \in 1..N : n \in 0..N /\ n # 0
  OBVIOUS
<1>6. f[0] = start
  BY <1>3, <1>5 DEF FollowBy
<1>7. \A n \in 1..N : f[n] = MemberStep(s, StateBefore(through, f[n - 1]), names[n])
  BY <1>3, <1>5 DEF FollowBy, StateBefore
<1>8. QED
  BY <1>2, <1>4, <1>6, <1>7

\* h goes the steps of a path, and two functions have the same states up to the N-th.
Goes(s, h, start, names, through) ==
  /\ h[0] = start
  /\ \A n \in 1..Len(names) : h[n] = MemberStep(s, StateBefore(through, h[n - 1]), names[n])
SameStates(N, f, h) == \A n \in 0..N : f[n] = h[n]
HasLength(names) == Len(names) \in Nat

LEMMA FollowGoes ==
  ASSUME NEW s, NEW start, NEW names, HasLength(names), NEW through
  PROVE  Goes(s, Follow(s, start, names, through), start, names, through)
<1>1. Len(names) \in Nat
  BY DEF HasLength
<1>2. QED
  BY <1>1, FollowSteps DEF Goes

\* The states are those of any function that goes the same steps.
LEMMA FollowIs ==
  ASSUME NEW s, NEW start, NEW names, HasLength(names), NEW through, NEW h, Goes(s, h, start, names, through)
  PROVE  SameStates(Len(names), Follow(s, start, names, through), h)
<1> DEFINE N == Len(names)
           f == Follow(s, start, names, through)
           Good == {n \in 0..N : f[n] = h[n]}
<1>1. f[0] = start /\ \A n \in 1..N : f[n] = MemberStep(s, StateBefore(through, f[n - 1]), names[n])
  BY FollowGoes DEF Goes
<1>2. h[0] = start /\ \A n \in 1..N : h[n] = MemberStep(s, StateBefore(through, h[n - 1]), names[n])
  BY DEF Goes
<1>3. N \in Nat
  BY DEF HasLength
<1> HIDE DEF f, N
<1>4. 0 \in Good
  BY <1>1, <1>2, <1>3
<1>5. ASSUME NEW n \in Nat, n < N, n \in Good PROVE n + 1 \in Good
  <2>1. n + 1 \in 1..N /\ n + 1 \in 0..N /\ (n + 1) - 1 = n
    BY <1>3, <1>5
  <2>2. f[n + 1] = MemberStep(s, StateBefore(through, f[n]), names[n + 1])
    BY <1>1, <2>1
  <2>3. h[n + 1] = MemberStep(s, StateBefore(through, h[n]), names[n + 1])
    BY <1>2, <2>1
  <2>4. QED
    BY <1>5, <2>1, <2>2, <2>3
<1> HIDE DEF Good
<1>6. \A n \in 0..N : n \in Good
  BY <1>3, <1>4, <1>5, UpTo
<1>7. QED
  BY <1>6 DEF Good, f, N, SameStates

\* A path ab in two pieces a and b.
InTwo(ab, a, b) ==
  /\ Len(a) \in Nat /\ Len(b) \in Nat /\ Len(ab) = Len(a) + Len(b)
  /\ \A n \in 1..Len(a) : ab[n] = a[n]
  /\ \A n \in 1..Len(b) : ab[Len(a) + n] = b[n]

\* A join is in two pieces.
LEMMA JoinInTwo ==
  ASSUME NEW S, NEW a \in Seq(S), NEW b \in Seq(S)
  PROVE  InTwo(a \o b, a, b)
BY DEF InTwo

LEMMA TwoLengths ==
  ASSUME NEW ab, NEW a, NEW b, InTwo(ab, a, b)
  PROVE  HasLength(a) /\ HasLength(b) /\ HasLength(ab)
<1>1. Len(a) \in Nat /\ Len(b) \in Nat /\ Len(ab) = Len(a) + Len(b)
  BY DEF InTwo
<1>2. Len(ab) \in Nat
  BY <1>1
<1>3. QED
  BY <1>1, <1>2 DEF HasLength

\* The states of f from the k-th on.
From(f, k, b) == [n \in 0..Len(b) |-> f[k + n]]

\* The states of a path are those of its first piece, and from its end on those of the second.
LEMMA FollowOn ==
  ASSUME NEW s, NEW start, NEW ab, NEW a, NEW b, InTwo(ab, a, b), NEW through,
         NEW f, f = Follow(s, start, ab, through)
  PROVE  /\ SameStates(Len(a), Follow(s, start, a, through), f)
         /\ SameStates(Len(b), Follow(s, f[Len(a)], b, through), From(f, Len(a), b))
<1>1. /\ Len(ab) = Len(a) + Len(b) /\ Len(a) \in Nat /\ Len(b) \in Nat
      /\ \A n \in 1..Len(a) : ab[n] = a[n] /\ n \in 1..Len(ab)
      /\ \A n \in 1..Len(b) : ab[Len(a) + n] = b[n] /\ Len(a) + n \in 1..Len(ab)
  BY DEF InTwo
<1>2. HasLength(a) /\ HasLength(b) /\ HasLength(ab)
  BY TwoLengths
<1>3. Goes(s, f, start, ab, through)
  BY <1>2, FollowGoes
<1>4. Goes(s, f, start, a, through)
  BY <1>1, <1>3 DEF Goes
<1> DEFINE middle == f[Len(a)]
           h == From(f, Len(a), b)
<1>5. Goes(s, h, middle, b, through)
  <2>1. \A n \in 0..Len(b) : h[n] = f[Len(a) + n]
    BY DEF From
  <2> HIDE DEF h
  <2>2. h[0] = middle
    <3>1. 0 \in 0..Len(b) /\ Len(a) + 0 = Len(a)
      BY <1>1
    <3>2. QED
      BY <2>1, <3>1
  <2>3. ASSUME NEW n \in 1..Len(b) PROVE h[n] = MemberStep(s, StateBefore(through, h[n - 1]), b[n])
    <3>1. n \in 0..Len(b) /\ n - 1 \in 0..Len(b) /\ (Len(a) + n) - 1 = Len(a) + (n - 1)
      BY <1>1
    <3>2. h[n] = f[Len(a) + n] /\ h[n - 1] = f[(Len(a) + n) - 1]
      BY <2>1, <3>1
    <3>3. f[Len(a) + n] = MemberStep(s, StateBefore(through, f[(Len(a) + n) - 1]), b[n])
      BY <1>1, <1>3 DEF Goes
    <3>4. QED
      BY <3>2, <3>3
  <2>4. QED
    BY <2>2, <2>3 DEF Goes
<1> HIDE DEF middle, h
<1>6. SameStates(Len(a), Follow(s, start, a, through), f)
  BY <1>2, <1>4, FollowIs
<1>7. SameStates(Len(b), Follow(s, middle, b, through), h)
  BY <1>2, <1>5, FollowIs
<1>8. QED
  BY <1>6, <1>7 DEF middle, h

\* What a successful state is of a place: all of it, or its location and what it is.
Exact(s, state) ==
  \E p \in Places(s) : /\ p.loc = state.loc /\ p.type = state.type
                       /\ p.const = state.const /\ p.plain = state.plain
At(s, state) ==
  \E p \in Places(s) : p.loc = state.loc /\ p.type.kind = state.type.kind /\ p.type.of = state.type.of

\* A member step that succeeds: from a record, to the member the search finds.
LEMMA StepSucceeds ==
  ASSUME NEW s, NEW state, NEW name, MemberStep(s, state, name).status = "success"
  PROVE  /\ state.status = "success" /\ state.type.kind = "named"
         /\ LET a == FindMember(s, state.type.of, name)
            IN  MemberStep(s, state, name) = Enter(state, a)
<1>1. state.status = "success"
  BY DEF MemberStep, Is
<1>2. state.type.kind = "named"
  BY <1>1 DEF MemberStep, Is, Outcome
<1>3. QED
  BY <1>1, <1>2 DEF MemberStep, Is

\* From a place that is a record, where a member step leads.
LEMMA StepIs ==
  ASSUME NEW s, SchemaAccepted(s), NEW state, At(s, state), state.status = "success", NEW name,
         MemberStep(s, state, name).status = "success"
  PROVE  LET a == FindMember(s, state.type.of, name)
         IN  /\ state.type.kind = "named" /\ state.type.of \in DOMAIN s.types
             /\ a.status = "found" /\ FoundIn(s, state.type.of, name, a)
             /\ MemberStep(s, state, name)
                  = [status |-> "success", loc |-> state.loc \o a.loc, type |-> a.type,
                     const |-> state.const \/ state.type.const, plain |-> a.plain]
<1> DEFINE a == FindMember(s, state.type.of, name)
<1>1. state.type.kind = "named" /\ MemberStep(s, state, name) = Enter(state, a)
  BY StepSucceeds
<1>2. PICK p \in Places(s) : p.type.kind = state.type.kind /\ p.type.of = state.type.of
  BY DEF At
<1>3. state.type.of \in DOMAIN s.types
  BY <1>1, <1>2, PlacesOk, AcceptedType DEF PlaceOk
<1>4. Answered(s, state.type.of, name, a)
  BY <1>3, SearchFacts
<1> HIDE DEF a
<1>5. Enter(state, a).status = "success"
  BY <1>1
<1>6. a.status = "found"
  <2>1. a.status \in {"found", "none", "ambiguous", "invalid"}
    BY <1>4 DEF Answered, Answers
  <2>2. a.status # "none"
    BY <1>5 DEF Enter, Is, Outcome
  <2>3. a.status # "ambiguous"
    BY <1>5 DEF Enter, Is, Outcome
  <2>4. a.status # "invalid"
    BY <1>5 DEF Enter, Is, Outcome
  <2>5. QED
    BY <2>1, <2>2, <2>3, <2>4
<1>7. Enter(state, a) = [status |-> "success", loc |-> state.loc \o a.loc, type |-> a.type,
                         const |-> state.const \/ state.type.const, plain |-> a.plain]
  BY <1>6 DEF Enter, Is
<1>8. QED
  BY <1>1, <1>3, <1>4, <1>6, <1>7 DEF Answered, a

\* The step keeps a state at a place, and all of it if it had all of it.
LEMMA StepKeeps ==
  ASSUME NEW s, SchemaAccepted(s), NEW state, At(s, state), state.status = "success", NEW name,
         MemberStep(s, state, name).status = "success"
  PROVE  /\ At(s, MemberStep(s, state, name))
         /\ Exact(s, state) => Exact(s, MemberStep(s, state, name))
<1> DEFINE a == FindMember(s, state.type.of, name)
           next == [status |-> "success", loc |-> state.loc \o a.loc, type |-> a.type,
                    const |-> state.const \/ state.type.const, plain |-> a.plain]
<1>1. /\ state.type.kind = "named" /\ FoundIn(s, state.type.of, name, a)
      /\ MemberStep(s, state, name) = next
  BY StepIs
<1>2. /\ next.loc = state.loc \o a.loc /\ next.type = a.type /\ next.plain = a.plain
      /\ next.const = (state.const \/ state.type.const)
  OBVIOUS
<1> HIDE DEF a, next
<1>3. \A p \in Places(s) : p.type.kind = "named" /\ p.type.of = state.type.of =>
        \E q \in Places(s) : AtMember(p, q, a)
  BY <1>1 DEF FoundIn
<1>4. At(s, next)
  <2>1. PICK p \in Places(s) : p.loc = state.loc /\ p.type.kind = state.type.kind /\ p.type.of = state.type.of
    BY DEF At
  <2>2. PICK q \in Places(s) : AtMember(p, q, a)
    BY <1>1, <1>3, <2>1
  <2>3. q.loc = next.loc /\ q.type = next.type
    BY <1>2, <2>1, <2>2 DEF AtMember
  <2>4. QED
    BY <2>3 DEF At
<1>5. ASSUME Exact(s, state) PROVE Exact(s, next)
  <2>1. PICK p \in Places(s) : /\ p.loc = state.loc /\ p.type = state.type
                               /\ p.const = state.const /\ p.plain = state.plain
    BY <1>5 DEF Exact
  <2>2. PICK q \in Places(s) : AtMember(p, q, a)
    BY <1>1, <1>3, <2>1
  <2>3. q.loc = next.loc /\ q.type = next.type /\ q.const = next.const /\ q.plain = next.plain
    BY <1>2, <2>1, <2>2, Zenon DEF AtMember
  <2>4. QED
    BY <2>3 DEF Exact
<1>6. QED
  BY <1>1, <1>4, <1>5

\* Resolving an object finds it, with its own type, exactly when the Project has
\* it.
LEMMA ObjectState ==
  ASSUME NEW s, SchemaAccepted(s), NEW object
  PROVE  LET state == ResolveObject(s, object)
         IN  /\ state.status \in {"success", "not_found"}
             /\ \A o \in ToSet(s.objects) : o.path = object =>
                  state = [status |-> "success", loc |-> <<object>>, type |-> o.type,
                           const |-> FALSE, plain |-> o.plain]
             /\ state.status = "success" =>
                  Exact(s, state) /\ state.loc = <<object>> /\ \E o \in ToSet(s.objects) : o.path = object
<1> DEFINE same == {o \in ToSet(s.objects) : o.path = object}
           one == CHOOSE o \in same : TRUE
           state == ResolveObject(s, object)
<1>1. CASE same = {}
  <2>1. state = Outcome("not_found")
    BY <1>1 DEF ResolveObject
  <2>2. state.status = "not_found"
    BY <2>1 DEF Outcome
  <2>3. QED
    BY <1>1, <2>2
<1>2. CASE same # {}
  <2>1. one \in same
    BY <1>2
  <2>2. state = [status |-> "success", loc |-> <<object>>, type |-> one.type, const |-> FALSE, plain |-> one.plain]
    BY <1>2 DEF ResolveObject
  <2> HIDE DEF one, state
  <2>3. \A o \in ToSet(s.objects) : o.path = object => o = one
    BY <2>1, AcceptedObjects
  <2>4. one.path = object /\ one \in ToSet(s.objects)
    BY <2>1
  <2> DEFINE p == [loc |-> <<one.path>>, type |-> one.type, const |-> FALSE, plain |-> one.plain]
  <2>5. p \in Places(s)
    <3>1. p \in ObjectPlaces(s)
      BY <2>4 DEF ObjectPlaces
    <3>2. PICK level : LevelsOf(s, level)
      BY PlacesHaveLevels
    <3>3. 0 \in 0..TypeCount(s)
      BY CountIsNat
    <3>4. QED
      BY <3>1, <3>2, <3>3 DEF LevelsOf
  <2>6. /\ p.loc = state.loc /\ p.type = state.type /\ p.const = state.const /\ p.plain = state.plain
        /\ state.loc = <<object>> /\ state.status = "success"
    BY <2>2, <2>4
  <2> HIDE DEF p
  <2>7. Exact(s, state)
    BY <2>5, <2>6, Zenon DEF Exact
  <2>8. QED
    BY <2>2, <2>3, <2>4, <2>6, <2>7 DEF state
<1>3. QED
  BY <1>1, <1>2

\* An exact state is at a place.
LEMMA ExactIsAt == ASSUME NEW s, NEW state, Exact(s, state) PROVE At(s, state)
BY DEF Exact, At

\* A step answers with one of the statuses of the code.
LEMMA StepStatus ==
  ASSUME NEW s, NEW state, state.status \in Statuses, NEW name
  PROVE  MemberStep(s, state, name).status \in Statuses
<1> DEFINE a == FindMember(s, state.type.of, name)
<1>1. Enter(state, a).status \in Statuses
  <2> HIDE DEF a
  <2>1. CASE a.status = "none"
    BY <2>1 DEF Enter, Is, Outcome, Statuses
  <2>2. CASE a.status = "ambiguous"
    BY <2>2 DEF Enter, Is, Outcome, Statuses
  <2>3. CASE a.status = "invalid"
    BY <2>3 DEF Enter, Is, Outcome, Statuses
  <2>4. CASE a.status \notin {"none", "ambiguous", "invalid"}
    BY <2>4 DEF Enter, Is, Outcome, Statuses
  <2>5. QED
    BY <2>1, <2>2, <2>3, <2>4
<1>2. CASE state.status # "success"
  BY <1>2 DEF MemberStep, Is
<1>3. CASE state.status = "success" /\ state.type.kind # "named"
  <2>1. MemberStep(s, state, name) = Outcome("unsupported_type")
    BY <1>3 DEF MemberStep, Is
  <2>2. QED
    BY <2>1 DEF Outcome, Statuses
<1>4. CASE state.status = "success" /\ state.type.kind = "named"
  <2>1. MemberStep(s, state, name) = Enter(state, a)
    BY <1>4 DEF MemberStep, Is
  <2>2. QED
    BY <1>1, <2>1
<1>5. QED
  BY <1>2, <1>3, <1>4

\* The states of a path from its object on.
StatesOf(s, object, names) == Follow(s, ResolveObject(s, object), names, FALSE)

\* The n-th name led from one state to the next.
Reached(s, f, names, n) ==
  /\ f[n - 1].status = "success" /\ f[n - 1].type.kind = "named" /\ names[n] \in Known(s)
  /\ \E way : WayTo(s, names[n], way) /\ f[n].loc = f[n - 1].loc \o way

\* The states along a path are exact as long as they succeed.
LEMMA StatesFacts ==
  ASSUME NEW s, SchemaAccepted(s), NEW object, NEW names, Len(names) \in Nat, NEW f, f = StatesOf(s, object, names)
  PROVE  /\ f[0] = ResolveObject(s, object)
         /\ \A n \in 1..Len(names) : f[n] = MemberStep(s, f[n - 1], names[n])
         /\ \A n \in 0..Len(names) : f[n].status \in Statuses /\ (f[n].status = "success" => Exact(s, f[n]))
         /\ \A n \in 1..Len(names) : f[n].status = "success" => Reached(s, f, names, n)
<1> DEFINE N == Len(names)
<1>1. f[0] = ResolveObject(s, object) /\ \A n \in 1..N : f[n] = MemberStep(s, f[n - 1], names[n])
  BY FollowSteps DEF StatesOf, StateBefore
<1> DEFINE Good == {n \in 0..N : f[n].status \in Statuses /\ (f[n].status = "success" => Exact(s, f[n]))}
<1>2. 0 \in Good
  BY <1>1, ObjectState DEF Statuses
<1>3. ASSUME NEW n \in Nat, n < N, n \in Good PROVE n + 1 \in Good
  <2>1. n + 1 \in 1..N /\ n + 1 \in 0..N /\ (n + 1) - 1 = n
    BY <1>3
  <2>2. f[n + 1] = MemberStep(s, f[n], names[n + 1])
    BY <1>1, <2>1
  <2>3. f[n].status \in Statuses /\ (f[n].status = "success" => Exact(s, f[n]))
    BY <1>3
  <2>4. f[n + 1].status \in Statuses
    BY <2>2, <2>3, StepStatus
  <2>5. ASSUME f[n + 1].status = "success" PROVE Exact(s, f[n + 1])
    <3>1. f[n].status = "success"
      BY <2>2, <2>5, StepSucceeds
    <3>2. Exact(s, f[n]) /\ At(s, f[n])
      BY <2>3, <3>1, ExactIsAt
    <3>3. QED
      BY <2>2, <2>5, <3>1, <3>2, StepKeeps
  <2>6. QED
    BY <2>1, <2>4, <2>5
<1> HIDE DEF Good
<1>4. \A n \in 0..N : n \in Good
  BY <1>2, <1>3, UpTo
<1>5. \A n \in 0..N : f[n].status \in Statuses /\ (f[n].status = "success" => Exact(s, f[n]))
  BY <1>4 DEF Good
<1>6. ASSUME NEW n \in 1..N, f[n].status = "success"
      PROVE  Reached(s, f, names, n)
  <2>1. f[n] = MemberStep(s, f[n - 1], names[n]) /\ n - 1 \in 0..N
    BY <1>1
  <2>2. f[n - 1].status = "success"
    BY <1>6, <2>1, StepSucceeds
  <2>3. At(s, f[n - 1])
    BY <1>5, <2>1, <2>2, ExactIsAt
  <2> DEFINE state == f[n - 1]
             name == names[n]
             a == FindMember(s, state.type.of, name)
  <2>4. state.status = "success" /\ At(s, state) /\ MemberStep(s, state, name).status = "success"
    BY <1>6, <2>1, <2>2, <2>3
  <2>5. f[n] = MemberStep(s, state, name)
    BY <2>1
  <2> HIDE DEF state, name
  <2>6. /\ state.type.kind = "named" /\ FoundIn(s, state.type.of, name, a)
        /\ MemberStep(s, state, name)
             = [status |-> "success", loc |-> state.loc \o a.loc, type |-> a.type,
                const |-> state.const \/ state.type.const, plain |-> a.plain]
    BY <2>4, StepIs
  <2> HIDE DEF a
  <2>7. f[n].loc = state.loc \o a.loc
    <3>1. PICK c, l : /\ f[n] = [status |-> "success", loc |-> l, type |-> a.type, const |-> c, plain |-> a.plain]
                      /\ l = state.loc \o a.loc
      BY <2>5, <2>6, Zenon
    <3>2. [status |-> "success", loc |-> l, type |-> a.type, const |-> c, plain |-> a.plain].loc = l
      OBVIOUS
    <3>3. QED
      BY <3>1, <3>2, Zenon
  <2>8. WayTo(s, name, a.loc) /\ name \in Known(s)
    BY <2>6 DEF FoundIn, Known
  <2>9. QED
    BY <2>4, <2>6, <2>7, <2>8 DEF state, name, Reached
<1>7. QED
  BY <1>1, <1>5, <1>6

\* What resolves is a scalar of the Project with the flags it has there.
LEMMA ResolvedCell ==
  ASSUME NEW s, SchemaAccepted(s), NEW object, NEW names, Len(names) \in Nat,
         Resolve(s, object, names).status = "success"
  PROVE  LET t == Resolve(s, object, names)
         IN  \E c \in ProjectCells(s) : c.loc = t.loc /\ c.type = t.type /\ c.const = t.const /\ c.plain = t.plain
<1> DEFINE state == StatesOf(s, object, names)[Len(names)]
<1>1. Resolve(s, object, names) = FinishScalar(state)
  BY DEF Resolve, StatesOf
<1>2. Len(names) \in 0..Len(names)
  OBVIOUS
<1>3. state.status = "success" => Exact(s, state)
  BY <1>2, StatesFacts
<1> HIDE DEF state
<1>4. state.status = "success"
  BY <1>1 DEF FinishScalar, Is
<1>5. state.type.kind = "intrinsic"
  BY <1>1, <1>4 DEF FinishScalar, Is, Outcome
<1>6. FinishScalar(state) = [status |-> "success", loc |-> state.loc, type |-> state.type.of,
                             const |-> state.const \/ state.type.const, plain |-> state.plain]
  BY <1>4, <1>5 DEF FinishScalar, Is
<1>7. PICK p \in Places(s) : /\ p.loc = state.loc /\ p.type = state.type
                             /\ p.const = state.const /\ p.plain = state.plain
  BY <1>3, <1>4 DEF Exact
<1> DEFINE c == [loc |-> p.loc, type |-> p.type.of, const |-> p.const \/ p.type.const, plain |-> p.plain]
<1>8. c \in ProjectCells(s)
  BY <1>5, <1>7 DEF ProjectCells
<1>9. c.loc = state.loc /\ c.type = state.type.of /\ c.const = (state.const \/ state.type.const) /\ c.plain = state.plain
  BY <1>7
<1> HIDE DEF c
<1>10. QED
  <2> DEFINE t == Resolve(s, object, names)
  <2>1. t.loc = state.loc /\ t.type = state.type.of /\ t.const = (state.const \/ state.type.const) /\ t.plain = state.plain
    BY <1>1, <1>6
  <2> HIDE DEF t
  <2>2. c.loc = t.loc /\ c.type = t.type /\ c.const = t.const /\ c.plain = t.plain
    BY <1>9, <2>1, Zenon
  <2>3. QED
    BY <1>8, <2>2 DEF t

\* A location has one scalar.
LEMMA CellUnique ==
  ASSUME NEW s, SchemaAccepted(s), NEW c \in ProjectCells(s), NEW d \in ProjectCells(s), c.loc = d.loc
  PROVE  c = d
<1>1. PICK p \in Places(s) : c = [loc |-> p.loc, type |-> p.type.of, const |-> p.const \/ p.type.const, plain |-> p.plain]
  BY DEF ProjectCells
<1>2. PICK q \in Places(s) : d = [loc |-> q.loc, type |-> q.type.of, const |-> q.const \/ q.type.const, plain |-> q.plain]
  BY DEF ProjectCells
<1>3. p.loc = q.loc
  BY <1>1, <1>2
<1>4. p = q
  BY <1>3, PlaceUnique
<1>5. QED
  BY <1>1, <1>2, <1>4

-----------------------------------------------------------------------------
(***************************************************************************)
(* Two paths to one scalar are one path                                    *)
(***************************************************************************)

\* The location of a state: its object, then ways to members.
PathLoc(s, loc) ==
  /\ loc \in Locations(s) /\ Len(loc) >= 1
  /\ Len(loc) > 1 => \E x : loc[Len(loc)] = InMember(x)

\* A way to a member has its only step into a member at the end, so that two
\* locations that go on to the same one are equally long.
LEMMA WayEndsHere ==
  ASSUME NEW s, NEW l, PathLoc(s, l), NEW m, PathLoc(s, m), NEW x, NEW v, WayTo(s, x, v), NEW y, NEW w, WayTo(s, y, w),
         l \o v = m \o w
  PROVE  ~(Len(l) < Len(m))
<1>1. SUFFICES ASSUME Len(l) < Len(m) PROVE FALSE
  OBVIOUS
<1>2. /\ l \in Seq(Steps(s)) /\ m \in Seq(Steps(s)) /\ v \in Seq(Steps(s)) /\ w \in Seq(Steps(s))
      /\ Len(l) \in Nat /\ Len(m) \in Nat /\ Len(v) \in Nat /\ Len(w) \in Nat
      /\ Len(l) >= 1 /\ Len(v) > 0 /\ Len(w) > 0
  BY DEF PathLoc, WayTo, Locations
<1>3. Len(l) + Len(v) = Len(m) + Len(w)
  <2>1. Len(l \o v) = Len(l) + Len(v) /\ Len(m \o w) = Len(m) + Len(w)
    BY <1>2
  <2>2. QED
    BY <2>1
<1> DEFINE k == Len(m) - Len(l)
<1>4. k \in 1..Len(v) /\ k < Len(v) /\ Len(m) = Len(l) + k
  BY <1>1, <1>2, <1>3
<1>5. (l \o v)[Len(m)] = v[k]
  <2>1. InTwo(l \o v, l, v)
    BY <1>2, JoinInTwo
  <2>2. QED
    BY <1>4, <2>1 DEF InTwo
<1>6. (m \o w)[Len(m)] = m[Len(m)]
  BY <1>1, <1>2
<1>7. PICK z : m[Len(m)] = InMember(z)
  BY <1>1, <1>2 DEF PathLoc
<1>8. v[k] = InMember(z)
  BY <1>5, <1>6, <1>7
<1> HIDE DEF k
<1>9. QED
  BY <1>4, <1>8 DEF WayTo

\* Two ways to the same location come from the same location and the same name.
LEMMA WaysDiffer ==
  ASSUME NEW s, NEW l, PathLoc(s, l), NEW m, PathLoc(s, m), NEW x, NEW v, WayTo(s, x, v), NEW y, NEW w, WayTo(s, y, w),
         l \o v = m \o w
  PROVE  l = m /\ x = y
<1>1. ~(Len(l) < Len(m))
  BY WayEndsHere
<1>2. ~(Len(m) < Len(l))
  BY WayEndsHere
<1>3. /\ l \in Seq(Steps(s)) /\ m \in Seq(Steps(s)) /\ v \in Seq(Steps(s)) /\ w \in Seq(Steps(s))
      /\ Len(l) \in Nat /\ Len(m) \in Nat /\ Len(v) \in Nat /\ Len(w) \in Nat
      /\ Len(l) >= 1 /\ Len(v) > 0 /\ Len(w) > 0
  BY DEF PathLoc, WayTo, Locations
<1>4. Len(l) = Len(m)
  BY <1>1, <1>2, <1>3
<1>5. Len(l) + Len(v) = Len(m) + Len(w)
  <2>1. Len(l \o v) = Len(l) + Len(v) /\ Len(m \o w) = Len(m) + Len(w)
    BY <1>3
  <2>2. QED
    BY <2>1
<1>6. Len(v) = Len(w)
  BY <1>3, <1>4, <1>5
<1>7. l = m
  <2>1. \A i \in 1..Len(l) : (l \o v)[i] = l[i] /\ (m \o w)[i] = m[i]
    BY <1>3, <1>4
  <2>2. \A i \in 1..Len(l) : l[i] = m[i]
    BY <2>1
  <2>3. QED
    BY <1>3, <1>4, <2>2
<1>8. v[Len(v)] = w[Len(v)]
  <2>1. (l \o v)[Len(l) + Len(v)] = v[Len(v)] /\ (m \o w)[Len(l) + Len(v)] = w[Len(v)]
    BY <1>3, <1>4, <1>6
  <2>2. QED
    BY <2>1
<1>9. v[Len(v)] = InMember(x) /\ w[Len(w)] = InMember(y)
  BY DEF WayTo
<1>10. QED
  BY <1>6, <1>7, <1>8, <1>9, StepsDiffer

\* A way leads on from the location of a state to another such location.
LEMMA WayLeadsOn ==
  ASSUME NEW s, NEW l, PathLoc(s, l), NEW x, NEW v, WayTo(s, x, v)
  PROVE  PathLoc(s, l \o v) /\ Len(l \o v) > 1 /\ (l \o v)[1] = l[1]
<1>1. /\ l \in Seq(Steps(s)) /\ v \in Seq(Steps(s)) /\ Len(l) \in Nat /\ Len(v) \in Nat
      /\ Len(l) >= 1 /\ Len(v) > 0
  BY DEF PathLoc, WayTo, Locations
<1>2. l \o v \in Seq(Steps(s)) /\ Len(l \o v) = Len(l) + Len(v)
  BY <1>1
<1>3. (l \o v)[Len(l) + Len(v)] = v[Len(v)]
  BY <1>1
<1>4. (l \o v)[1] = l[1]
  BY <1>1
<1>5. v[Len(v)] = InMember(x)
  BY DEF WayTo
<1> DEFINE lv == l \o v
<1> HIDE DEF lv
<1>6. PathLoc(s, lv)
  <2>1. lv[Len(lv)] = InMember(x)
    BY <1>2, <1>3, <1>5 DEF lv
  <2>2. lv \in Locations(s) /\ Len(lv) >= 1
    BY <1>1, <1>2 DEF lv, Locations
  <2>3. QED
    BY <2>1, <2>2 DEF PathLoc
<1>7. QED
  BY <1>1, <1>2, <1>4, <1>6 DEF lv

\* Where the n-th state of a path is.
LocFits(s, object, loc, n) ==
  /\ PathLoc(s, loc) /\ loc[1] = object
  /\ (n = 0 => Len(loc) = 1) /\ (n # 0 => Len(loc) > 1)

\* The n-th state of a path is n members below its object.
LEMMA StateLoc ==
  ASSUME NEW s, SchemaAccepted(s), NEW object, NEW names, Len(names) \in Nat, NEW f, f = StatesOf(s, object, names)
  PROVE  \A n \in 0..Len(names) : f[n].status = "success" => LocFits(s, object, f[n].loc, n)
<1> DEFINE N == Len(names)
           Fits(n) == f[n].status = "success" => LocFits(s, object, f[n].loc, n)
           Good == {n \in 0..N : Fits(n)}
<1>1. 0 \in Good
  <2>1. f[0] = ResolveObject(s, object)
    BY StatesFacts
  <2>2. ASSUME f[0].status = "success" PROVE Fits(0)
    <3>1. f[0].loc = <<object>> /\ \E o \in ToSet(s.objects) : o.path = object
      BY <2>1, <2>2, ObjectState
    <3>2. object \in Steps(s)
      BY <3>1, AcceptedObjects
    <3>3. <<object>> \in Seq(Steps(s)) /\ Len(<<object>>) = 1 /\ <<object>>[1] = object
      BY <3>2
    <3>4. PathLoc(s, <<object>>)
      BY <3>3 DEF PathLoc, Locations
    <3>5. LocFits(s, object, <<object>>, 0)
      BY <3>3, <3>4 DEF LocFits
    <3>6. QED
      BY <3>1, <3>5
  <2>3. QED
    BY <2>2
<1>2. ASSUME NEW n \in Nat, n < N, n \in Good PROVE n + 1 \in Good
  <2>1. n + 1 \in 1..N /\ n + 1 \in 0..N /\ (n + 1) - 1 = n /\ n \in 0..N
    BY <1>2
  <2>2. ASSUME f[n + 1].status = "success" PROVE Fits(n + 1)
    <3>1. f[n].status = "success" /\ \E way : WayTo(s, names[n + 1], way) /\ f[n + 1].loc = f[n].loc \o way
      <4>1. \A k \in 1..Len(names) : f[k].status = "success" => Reached(s, f, names, k)
        BY StatesFacts
      <4>2. Reached(s, f, names, n + 1)
        BY <2>1, <2>2, <4>1
      <4>3. QED
        BY <2>1, <4>2 DEF Reached
    <3>2. PICK way : WayTo(s, names[n + 1], way) /\ f[n + 1].loc = f[n].loc \o way
      BY <3>1
    <3>3. PathLoc(s, f[n].loc) /\ f[n].loc[1] = object
      BY <1>2, <3>1 DEF LocFits
    <3> DEFINE l == f[n].loc
               x == names[n + 1]
    <3>4. PathLoc(s, l) /\ WayTo(s, x, way)
      BY <3>2, <3>3
    <3> HIDE DEF l, x
    <3>5. PathLoc(s, l \o way) /\ Len(l \o way) > 1 /\ (l \o way)[1] = l[1]
      BY <3>4, WayLeadsOn
    <3>6. f[n + 1].loc = l \o way /\ l[1] = object
      BY <3>2, <3>3 DEF l
    <3>7. n + 1 # 0
      BY <2>1
    <3>8. LocFits(s, object, l \o way, n + 1)
      BY <3>5, <3>6, <3>7 DEF LocFits
    <3>9. QED
      BY <3>6, <3>8
  <2>3. QED
    BY <2>1, <2>2
<1> HIDE DEF Good
<1>3. \A n \in 0..N : n \in Good
  BY <1>1, <1>2, UpTo
<1>4. QED
  BY <1>3 DEF Good

\* Two paths to the same location are the same path.
LEMMA PathsDiffer ==
  ASSUME NEW s, SchemaAccepted(s), NEW S, NEW o, NEW a \in Seq(S), NEW u, NEW b \in Seq(S),
         NEW f, f = StatesOf(s, o, a), NEW g, g = StatesOf(s, u, b),
         f[Len(a)].status = "success", g[Len(b)].status = "success", f[Len(a)].loc = g[Len(b)].loc
  PROVE  o = u /\ a = b
<1> DEFINE N == Len(a)
           M == Len(b)
           Same(n, m) == f[n].status = "success" /\ g[m].status = "success" /\ f[n].loc = g[m].loc
           Good == {n \in 0..N : \A m \in 0..M : Same(n, m) => n = m /\ \A i \in 1..n : a[i] = b[i]}
<1>1. N \in Nat /\ M \in Nat
  OBVIOUS
<1>2. /\ \A n \in 0..N : f[n].status = "success" => LocFits(s, o, f[n].loc, n)
      /\ \A n \in 1..N : f[n].status = "success" => Reached(s, f, a, n)
  <2>1. Len(a) \in Nat
    OBVIOUS
  <2>2. \A n \in 0..Len(a) : f[n].status = "success" => LocFits(s, o, f[n].loc, n)
    BY <2>1, StateLoc
  <2>3. \A n \in 1..Len(a) : f[n].status = "success" => Reached(s, f, a, n)
    BY <2>1, StatesFacts
  <2>4. QED
    BY <2>2, <2>3
<1>3. /\ \A m \in 0..M : g[m].status = "success" => LocFits(s, u, g[m].loc, m)
      /\ \A m \in 1..M : g[m].status = "success" => Reached(s, g, b, m)
  <2>1. Len(b) \in Nat
    OBVIOUS
  <2>2. \A m \in 0..Len(b) : g[m].status = "success" => LocFits(s, u, g[m].loc, m)
    BY <2>1, StateLoc
  <2>3. \A m \in 1..Len(b) : g[m].status = "success" => Reached(s, g, b, m)
    BY <2>1, StatesFacts
  <2>4. QED
    BY <2>2, <2>3
<1> HIDE DEF N, M
<1>4. 0 \in Good
  <2>1. ASSUME NEW m \in 0..M, Same(0, m) PROVE m = 0
    <3>1. 0 \in 0..N /\ LocFits(s, o, f[0].loc, 0) /\ LocFits(s, u, g[m].loc, m) /\ f[0].loc = g[m].loc
      BY <1>1, <1>2, <1>3, <2>1
    <3>2. LocFits(s, o, g[m].loc, 0)
      BY <3>1, Zenon
    <3>3. m # 0 => Len(g[m].loc) > 1
      BY <3>1, Zenon DEF LocFits
    <3>4. Len(g[m].loc) = 1
      BY <3>2, Zenon DEF LocFits
    <3>5. ~(1 > 1)
      OBVIOUS
    <3>6. QED
      BY <3>3, <3>4, <3>5, Zenon
  <2>2. 1..0 = {} /\ 0 \in 0..N
    BY <1>1
  <2>3. QED
    BY <2>1, <2>2
<1>5. ASSUME NEW n \in Nat, n < N, n \in Good PROVE n + 1 \in Good
  <2>1. n + 1 \in 1..N /\ n + 1 \in 0..N /\ (n + 1) - 1 = n /\ n \in 0..N /\ n + 1 # 0
    BY <1>1, <1>5
  <2>2. ASSUME NEW m \in 0..M, Same(n + 1, m) PROVE n + 1 = m /\ \A i \in 1..(n + 1) : a[i] = b[i]
    <3>1. m # 0
      <4>1. LocFits(s, o, f[n + 1].loc, n + 1) /\ LocFits(s, u, g[m].loc, m) /\ f[n + 1].loc = g[m].loc
        BY <1>2, <1>3, <2>1, <2>2
      <4>2. LocFits(s, o, g[m].loc, n + 1)
        BY <4>1, Zenon
      <4>3. Len(g[m].loc) > 1
        BY <2>1, <4>2 DEF LocFits
      <4>4. m = 0 => Len(g[m].loc) = 1
        BY <4>1, Zenon DEF LocFits
      <4>5. ~(1 > 1)
        OBVIOUS
      <4>6. QED
        BY <4>3, <4>4, <4>5, Zenon
    <3>2. m \in 1..M /\ m - 1 \in 0..M
      BY <1>1, <3>1
    <3>3. Reached(s, f, a, n + 1) /\ Reached(s, g, b, m)
      BY <1>2, <1>3, <2>1, <2>2, <3>2
    <3>4. PICK v : WayTo(s, a[n + 1], v) /\ f[n + 1].loc = f[n].loc \o v /\ f[n].status = "success"
      BY <2>1, <3>3 DEF Reached
    <3>5. PICK w : WayTo(s, b[m], w) /\ g[m].loc = g[m - 1].loc \o w /\ g[m - 1].status = "success"
      BY <3>3 DEF Reached
    <3>6. PathLoc(s, f[n].loc) /\ PathLoc(s, g[m - 1].loc)
      BY <1>2, <1>3, <2>1, <3>2, <3>4, <3>5 DEF LocFits
    <3> DEFINE l == f[n].loc
               k == g[m - 1].loc
               x == a[n + 1]
               y == b[m]
    <3>7. PathLoc(s, l) /\ PathLoc(s, k) /\ WayTo(s, x, v) /\ WayTo(s, y, w) /\ l \o v = k \o w
      BY <2>2, <3>4, <3>5, <3>6
    <3> HIDE DEF l, k, x, y
    <3>8. l = k /\ x = y
      BY <3>7, WaysDiffer
    <3>9. Same(n, m - 1)
      BY <3>4, <3>5, <3>8 DEF l, k
    <3>10. n = m - 1 /\ \A i \in 1..n : a[i] = b[i]
      BY <1>5, <3>2, <3>9
    <3>11. n + 1 = m /\ a[n + 1] = b[n + 1]
      BY <1>1, <3>2, <3>8, <3>10 DEF x, y
    <3>12. \A i \in 1..(n + 1) : i \in 1..n \/ i = n + 1
      BY <2>1
    <3>13. QED
      BY <3>10, <3>11, <3>12
  <2>3. QED
    BY <2>1, <2>2
<1> HIDE DEF Good
<1>6. \A n \in 0..N : n \in Good
  BY <1>1, <1>4, <1>5, UpTo
<1>7. N \in 0..N /\ M \in 0..M /\ Same(N, M)
  BY <1>1 DEF N, M
<1>8. N = M /\ \A i \in 1..N : a[i] = b[i]
  BY <1>6, <1>7 DEF Good
<1>9. a = b
  BY <1>8 DEF N, M
<1>10. o = u
  BY <1>2, <1>3, <1>7 DEF LocFits
<1>11. QED
  BY <1>9, <1>10

-----------------------------------------------------------------------------
(***************************************************************************)
(* The states the binary reset keeps                                       *)
(***************************************************************************)

LEMMA Joined ==
  ASSUME NEW S, NEW q \in Seq(S), NEW r \in Seq(S)
  PROVE  /\ q \o r \in Seq(S) /\ Len(q \o r) = Len(q) + Len(r) /\ Len(q) \in Nat /\ Len(r) \in Nat
         /\ \A i \in 1..Len(q) : (q \o r)[i] = q[i]
         /\ \A i \in 1..Len(r) : (q \o r)[Len(q) + i] = r[i]
OBVIOUS

LEMMA FirstPart ==
  ASSUME NEW S, NEW q \in Seq(S), NEW n \in Nat, n <= Len(q)
  PROVE  /\ SubSeq(q, 1, n) \in Seq(S) /\ Len(SubSeq(q, 1, n)) = n
         /\ \A i \in 1..n : SubSeq(q, 1, n)[i] = q[i]
OBVIOUS

\* The common prefix of two paths is one of both.
LEMMA CommonPrefixFacts ==
  ASSUME NEW left \in Seq(Nat), NEW right \in Seq(Nat)
  PROVE  LET k == CommonPrefix(left, right)
         IN  k \in 0..Len(left) /\ k <= Len(right) /\ SubSeq(left, 1, k) = SubSeq(right, 1, k)
<1> DEFINE Shared == {k \in 0..Len(left) : k <= Len(right) /\ SubSeq(left, 1, k) = SubSeq(right, 1, k)}
           Ends(k) == k < Len(left) /\ k < Len(right) => left[k + 1] # right[k + 1]
<1>1. Len(left) \in Nat /\ Len(right) \in Nat
  OBVIOUS
<1>2. 0 \in Shared
  <2>1. SubSeq(left, 1, 0) = <<>> /\ SubSeq(right, 1, 0) = <<>>
    OBVIOUS
  <2>2. QED
    BY <1>1, <2>1
<1> DEFINE top == Max(Shared)
<1>3. top \in Shared /\ \A k \in Shared : k <= top
  BY <1>1, <1>2, GreatestOf
<1> HIDE DEF top
<1>4. Ends(top)
  <2>1. SUFFICES ASSUME top < Len(left), top < Len(right), left[top + 1] = right[top + 1] PROVE FALSE
    OBVIOUS
  <2>2. top \in Nat /\ top + 1 \in 0..Len(left) /\ top + 1 <= Len(right)
    BY <1>1, <1>3, <2>1
  <2>3. SubSeq(left, 1, top) = SubSeq(right, 1, top)
    BY <1>3
  <2>4. /\ SubSeq(left, 1, top + 1) \in Seq(Nat) /\ Len(SubSeq(left, 1, top + 1)) = top + 1
        /\ SubSeq(right, 1, top + 1) \in Seq(Nat) /\ Len(SubSeq(right, 1, top + 1)) = top + 1
        /\ \A i \in 1..(top + 1) : SubSeq(left, 1, top + 1)[i] = left[i] /\ SubSeq(right, 1, top + 1)[i] = right[i]
    <3> DEFINE n == top + 1
    <3>1. n \in Nat /\ n <= Len(left) /\ n <= Len(right)
      BY <1>1, <2>2
    <3> HIDE DEF n
    <3>2. /\ SubSeq(left, 1, n) \in Seq(Nat) /\ Len(SubSeq(left, 1, n)) = n
          /\ \A i \in 1..n : SubSeq(left, 1, n)[i] = left[i]
      BY <3>1, FirstPart
    <3>3. /\ SubSeq(right, 1, n) \in Seq(Nat) /\ Len(SubSeq(right, 1, n)) = n
          /\ \A i \in 1..n : SubSeq(right, 1, n)[i] = right[i]
      BY <3>1, FirstPart
    <3>4. QED
      BY <3>2, <3>3 DEF n
  <2>5. \A i \in 1..top : SubSeq(left, 1, top)[i] = left[i] /\ SubSeq(right, 1, top)[i] = right[i]
    BY <1>1, <2>1, <2>2
  <2>6. \A i \in 1..(top + 1) : left[i] = right[i]
    <3>1. \A i \in 1..top : left[i] = right[i]
      BY <2>3, <2>5
    <3>2. \A i \in 1..(top + 1) : i \in 1..top \/ i = top + 1
      BY <2>2
    <3>3. QED
      BY <2>1, <3>1, <3>2
  <2>7. SubSeq(left, 1, top + 1) = SubSeq(right, 1, top + 1)
    BY <2>4, <2>6
  <2>8. top + 1 \in Shared
    BY <2>2, <2>7
  <2>9. QED
    BY <1>3, <2>2, <2>8
<1>5. \E k \in 0..Len(left) : /\ k <= Len(right) /\ SubSeq(left, 1, k) = SubSeq(right, 1, k)
                              /\ Ends(k)
  BY <1>3, <1>4
<1>6. QED
  BY <1>5 DEF CommonPrefix

TextOf(text) == {text[x] : x \in Nat}

\* The names of a path of ids, one by one.
LEMMA NamesFacts ==
  ASSUME NEW text, NEW ids \in Seq(Nat)
  PROVE  /\ NamesOf(text, ids) \in Seq(TextOf(text)) /\ Len(NamesOf(text, ids)) = Len(ids)
         /\ \A i \in 1..Len(ids) : NamesOf(text, ids)[i] = text[ids[i]]
<1> DEFINE q == [i \in 1..Len(ids) |-> text[ids[i]]]
<1>1. NamesOf(text, ids) = q /\ Len(ids) \in Nat
  BY DEF NamesOf
<1>2. \A i \in 1..Len(ids) : ids[i] \in Nat
  OBVIOUS
<1>3. \A i \in 1..Len(ids) : text[ids[i]] \in TextOf(text)
  BY <1>2 DEF TextOf
<1>4. q \in [1..Len(ids) -> TextOf(text)]
  BY <1>3
<1>5. q \in Seq(TextOf(text))
  BY <1>1, <1>4, SeqDef
<1>6. Len(q) = Len(ids)
  BY <1>1, <1>5, LenProperties
<1>7. QED
  BY <1>1, <1>5, <1>6

\* A path in two pieces has the names of the pieces.
LEMMA NamesJoin ==
  ASSUME NEW text, NEW ids \in Seq(Nat), NEW k \in 0..Len(ids)
  PROVE  /\ SubSeq(ids, 1, k) \in Seq(Nat) /\ Len(SubSeq(ids, 1, k)) = k
         /\ SubSeq(ids, k + 1, Len(ids)) \in Seq(Nat) /\ Len(SubSeq(ids, k + 1, Len(ids))) = Len(ids) - k
         /\ NamesOf(text, ids) = NamesOf(text, SubSeq(ids, 1, k)) \o NamesOf(text, SubSeq(ids, k + 1, Len(ids)))
<1> DEFINE a == SubSeq(ids, 1, k)
           b == SubSeq(ids, k + 1, Len(ids))
<1>1. k \in Nat /\ Len(ids) \in Nat /\ k <= Len(ids)
  OBVIOUS
<1>2. a \in Seq(Nat) /\ Len(a) = k /\ \A i \in 1..k : a[i] = ids[i]
  BY <1>1
<1>3. b \in Seq(Nat) /\ Len(b) = Len(ids) - k /\ \A i \in 1..(Len(ids) - k) : b[i] = ids[k + i]
  <2>1. Len(b) = Len(ids) - k /\ b \in Seq(Nat)
    <3>1. CASE k = Len(ids)
      BY <1>1, <3>1
    <3>2. CASE k < Len(ids)
      BY <1>1, <3>2
    <3>3. QED
      BY <1>1, <3>1, <3>2
  <2>2. ASSUME NEW i \in 1..(Len(ids) - k) PROVE b[i] = ids[k + i]
    <3>1. i \in 1..(Len(ids) - (k + 1) + 1) /\ (k + 1) + i - 1 = k + i
      BY <1>1
    <3>2. b[i] = ids[(k + 1) + i - 1]
      BY <1>1, <3>1
    <3>3. QED
      BY <3>1, <3>2
  <2>3. QED
    BY <2>1, <2>2
<1> HIDE DEF a, b
<1> DEFINE na == NamesOf(text, a)
           nb == NamesOf(text, b)
           n == NamesOf(text, ids)
<1>4. na \in Seq(TextOf(text)) /\ Len(na) = k /\ \A i \in 1..k : na[i] = text[ids[i]]
  <2>1. na \in Seq(TextOf(text)) /\ Len(na) = Len(a) /\ \A i \in 1..Len(a) : na[i] = text[a[i]]
    BY <1>2, NamesFacts
  <2> HIDE DEF na
  <2>2. QED
    BY <1>2, <2>1
<1>5. nb \in Seq(TextOf(text)) /\ Len(nb) = Len(ids) - k /\ \A i \in 1..(Len(ids) - k) : nb[i] = text[ids[k + i]]
  <2>1. nb \in Seq(TextOf(text)) /\ Len(nb) = Len(b) /\ \A i \in 1..Len(b) : nb[i] = text[b[i]]
    BY <1>3, NamesFacts
  <2> HIDE DEF nb
  <2>2. QED
    BY <1>3, <2>1
<1>6. n \in Seq(TextOf(text)) /\ Len(n) = Len(ids) /\ \A i \in 1..Len(ids) : n[i] = text[ids[i]]
  BY NamesFacts
<1> HIDE DEF na, nb, n
<1>7. na \o nb \in Seq(TextOf(text)) /\ Len(na \o nb) = Len(ids)
  <2>1. na \o nb \in Seq(TextOf(text)) /\ Len(na \o nb) = Len(na) + Len(nb)
    BY <1>4, <1>5, Joined
  <2>2. QED
    BY <1>1, <1>4, <1>5, <2>1
<1>8. ASSUME NEW i \in 1..Len(ids) PROVE (na \o nb)[i] = n[i]
  <2>1. CASE i <= k
    <3>1. (na \o nb)[i] = na[i]
      BY <1>1, <1>4, <1>5, <2>1
    <3>2. QED
      BY <1>1, <1>4, <1>6, <2>1, <3>1
  <2>2. CASE ~(i <= k)
    <3>1. i - k \in 1..(Len(ids) - k) /\ k + (i - k) = i
      BY <1>1, <2>2
    <3>2. (na \o nb)[i] = nb[i - k]
      <4>0. na \in Seq(TextOf(text)) /\ nb \in Seq(TextOf(text))
        BY <1>4, <1>5
      <4>1. \A j \in 1..Len(nb) : (na \o nb)[Len(na) + j] = nb[j]
        <5>1. InTwo(na \o nb, na, nb)
          BY <4>0, JoinInTwo
        <5>2. QED
          BY <5>1 DEF InTwo
      <4>2. QED
        BY <1>4, <1>5, <3>1, <4>1
    <3>3. nb[i - k] = text[ids[k + (i - k)]]
      BY <1>5, <3>1
    <3>4. QED
      BY <1>6, <3>1, <3>2, <3>3
  <2>3. QED
    BY <2>1, <2>2
<1>9. n = na \o nb
  BY <1>6, <1>7, <1>8, SeqEqual
<1>10. QED
  BY <1>2, <1>3, <1>9 DEF a, b, na, nb, n

RecordOk(r) == r.object \in Seq(Nat) /\ r.object # <<>> /\ r.members \in Seq(Nat)

\* The states of the path of a record, from its object on.
StateSeq(s, text, r) ==
  LET f == StatesOf(s, NamesOf(text, r.object), NamesOf(text, r.members))
  IN  [i \in 1..Len(r.members) + 1 |-> f[i - 1]]

LEMMA FunIsSeq ==
  ASSUME NEW V, NEW n \in Nat, NEW q \in [1..n -> V]
  PROVE  q \in Seq(V) /\ Len(q) = n
<1>1. q \in Seq(V)
  BY SeqDef
<1>2. QED
  BY <1>1, LenProperties

\* Going on from the k-th state of f along more gives the states of f.
GoesOn(s, f, k, more) ==
  SameStates(Len(more), Follow(s, f[k], more, FALSE), From(f, k, more))

\* The states along a path in two pieces: those of the first, then those that go on
\* from there.
LEMMA GoOn ==
  ASSUME NEW s, NEW start, NEW ab, NEW a, NEW b, InTwo(ab, a, b),
         NEW f, f = Follow(s, start, ab, FALSE)
  PROVE  /\ SameStates(Len(a), Follow(s, start, a, FALSE), f)
         /\ GoesOn(s, f, Len(a), b)
<1> DEFINE no == FALSE
<1>1. f = Follow(s, start, ab, no)
  OBVIOUS
<1> HIDE DEF no
<1>2. /\ SameStates(Len(a), Follow(s, start, a, no), f)
      /\ SameStates(Len(b), Follow(s, f[Len(a)], b, no), From(f, Len(a), b))
  BY <1>1, FollowOn
<1>3. QED
  BY <1>2 DEF no, GoesOn

\* states are the first k + 1 states of f, of N + 1, and more the names that lead on.
Kept(s, f, N, k, V, states, more) ==
  /\ N \in Nat /\ k \in 0..N /\ \A n \in 0..N : f[n] \in V
  /\ states \in Seq(V) /\ Len(states) = k + 1 /\ \A i \in 1..(k + 1) : states[i] = f[i - 1]
  /\ Len(more) = N - k /\ GoesOn(s, f, k, more)

\* Extending kept states gives the states of the whole path.
LEMMA ExtendIs ==
  ASSUME NEW s, NEW f, NEW N, NEW k, NEW V, NEW states, NEW more, Kept(s, f, N, k, V, states, more)
  PROVE  Extend(s, states, more) = [i \in 1..(N + 1) |-> f[i - 1]]
<1> SUFFICES ASSUME N \in Nat, k \in 0..N, \A n \in 0..N : f[n] \in V,
                    states \in Seq(V), Len(states) = k + 1, \A i \in 1..(k + 1) : states[i] = f[i - 1],
                    Len(more) = N - k, GoesOn(s, f, k, more)
             PROVE  Extend(s, states, more) = [i \in 1..(N + 1) |-> f[i - 1]]
  BY DEF Kept
<1> DEFINE further == Follow(s, Last(states), more, FALSE)
           rest == [i \in 1..(N - k) |-> further[i]]
           whole == [i \in 1..(N + 1) |-> f[i - 1]]
<1>1. Last(states) = f[k]
  <2>1. k + 1 \in 1..(k + 1) /\ (k + 1) - 1 = k
    OBVIOUS
  <2>2. states[k + 1] = f[k]
    BY <2>1
  <2>3. QED
    BY <2>2 DEF Last
<1>2. \A i \in 1..(N - k) : i \in 0..(N - k) /\ k + i \in 0..N
  OBVIOUS
<1>3. \A i \in 1..(N - k) : further[i] = f[k + i]
  <2>1. \A i \in 0..(N - k) : further[i] = From(f, k, more)[i]
    BY <1>1 DEF GoesOn, SameStates
  <2>2. \A i \in 0..(N - k) : From(f, k, more)[i] = f[k + i]
    BY DEF From
  <2>3. QED
    BY <1>2, <2>1, <2>2
<1>4. Extend(s, states, more) = states \o rest
  BY DEF Extend
<1> HIDE DEF further
<1>5. rest \in Seq(V) /\ Len(rest) = N - k /\ \A i \in 1..(N - k) : rest[i] = f[k + i]
  <2>1. \A i \in 1..(N - k) : f[k + i] \in V
    BY <1>2
  <2>2. \A i \in 1..(N - k) : rest[i] = f[k + i]
    BY <1>3
  <2>3. rest = [i \in 1..(N - k) |-> f[k + i]]
    BY <1>3
  <2>4. rest \in [1..(N - k) -> V] /\ N - k \in Nat
    BY <2>1, <2>3
  <2> HIDE DEF rest
  <2>5. QED
    BY <2>2, <2>4, FunIsSeq
<1>6. whole \in Seq(V) /\ Len(whole) = N + 1 /\ \A i \in 1..(N + 1) : whole[i] = f[i - 1]
  <2>1. \A i \in 1..(N + 1) : i - 1 \in 0..N
    OBVIOUS
  <2>2. whole \in [1..(N + 1) -> V] /\ N + 1 \in Nat
    BY <2>1
  <2>3. \A i \in 1..(N + 1) : whole[i] = f[i - 1]
    OBVIOUS
  <2> HIDE DEF whole
  <2>4. QED
    BY <2>2, <2>3, FunIsSeq
<1> HIDE DEF rest, whole
<1> DEFINE all == states \o rest
<1>7. all \in Seq(V) /\ InTwo(all, states, rest)
  <2>1. rest \in Seq(V)
    BY <1>5
  <2>2. InTwo(states \o rest, states, rest)
    BY <2>1, JoinInTwo
  <2>3. QED
    BY <2>1, <2>2
<1> HIDE DEF all
<1>8. Len(all) = N + 1 /\ (\A i \in 1..(k + 1) : all[i] = f[i - 1]) /\ \A i \in 1..(N - k) : all[(k + 1) + i] = f[k + i]
  <2>1. Len(all) = (k + 1) + (N - k)
    BY <1>5, <1>7 DEF InTwo
  <2>2. \A i \in 1..(k + 1) : all[i] = states[i]
    BY <1>7 DEF InTwo
  <2>3. \A i \in 1..(N - k) : all[(k + 1) + i] = rest[i]
    BY <1>5, <1>7 DEF InTwo
  <2>4. Len(all) = N + 1
    BY <2>1
  <2>5. \A i \in 1..(k + 1) : all[i] = f[i - 1]
    BY <2>2
  <2>6. \A i \in 1..(N - k) : all[(k + 1) + i] = f[k + i]
    BY <1>5, <2>3
  <2>7. QED
    BY <2>4, <2>5, <2>6
<1>9. ASSUME NEW i \in 1..(N + 1) PROVE all[i] = f[i - 1]
  <2>1. CASE i <= k + 1
    BY <1>8, <2>1
  <2>2. CASE ~(i <= k + 1)
    <3>1. i - (k + 1) \in 1..(N - k) /\ (k + 1) + (i - (k + 1)) = i /\ k + (i - (k + 1)) = i - 1
      BY <2>2
    <3>2. all[(k + 1) + (i - (k + 1))] = f[k + (i - (k + 1))]
      BY <1>8, <3>1
    <3>3. QED
      BY <3>1, <3>2
  <2>3. QED
    BY <2>1, <2>2
<1>10. all = whole
  <2>1. \A i \in 1..Len(all) : all[i] = whole[i]
    BY <1>6, <1>8, <1>9
  <2>2. QED
    BY <1>6, <1>7, <1>8, <2>1, SeqEqual
<1>11. QED
  BY <1>4, <1>10 DEF all, whole

LEMMA FollowStart ==
  ASSUME NEW s, NEW start, NEW names, Len(names) \in Nat, NEW through
  PROVE  Follow(s, start, names, through)[0] = start
BY FollowSteps

\* Extending the state of the object alone gives the states of the whole path.
LEMMA FreshStates ==
  ASSUME NEW s, NEW text, NEW r, RecordOk(r)
  PROVE  Extend(s, <<ResolveObject(s, NamesOf(text, r.object))>>, NamesOf(text, r.members)) = StateSeq(s, text, r)
<1> DEFINE start == ResolveObject(s, NamesOf(text, r.object))
           names == NamesOf(text, r.members)
           no == FALSE
           f == Follow(s, start, names, no)
           N == Len(r.members)
           V == {f[n] : n \in 0..N}
<1>1. Len(names) = N /\ N \in Nat
  BY NamesFacts DEF RecordOk
<1>2. f[0] = start
  <2> HIDE DEF start, names, no
  <2>1. Len(names) \in Nat
    BY <1>1
  <2>2. QED
    BY <2>1, FollowStart DEF f
<1>3. StateSeq(s, text, r) = [i \in 1..(N + 1) |-> f[i - 1]]
  BY DEF StateSeq, StatesOf
<1> HIDE DEF start, names, N
<1>4. Follow(s, f[0], names, FALSE) = f
  BY <1>2
<1> HIDE DEF f
<1>5. 0 \in 0..N /\ N - 0 = N /\ \A n \in 0..N : 0 + n = n
  BY <1>1
<1>6. <<start>> \in Seq(V) /\ Len(<<start>>) = 0 + 1 /\ <<start>>[1] = f[0]
  <2>1. start \in V
    BY <1>2, <1>5
  <2> HIDE DEF V
  <2>2. QED
    BY <1>2, <2>1
<1>7. \A i \in 1..(0 + 1) : <<start>>[i] = f[i - 1]
  BY <1>6
<1> DEFINE states == <<start>>
<1>8. states \in Seq(V) /\ Len(states) = 0 + 1 /\ \A i \in 1..(0 + 1) : states[i] = f[i - 1]
  BY <1>6, <1>7
<1>9. Len(names) = N - 0 /\ GoesOn(s, f, 0, names)
  <2>1. \A n \in 0..N : From(f, 0, names)[n] = f[n]
    BY <1>1, <1>5 DEF From
  <2>2. SameStates(N, f, From(f, 0, names))
    BY <2>1 DEF SameStates
  <2>3. GoesOn(s, f, 0, names)
    BY <1>1, <1>4, <2>2, Zenon DEF GoesOn
  <2>4. QED
    BY <1>1, <1>5, <2>3
<1>10. \A n \in 0..N : f[n] \in V
  OBVIOUS
<1> HIDE DEF states, V
<1>11. Extend(s, states, names) = [i \in 1..(N + 1) |-> f[i - 1]]
  <2>1. Kept(s, f, N, 0, V, states, names)
    BY <1>1, <1>5, <1>8, <1>9, <1>10 DEF Kept
  <2>2. QED
    BY <2>1, ExtendIs
<1>12. QED
  BY <1>3, <1>11 DEF states, start, names

\* The states kept of a path that begins alike are those of the new path.
LEMMA KeptStates ==
  ASSUME NEW s, NEW text, NEW r, RecordOk(r), NEW c, RecordOk(c), c.object = r.object,
         NEW k, k = CommonPrefix(c.members, r.members)
  PROVE  Extend(s, SubSeq(StateSeq(s, text, c), 1, 1 + k),
                NamesOf(text, SubSeq(r.members, 1 + k, Len(r.members)))) = StateSeq(s, text, r)
<1> DEFINE start == ResolveObject(s, NamesOf(text, r.object))
           a == r.members
           b == c.members
           N == Len(a)
           f == Follow(s, start, NamesOf(text, a), FALSE)
           g == Follow(s, start, NamesOf(text, b), FALSE)
           front == SubSeq(a, 1, k)
           more == SubSeq(a, k + 1, Len(a))
           past == SubSeq(b, k + 1, Len(b))
           V == {f[n] : n \in 0..N}
           old == StateSeq(s, text, c)
<1>1. a \in Seq(Nat) /\ b \in Seq(Nat) /\ N \in Nat /\ Len(b) \in Nat
  BY DEF RecordOk
<1>2. k \in 0..Len(b) /\ k <= N /\ SubSeq(b, 1, k) = front
  BY <1>1, CommonPrefixFacts
<1>3. k \in Nat /\ k \in 0..N
  BY <1>1, <1>2
<1>4. StateSeq(s, text, r) = [i \in 1..(N + 1) |-> f[i - 1]]
  BY DEF StateSeq, StatesOf
<1>5. old = [i \in 1..(Len(b) + 1) |-> g[i - 1]]
  BY DEF StateSeq, StatesOf
<1> HIDE DEF start, a, b, N, old
<1>6. /\ front \in Seq(Nat) /\ Len(front) = k /\ more \in Seq(Nat) /\ Len(more) = N - k
      /\ NamesOf(text, a) = NamesOf(text, front) \o NamesOf(text, more)
  BY <1>1, <1>3, NamesJoin DEF N
<1>7. past \in Seq(Nat) /\ NamesOf(text, b) = NamesOf(text, front) \o NamesOf(text, past)
  <2>1. past \in Seq(Nat) /\ NamesOf(text, b) = NamesOf(text, SubSeq(b, 1, k)) \o NamesOf(text, past)
    BY <1>1, <1>2, NamesJoin
  <2>2. QED
    BY <1>2, <2>1
<1> HIDE DEF front, more, past
<1> DEFINE nf == NamesOf(text, front)
           nm == NamesOf(text, more)
           np == NamesOf(text, past)
           T == TextOf(text)
<1>8. nf \in Seq(T) /\ nm \in Seq(T) /\ np \in Seq(T) /\ Len(nf) = k /\ Len(nm) = N - k
  BY <1>6, <1>7, NamesFacts
<1>9. f = Follow(s, start, nf \o nm, FALSE) /\ g = Follow(s, start, nf \o np, FALSE)
  BY <1>6, <1>7
<1> HIDE DEF f, g, nf, nm, np, T
<1>10. (\A n \in 0..k : Follow(s, start, nf, FALSE)[n] = f[n]) /\ GoesOn(s, f, k, nm)
  <2> DEFINE ab == nf \o nm
  <2>1. InTwo(ab, nf, nm) /\ f = Follow(s, start, ab, FALSE)
    BY <1>8, <1>9, JoinInTwo
  <2> HIDE DEF ab
  <2>2. SameStates(Len(nf), Follow(s, start, nf, FALSE), f) /\ GoesOn(s, f, Len(nf), nm)
    BY <2>1, GoOn
  <2>3. QED
    BY <1>8, <2>2 DEF SameStates
<1>11. \A n \in 0..k : Follow(s, start, nf, FALSE)[n] = g[n]
  <2> DEFINE ab == nf \o np
  <2>1. InTwo(ab, nf, np) /\ g = Follow(s, start, ab, FALSE)
    BY <1>8, <1>9, JoinInTwo
  <2> HIDE DEF ab
  <2>2. SameStates(Len(nf), Follow(s, start, nf, FALSE), g)
    BY <2>1, GoOn
  <2>3. QED
    BY <1>8, <2>2 DEF SameStates
<1>12. \A n \in 0..k : f[n] = g[n]
  BY <1>10, <1>11
<1> DEFINE states == SubSeq(old, 1, 1 + k)
<1>13. states \in Seq(V) /\ Len(states) = k + 1 /\ \A i \in 1..(k + 1) : states[i] = f[i - 1]
  <2> DEFINE G == {g[n] : n \in 0..Len(b)}
  <2>1. old \in Seq(G) /\ Len(old) = Len(b) + 1 /\ \A i \in 1..(Len(b) + 1) : old[i] = g[i - 1]
    <3>1. \A i \in 1..(Len(b) + 1) : i - 1 \in 0..Len(b)
      BY <1>1
    <3>2. old \in [1..(Len(b) + 1) -> G] /\ Len(b) + 1 \in Nat
      <4>1. \A i \in 1..(Len(b) + 1) : g[i - 1] \in G
        BY <3>1
      <4>2. Len(b) + 1 \in Nat
        BY <1>1
      <4> HIDE DEF G
      <4>3. QED
        BY <1>5, <4>1, <4>2
    <3>3. old \in Seq(G)
      BY <3>2, SeqDef
    <3>4. Len(old) = Len(b) + 1
      BY <3>2, <3>3, LenProperties
    <3>5. QED
      BY <1>5, <3>3, <3>4
  <2> HIDE DEF G
  <2>2. 1 + k \in 1..Len(old) /\ 1 + k = k + 1 /\ 1 \in 1..Len(old)
    BY <1>1, <1>2, <2>1
  <2>3. Len(states) = k + 1 /\ states \in Seq(G) /\ \A i \in 1..(k + 1) : states[i] = old[i]
    BY <2>1, <2>2
  <2>4. \A i \in 1..(k + 1) : i \in 1..(Len(b) + 1) /\ i - 1 \in 0..k /\ i - 1 \in 0..N
    BY <1>1, <1>2, <1>3
  <2> HIDE DEF states
  <2>5. \A i \in 1..(k + 1) : states[i] = f[i - 1]
    BY <1>12, <2>1, <2>3, <2>4
  <2>6. \A i \in 1..(k + 1) : states[i] \in V
    BY <2>4, <2>5
  <2>7. states \in Seq(V)
    <3>1. states \in [1..(k + 1) -> V] /\ k + 1 \in Nat
      BY <1>3, <2>3, <2>6
    <3>2. QED
      BY <3>1, SeqDef
  <2>8. QED
    BY <2>3, <2>5, <2>7
<1>14. \A n \in 0..N : f[n] \in V
  OBVIOUS
<1> HIDE DEF states, V
<1>15. Extend(s, states, nm) = [i \in 1..(N + 1) |-> f[i - 1]]
  <2>1. Kept(s, f, N, k, V, states, nm)
    BY <1>1, <1>3, <1>8, <1>10, <1>13, <1>14 DEF Kept
  <2>2. QED
    BY <2>1, ExtendIs
<1>16. 1 + k = k + 1
  BY <1>3
<1>17. QED
  BY <1>4, <1>15, <1>16 DEF states, nm, more, a, old

-----------------------------------------------------------------------------
(***************************************************************************)
(* The plan of the binary reset                                            *)
(***************************************************************************)

BinaryStates(s, image) ==
  CHOOSE g : g = [n \in 0..Len(image.records) |-> StatesBy(s, image, g, n)]

\* The records of an image are paths into its names.
PathsOk(image) ==
  /\ Len(image.records) \in Nat /\ DOMAIN image.records = 1..Len(image.records)
  /\ \A i \in 1..Len(image.records) : RecordOk(image.records[i])

\* The states of a record from those of a record before, or from none.
LEMMA PathStatesAre ==
  ASSUME NEW s, NEW text, NEW r, RecordOk(r), NEW cache,
         cache = NoCache \/ \E c : RecordOk(c) /\ cache = Cached(c, StateSeq(s, text, c))
  PROVE  PathStates(s, cache, r, text) = StateSeq(s, text, r)
<1>1. CASE cache.object # r.object
  <2>1. SharedMembers(cache, r) = 0
    BY <1>1 DEF SharedMembers
  <2>2. PathStates(s, cache, r, text)
          = Extend(s, <<ResolveObject(s, NamesOf(text, r.object))>>, NamesOf(text, r.members))
    BY <2>1 DEF PathStates
  <2>3. QED
    BY <2>2, FreshStates
<1>2. CASE cache.object = r.object
  <2>1. cache # NoCache
    <3>1. NoCache.object = <<>>
      BY DEF NoCache
    <3>2. r.object # <<>>
      BY DEF RecordOk
    <3>3. QED
      BY <1>2, <3>1, <3>2
  <2>2. PICK c : RecordOk(c) /\ cache = Cached(c, StateSeq(s, text, c))
    BY <2>1
  <2>3. cache.object = c.object /\ cache.members = c.members /\ cache.states = StateSeq(s, text, c)
    BY <2>2 DEF Cached
  <2> DEFINE k == CommonPrefix(c.members, r.members)
  <2>4. k \in Nat
    <3>1. c.members \in Seq(Nat) /\ r.members \in Seq(Nat)
      BY <2>2 DEF RecordOk
    <3>2. k \in 0..Len(c.members)
      BY <3>1, CommonPrefixFacts
    <3>3. QED
      BY <3>1, <3>2
  <2>5. SharedMembers(cache, r) = 1 + k
    BY <1>2, <2>3 DEF SharedMembers
  <2> HIDE DEF k
  <2>6. 1 + k # 0
    BY <2>4
  <2>7. PathStates(s, cache, r, text)
          = Extend(s, SubSeq(StateSeq(s, text, c), 1, 1 + k), NamesOf(text, SubSeq(r.members, 1 + k, Len(r.members))))
    BY <2>3, <2>5, <2>6 DEF PathStates
  <2>8. c.object = r.object /\ k = CommonPrefix(c.members, r.members)
    BY <1>2, <2>3 DEF k
  <2>9. QED
    BY <2>2, <2>7, <2>8, KeptStates
<1>3. QED
  BY <1>1, <1>2

\* Whatever is kept, every record gets the states of its own path.
LEMMA BinaryStatesAre ==
  ASSUME NEW s, NEW image, PathsOk(image)
  PROVE  \A i \in 1..Len(image.records) : BinaryStates(s, image)[i] = StateSeq(s, image.strings, image.records[i])
<1> DEFINE N == Len(image.records)
           text == image.strings
           g == BinaryStates(s, image)
           Own(i) == g[i] = StateSeq(s, text, image.records[i])
           Good == {n \in 0..N : n # 0 => Own(n)}
<1>1. N \in Nat /\ \A i \in 1..N : RecordOk(image.records[i])
  BY DEF PathsOk
<1>2. g = [n \in 0..N |-> StatesBy(s, image, g, n)]
  BY <1>1, StatesExist DEF BinaryStates
<1> HIDE DEF g
<1>3. \A n \in 0..N : g[n] = StatesBy(s, image, g, n)
  BY <1>1, <1>2, StatesValues
<1>4. 0 \in Good
  BY <1>1
<1>5. ASSUME NEW n \in Nat, n < N, n \in Good PROVE n + 1 \in Good
  <2>1. n + 1 \in 0..N /\ n + 1 \in 1..N /\ n + 1 # 0 /\ (n + 1) - 1 = n /\ (n + 1 = 1 <=> n = 0)
    BY <1>1, <1>5
  <2> DEFINE cache == IF n = 0 THEN NoCache ELSE Cached(image.records[n], g[n])
  <2>2. g[n + 1] = PathStates(s, cache, image.records[n + 1], text)
    <3>1. g[n + 1] = StatesBy(s, image, g, n + 1)
      BY <1>3, <2>1
    <3>2. StatesBy(s, image, g, n + 1) = PathStates(s, cache, image.records[n + 1], text)
      BY <2>1 DEF StatesBy
    <3>3. QED
      BY <3>1, <3>2
  <2>3. cache = NoCache \/ \E c : RecordOk(c) /\ cache = Cached(c, StateSeq(s, text, c))
    <3>1. CASE n = 0
      BY <3>1
    <3>2. CASE n # 0
      <4>1. n \in 1..N /\ Own(n)
        BY <1>1, <1>5, <3>2
      <4>2. RecordOk(image.records[n]) /\ cache = Cached(image.records[n], StateSeq(s, text, image.records[n]))
        BY <1>1, <3>2, <4>1
      <4>3. QED
        BY <4>2
    <3>3. QED
      BY <3>1, <3>2
  <2> HIDE DEF cache
  <2> DEFINE r == image.records[n + 1]
  <2>4. RecordOk(r)
    BY <1>1, <2>1
  <2> HIDE DEF r, text
  <2>5. PathStates(s, cache, r, text) = StateSeq(s, text, r)
    BY <2>3, <2>4, PathStatesAre
  <2>6. Own(n + 1)
    BY <2>2, <2>5 DEF r
  <2>7. QED
    BY <2>1, <2>6
<1> HIDE DEF Good
<1>6. \A n \in 0..N : n \in Good
  BY <1>1, <1>4, <1>5, UpTo
<1>7. \A n \in 1..N : n \in 0..N /\ n # 0
  BY <1>1
<1>8. QED
  BY <1>6, <1>7 DEF Good, g

\* The targets of the records with their names.
Targets(s, image) == [i \in DOMAIN image.records |->
  Resolve(s, NamesOf(image.strings, image.records[i].object), NamesOf(image.strings, image.records[i].members))]

\* The last of the states of a record is what Resolve finishes.
LEMMA LastState ==
  ASSUME NEW s, NEW text, NEW r, RecordOk(r)
  PROVE  FinishScalar(Last(StateSeq(s, text, r))) = Resolve(s, NamesOf(text, r.object), NamesOf(text, r.members))
<1> DEFINE f == StatesOf(s, NamesOf(text, r.object), NamesOf(text, r.members))
           N == Len(r.members)
           q == StateSeq(s, text, r)
           V == {f[i - 1] : i \in 1..(N + 1)}
<1>1. N \in Nat /\ Len(NamesOf(text, r.members)) = N
  BY NamesFacts DEF RecordOk
<1>2. q = [i \in 1..(N + 1) |-> f[i - 1]]
  BY DEF StateSeq
<1>3. Resolve(s, NamesOf(text, r.object), NamesOf(text, r.members)) = FinishScalar(f[N])
  BY <1>1 DEF Resolve, StatesOf
<1> HIDE DEF f, N, q
<1>4. q \in [1..(N + 1) -> V] /\ N + 1 \in Nat
  BY <1>1, <1>2
<1> HIDE DEF V
<1>5. Len(q) = N + 1
  BY <1>4, FunIsSeq
<1>6. q[N + 1] = f[N]
  BY <1>1, <1>2
<1>7. Last(q) = f[N]
  BY <1>5, <1>6 DEF Last
<1>8. QED
  BY <1>3, <1>7 DEF q

\* The binary reset plans what resolving every record from its object on plans, if it
\* knows the names.
LEMMA BinaryPlan ==
  ASSUME NEW s, NEW image, PathsOk(image), NEW options
  PROVE  PlanBinary(s, image, options)
           = IF ~(ToSet(image.strings) \subseteq Strings(s)) THEN [status |-> "not_found", writes |-> <<>>]
             ELSE PlanWrites(Targets(s, image), image.records, options)
<1> DEFINE g == BinaryStates(s, image)
           final == [i \in DOMAIN image.records |-> FinishScalar(Last(g[i]))]
<1>1. PlanBinary(s, image, options)
        = IF ~(ToSet(image.strings) \subseteq Strings(s)) THEN [status |-> "not_found", writes |-> <<>>]
          ELSE PlanWrites(final, image.records, options)
  BY DEF PlanBinary, BinaryStates, StatesBy
<1>2. ASSUME NEW i \in DOMAIN image.records
      PROVE  FinishScalar(Last(g[i])) = Targets(s, image)[i]
  <2>1. i \in 1..Len(image.records) /\ RecordOk(image.records[i])
    BY DEF PathsOk
  <2>2. g[i] = StateSeq(s, image.strings, image.records[i])
    BY <2>1, BinaryStatesAre
  <2> HIDE DEF g
  <2>3. FinishScalar(Last(StateSeq(s, image.strings, image.records[i])))
          = Resolve(s, NamesOf(image.strings, image.records[i].object), NamesOf(image.strings, image.records[i].members))
    BY <2>1, LastState
  <2>4. QED
    BY <2>2, <2>3 DEF Targets
<1> HIDE DEF g
<1>3. final = Targets(s, image)
  BY <1>2 DEF Targets
<1> HIDE DEF final
<1>4. QED
  BY <1>1, <1>3

-----------------------------------------------------------------------------
(***************************************************************************)
(* What a plan writes                                                      *)
(***************************************************************************)

LEMMA TargetStatus ==
  ASSUME NEW s, SchemaAccepted(s), NEW object, NEW names, Len(names) \in Nat
  PROVE  Resolve(s, object, names).status \in Statuses
<1> DEFINE state == StatesOf(s, object, names)[Len(names)]
<1>1. Resolve(s, object, names) = FinishScalar(state)
  BY DEF Resolve, StatesOf
<1>2. Len(names) \in 0..Len(names)
  OBVIOUS
<1>3. state.status \in Statuses
  BY <1>2, StatesFacts
<1> HIDE DEF state
<1>4. CASE state.status # "success"
  BY <1>1, <1>3, <1>4 DEF FinishScalar, Is
<1>5. CASE state.status = "success" /\ state.type.kind # "intrinsic"
  <2>1. FinishScalar(state) = Outcome("unsupported_type")
    BY <1>5 DEF FinishScalar, Is
  <2>2. QED
    BY <1>1, <2>1 DEF Outcome, Statuses
<1>6. CASE state.status = "success" /\ state.type.kind = "intrinsic"
  <2>1. FinishScalar(state).status = "success"
    BY <1>6 DEF FinishScalar, Is
  <2>2. QED
    BY <1>1, <2>1 DEF Statuses
<1>7. QED
  BY <1>4, <1>5, <1>6

Goods == {"excluded", "write"}

\* A record that does not end the plan has a target, and is written if its category is not kept.
LEMMA VerdictFacts ==
  ASSUME NEW t, t.status \in Statuses, NEW value, NEW options
  PROVE  /\ Verdict(t, value, options) # "success"
         /\ Verdict(t, value, options) \in Goods => t.status = "success"
         /\ Verdict(t, value, options) = "excluded" => Excluded(t, options)
         /\ Verdict(t, value, options) = "write" => ~Excluded(t, options) /\ t.type = value.type
         /\ t.status = "success" /\ (Excluded(t, options) \/ t.type = value.type)
              => Verdict(t, value, options) \in Goods
<1> DEFINE v == Verdict(t, value, options)
<1>1. CASE t.status # "success"
  <2>1. v = t.status
    BY <1>1 DEF Verdict, Is
  <2>2. QED
    BY <1>1, <2>1 DEF Statuses, Goods
<1>2. CASE t.status = "success" /\ Excluded(t, options)
  <2>1. v = "excluded"
    BY <1>2 DEF Verdict, Is
  <2>2. QED
    BY <1>2, <2>1 DEF Goods
<1>3. CASE t.status = "success" /\ ~Excluded(t, options) /\ t.type # value.type
  <2>1. v = "type_mismatch"
    BY <1>3 DEF Verdict, Is
  <2>2. QED
    BY <1>3, <2>1 DEF Goods
<1>4. CASE t.status = "success" /\ ~Excluded(t, options) /\ t.type = value.type
  <2>1. v = "write"
    BY <1>4 DEF Verdict, Is
  <2>2. QED
    BY <1>4, <2>1 DEF Goods
<1>5. QED
  BY <1>1, <1>2, <1>3, <1>4

Written(targets, records, i) == [loc |-> targets[i].loc, value |-> records[i].value]

\* What the plan of N records is.
Plans(plan, targets, records, N, options) ==
  /\ plan.status = "success" <=> \A i \in 1..N : Verdict(targets[i], records[i].value, options) \in Goods
  /\ plan.writes \in Seq({Written(targets, records, i) : i \in 1..N})
  /\ \A w \in ToSet(plan.writes) : \E i \in 1..N :
        Verdict(targets[i], records[i].value, options) = "write" /\ w = Written(targets, records, i)
  /\ plan.status = "success" => \A i \in 1..N :
        Verdict(targets[i], records[i].value, options) = "write" => Written(targets, records, i) \in ToSet(plan.writes)

\* A plan writes the records whose target can be written, or refuses the image.
LEMMA PlanFacts ==
  ASSUME NEW targets, NEW records, NEW N \in Nat, DOMAIN records = 1..N, Len(records) = N,
         \A i \in 1..N : targets[i].status \in Statuses, NEW options
  PROVE  Plans(PlanWrites(targets, records, options), targets, records, N, options)
<1> DEFINE Judged(i) == Verdict(targets[i], records[i].value, options)
           failed == {i \in DOMAIN records : Judged(i) \notin {"excluded", "write"}}
           count == IF failed = {} THEN N ELSE Min(failed) - 1
           W == {Written(targets, records, i) : i \in 1..N}
           One(i) == IF Judged(i) = "excluded" THEN <<>> ELSE <<Written(targets, records, i)>>
           parts == [i \in 1..count |-> One(i)]
           writes == FlattenSeq(parts)
           plan == PlanWrites(targets, records, options)
<1>1. plan = [status |-> IF failed = {} THEN "success" ELSE Judged(Min(failed)), writes |-> writes]
  BY DEF PlanWrites, Written
<1>2. plan.status = (IF failed = {} THEN "success" ELSE Judged(Min(failed))) /\ plan.writes = writes
  BY <1>1
<1>3. \A i \in 1..N : Judged(i) # "success"
  BY VerdictFacts
<1> HIDE DEF Judged, plan
<1>4. failed \in SUBSET (1..N) /\ failed \in SUBSET Nat
  OBVIOUS
<1>5. failed # {} => Min(failed) \in failed /\ \A n \in failed : Min(failed) <= n
  BY <1>4, LeastOf
<1>6. count \in 0..N /\ \A i \in 1..count : i \in 1..N /\ Judged(i) \in Goods
  <2>1. CASE failed = {}
    <3>1. count = N
      BY <2>1
    <3> HIDE DEF count
    <3>2. \A i \in 1..N : Judged(i) \in Goods
      BY <2>1 DEF Goods
    <3>3. QED
      BY <3>1, <3>2
  <2>2. CASE failed # {}
    <3>1. count = Min(failed) - 1 /\ Min(failed) \in 1..N
      BY <1>4, <1>5, <2>2
    <3>2. count \in 0..N /\ \A i \in 1..count : i \in 1..N /\ ~(Min(failed) <= i)
      <4> HIDE DEF count, failed
      <4>1. QED
        BY <3>1
    <3>3. \A i \in 1..N : i \notin failed => Judged(i) \in Goods
      BY DEF Goods
    <3>4. QED
      <4> HIDE DEF count, failed
      <4>1. QED
        BY <1>5, <2>2, <3>2, <3>3
  <2>3. QED
    BY <2>1, <2>2
<1>7. plan.status = "success" <=> \A i \in 1..N : Judged(i) \in Goods
  <2>1. CASE failed = {}
    BY <1>2, <2>1 DEF Goods
  <2>2. CASE failed # {}
    <3>1. Min(failed) \in 1..N /\ Judged(Min(failed)) \notin Goods
      BY <1>5, <2>2 DEF Goods
    <3>2. plan.status # "success"
      BY <1>2, <1>3, <2>2, <3>1
    <3>3. QED
      BY <3>1, <3>2
  <2>3. QED
    BY <2>1, <2>2
<1>8. plan.status = "success" => count = N
  BY <1>2, <1>3, <1>4, <1>5
<1> HIDE DEF failed, count
<1>9. \A i \in 1..count : One(i) \in Seq(W)
  <2>1. ASSUME NEW i \in 1..count PROVE One(i) \in Seq(W)
    <3>1. Written(targets, records, i) \in W
      BY <1>6
    <3> HIDE DEF W
    <3>2. QED
      BY <3>1
  <2>2. QED
    BY <2>1
<1>10. \A i \in 1..count : \A w : w \in ToSet(One(i)) <=> Judged(i) # "excluded" /\ w = Written(targets, records, i)
  <2>1. ASSUME NEW i \in 1..count, NEW w
        PROVE  w \in ToSet(One(i)) <=> Judged(i) # "excluded" /\ w = Written(targets, records, i)
    <3>1. CASE Judged(i) = "excluded"
      BY <3>1 DEF ToSet
    <3>2. CASE Judged(i) # "excluded"
      BY <3>2 DEF ToSet
    <3>3. QED
      BY <3>1, <3>2
  <2>2. QED
    BY <2>1
<1> HIDE DEF W, One
<1>11. parts \in Seq(Seq(W)) /\ DOMAIN parts = 1..count /\ \A i \in 1..count : parts[i] = One(i)
  <2>1. parts \in [1..count -> Seq(W)] /\ count \in Nat
    BY <1>6, <1>9
  <2>2. QED
    BY <2>1, SeqDef
<1> HIDE DEF parts
<1>12. writes \in Seq(W) /\ \A w : w \in ToSet(writes) <=> \E i \in 1..count : w \in ToSet(One(i))
  BY <1>11, FlattenElements
<1> HIDE DEF writes
<1>13. ASSUME NEW w \in ToSet(writes) PROVE \E i \in 1..N : Judged(i) = "write" /\ w = Written(targets, records, i)
  BY <1>6, <1>10, <1>12 DEF Goods
<1>14. ASSUME plan.status = "success", NEW i \in 1..N, Judged(i) = "write"
       PROVE  Written(targets, records, i) \in ToSet(writes)
  BY <1>8, <1>10, <1>12, <1>14
<1>15. QED
  BY <1>2, <1>7, <1>12, <1>13, <1>14 DEF Plans, plan, Judged, W

-----------------------------------------------------------------------------
(***************************************************************************)
(* The Runtime after a reset                                               *)
(***************************************************************************)

\* The Runtime has a value of its own type for every scalar of the Project.
MemoryOk(s, memo) ==
  /\ DOMAIN memo = {c.loc : c \in ProjectCells(s)}
  /\ \A c \in ProjectCells(s) : memo[c.loc].type = c.type

\* A Runtime filled with values is typed.
LEMMA FilledOk ==
  ASSUME NEW s, SchemaAccepted(s), NEW t
  PROVE  MemoryOk(s, Filled(s, t))
<1> DEFINE Cells == ProjectCells(s)
           Type(l) == (CHOOSE c \in Cells : c.loc = l).type
           memo == [l \in {c.loc : c \in Cells} |-> [type |-> Type(l), stamp |-> <<l, t>>]]
<1>1. Filled(s, t) = memo
  BY DEF Filled
<1>2. DOMAIN memo = {c.loc : c \in Cells}
  OBVIOUS
<1>3. ASSUME NEW c \in Cells PROVE memo[c.loc].type = c.type
  <2>1. memo[c.loc] = [type |-> Type(c.loc), stamp |-> <<c.loc, t>>]
    OBVIOUS
  <2> DEFINE d == CHOOSE d \in Cells : d.loc = c.loc
  <2>2. d \in Cells /\ d.loc = c.loc
    OBVIOUS
  <2> HIDE DEF d
  <2>3. d = c
    BY <2>2, CellUnique
  <2>4. Type(c.loc) = c.type
    BY <2>3 DEF d
  <2> HIDE DEF Type, memo
  <2>5. QED
    BY <2>1, <2>4
<1> HIDE DEF memo
<1>4. QED
  BY <1>1, <1>2, <1>3 DEF MemoryOk

\* A location holds the value of a write to it, or what it held if there is none.
LEMMA ApplyFacts ==
  ASSUME NEW W, NEW plan, plan.writes \in Seq(W), NEW memo
  PROVE  /\ DOMAIN Apply(memo, plan) = DOMAIN memo
         /\ \A l \in DOMAIN memo :
              \/ \E w \in ToSet(plan.writes) : w.loc = l /\ Apply(memo, plan)[l] = w.value
              \/ Apply(memo, plan)[l] = memo[l] /\ \A w \in ToSet(plan.writes) : w.loc # l
<1> DEFINE q == plan.writes
           Writes(l) == {i \in DOMAIN q : q[i].loc = l}
           new == [l \in DOMAIN memo |-> IF Writes(l) = {} THEN memo[l] ELSE q[Max(Writes(l))].value]
<1>1. Apply(memo, plan) = new
  BY DEF Apply
<1>2. DOMAIN q = 1..Len(q) /\ Len(q) \in Nat
  BY SeqElements
<1>3. ToSet(q) = {q[i] : i \in DOMAIN q}
  BY DEF ToSet
<1>4. ASSUME NEW l \in DOMAIN memo
      PROVE  \/ \E w \in ToSet(q) : w.loc = l /\ new[l] = w.value
             \/ new[l] = memo[l] /\ \A w \in ToSet(q) : w.loc # l
  <2>1. new[l] = IF Writes(l) = {} THEN memo[l] ELSE q[Max(Writes(l))].value
    OBVIOUS
  <2> HIDE DEF new
  <2>2. CASE Writes(l) = {}
    <3>1. \A w \in ToSet(q) : w.loc # l
      BY <1>3, <2>2
    <3>2. QED
      BY <2>1, <2>2, <3>1
  <2>3. CASE Writes(l) # {}
    <3>1. Writes(l) \in SUBSET (0..Len(q))
      BY <1>2
    <3> DEFINE top == Max(Writes(l))
    <3>2. top \in Writes(l)
      BY <1>2, <2>3, <3>1, GreatestOf
    <3>3. q[top] \in ToSet(q) /\ q[top].loc = l
      BY <1>3, <3>2
    <3>4. new[l] = q[top].value
      BY <2>1, <2>3
    <3> HIDE DEF top
    <3>5. QED
      BY <3>3, <3>4
  <2>4. QED
    BY <2>2, <2>3
<1>5. DOMAIN new = DOMAIN memo
  OBVIOUS
<1> HIDE DEF new
<1>6. QED
  BY <1>1, <1>4, <1>5

\* The target of each record of an image is what its decoded path resolves to.
LEMMA TargetsAre ==
  ASSUME NEW s, SchemaAccepted(s), NEW image, PathsOk(image), NEW i \in 1..Len(image.records)
  PROVE  /\ Decode(image)[i].object \in Seq(TextOf(image.strings))
         /\ Decode(image)[i].members \in Seq(TextOf(image.strings)) /\ Len(Decode(image)[i].members) \in Nat
         /\ Decode(image)[i].value = image.records[i].value
         /\ Targets(s, image)[i] = Resolve(s, Decode(image)[i].object, Decode(image)[i].members)
         /\ Targets(s, image)[i].status \in Statuses
<1> DEFINE r == image.records[i]
           d == Decode(image)[i]
           object == NamesOf(image.strings, r.object)
           members == NamesOf(image.strings, r.members)
<1>1. RecordOk(r) /\ i \in DOMAIN image.records
  BY DEF PathsOk
<1>2. d = [object |-> object, members |-> members, value |-> r.value]
  BY <1>1 DEF Decode
<1>3. Targets(s, image)[i] = Resolve(s, object, members)
  BY <1>1 DEF Targets
<1>4. object \in Seq(TextOf(image.strings)) /\ members \in Seq(TextOf(image.strings)) /\ Len(members) \in Nat
  BY <1>1, NamesFacts DEF RecordOk
<1> HIDE DEF d, object, members
<1>5. d.object = object /\ d.members = members /\ d.value = r.value
  BY <1>2
<1>6. Resolve(s, object, members).status \in Statuses
  BY <1>4, TargetStatus
<1>7. QED
  BY <1>3, <1>4, <1>5, <1>6 DEF d

\* The plan of an image, seen by its records.
LEMMA ImagePlan ==
  ASSUME NEW s, SchemaAccepted(s), NEW image, PathsOk(image), NEW options
  PROVE  LET plan == PlanBinary(s, image, options)
         IN  /\ Plans(PlanWrites(Targets(s, image), image.records, options), Targets(s, image), image.records,
                      Len(image.records), options)
             /\ plan.writes = <<>> \/ plan = PlanWrites(Targets(s, image), image.records, options)
             /\ plan.status = "success" => /\ plan = PlanWrites(Targets(s, image), image.records, options)
                                           /\ ToSet(image.strings) \subseteq Strings(s)
<1> DEFINE N == Len(image.records)
           full == PlanWrites(Targets(s, image), image.records, options)
           plan == PlanBinary(s, image, options)
<1>1. N \in Nat /\ DOMAIN image.records = 1..N
  BY DEF PathsOk
<1>2. \A i \in 1..N : Targets(s, image)[i].status \in Statuses
  BY TargetsAre
<1>3. Plans(full, Targets(s, image), image.records, N, options)
  BY <1>1, <1>2, PlanFacts
<1>4. plan = IF ~(ToSet(image.strings) \subseteq Strings(s)) THEN [status |-> "not_found", writes |-> <<>>] ELSE full
  BY BinaryPlan
<1> HIDE DEF full, plan
<1>5. CASE ToSet(image.strings) \subseteq Strings(s)
  BY <1>3, <1>4, <1>5 DEF full, plan
<1>6. CASE ~(ToSet(image.strings) \subseteq Strings(s))
  <2>1. plan.status = "not_found" /\ plan.writes = <<>>
    BY <1>4, <1>6
  <2>2. QED
    BY <1>3, <2>1 DEF full, plan
<1>7. QED
  BY <1>5, <1>6

\* A write goes to a scalar of the Project, of the type of the value, that the options do not keep.
WriteOk(s, w, options) ==
  \E c \in ProjectCells(s) : /\ c.loc = w.loc /\ c.type = w.value.type
                             /\ ~("constants" \in options /\ c.const) /\ ~("variables" \in options /\ ~c.const)
                             /\ ~("defaults" \in options /\ c.plain)

\* A planned write goes to a scalar of the Project, with a value of its type, that
\* the options do not keep.
LEMMA WritesOk ==
  ASSUME NEW s, SchemaAccepted(s), NEW image, PathsOk(image), NEW options
  PROVE  /\ \E W : PlanBinary(s, image, options).writes \in Seq(W)
         /\ \A w \in ToSet(PlanBinary(s, image, options).writes) : WriteOk(s, w, options)
<1> DEFINE plan == PlanBinary(s, image, options)
           targets == Targets(s, image)
           full == PlanWrites(targets, image.records, options)
           N == Len(image.records)
<1>1. Plans(full, targets, image.records, N, options) /\ (plan.writes = <<>> \/ plan = full)
  BY ImagePlan
<1>2. CASE plan.writes = <<>>
  <2> HIDE DEF plan
  <2>1. plan.writes \in Seq({}) /\ ToSet(plan.writes) = {}
    BY <1>2 DEF ToSet
  <2>2. QED
    BY <2>1 DEF plan
<1>3. CASE plan = full
  <2> HIDE DEF full, plan
  <2>1. plan.writes \in Seq({Written(targets, image.records, i) : i \in 1..N})
    BY <1>1, <1>3 DEF Plans
  <2>2. ASSUME NEW w \in ToSet(plan.writes) PROVE WriteOk(s, w, options)
    <3>1. PICK i \in 1..N : /\ Verdict(targets[i], image.records[i].value, options) = "write"
                            /\ w = Written(targets, image.records, i)
      BY <1>1, <1>3 DEF Plans
    <3> DEFINE t == targets[i]
               value == image.records[i].value
               object == Decode(image)[i].object
               members == Decode(image)[i].members
    <3>2. t = Resolve(s, object, members) /\ t.status \in Statuses /\ Len(members) \in Nat
      BY TargetsAre
    <3>3. w.loc = t.loc /\ w.value = value /\ Verdict(t, value, options) = "write"
      BY <3>1 DEF Written
    <3> HIDE DEF t, value, object, members
    <3>4. t.status = "success" /\ ~Excluded(t, options) /\ t.type = value.type
      BY <3>2, <3>3, VerdictFacts DEF Goods
    <3>5. PICK c \in ProjectCells(s) : c.loc = t.loc /\ c.type = t.type /\ c.const = t.const /\ c.plain = t.plain
      BY <3>2, <3>4, ResolvedCell
    <3>6. c.loc = w.loc /\ c.type = w.value.type
      BY <3>3, <3>4, <3>5
    <3>7. /\ ~("constants" \in options /\ c.const) /\ ~("variables" \in options /\ ~c.const)
          /\ ~("defaults" \in options /\ c.plain)
      BY <3>4, <3>5, Zenon DEF Excluded
    <3>8. QED
      BY <3>6, <3>7 DEF WriteOk
  <2>3. QED
    BY <2>1, <2>2 DEF plan
<1>4. QED
  BY <1>1, <1>2, <1>3

\* A reset leaves the Runtime typed.
LEMMA ResetKeepsMemory ==
  ASSUME NEW s, SchemaAccepted(s), NEW image, PathsOk(image), NEW options, NEW memo, MemoryOk(s, memo)
  PROVE  MemoryOk(s, Apply(memo, PlanBinary(s, image, options)))
<1> DEFINE plan == PlanBinary(s, image, options)
           new == Apply(memo, plan)
<1>1. PICK W : plan.writes \in Seq(W)
  BY WritesOk
<1>2. \A w \in ToSet(plan.writes) : WriteOk(s, w, options)
  BY WritesOk
<1> HIDE DEF plan
<1>3. /\ DOMAIN new = DOMAIN memo
      /\ \A l \in DOMAIN memo : \/ \E w \in ToSet(plan.writes) : w.loc = l /\ new[l] = w.value
                                \/ new[l] = memo[l]
  BY <1>1, ApplyFacts
<1> HIDE DEF new
<1>4. ASSUME NEW c \in ProjectCells(s) PROVE new[c.loc].type = c.type
  <2>1. c.loc \in DOMAIN memo /\ memo[c.loc].type = c.type
    BY DEF MemoryOk
  <2>2. CASE new[c.loc] = memo[c.loc]
    BY <2>1, <2>2
  <2>3. ASSUME NEW w \in ToSet(plan.writes), w.loc = c.loc, new[c.loc] = w.value PROVE new[c.loc].type = c.type
    <3>1. PICK d \in ProjectCells(s) : d.loc = w.loc /\ d.type = w.value.type
      BY <1>2 DEF WriteOk
    <3>2. d = c
      BY <2>3, <3>1, CellUnique
    <3>3. QED
      BY <2>3, <3>1, <3>2
  <2>4. QED
    BY <1>3, <2>1, <2>2, <2>3
<1>5. QED
  BY <1>3, <1>4 DEF MemoryOk, new, plan

-----------------------------------------------------------------------------
(***************************************************************************)
(* All or nothing, and the two ways to plan                                *)
(***************************************************************************)

\* Every name of the image is used, and a path has one value.
ImageOk(image) ==
  /\ PathsOk(image)
  /\ \A x \in ToSet(image.strings) : \E i \in 1..Len(image.records) :
        x \in ToSet(Decode(image)[i].object) \/ x \in ToSet(Decode(image)[i].members)
  /\ \A i, j \in 1..Len(image.records) :
        Decode(image)[i].object = Decode(image)[j].object /\ Decode(image)[i].members = Decode(image)[j].members
          => image.records[i].value = image.records[j].value

\* A path ends at a scalar only.
LEMMA FinishSucceeds ==
  ASSUME NEW state, FinishScalar(state).status = "success"
  PROVE  /\ state.status = "success" /\ state.type.kind = "intrinsic"
         /\ FinishScalar(state) = [status |-> "success", loc |-> state.loc, type |-> state.type.of,
                                   const |-> state.const \/ state.type.const, plain |-> state.plain]
<1>1. state.status = "success"
  BY DEF FinishScalar, Is
<1>2. state.type.kind = "intrinsic"
  BY <1>1 DEF FinishScalar, Is, Outcome
<1>3. QED
  BY <1>1, <1>2 DEF FinishScalar, Is

\* Two paths that resolve to the same scalar are the same path.
LEMMA TargetsDiffer ==
  ASSUME NEW s, SchemaAccepted(s), NEW S, NEW o, NEW a \in Seq(S), NEW u, NEW b \in Seq(S),
         Resolve(s, o, a).status = "success", Resolve(s, u, b).status = "success",
         Resolve(s, o, a).loc = Resolve(s, u, b).loc
  PROVE  o = u /\ a = b
<1> DEFINE f == StatesOf(s, o, a)
           g == StatesOf(s, u, b)
           x == f[Len(a)]
           y == g[Len(b)]
<1>1. Resolve(s, o, a) = FinishScalar(x) /\ Resolve(s, u, b) = FinishScalar(y)
  BY DEF Resolve, StatesOf
<1> HIDE DEF f, g
<1>2. x.status = "success" /\ FinishScalar(x).loc = x.loc
  <2> HIDE DEF x
  <2>1. QED
    BY <1>1, FinishSucceeds
<1>3. y.status = "success" /\ FinishScalar(y).loc = y.loc
  <2> HIDE DEF y
  <2>1. QED
    BY <1>1, FinishSucceeds
<1>4. x.loc = y.loc
  BY <1>1, <1>2, <1>3
<1>5. f = StatesOf(s, o, a) /\ g = StatesOf(s, u, b)
  BY DEF f, g
<1>6. QED
  BY <1>2, <1>3, <1>4, <1>5, PathsDiffer

\* Every state on the way to one that succeeds has succeeded.
LEMMA WaySucceeds ==
  ASSUME NEW s, SchemaAccepted(s), NEW object, NEW names, HasLength(names), NEW f, f = StatesOf(s, object, names),
         f[Len(names)].status = "success"
  PROVE  \A n \in 0..Len(names) : f[n].status = "success"
<1> DEFINE N == Len(names)
           Good == {n \in 0..N : f[N - n].status = "success"}
<1>1. N \in Nat
  BY DEF HasLength
<1>2. \A n \in 1..N : f[n].status = "success" => f[n - 1].status = "success"
  <2>1. \A n \in 1..N : f[n].status = "success" => Reached(s, f, names, n)
    BY <1>1, StatesFacts
  <2>2. QED
    BY <2>1 DEF Reached
<1> HIDE DEF N
<1>3. 0 \in Good
  <2>1. 0 \in 0..N /\ N - 0 = N
    BY <1>1
  <2>2. QED
    BY <2>1 DEF N
<1>4. ASSUME NEW n \in Nat, n < N, n \in Good PROVE n + 1 \in Good
  <2>1. N - n \in 1..N /\ (N - n) - 1 = N - (n + 1) /\ n + 1 \in 0..N
    BY <1>1, <1>4
  <2>2. f[(N - n) - 1].status = "success"
    BY <1>2, <1>4, <2>1
  <2>3. QED
    BY <2>1, <2>2
<1> HIDE DEF Good
<1>5. \A n \in 0..N : n \in Good
  BY <1>1, <1>3, <1>4, UpTo
<1>6. ASSUME NEW n \in 0..N PROVE f[n].status = "success"
  <2>1. N - n \in 0..N /\ N - (N - n) = n
    BY <1>1
  <2>2. f[N - (N - n)].status = "success"
    BY <1>5, <2>1 DEF Good
  <2>3. QED
    BY <2>1, <2>2
<1>7. QED
  BY <1>6 DEF N

\* What resolves has only names of the Project.
LEMMA KnownNames ==
  ASSUME NEW s, SchemaAccepted(s), NEW S, NEW object, NEW names \in Seq(S), Resolve(s, object, names).status = "success"
  PROVE  ToSet(object) \subseteq Strings(s) /\ ToSet(names) \subseteq Strings(s)
<1> DEFINE f == StatesOf(s, object, names)
           N == Len(names)
<1>1. N \in Nat /\ DOMAIN names = 1..N /\ HasLength(names)
  BY DEF HasLength
<1>2. /\ f[0] = ResolveObject(s, object)
      /\ \A n \in 1..N : f[n].status = "success" => Reached(s, f, names, n)
  BY <1>1, StatesFacts
<1>3. Resolve(s, object, names) = FinishScalar(f[N])
  BY DEF Resolve, StatesOf
<1>4. f = StatesOf(s, object, names)
  OBVIOUS
<1> HIDE DEF f
<1>5. f[N].status = "success"
  <2> DEFINE x == f[N]
  <2> HIDE DEF x
  <2>1. FinishScalar(x).status = "success"
    BY <1>3 DEF x
  <2>2. QED
    BY <2>1, FinishSucceeds DEF x
<1>6. \A n \in 0..N : f[n].status = "success"
  BY <1>1, <1>4, <1>5, WaySucceeds
<1> HIDE DEF N
<1>7. ToSet(names) \subseteq Strings(s)
  <2>1. \A n \in 1..N : names[n] \in Known(s)
    <3>1. \A n \in 1..N : n \in 0..N
      BY <1>1
    <3>2. QED
      BY <1>2, <1>6, <3>1 DEF Reached
  <2>2. Known(s) \subseteq Strings(s)
    <3> DEFINE X == UNION {ToSet(o.path) : o \in ToSet(s.objects)}
               Y == {m.name : m \in Members(s)}
    <3>1. Strings(s) = X \cup Y /\ Known(s) = Y
      BY DEF Strings, Known
    <3> HIDE DEF X, Y
    <3>2. QED
      BY <3>1
  <2>3. ToSet(names) = {names[n] : n \in 1..N}
    BY <1>1 DEF ToSet
  <2>4. QED
    BY <2>1, <2>2, <2>3
<1>8. ToSet(object) \subseteq Strings(s)
  <2>1. f[0].status = "success"
    BY <1>1, <1>6
  <2>2. PICK o \in ToSet(s.objects) : o.path = object
    BY <1>2, <2>1, ObjectState
  <2>3. QED
    BY <2>2 DEF Strings
<1>9. QED
  BY <1>7, <1>8

\* A plan looks only at the targets and the values.
Alike(N, t, u, a, b) ==
  /\ N \in Nat /\ DOMAIN a = 1..N /\ DOMAIN b = 1..N /\ Len(a) = N /\ Len(b) = N
  /\ \A i \in 1..N : t[i] = u[i] /\ a[i].value = b[i].value

\* Targets and values that agree give the same plan.
LEMMA SamePlan ==
  ASSUME NEW N, NEW t, NEW u, NEW a, NEW b, Alike(N, t, u, a, b), NEW options
  PROVE  PlanWrites(t, a, options) = PlanWrites(u, b, options)
<1> SUFFICES ASSUME N \in Nat, DOMAIN a = 1..N, DOMAIN b = 1..N, Len(a) = N, Len(b) = N,
                    \A i \in 1..N : t[i] = u[i] /\ a[i].value = b[i].value
             PROVE  PlanWrites(t, a, options) = PlanWrites(u, b, options)
  BY DEF Alike
<1> DEFINE Ja(i) == Verdict(t[i], a[i].value, options)
           Jb(i) == Verdict(u[i], b[i].value, options)
           fa == {i \in DOMAIN a : Ja(i) \notin {"excluded", "write"}}
           fb == {i \in DOMAIN b : Jb(i) \notin {"excluded", "write"}}
           ca == IF fa = {} THEN Len(a) ELSE Min(fa) - 1
           cb == IF fb = {} THEN Len(b) ELSE Min(fb) - 1
           Wa(i) == IF Ja(i) = "excluded" THEN <<>> ELSE <<[loc |-> t[i].loc, value |-> a[i].value]>>
           Wb(i) == IF Jb(i) = "excluded" THEN <<>> ELSE <<[loc |-> u[i].loc, value |-> b[i].value]>>
<1>1. PlanWrites(t, a, options) = [status |-> IF fa = {} THEN "success" ELSE Ja(Min(fa)),
                                   writes |-> FlattenSeq([i \in 1..ca |-> Wa(i)])]
  BY DEF PlanWrites
<1>2. PlanWrites(u, b, options) = [status |-> IF fb = {} THEN "success" ELSE Jb(Min(fb)),
                                   writes |-> FlattenSeq([i \in 1..cb |-> Wb(i)])]
  BY DEF PlanWrites
<1>3. \A i \in 1..N : Ja(i) = Jb(i)
  OBVIOUS
<1>4. \A i \in 1..N : Wa(i) = Wb(i)
  BY <1>3
<1> HIDE DEF Ja, Jb
<1>5. fa = fb
  BY <1>3
<1>6. ca = cb /\ ca \in 0..N /\ (fa # {} => Min(fa) \in 1..N)
  <2>1. ca = cb
    BY <1>5
  <2>2. fa \in SUBSET Nat /\ fa \subseteq 1..N
    OBVIOUS
  <2>3. CASE fa = {}
    BY <2>1, <2>3
  <2>4. CASE fa # {}
    <3>1. Min(fa) \in fa
      BY <2>2, <2>4, LeastOf
    <3>2. Min(fa) \in 1..N
      BY <2>2, <3>1
    <3>3. ca = Min(fa) - 1
      BY <2>4
    <3> HIDE DEF fa, ca, cb
    <3>4. QED
      BY <2>1, <3>2, <3>3
  <2>5. QED
    BY <2>3, <2>4
<1> HIDE DEF Wa, Wb
<1>7. [i \in 1..ca |-> Wa(i)] = [i \in 1..cb |-> Wb(i)]
  <2> HIDE DEF ca, cb
  <2>1. \A i \in 1..ca : i \in 1..N
    BY <1>6
  <2>2. QED
    BY <1>4, <1>6, <2>1
<1>8. (IF fa = {} THEN "success" ELSE Ja(Min(fa))) = (IF fb = {} THEN "success" ELSE Jb(Min(fb)))
  <2> HIDE DEF fa, fb
  <2>1. QED
    BY <1>3, <1>5, <1>6
<1> DEFINE pa == [i \in 1..ca |-> Wa(i)]
           pb == [i \in 1..cb |-> Wb(i)]
           sa == IF fa = {} THEN "success" ELSE Ja(Min(fa))
           sb == IF fb = {} THEN "success" ELSE Jb(Min(fb))
<1>9. /\ PlanWrites(t, a, options) = [status |-> sa, writes |-> FlattenSeq(pa)]
      /\ PlanWrites(u, b, options) = [status |-> sb, writes |-> FlattenSeq(pb)]
      /\ pa = pb /\ sa = sb
  BY <1>1, <1>2, <1>7, <1>8, Zenon
<1> HIDE DEF pa, pb, sa, sb
<1>10. QED
  BY <1>9

\* Resolving each decoded record alone plans what the targets of the image plan.
LEMMA PlanOfDecoded ==
  ASSUME NEW s, SchemaAccepted(s), NEW image, PathsOk(image), NEW options
  PROVE  PlanRecords(s, Decode(image), options) = PlanWrites(Targets(s, image), image.records, options)
<1> DEFINE d == Decode(image)
           N == Len(image.records)
           t == [i \in DOMAIN d |-> Resolve(s, d[i].object, d[i].members)]
<1>1. PlanRecords(s, d, options) = PlanWrites(t, d, options)
  BY DEF PlanRecords
<1>2. N \in Nat /\ DOMAIN image.records = 1..N /\ DOMAIN d = 1..N
  BY DEF PathsOk, Decode
<1>3. Len(d) = N
  <2> HIDE DEF d
  <2>1. d \in [1..N -> {d[i] : i \in 1..N}]
    <3>1. d = [i \in 1..N |-> d[i]]
      <4>1. d = [i \in 1..N |-> [object |-> NamesOf(image.strings, image.records[i].object),
                                 members |-> NamesOf(image.strings, image.records[i].members),
                                 value |-> image.records[i].value]]
        BY <1>2 DEF Decode, d
      <4>2. QED
        BY <4>1
    <3>2. QED
      BY <3>1
  <2>2. QED
    BY <1>2, <2>1, FunIsSeq
<1>4. \A i \in 1..N : t[i] = Targets(s, image)[i] /\ d[i].value = image.records[i].value
  <2>1. \A i \in 1..N : t[i] = Resolve(s, d[i].object, d[i].members)
    BY <1>2
  <2> HIDE DEF t
  <2>2. QED
    BY <2>1, TargetsAre
<1> HIDE DEF d, t
<1>5. PlanWrites(t, d, options) = PlanWrites(Targets(s, image), image.records, options)
  <2>1. Alike(N, t, Targets(s, image), d, image.records)
    BY <1>2, <1>3, <1>4 DEF Alike
  <2>2. QED
    BY <2>1, SamePlan
<1>6. QED
  BY <1>1, <1>5 DEF d

\* The binary reset and the reset by records succeed for the same images, with the same writes.
LEMMA BinaryIsRecords ==
  ASSUME NEW s, SchemaAccepted(s), NEW image, ImageOk(image), NEW options
  PROVE  LET binary == PlanBinary(s, image, options)
             records == PlanRecords(s, Decode(image), options)
         IN  /\ Is(binary, "success") <=> Is(records, "success")
             /\ Is(binary, "success") => binary.writes = records.writes
<1> DEFINE binary == PlanBinary(s, image, options)
           records == PlanRecords(s, Decode(image), options)
           targets == Targets(s, image)
           full == PlanWrites(targets, image.records, options)
           N == Len(image.records)
<1>1. PathsOk(image)
  BY DEF ImageOk
<1>2. records = full
  BY <1>1, PlanOfDecoded
<1>3. binary = IF ~(ToSet(image.strings) \subseteq Strings(s)) THEN [status |-> "not_found", writes |-> <<>>] ELSE full
  BY <1>1, BinaryPlan
<1>4. Plans(full, targets, image.records, N, options)
  BY <1>1, ImagePlan
<1> HIDE DEF binary, records, full, targets
<1>5. CASE ToSet(image.strings) \subseteq Strings(s)
  BY <1>2, <1>3, <1>5 DEF binary, records
<1>6. CASE ~(ToSet(image.strings) \subseteq Strings(s))
  <2>1. binary.status # "success"
    BY <1>3, <1>6
  <2>2. PICK x \in ToSet(image.strings) : x \notin Strings(s)
    BY <1>6
  <2>3. PICK i \in 1..N : x \in ToSet(Decode(image)[i].object) \/ x \in ToSet(Decode(image)[i].members)
    BY <2>2 DEF ImageOk
  <2> DEFINE object == Decode(image)[i].object
             members == Decode(image)[i].members
             t == targets[i]
  <2>4. t = Resolve(s, object, members) /\ members \in Seq(TextOf(image.strings)) /\ t.status \in Statuses
    BY <1>1, TargetsAre DEF targets
  <2>5. x \in ToSet(object) \/ x \in ToSet(members)
    BY <2>3
  <2> HIDE DEF object, members, t
  <2>6. t.status # "success"
    BY <2>2, <2>4, <2>5, KnownNames
  <2>7. Verdict(t, image.records[i].value, options) \notin Goods
    BY <2>4, <2>6, VerdictFacts
  <2>8. full.status # "success"
    BY <1>4, <2>7 DEF Plans, t
  <2>9. QED
    BY <1>2, <2>1, <2>8 DEF binary, records, Is
<1>7. QED
  BY <1>5, <1>6

\* After a reset that succeeds every record is in the Runtime, or its category was kept.
LEMMA ResetIsWhole ==
  ASSUME NEW s, SchemaAccepted(s), NEW image, ImageOk(image), NEW options, NEW memo, MemoryOk(s, memo),
         PlanBinary(s, image, options).status = "success", NEW i \in 1..Len(image.records)
  PROVE  LET new == Apply(memo, PlanBinary(s, image, options))
             t == Targets(s, image)[i]
         IN  /\ t.status = "success"
             /\ new[t.loc] = IF Excluded(t, options) THEN memo[t.loc] ELSE image.records[i].value
<1> DEFINE plan == PlanBinary(s, image, options)
           new == Apply(memo, plan)
           targets == Targets(s, image)
           N == Len(image.records)
           t == targets[i]
           Value(j) == image.records[j].value
           Judged(j) == Verdict(targets[j], Value(j), options)
           text == TextOf(image.strings)
<1>1. PathsOk(image) /\ N \in Nat
  BY DEF ImageOk, PathsOk
<1>2. Plans(plan, targets, image.records, N, options)
  BY <1>1, ImagePlan
<1>3. /\ \A j \in 1..N : Judged(j) \in Goods
      /\ plan.writes \in Seq({Written(targets, image.records, j) : j \in 1..N})
      /\ \A w \in ToSet(plan.writes) : \E j \in 1..N : Judged(j) = "write" /\ w = Written(targets, image.records, j)
      /\ \A j \in 1..N : Judged(j) = "write" => Written(targets, image.records, j) \in ToSet(plan.writes)
  BY <1>2 DEF Plans
<1> HIDE DEF plan
<1>4. /\ \A l \in DOMAIN memo : \/ \E w \in ToSet(plan.writes) : w.loc = l /\ new[l] = w.value
                                \/ new[l] = memo[l] /\ \A w \in ToSet(plan.writes) : w.loc # l
  BY <1>3, ApplyFacts
<1>5. \A j \in 1..N : /\ targets[j] = Resolve(s, Decode(image)[j].object, Decode(image)[j].members)
                      /\ targets[j].status \in Statuses /\ Decode(image)[j].members \in Seq(text)
                      /\ Len(Decode(image)[j].members) \in Nat
  <2> SUFFICES ASSUME NEW j \in 1..Len(image.records)
               PROVE  /\ Targets(s, image)[j] = Resolve(s, Decode(image)[j].object, Decode(image)[j].members)
                      /\ Targets(s, image)[j].status \in Statuses /\ Decode(image)[j].members \in Seq(TextOf(image.strings))
                      /\ Len(Decode(image)[j].members) \in Nat
    OBVIOUS
  <2>1. QED
    BY <1>1, TargetsAre
<1> HIDE DEF targets, new
<1>6. \A j \in 1..N : targets[j].status = "success"
  BY <1>3, <1>5, VerdictFacts
<1>7. \A j \in 1..N : (Judged(j) = "excluded" => Excluded(targets[j], options))
                      /\ (Judged(j) = "write" => ~Excluded(targets[j], options))
  BY <1>5, VerdictFacts
<1>8. t.loc \in DOMAIN memo
  <2> DEFINE object == Decode(image)[i].object
             members == Decode(image)[i].members
  <2>1. t = Resolve(s, object, members) /\ t.status = "success" /\ Len(members) \in Nat
    BY <1>5, <1>6
  <2> HIDE DEF object, members, t
  <2>2. PICK c \in ProjectCells(s) : c.loc = t.loc
    BY <2>1, ResolvedCell
  <2>3. QED
    BY <2>2 DEF MemoryOk
<1>9. ASSUME NEW j \in 1..N, targets[j].loc = t.loc
      PROVE  targets[j] = t /\ Value(j) = Value(i)
  <2> DEFINE oi == Decode(image)[i].object
             mi == Decode(image)[i].members
             oj == Decode(image)[j].object
             mj == Decode(image)[j].members
  <2>1. /\ Resolve(s, oi, mi).status = "success" /\ Resolve(s, oj, mj).status = "success"
        /\ Resolve(s, oi, mi).loc = Resolve(s, oj, mj).loc /\ mi \in Seq(text) /\ mj \in Seq(text)
    BY <1>5, <1>6, <1>9
  <2> HIDE DEF oi, mi, oj, mj, text
  <2>2. oi = oj /\ mi = mj
    BY <2>1, TargetsDiffer
  <2>3. Value(j) = Value(i)
    BY <2>2 DEF oi, mi, oj, mj, ImageOk
  <2>4. targets[j] = t
    BY <1>5, <2>2 DEF oi, mi, oj, mj
  <2>5. QED
    BY <2>3, <2>4
<1>10. \A j \in 1..N : Written(targets, image.records, j).loc = targets[j].loc
                       /\ Written(targets, image.records, j).value = Value(j)
  BY DEF Written
<1> HIDE DEF Judged, Value
<1>11. CASE Excluded(t, options)
  <2>1. ASSUME NEW w \in ToSet(plan.writes) PROVE w.loc # t.loc
    <3>1. PICK j \in 1..N : Judged(j) = "write" /\ w = Written(targets, image.records, j)
      BY <1>3
    <3>2. ~Excluded(targets[j], options) /\ w.loc = targets[j].loc
      BY <1>7, <1>10, <3>1
    <3>3. QED
      BY <1>9, <1>11, <3>2
  <2>2. new[t.loc] = memo[t.loc]
    BY <1>4, <1>8, <2>1
  <2>3. QED
    BY <1>6, <1>11, <2>2 DEF new, plan, targets
<1>12. CASE ~Excluded(t, options)
  <2>1. Judged(i) = "write"
    BY <1>3, <1>7, <1>12 DEF Goods
  <2>2. PICK w \in ToSet(plan.writes) : w.loc = t.loc /\ new[t.loc] = w.value
    BY <1>3, <1>4, <1>8, <1>10, <2>1
  <2>3. PICK j \in 1..N : w = Written(targets, image.records, j)
    BY <1>3
  <2>4. w.loc = targets[j].loc /\ w.value = Value(j)
    BY <1>10, <2>3
  <2>5. Value(j) = Value(i)
    BY <1>9, <2>2, <2>4
  <2>6. new[t.loc] = Value(i)
    BY <2>2, <2>4, <2>5
  <2>7. QED
    BY <1>6, <1>12, <2>6 DEF new, plan, targets, Value
<1>13. QED
  BY <1>11, <1>12

-----------------------------------------------------------------------------
(***************************************************************************)
(* What a snapshot records resolves to where it was read                   *)
(***************************************************************************)

\* What holds of a type when it holds of the types of its parts holds of every type.
LEMMA TypeInduction ==
  ASSUME NEW s, SchemaAccepted(s), NEW S,
         \A t \in DOMAIN s.types :
            /\ \A b \in ToSet(s.types[t].bases) : b.type \in S
            /\ \A m \in ToSet(s.types[t].members) : m.type.kind = "named" => m.type.of \in S
            => t \in S
  PROVE  \A t \in DOMAIN s.types : t \in S
<1> DEFINE N == TypeCount(s)
           Entry(u) == s.types[u]
<1>1. PICK height \in [DOMAIN s.types -> 0..N - 1] : NoneContainsItself(s, height)
  BY DEF SchemaAccepted
<1>2. N \in Nat
  BY CountIsNat
<1> HIDE DEF N
<1>3. \A u \in DOMAIN s.types : height[u] \in Nat
  BY <1>1, <1>2
<1> DEFINE T == {height[u] : u \in {u \in DOMAIN s.types : u \notin S}}
<1>4. SUFFICES ASSUME T # {} PROVE FALSE
  OBVIOUS
<1>5. T \in SUBSET Nat
  BY <1>3
<1>6. PICK n \in T : \A k \in T : n <= k
  BY <1>4, <1>5, LeastNat
<1>7. PICK t \in DOMAIN s.types : t \notin S /\ height[t] = n
  BY <1>6
<1>8. \A u \in DOMAIN s.types : height[u] < height[t] => u \in S
  <2>1. ASSUME NEW u \in DOMAIN s.types, height[u] < height[t], u \notin S PROVE FALSE
    <3>1. n <= height[u]
      BY <1>6, <2>1
    <3>2. QED
      BY <1>3, <1>7, <2>1, <3>1
  <2>2. QED
    BY <2>1
<1>9. \A b \in ToSet(Entry(t).bases) : b.type \in S
  BY <1>1, <1>8, AcceptedBases DEF NoneContainsItself
<1>10. \A m \in ToSet(Entry(t).members) : m.type.kind = "named" => m.type.of \in S
  BY <1>1, <1>8, MemberType DEF NoneContainsItself
<1>11. QED
  BY <1>7, <1>9, <1>10

\* A state in a record of type t.
InRecord(s, state, t) ==
  /\ state.status = "success" /\ state.loc \in Seq(Steps(s))
  /\ state.type.kind = "named" /\ state.type.of = t

\* The path of a visit leads to the place of the visit.
EndsAt(end, loc, type) ==
  end.status = "success" /\ end.loc = loc /\ end.type.kind = type.kind /\ end.type.of = type.of
Leads(s, state, v) ==
  EndsAt(Follow(s, state, v.members, FALSE)[Len(v.members)], state.loc \o v.loc, v.type)
OwnLeads(s, t) ==
  \A v \in ToSet(Full(s)[t]) : v.inherited = FALSE => \A state : InRecord(s, state, t) => Leads(s, state, v)

\* An own member is entered.
LEMMA OwnStep ==
  ASSUME NEW s, SchemaAccepted(s), NEW t \in DOMAIN s.types, NEW m \in ToSet(s.types[t].members),
         NEW state, InRecord(s, state, t)
  PROVE  LET next == MemberStep(s, state, m.name)
         IN  /\ next.status = "success" /\ next.loc = state.loc \o <<InMember(m.name)>> /\ next.type = m.type
             /\ next.loc \in Seq(Steps(s))
<1> DEFINE a == [status |-> "found", loc |-> <<InMember(m.name)>>, type |-> m.type, plain |-> m.plain]
<1>1. FindMember(s, t, m.name) = a
  BY SearchFacts
<1>2. MemberStep(s, state, m.name) = Enter(state, a)
  BY <1>1 DEF MemberStep, InRecord, Is
<1>3. a.status = "found" /\ a.loc = <<InMember(m.name)>> /\ a.type = m.type
  OBVIOUS
<1>4. /\ Enter(state, a).status = "success" /\ Enter(state, a).loc = state.loc \o a.loc
      /\ Enter(state, a).type = a.type
  <2> DEFINE c == state.const \/ state.type.const
             loc == state.loc \o a.loc
  <2> HIDE DEF a
  <2>1. Enter(state, a) = [status |-> "success", loc |-> loc, type |-> a.type, const |-> c, plain |-> a.plain]
    BY <1>3 DEF Enter, Is
  <2> HIDE DEF c, loc
  <2>2. Enter(state, a).status = "success" /\ Enter(state, a).loc = loc /\ Enter(state, a).type = a.type
    BY <2>1
  <2>3. QED
    BY <2>2 DEF loc
<1>5. InMember(m.name) \in Steps(s)
  BY MemberType
<1>6. state.loc \o <<InMember(m.name)>> \in Seq(Steps(s))
  BY <1>5 DEF InRecord
<1> DEFINE next == MemberStep(s, state, m.name)
<1> HIDE DEF a, next
<1>7. next.status = "success" /\ next.loc = state.loc \o a.loc /\ next.type = a.type
  BY <1>2, <1>4 DEF next
<1>8. QED
  BY <1>3, <1>6, <1>7 DEF next

Stays(s, state) == Follow(s, state, <<>>, FALSE)[0] = state
StepsOnce(s, state, name) == Follow(s, state, <<name>>, FALSE)[1] = MemberStep(s, state, name)

\* No name leaves a state as it is, and one name is one step.
LEMMA OneName ==
  ASSUME NEW s, NEW state, NEW name
  PROVE  Stays(s, state) /\ StepsOnce(s, state, name)
<1> DEFINE none == <<>>
           one == <<name>>
           no == FALSE
<1>1. HasLength(none) /\ HasLength(one) /\ Len(one) = 1 /\ one[1] = name
  BY DEF HasLength
<1> DEFINE f == Follow(s, state, none, no)
           g == Follow(s, state, one, no)
<1> HIDE DEF none, one, no
<1>2. Goes(s, f, state, none, no) /\ Goes(s, g, state, one, no)
  BY <1>1, FollowGoes
<1> HIDE DEF f, g
<1>3. f[0] = state
  BY <1>2 DEF Goes
<1>4. g[0] = state /\ g[1] = MemberStep(s, StateBefore(no, g[1 - 1]), one[1])
  BY <1>1, <1>2 DEF Goes
<1>5. g[1] = MemberStep(s, state, name)
  BY <1>1, <1>4 DEF StateBefore, no
<1>6. QED
  BY <1>3, <1>5 DEF f, g, none, one, no, Stays, StepsOnce

\* Two stretches of names: the second goes on where the first ends.
StepsFirst(s, state, name, b) ==
  LET ab == <<name>> \o b
  IN  Follow(s, state, ab, FALSE)[Len(ab)] = Follow(s, MemberStep(s, state, name), b, FALSE)[Len(b)]

\* A name and then a path is a step and then the path.
LEMMA LeadsOn ==
  ASSUME NEW s, NEW state, NEW S, NEW name \in S, NEW b \in Seq(S)
  PROVE  StepsFirst(s, state, name, b)
<1> DEFINE a == <<name>>
           ab == a \o b
           no == FALSE
           f == Follow(s, state, ab, no)
<1>1. a \in Seq(S) /\ Len(a) = 1
  BY Single
<1>2. InTwo(ab, a, b)
  BY <1>1, JoinInTwo
<1>3. Follow(s, state, a, no)[1] = MemberStep(s, state, name)
  BY OneName DEF StepsOnce
<1>4. Len(b) \in Nat
  OBVIOUS
<1> HIDE DEF a, ab, no
<1>5. /\ SameStates(Len(a), Follow(s, state, a, no), f)
      /\ SameStates(Len(b), Follow(s, f[Len(a)], b, no), From(f, Len(a), b))
  BY <1>2, FollowOn
<1> HIDE DEF f
<1>6. f[1] = MemberStep(s, state, name)
  BY <1>1, <1>3, <1>5 DEF SameStates
<1>7. Follow(s, f[1], b, no)[Len(b)] = From(f, 1, b)[Len(b)]
  BY <1>1, <1>4, <1>5 DEF SameStates
<1>8. From(f, 1, b)[Len(b)] = f[1 + Len(b)]
  BY <1>4 DEF From
<1>9. Len(ab) = 1 + Len(b)
  BY <1>1, <1>2 DEF InTwo
<1>10. QED
  BY <1>6, <1>7, <1>8, <1>9 DEF f, ab, a, no, StepsFirst

\* Every visit of a type that goes through no base is where its path from the type
\* leads.
LEMMA OwnVisits ==
  ASSUME NEW s, SchemaAccepted(s), NEW t \in DOMAIN s.types
  PROVE  OwnLeads(s, t)
<1> DEFINE S == {u \in DOMAIN s.types : OwnLeads(s, u)}
<1>1. ASSUME NEW u \in DOMAIN s.types,
             \A m \in ToSet(s.types[u].members) : m.type.kind = "named" => m.type.of \in S
      PROVE  OwnLeads(s, u)
  <2> SUFFICES ASSUME NEW v \in ToSet(Full(s)[u]), v.inherited = FALSE, NEW state, InRecord(s, state, u)
               PROVE  Leads(s, state, v)
    BY DEF OwnLeads
  <2>1. v \in Visits(s) /\ state.loc \in Seq(Steps(s))
    BY FullElements DEF InRecord
  <2> DEFINE end == Follow(s, state, v.members, FALSE)[Len(v.members)]
  <2>2. CASE AsRecord(u, v)
    <3>1. v.members = <<>> /\ v.loc = <<>> /\ v.type = NamedType(u)
      BY <2>2 DEF AsRecord, Root
    <3>2. Len(v.members) = 0 /\ end = state
      BY <3>1, OneName DEF Stays
    <3>3. state.loc \o v.loc = state.loc
      BY <2>1, <3>1, EmptyJoin
    <3>4. v.type.kind = "named" /\ v.type.of = u
      BY <3>1 DEF NamedType
    <3> HIDE DEF end
    <3>5. QED
      BY <3>2, <3>3, <3>4 DEF Leads, EndsAt, InRecord, end
  <2>3. ASSUME NEW m \in ToSet(s.types[u].members), AsMember(v, m) PROVE Leads(s, state, v)
    <3>1. v.members = <<m.name>> /\ v.loc = <<InMember(m.name)>> /\ v.type = m.type
      BY <2>3 DEF AsMember
    <3>2. Len(v.members) = 1 /\ end = MemberStep(s, state, m.name)
      <4> DEFINE name == m.name
      <4>1. StepsOnce(s, state, name)
        <5> HIDE DEF name
        <5>1. QED
          BY OneName
      <4>2. QED
        BY <3>1, <4>1 DEF StepsOnce
    <3> HIDE DEF end
    <3>3. end.status = "success" /\ end.loc = state.loc \o v.loc /\ end.type = v.type
      BY <3>1, <3>2, OwnStep
    <3>4. QED
      BY <3>3 DEF Leads, EndsAt, end
  <2>4. ASSUME NEW m \in ToSet(s.types[u].members), m.type.kind = "named", NEW w \in ToSet(Full(s)[m.type.of]),
               InMemberOf(v, m, w)
        PROVE  Leads(s, state, v)
    <3>1. /\ v.members = <<m.name>> \o w.members /\ v.loc = <<InMember(m.name)>> \o w.loc
          /\ v.type = w.type /\ w.inherited = FALSE
      BY <2>4 DEF InMemberOf
    <3>2. m.type.of \in DOMAIN s.types /\ m.name \in Known(s) /\ InMember(m.name) \in Steps(s) /\ OwnLeads(s, m.type.of)
      BY <1>1, <2>4, MemberType
    <3>3. w.members \in Seq(Known(s)) /\ w.loc \in Seq(Steps(s))
      BY <3>2, FullElements DEF Visits
    <3> DEFINE next == MemberStep(s, state, m.name)
               stop == Follow(s, next, w.members, FALSE)[Len(w.members)]
    <3>4. end = stop
      <4> DEFINE name == m.name
                 b == w.members
      <4>1. name \in Known(s) /\ b \in Seq(Known(s)) /\ v.members = <<name>> \o b
        BY <3>1, <3>2, <3>3
      <4> HIDE DEF name, b
      <4>2. StepsFirst(s, state, name, b)
        BY <4>1, LeadsOn
      <4>3. QED
        BY <4>1, <4>2 DEF name, b, StepsFirst
    <3>5. /\ next.status = "success" /\ next.loc = state.loc \o <<InMember(m.name)>> /\ next.type = m.type
          /\ next.loc \in Seq(Steps(s))
      BY OwnStep
    <3> HIDE DEF next
    <3>6. InRecord(s, next, m.type.of)
      BY <2>4, <3>5 DEF InRecord
    <3>7. Leads(s, next, w)
      BY <2>4, <3>1, <3>2, <3>6 DEF OwnLeads
    <3>8. next.loc \o w.loc = state.loc \o v.loc
      <4> DEFINE here == <<InMember(m.name)>>
                 l == state.loc
                 k == w.loc
      <4>1. here \in Seq(Steps(s)) /\ l \in Seq(Steps(s)) /\ k \in Seq(Steps(s))
        BY <2>1, <3>2, <3>3, Single
      <4> HIDE DEF here, l, k
      <4>2. (l \o here) \o k = l \o (here \o k)
        BY <4>1, ConcatAssociative
      <4>3. QED
        BY <3>1, <3>5, <4>2 DEF here, l, k
    <3>9. EndsAt(stop, state.loc \o v.loc, v.type)
      BY <3>1, <3>7, <3>8 DEF Leads
    <3> HIDE DEF stop, end
    <3>10. QED
      BY <3>4, <3>9 DEF Leads, end
  <2>5. \A b \in ToSet(s.types[u].bases) : ~\E w : InBaseOf(s, u, v, b, w)
    BY DEF InBaseOf
  <2>6. QED
    BY <2>2, <2>3, <2>4, <2>5, VisitCases
<1>2. \A u \in DOMAIN s.types :
         /\ \A b \in ToSet(s.types[u].bases) : b.type \in S
         /\ \A m \in ToSet(s.types[u].members) : m.type.kind = "named" => m.type.of \in S
         => u \in S
  BY <1>1
<1> HIDE DEF S
<1>3. t \in S
  BY <1>2, TypeInduction
<1>4. QED
  BY <1>3 DEF S

\* The visits of an object.
LEMMA TreeElements ==
  ASSUME NEW s, SchemaAccepted(s), NEW o \in ToSet(s.objects)
  PROVE  LET q == WalkTree(s, o.type)
         IN  /\ q \in Seq(Visits(s)) /\ ToSet(q) \subseteq Visits(s)
             /\ \A x : x \in ToSet(q) <=> TypeVisits(o.type, Full(s), x)
             /\ o.type.kind = "named" => o.type.of \in DOMAIN s.types
<1> DEFINE type == o.type
           below == Full(s)
           q == WalkType(type, below)
<1>1. WalkTree(s, o.type) = q
  BY TreeIs
<1>2. PartsListed(s, below)
  BY FullListed
<1>3. TypeAccepted(s, type)
  BY AcceptedObjects
<1>4. type.kind = "named" => type.of \in DOMAIN s.types
  BY <1>3, AcceptedType
<1>5. type \in Types(s)
  BY DEF Types
<1> HIDE DEF type, below
<1>6. /\ q \in Seq(Visits(s))
      /\ \A x : x \in ToSet(q) <=> TypeVisits(type, below, x)
  BY <1>2, <1>4, <1>5, WalkTypeIs
<1> HIDE DEF q
<1>7. ToSet(q) \subseteq Visits(s)
  BY <1>6, OwnElements
<1>8. QED
  BY <1>1, <1>4, <1>6, <1>7 DEF type, below

\* A visit that is not below a base is where its path leads.
LEMMA VisitEnds ==
  ASSUME NEW s, SchemaAccepted(s), NEW o \in ToSet(s.objects), NEW v \in ToSet(WalkTree(s, o.type)),
         v.inherited = FALSE
  PROVE  EndsAt(StatesOf(s, o.path, v.members)[Len(v.members)], <<o.path>> \o v.loc, v.type)
<1> DEFINE start == ResolveObject(s, o.path)
           end == StatesOf(s, o.path, v.members)[Len(v.members)]
<1>1. start = [status |-> "success", loc |-> <<o.path>>, type |-> o.type, const |-> FALSE, plain |-> o.plain]
  <2> DEFINE object == o.path
  <2>1. o.path = object
    OBVIOUS
  <2> HIDE DEF object
  <2>2. \A r \in ToSet(s.objects) : r.path = object =>
           ResolveObject(s, object) = [status |-> "success", loc |-> <<object>>, type |-> r.type,
                                       const |-> FALSE, plain |-> r.plain]
    BY ObjectState
  <2>3. QED
    BY <2>1, <2>2
<1>2. end = Follow(s, start, v.members, FALSE)[Len(v.members)]
  BY DEF StatesOf
<1> HIDE DEF start, end
<1>3. start.status = "success" /\ start.loc = <<o.path>> /\ start.type = o.type
  BY <1>1
<1>4. o.path \in Steps(s)
  BY AcceptedObjects
<1>5. start.loc \in Seq(Steps(s))
  BY <1>3, <1>4, Single
<1>6. TypeVisits(o.type, Full(s), v) /\ (o.type.kind = "named" => o.type.of \in DOMAIN s.types)
  BY TreeElements
<1>7. CASE v = Root(o.type)
  <2>1. v.members = <<>> /\ v.loc = <<>> /\ v.type = o.type
    BY <1>7 DEF Root
  <2>2. end = start
    BY <1>2, <2>1, OneName DEF Stays
  <2>3. start.loc \o v.loc = start.loc
    BY <1>5, <2>1, EmptyJoin
  <2>4. QED
    BY <1>3, <2>1, <2>2, <2>3 DEF EndsAt, end
<1>8. ASSUME o.type.kind = "named", NEW w \in ToSet(Full(s)[o.type.of]), v = Shifted(w, <<>>, <<>>, FALSE)
      PROVE  EndsAt(end, <<o.path>> \o v.loc, v.type)
  <2>1. w \in Visits(s)
    BY <1>6, <1>8, FullElements
  <2>2. v.members = w.members /\ v.loc = w.loc /\ v.type = w.type /\ w.inherited = FALSE
    BY <1>8, <2>1, ShiftedHere
  <2>3. InRecord(s, start, o.type.of)
    BY <1>3, <1>5, <1>8 DEF InRecord
  <2>4. Leads(s, start, w)
    BY <1>6, <1>8, <2>2, <2>3, OwnVisits DEF OwnLeads
  <2>5. QED
    BY <1>2, <1>3, <2>2, <2>4 DEF Leads
<1>9. QED
  BY <1>6, <1>7, <1>8 DEF TypeVisits, end

\* What is recorded of a visit, and when it is.
PathOf(o, v) == [object |-> o.path, members |-> v.members, loc |-> <<o.path>> \o v.loc, type |-> v.type.of]
Emitted(s, o, v) ==
  /\ v.type.kind = "intrinsic" /\ v.type.of # "nullptr"
  /\ v.inherited => Addresses(Resolve(s, o.path, v.members), <<o.path>> \o v.loc, v.type.of)
PathSet(s) ==
  [object : {o.path : o \in ToSet(s.objects)}, members : Seq(Known(s)), loc : Seq(Steps(s)),
   type : {type.of : type \in Types(s)}]
ObjectPaths(s, o) ==
  LET visits == WalkTree(s, o.type)
  IN  FlattenSeq([j \in DOMAIN visits |-> EmitScalar(s, o.path, visits[j])])

\* A visit of a scalar is recorded, one of a base's scalar only if the path of the
\* visit resolves to it.
LEMMA EmitIs ==
  ASSUME NEW s, NEW o, NEW v
  PROVE  EmitScalar(s, o.path, v) = IF Emitted(s, o, v) THEN <<PathOf(o, v)>> ELSE <<>>
BY DEF EmitScalar, Emitted, PathOf

LEMMA PathOfIs ==
  ASSUME NEW s, SchemaAccepted(s), NEW o \in ToSet(s.objects), NEW v \in Visits(s)
  PROVE  PathOf(o, v) \in PathSet(s)
<1>1. o.path \in Steps(s)
  BY AcceptedObjects
<1>2. <<o.path>> \in Seq(Steps(s))
  BY <1>1, Single
<1>3. v.members \in Seq(Known(s)) /\ v.loc \in Seq(Steps(s)) /\ v.type \in Types(s)
  BY DEF Visits
<1>4. <<o.path>> \o v.loc \in Seq(Steps(s))
  BY <1>2, <1>3
<1>5. QED
  BY <1>3, <1>4 DEF PathOf, PathSet

EmitPart(s, o, v) == IF Emitted(s, o, v) THEN <<PathOf(o, v)>> ELSE <<>>
EmitParts(s, o) ==
  LET visits == WalkTree(s, o.type) IN [j \in DOMAIN visits |-> EmitPart(s, o, visits[j])]

\* The part of a snapshot that one visit gives, and the parts of an object.
LEMMA EmitPartIs ==
  ASSUME NEW s, SchemaAccepted(s), NEW o \in ToSet(s.objects), NEW v \in Visits(s)
  PROVE  /\ EmitPart(s, o, v) \in Seq(PathSet(s))
         /\ \A x : x \in ToSet(EmitPart(s, o, v)) <=> Emitted(s, o, v) /\ x = PathOf(o, v)
<1> DEFINE p == PathOf(o, v)
           P == PathSet(s)
           part == EmitPart(s, o, v)
<1>1. p \in P
  BY PathOfIs
<1> HIDE DEF p, P
<1>2. CASE Emitted(s, o, v)
  <2>1. part = <<p>>
    BY <1>2 DEF p, EmitPart
  <2> HIDE DEF part
  <2>2. part \in Seq(P) /\ ToSet(part) = {p}
    BY <1>1, <2>1 DEF ToSet
  <2>3. QED
    BY <1>2, <2>2 DEF p, part, P
<1>3. CASE ~Emitted(s, o, v)
  <2>1. part = <<>>
    BY <1>3 DEF EmitPart
  <2> HIDE DEF part
  <2>2. part \in Seq(P) /\ ToSet(part) = {}
    BY <2>1 DEF ToSet
  <2>3. QED
    BY <1>3, <2>2 DEF part, P
<1>4. QED
  BY <1>2, <1>3

LEMMA EmitPartsAre ==
  ASSUME NEW s, SchemaAccepted(s), NEW o \in ToSet(s.objects)
  PROVE  LET visits == WalkTree(s, o.type)
         IN  /\ ObjectPaths(s, o) = FlattenSeq(EmitParts(s, o))
             /\ EmitParts(s, o) \in Seq(Seq(PathSet(s)))
             /\ DOMAIN EmitParts(s, o) = DOMAIN visits
             /\ \A j \in DOMAIN visits : visits[j] \in Visits(s) /\ EmitParts(s, o)[j] = EmitPart(s, o, visits[j])
<1> DEFINE visits == WalkTree(s, o.type)
           P == PathSet(s)
           Part(v) == EmitPart(s, o, v)
           parts == [j \in DOMAIN visits |-> Part(visits[j])]
<1>1. ObjectPaths(s, o) = FlattenSeq(parts) /\ EmitParts(s, o) = parts
  BY EmitIs DEF ObjectPaths, EmitParts, EmitPart
<1>2. visits \in Seq(Visits(s))
  BY TreeElements
<1> HIDE DEF visits
<1>3. DOMAIN visits = 1..Len(visits) /\ Len(visits) \in Nat /\ \A j \in DOMAIN visits : visits[j] \in Visits(s)
  BY <1>2, SeqElements
<1>4. \A j \in DOMAIN visits : Part(visits[j]) \in Seq(P)
  BY <1>3, EmitPartIs
<1> HIDE DEF Part, P
<1>5. DOMAIN parts = DOMAIN visits /\ \A j \in DOMAIN visits : parts[j] = Part(visits[j])
  OBVIOUS
<1>6. parts \in [1..Len(visits) -> Seq(P)]
  BY <1>3, <1>4
<1> HIDE DEF parts
<1>7. parts \in Seq(Seq(P))
  BY <1>3, <1>6, SeqDef
<1>8. QED
  BY <1>1, <1>3, <1>5, <1>7 DEF P, Part, visits

\* An object's part of a snapshot: the scalars its walk records.
LEMMA ObjectPathsAre ==
  ASSUME NEW s, SchemaAccepted(s), NEW o \in ToSet(s.objects)
  PROVE  /\ ObjectPaths(s, o) \in Seq(PathSet(s))
         /\ \A x : x \in ToSet(ObjectPaths(s, o)) <=>
              \E v \in ToSet(WalkTree(s, o.type)) : Emitted(s, o, v) /\ x = PathOf(o, v)
<1> DEFINE visits == WalkTree(s, o.type)
           P == PathSet(s)
           parts == EmitParts(s, o)
<1>1. /\ ObjectPaths(s, o) = FlattenSeq(parts) /\ parts \in Seq(Seq(P)) /\ DOMAIN parts = DOMAIN visits
      /\ \A j \in DOMAIN visits : visits[j] \in Visits(s) /\ parts[j] = EmitPart(s, o, visits[j])
  BY EmitPartsAre
<1>2. ToSet(visits) = {visits[j] : j \in DOMAIN visits}
  BY DEF ToSet
<1> HIDE DEF visits, P, parts
<1>3. /\ FlattenSeq(parts) \in Seq(P)
      /\ \A x : x \in ToSet(FlattenSeq(parts)) <=> \E i \in DOMAIN parts : x \in ToSet(parts[i])
  BY <1>1, FlattenElements
<1>4. \A j \in DOMAIN visits : \A x : x \in ToSet(parts[j]) <=> Emitted(s, o, visits[j]) /\ x = PathOf(o, visits[j])
  BY <1>1, EmitPartIs
<1>5. \A x : x \in ToSet(FlattenSeq(parts)) <=> \E v \in ToSet(visits) : Emitted(s, o, v) /\ x = PathOf(o, v)
  BY <1>1, <1>2, <1>3, <1>4
<1>6. QED
  BY <1>1, <1>3, <1>5 DEF P, visits

SnapshotParts(s) == [i \in DOMAIN s.objects |-> ObjectPaths(s, s.objects[i])]

\* A snapshot holds the parts of its objects.
LEMMA SnapshotElements ==
  ASSUME NEW s, SchemaAccepted(s)
  PROVE  /\ SnapshotPaths(s) = FlattenSeq(SnapshotParts(s)) /\ SnapshotParts(s) \in Seq(Seq(PathSet(s)))
         /\ SnapshotPaths(s) \in Seq(PathSet(s))
         /\ \A x : x \in ToSet(SnapshotPaths(s)) <=> \E o \in ToSet(s.objects) : x \in ToSet(ObjectPaths(s, o))
<1> DEFINE P == PathSet(s)
           parts == [i \in DOMAIN s.objects |-> ObjectPaths(s, s.objects[i])]
<1>1. SnapshotPaths(s) = FlattenSeq(parts) /\ SnapshotParts(s) = parts
  BY DEF SnapshotPaths, ObjectPaths, SnapshotParts
<1>2. DOMAIN s.objects = 1..Len(s.objects) /\ Len(s.objects) \in Nat
  BY AcceptedObjects
<1>3. ToSet(s.objects) = {s.objects[i] : i \in DOMAIN s.objects}
  BY DEF ToSet
<1>4. \A i \in DOMAIN s.objects : parts[i] = ObjectPaths(s, s.objects[i]) /\ ObjectPaths(s, s.objects[i]) \in Seq(P)
  <2>1. \A i \in DOMAIN s.objects : s.objects[i] \in ToSet(s.objects)
    BY <1>3
  <2>2. QED
    BY <2>1, ObjectPathsAre
<1> HIDE DEF P
<1>5. parts \in [1..Len(s.objects) -> Seq(P)] /\ DOMAIN parts = DOMAIN s.objects
  BY <1>2, <1>4
<1> HIDE DEF parts
<1>6. parts \in Seq(Seq(P))
  BY <1>2, <1>5, SeqDef
<1>7. /\ FlattenSeq(parts) \in Seq(P)
      /\ \A x : x \in ToSet(FlattenSeq(parts)) <=> \E i \in DOMAIN parts : x \in ToSet(parts[i])
  BY <1>6, FlattenElements
<1>8. QED
  BY <1>1, <1>3, <1>4, <1>5, <1>6, <1>7 DEF P

\* A recorded path resolves to the location it was recorded at.
LEMMA EmittedResolves ==
  ASSUME NEW s, SchemaAccepted(s), NEW o \in ToSet(s.objects), NEW v \in ToSet(WalkTree(s, o.type)), Emitted(s, o, v)
  PROVE  Addresses(Resolve(s, o.path, v.members), <<o.path>> \o v.loc, v.type.of)
<1>1. v \in Visits(s)
  BY TreeElements
<1>2. v.inherited \in BOOLEAN
  BY <1>1 DEF Visits
<1>3. CASE v.inherited
  BY <1>3 DEF Emitted
<1>4. CASE ~v.inherited
  <2> DEFINE x == StatesOf(s, o.path, v.members)[Len(v.members)]
             t == Resolve(s, o.path, v.members)
             loc == <<o.path>> \o v.loc
  <2>1. v.inherited = FALSE
    BY <1>2, <1>4
  <2>2. EndsAt(x, loc, v.type)
    BY <2>1, VisitEnds
  <2>3. t = FinishScalar(x)
    BY DEF Resolve, StatesOf
  <2>4. v.type.kind = "intrinsic"
    BY DEF Emitted
  <2> HIDE DEF x, t, loc
  <2>5. x.status = "success" /\ x.type.kind = "intrinsic" /\ x.loc = loc /\ x.type.of = v.type.of
    BY <2>2, <2>4 DEF EndsAt
  <2>6. FinishScalar(x).status = "success"
    BY <2>5 DEF FinishScalar, Is
  <2>7. t.status = "success" /\ t.loc = loc /\ t.type = v.type.of
    <3> DEFINE c == x.const \/ x.type.const
    <3>1. t = [status |-> "success", loc |-> x.loc, type |-> x.type.of, const |-> c, plain |-> x.plain]
      BY <2>3, <2>6, FinishSucceeds
    <3> HIDE DEF c
    <3>2. QED
      BY <2>5, <3>1
  <2>8. QED
    BY <2>7 DEF Addresses, Is, t, loc
<1>5. QED
  BY <1>2, <1>3, <1>4

\* Every recorded path resolves to the recorded scalar.
LEMMA SnapshotResolves ==
  ASSUME NEW s, SchemaAccepted(s), NEW p \in ToSet(SnapshotPaths(s))
  PROVE  LET t == Resolve(s, p.object, p.members)
         IN  /\ t.status = "success" /\ t.loc = p.loc /\ t.type = p.type /\ p.type # "nullptr"
             /\ p.object \in Seq(STRING) /\ p.object # <<>> /\ p.members \in Seq(Known(s))
             /\ p = [object |-> p.object, members |-> p.members, loc |-> p.loc, type |-> p.type]
             /\ \E o \in ToSet(s.objects) : p.object = o.path
<1>1. PICK o \in ToSet(s.objects) : p \in ToSet(ObjectPaths(s, o))
  BY SnapshotElements
<1>2. PICK v \in ToSet(WalkTree(s, o.type)) : Emitted(s, o, v) /\ p = PathOf(o, v)
  BY <1>1, ObjectPathsAre
<1>3. v \in Visits(s)
  BY TreeElements
<1>4. p.object = o.path /\ p.members = v.members /\ p.loc = <<o.path>> \o v.loc /\ p.type = v.type.of
  BY <1>2 DEF PathOf
<1>5. v.members \in Seq(Known(s))
  BY <1>3 DEF Visits
<1>6. o.path \in Seq(STRING) /\ o.path # <<>>
  BY AcceptedObjects
<1>7. Addresses(Resolve(s, o.path, v.members), <<o.path>> \o v.loc, v.type.of)
  BY <1>2, EmittedResolves
<1>8. p = [object |-> p.object, members |-> p.members, loc |-> p.loc, type |-> p.type]
  BY <1>2 DEF PathOf
<1>9. v.type.of # "nullptr"
  BY <1>2 DEF Emitted
<1> DEFINE t == Resolve(s, p.object, p.members)
<1>10. t = Resolve(s, o.path, v.members)
  BY <1>4
<1> HIDE DEF t
<1>11. t.status = "success" /\ t.loc = p.loc /\ t.type = p.type
  BY <1>4, <1>7, <1>10 DEF Addresses, Is
<1>12. QED
  BY <1>4, <1>5, <1>6, <1>8, <1>9, <1>11 DEF t

-----------------------------------------------------------------------------
(***************************************************************************)
(* The image                                                               *)
(***************************************************************************)

\* The records of a snapshot.
NamedRecord(r) ==
  /\ r.object \in Seq(STRING) /\ r.object # <<>> /\ r.members \in Seq(STRING)
  /\ r = [object |-> r.object, members |-> r.members, value |-> r.value]
RecordsOk(records) ==
  /\ Len(records) \in Nat /\ records = [i \in 1..Len(records) |-> records[i]]
  /\ \A i \in 1..Len(records) : NamedRecord(records[i])
  /\ \A i, j \in 1..Len(records) :
        records[i].object = records[j].object /\ records[i].members = records[j].members
          => records[i].value = records[j].value

\* Every name has a place in the table.
LEMMA NamesKept ==
  ASSUME NEW S, NEW names \in Seq(S)
  PROVE  NamesInOrder(names) \in Seq(S) /\ ToSet(NamesInOrder(names)) = ToSet(names)
<1> DEFINE N == Len(names)
           Again(i) == \E j \in 1..i - 1 : names[j] = names[i]
           Part(i) == IF Again(i) THEN <<>> ELSE <<names[i]>>
           parts == [i \in DOMAIN names |-> Part(i)]
<1>1. NamesInOrder(names) = FlattenSeq(parts)
  BY DEF NamesInOrder
<1>2. N \in Nat /\ DOMAIN names = 1..N /\ \A i \in 1..N : names[i] \in S
  BY SeqElements
<1>3. ToSet(names) = {names[i] : i \in 1..N}
  BY <1>2 DEF ToSet
<1>4. ASSUME NEW i \in 1..N
      PROVE  /\ Part(i) \in Seq(S)
             /\ \A x : x \in ToSet(Part(i)) <=> ~Again(i) /\ x = names[i]
  <2> HIDE DEF Again
  <2> DEFINE y == names[i]
  <2>1. y \in S
    BY <1>2
  <2>2. CASE Again(i)
    <3>1. Part(i) = <<>>
      BY <2>2
    <3> HIDE DEF Part
    <3>2. Part(i) \in Seq(S) /\ ToSet(Part(i)) = {}
      BY <3>1 DEF ToSet
    <3>3. QED
      BY <2>2, <3>2
  <2>3. CASE ~Again(i)
    <3>1. Part(i) = <<y>>
      BY <2>3
    <3> HIDE DEF Part, y
    <3>2. Part(i) \in Seq(S) /\ ToSet(Part(i)) = {y}
      BY <2>1, <3>1 DEF ToSet
    <3>3. QED
      BY <2>3, <3>2 DEF y
  <2>4. QED
    BY <2>2, <2>3
<1> HIDE DEF Part, N
<1>5. DOMAIN parts = 1..N /\ \A i \in 1..N : parts[i] = Part(i)
  BY <1>2
<1>6. parts \in [1..N -> Seq(S)]
  BY <1>2, <1>4
<1> HIDE DEF parts
<1>7. parts \in Seq(Seq(S))
  BY <1>2, <1>6, SeqDef
<1>8. /\ FlattenSeq(parts) \in Seq(S)
      /\ \A x : x \in ToSet(FlattenSeq(parts)) <=> \E i \in DOMAIN parts : x \in ToSet(parts[i])
  BY <1>7, FlattenElements
<1>9. \A x : x \in ToSet(FlattenSeq(parts)) <=> \E i \in 1..N : ~Again(i) /\ x = names[i]
  <2> HIDE DEF Again
  <2>1. QED
    BY <1>4, <1>5, <1>8
<1>10. ASSUME NEW x \in ToSet(names) PROVE \E i \in 1..N : ~Again(i) /\ x = names[i]
  <2> DEFINE T == {i \in 1..N : names[i] = x}
  <2>1. T \in SUBSET Nat /\ T # {}
    BY <1>2, <1>3
  <2>2. PICK i \in T : \A j \in T : i <= j
    BY <2>1, LeastNat
  <2>3. ~Again(i)
    <3>1. ASSUME NEW j \in 1..i - 1, names[j] = names[i] PROVE FALSE
      <4>1. j \in T /\ j < i
        BY <1>2, <2>2, <3>1
      <4>2. QED
        BY <1>2, <2>2, <4>1
    <3>2. QED
      BY <3>1
  <2>4. QED
    BY <2>2, <2>3
<1>11. ToSet(FlattenSeq(parts)) = ToSet(names)
  <2> HIDE DEF Again
  <2>1. QED
    BY <1>3, <1>9, <1>10
<1>12. QED
  BY <1>1, <1>8, <1>11

\* The index of each name.
LocalIds(strings, names) == [i \in DOMAIN names |-> CHOOSE k \in DOMAIN strings : strings[k] = names[i]]

\* Names interned in the table of an image read back.
LEMMA LocalFacts ==
  ASSUME NEW S, NEW strings \in Seq(S), NEW names \in Seq(S), ToSet(names) \subseteq ToSet(strings)
  PROVE  LET ids == LocalIds(strings, names)
         IN  /\ ids \in Seq(Nat) /\ Len(ids) = Len(names)
             /\ NamesOf(strings, ids) = names
<1> DEFINE ids == LocalIds(strings, names)
           Id(x) == CHOOSE k \in DOMAIN strings : strings[k] = x
<1>1. DOMAIN strings = 1..Len(strings) /\ Len(strings) \in Nat /\ DOMAIN names = 1..Len(names) /\ Len(names) \in Nat
  BY SeqElements
<1>2. \A i \in 1..Len(names) : names[i] \in ToSet(strings)
  BY <1>1 DEF ToSet
<1>3. \A x \in ToSet(strings) : Id(x) \in DOMAIN strings /\ strings[Id(x)] = x
  BY DEF ToSet
<1>4. ids = [i \in 1..Len(names) |-> Id(names[i])]
  BY <1>1 DEF LocalIds
<1> HIDE DEF Id
<1>5. \A i \in 1..Len(names) : Id(names[i]) \in Nat /\ strings[Id(names[i])] = names[i]
  BY <1>1, <1>2, <1>3
<1>6. ids \in [1..Len(names) -> Nat] /\ \A i \in 1..Len(names) : ids[i] = Id(names[i])
  BY <1>4, <1>5
<1> HIDE DEF ids
<1>7. ids \in Seq(Nat) /\ Len(ids) = Len(names)
  BY <1>1, <1>6, FunIsSeq
<1>8. NamesOf(strings, ids) = [i \in 1..Len(names) |-> names[i]]
  <2>1. DOMAIN ids = 1..Len(names)
    BY <1>6
  <2>2. \A i \in 1..Len(names) : strings[ids[i]] = names[i]
    BY <1>5, <1>6
  <2>3. QED
    BY <2>1, <2>2 DEF NamesOf
<1>9. names = [i \in 1..Len(names) |-> names[i]]
  BY <1>1
<1>10. QED
  BY <1>7, <1>8, <1>9 DEF ids

AllNames(records) == FlattenSeq([i \in DOMAIN records |-> records[i].object \o records[i].members])
Table(records) == NamesInOrder(AllNames(records))
Packed(strings, r) ==
  [object |-> LocalIds(strings, r.object), members |-> LocalIds(strings, r.members), value |-> r.value]

LEMMA EncodeIs ==
  ASSUME NEW records
  PROVE  Encode(records) = [strings |-> Table(records),
                            records |-> [i \in DOMAIN records |-> Packed(Table(records), records[i])]]
BY DEF Encode, EncodeWith, Table, AllNames, Packed, LocalIds

\* The table of an image holds the names of all its records.
LEMMA TableFacts ==
  ASSUME NEW records, RecordsOk(records)
  PROVE  /\ Table(records) \in Seq(STRING)
         /\ \A x : x \in ToSet(Table(records)) <=>
              \E i \in 1..Len(records) : x \in ToSet(records[i].object) \/ x \in ToSet(records[i].members)
<1> DEFINE N == Len(records)
           Part(i) == records[i].object \o records[i].members
           parts == [i \in 1..N |-> Part(i)]
           S == STRING
<1>1. N \in Nat /\ DOMAIN records = 1..N
  BY DEF RecordsOk
<1>2. AllNames(records) = FlattenSeq(parts)
  BY <1>1 DEF AllNames
<1>3. ASSUME NEW i \in 1..N
      PROVE  /\ Part(i) \in Seq(S)
             /\ \A x : x \in ToSet(Part(i)) <=> x \in ToSet(records[i].object) \/ x \in ToSet(records[i].members)
  <2> DEFINE a == records[i].object
             b == records[i].members
  <2>1. a \in Seq(S) /\ b \in Seq(S)
    BY DEF RecordsOk, NamedRecord
  <2> HIDE DEF a, b, S
  <2>2. a \o b \in Seq(S) /\ \A x : x \in ToSet(a \o b) <=> x \in ToSet(a) \/ x \in ToSet(b)
    BY <2>1, JoinedElements
  <2>3. QED
    BY <2>2 DEF a, b
<1> HIDE DEF Part, N, S
<1>4. parts \in [1..N -> Seq(S)] /\ DOMAIN parts = 1..N /\ \A i \in 1..N : parts[i] = Part(i)
  BY <1>3
<1> HIDE DEF parts
<1>5. parts \in Seq(Seq(S))
  BY <1>1, <1>4, SeqDef
<1> DEFINE names == FlattenSeq(parts)
<1>6. /\ names \in Seq(S)
      /\ \A x : x \in ToSet(names) <=> \E i \in DOMAIN parts : x \in ToSet(parts[i])
  BY <1>5, FlattenElements
<1> HIDE DEF names
<1>7. NamesInOrder(names) \in Seq(S) /\ ToSet(NamesInOrder(names)) = ToSet(names)
  BY <1>6, NamesKept
<1>8. Table(records) = NamesInOrder(names)
  BY <1>2 DEF Table, names
<1>9. \A x : x \in ToSet(names) <=> \E i \in 1..N : x \in ToSet(records[i].object) \/ x \in ToSet(records[i].members)
  BY <1>3, <1>4, <1>6
<1>10. QED
  BY <1>7, <1>8, <1>9 DEF N, S

\* A packed record unpacks to itself.
LEMMA PackedFacts ==
  ASSUME NEW records, RecordsOk(records), NEW i \in 1..Len(records)
  PROVE  LET strings == Table(records)
             r == records[i]
             packed == Packed(strings, r)
         IN  /\ RecordOk(packed) /\ packed.value = r.value
             /\ NamesOf(strings, packed.object) = r.object /\ NamesOf(strings, packed.members) = r.members
<1> DEFINE strings == Table(records)
           r == records[i]
           packed == Packed(strings, r)
           S == STRING
           a == r.object
           b == r.members
<1>1. strings \in Seq(S) /\ ToSet(a) \subseteq ToSet(strings) /\ ToSet(b) \subseteq ToSet(strings)
  BY TableFacts
<1>2. a \in Seq(S) /\ b \in Seq(S) /\ a # <<>>
  BY DEF RecordsOk, NamedRecord
<1>3. packed.object = LocalIds(strings, a) /\ packed.members = LocalIds(strings, b) /\ packed.value = r.value
  BY DEF Packed
<1> HIDE DEF strings, packed, S, a, b
<1>4. LocalIds(strings, a) \in Seq(Nat) /\ Len(LocalIds(strings, a)) = Len(a) /\ NamesOf(strings, LocalIds(strings, a)) = a
  BY <1>1, <1>2, LocalFacts
<1>5. LocalIds(strings, b) \in Seq(Nat) /\ NamesOf(strings, LocalIds(strings, b)) = b
  BY <1>1, <1>2, LocalFacts
<1>6. LocalIds(strings, a) # <<>>
  <2>1. Len(a) # 0
    BY <1>2
  <2>2. QED
    BY <1>4, <2>1
<1>7. QED
  BY <1>3, <1>4, <1>5, <1>6 DEF RecordOk, a, b, strings, packed

\* An image decodes to the records it was made from.
LEMMA EncodedOk ==
  ASSUME NEW records, RecordsOk(records)
  PROVE  Decode(Encode(records)) = records /\ ImageOk(Encode(records))
<1> DEFINE image == Encode(records)
           strings == Table(records)
           N == Len(records)
           packed == [i \in DOMAIN records |-> Packed(strings, records[i])]
<1>1. N \in Nat /\ DOMAIN records = 1..N /\ records = [i \in 1..N |-> records[i]]
  BY DEF RecordsOk
<1>2. image = [strings |-> strings, records |-> packed]
  BY EncodeIs
<1>3. \A i \in 1..N : LET p == Packed(strings, records[i])
                      IN  /\ RecordOk(p) /\ p.value = records[i].value
                          /\ NamesOf(strings, p.object) = records[i].object
                          /\ NamesOf(strings, p.members) = records[i].members
  BY PackedFacts
<1>4. image.strings = strings /\ image.records = packed /\ DOMAIN packed = 1..N
  BY <1>1, <1>2
<1>5. \A i \in 1..N : packed[i] = Packed(strings, records[i])
  BY <1>1
<1>6. Len(packed) = N
  <2> DEFINE V == {Packed(strings, records[i]) : i \in 1..N}
  <2>1. packed \in [1..N -> V]
    BY <1>1
  <2> HIDE DEF V, packed, N
  <2>2. QED
    BY <1>1, <2>1, FunIsSeq
<1>7. \A i \in 1..N : records[i] = [object |-> records[i].object, members |-> records[i].members, value |-> records[i].value]
  BY DEF RecordsOk, NamedRecord
<1>8. \A x : x \in ToSet(strings) <=> \E i \in 1..N : x \in ToSet(records[i].object) \/ x \in ToSet(records[i].members)
  BY TableFacts
<1> HIDE DEF packed, image, strings, N
<1>9. Decode(image) = records
  <2>1. ASSUME NEW i \in 1..N
        PROVE  [object |-> NamesOf(strings, packed[i].object), members |-> NamesOf(strings, packed[i].members),
                value |-> packed[i].value] = records[i]
    BY <1>3, <1>5, <1>7
  <2> DEFINE Back(i) == [object |-> NamesOf(strings, packed[i].object), members |-> NamesOf(strings, packed[i].members),
                         value |-> packed[i].value]
  <2>2. Decode(image) = [i \in 1..N |-> Back(i)]
    BY <1>4 DEF Decode
  <2>3. \A i \in 1..N : Back(i) = records[i]
    BY <2>1
  <2> HIDE DEF Back
  <2>4. QED
    BY <1>1, <2>2, <2>3
<1>10. PathsOk(image)
  BY <1>1, <1>3, <1>4, <1>5, <1>6 DEF PathsOk
<1>11. \A i, j \in 1..N : records[i].object = records[j].object /\ records[i].members = records[j].members
                            => packed[i].value = packed[j].value
  BY <1>3, <1>5 DEF RecordsOk, N
<1>12. ImageOk(image)
  BY <1>4, <1>6, <1>8, <1>9, <1>10, <1>11 DEF ImageOk
<1>13. QED
  BY <1>9, <1>12 DEF image

\* A snapshot is such records, with the locations its paths resolve to.
LEMMA SnapshotIs ==
  ASSUME NEW s, SchemaAccepted(s), NEW memo
  PROVE  LET paths == SnapshotPaths(s)
             records == Snapshot(s, memo)
         IN  /\ RecordsOk(records) /\ Len(records) = Len(paths) /\ Len(paths) \in Nat /\ DOMAIN paths = 1..Len(paths)
             /\ \A i \in 1..Len(paths) :
                  /\ records[i].object = paths[i].object /\ records[i].members = paths[i].members
                  /\ records[i].value = memo[paths[i].loc] /\ paths[i] \in ToSet(paths)
<1> DEFINE paths == SnapshotPaths(s)
           records == Snapshot(s, memo)
           N == Len(paths)
           Record(i) == [object |-> paths[i].object, members |-> paths[i].members, value |-> memo[paths[i].loc]]
<1>1. paths \in Seq(PathSet(s))
  BY SnapshotElements
<1>2. records = [i \in DOMAIN paths |-> Record(i)]
  BY DEF Snapshot, Capture
<1>3. \A p \in ToSet(paths) : /\ Resolve(s, p.object, p.members).loc = p.loc
                              /\ p.object \in Seq(STRING) /\ p.object # <<>> /\ p.members \in Seq(Known(s))
  BY SnapshotResolves
<1> HIDE DEF paths
<1>4. N \in Nat /\ DOMAIN paths = 1..N /\ \A i \in 1..N : paths[i] \in ToSet(paths)
  <2>1. N \in Nat /\ DOMAIN paths = 1..N
    BY <1>1, SeqElements
  <2>2. QED
    BY <2>1 DEF ToSet
<1>5. Known(s) \subseteq STRING
  <2>1. ASSUME NEW m \in Members(s) PROVE m.name \in STRING
    <3>1. PICK t \in DOMAIN s.types : m \in ToSet(s.types[t].members)
      BY DEF Members
    <3>2. QED
      BY <3>1, AcceptedMembers
  <2>2. QED
    BY <2>1 DEF Known
<1>6. \A i \in 1..N : /\ Record(i).object = paths[i].object /\ Record(i).members = paths[i].members
                      /\ Record(i).value = memo[paths[i].loc] /\ NamedRecord(Record(i))
  <2>1. ASSUME NEW i \in 1..N
        PROVE  /\ Record(i).object = paths[i].object /\ Record(i).members = paths[i].members
               /\ Record(i).value = memo[paths[i].loc] /\ NamedRecord(Record(i))
    <3> DEFINE o == paths[i].object
               m == paths[i].members
               v == memo[paths[i].loc]
    <3>1. o \in Seq(STRING) /\ o # <<>> /\ m \in Seq(Known(s))
      BY <1>3, <1>4
    <3> HIDE DEF o, m, v
    <3>2. m \in Seq(STRING)
      BY <1>5, <3>1
    <3> DEFINE r == [object |-> o, members |-> m, value |-> v]
    <3>3. r.object = o /\ r.members = m /\ r.value = v /\ NamedRecord(r)
      BY <3>1, <3>2 DEF NamedRecord
    <3>4. Record(i) = r
      BY DEF o, m, v
    <3> HIDE DEF r, Record
    <3>5. QED
      BY <3>3, <3>4 DEF o, m, v
  <2>2. QED
    BY <2>1
<1> HIDE DEF Record, N
<1>7. records \in [1..N -> {Record(i) : i \in 1..N}] /\ \A i \in 1..N : records[i] = Record(i)
  BY <1>2, <1>4
<1> HIDE DEF records
<1>8. Len(records) = N
  BY <1>4, <1>7, FunIsSeq
<1>9. records = [i \in 1..N |-> records[i]]
  BY <1>7
<1>10. ASSUME NEW i \in 1..N, NEW j \in 1..N, records[i].object = records[j].object, records[i].members = records[j].members
       PROVE  records[i].value = records[j].value
  <2>1. paths[i].object = paths[j].object /\ paths[i].members = paths[j].members
    BY <1>6, <1>7, <1>10
  <2>2. paths[i].loc = paths[j].loc
    BY <1>3, <1>4, <2>1
  <2>3. QED
    BY <1>6, <1>7, <2>2
<1>11. RecordsOk(records)
  <2>1. \A i \in 1..N : NamedRecord(records[i])
    BY <1>6, <1>7
  <2>2. QED
    BY <1>4, <1>8, <1>9, <1>10, <2>1 DEF RecordsOk
<1>12. QED
  BY <1>4, <1>6, <1>7, <1>8, <1>11 DEF paths, records, N

\* The addressable scalars of the Project are those of the records.
SameScalars(s, records) ==
  /\ DOMAIN SnapshotPaths(s) = DOMAIN records
  /\ \A i \in DOMAIN SnapshotPaths(s) :
        /\ SnapshotPaths(s)[i].object = records[i].object
        /\ SnapshotPaths(s)[i].members = records[i].members
        /\ SnapshotPaths(s)[i].type = records[i].value.type

\* What was snapped comes back.
LEMMA ResetGivesBack ==
  ASSUME NEW s, SchemaAccepted(s), NEW memo, MemoryOk(s, memo), NEW records, RecordsOk(records),
         SameScalars(s, records)
  PROVE  LET plan == PlanBinary(s, Encode(records), {})
         IN  Is(plan, "success") /\ Snapshot(s, Apply(memo, plan)) = records
<1> DEFINE image == Encode(records)
           paths == SnapshotPaths(s)
           N == Len(records)
           options == {}
           plan == PlanBinary(s, image, options)
           full == PlanWrites(Targets(s, image), image.records, options)
           new == Apply(memo, plan)
           Target(i) == Targets(s, image)[i]
<1>1. N \in Nat /\ DOMAIN records = 1..N /\ records = [i \in 1..N |-> records[i]]
  BY DEF RecordsOk
<1>2. Decode(image) = records /\ ImageOk(image)
  BY EncodedOk
<1>3. PathsOk(image)
  BY <1>2 DEF ImageOk
<1>4. Len(image.records) = N
  <2>1. DOMAIN Decode(image) = DOMAIN image.records
    BY DEF Decode
  <2>2. Len(image.records) \in Nat /\ 1..Len(image.records) = 1..N
    BY <1>1, <1>2, <1>3, <2>1 DEF PathsOk
  <2> HIDE DEF image, N
  <2>3. QED
    BY <1>1, <2>2
<1>5. Len(paths) \in Nat /\ DOMAIN paths = 1..Len(paths) /\ \A i \in 1..Len(paths) : paths[i] \in ToSet(paths)
  BY SnapshotIs
<1>6. Len(paths) = N
  <2>1. 1..Len(paths) = 1..N
    BY <1>1, <1>5 DEF SameScalars
  <2> HIDE DEF paths, N
  <2>2. QED
    BY <1>1, <1>5, <2>1
<1>7. \A i \in 1..N : /\ paths[i].object = records[i].object /\ paths[i].members = records[i].members
                      /\ paths[i].type = records[i].value.type /\ paths[i] \in ToSet(paths)
  BY <1>5, <1>6 DEF SameScalars
<1>8. \A p \in ToSet(paths) : LET t == Resolve(s, p.object, p.members)
                              IN  t.status = "success" /\ t.loc = p.loc /\ t.type = p.type
  BY SnapshotResolves
<1>9. \A i \in 1..N : /\ image.records[i].value = records[i].value
                      /\ Target(i) = Resolve(s, records[i].object, records[i].members)
                      /\ Target(i).status \in Statuses
  <2>1. \A i \in 1..Len(image.records) :
          /\ Decode(image)[i].value = image.records[i].value
          /\ Target(i) = Resolve(s, Decode(image)[i].object, Decode(image)[i].members)
          /\ Target(i).status \in Statuses
    BY <1>3, TargetsAre
  <2>2. QED
    BY <1>2, <1>4, <2>1
<1> HIDE DEF paths, Target
<1>10. \A i \in 1..N : Target(i).status = "success" /\ Target(i).loc = paths[i].loc /\ Target(i).type = records[i].value.type
  BY <1>7, <1>8, <1>9
<1>11. \A i \in 1..N : Verdict(Target(i), image.records[i].value, options) \in Goods
  BY <1>9, <1>10, VerdictFacts
<1>12. Is(plan, "success")
  <2>1. Plans(full, Targets(s, image), image.records, Len(image.records), options)
    BY <1>3, ImagePlan
  <2>2. full.status = "success"
    BY <1>4, <1>11, <2>1 DEF Plans, Target
  <2>3. PlanRecords(s, Decode(image), options) = full
    BY <1>3, PlanOfDecoded
  <2>4. Is(plan, "success") <=> Is(PlanRecords(s, Decode(image), options), "success")
    <3> HIDE DEF image, options
    <3>1. QED
      BY <1>2, BinaryIsRecords
  <2>5. QED
    BY <2>2, <2>3, <2>4 DEF Is
<1>13. \A i \in 1..N : new[Target(i).loc] = records[i].value
  <2>1. ASSUME NEW i \in 1..N PROVE new[Target(i).loc] = records[i].value
    <3>1. i \in 1..Len(image.records) /\ plan.status = "success"
      BY <1>4, <1>12 DEF Is
    <3>2. ~Excluded(Target(i), options)
      BY DEF Excluded
    <3> DEFINE t == Target(i)
    <3> HIDE DEF image, options
    <3>3. new[t.loc] = IF Excluded(t, options) THEN memo[t.loc] ELSE image.records[i].value
      BY <1>2, <3>1, ResetIsWhole DEF Target
    <3>4. QED
      BY <1>9, <3>2, <3>3
  <2>2. QED
    BY <2>1
<1> DEFINE again == Snapshot(s, new)
<1>14. /\ RecordsOk(again) /\ Len(again) = N
       /\ \A i \in 1..N : /\ again[i].object = paths[i].object /\ again[i].members = paths[i].members
                          /\ again[i].value = new[paths[i].loc]
  <2> HIDE DEF new, N
  <2>1. QED
    BY <1>6, SnapshotIs DEF paths
<1> HIDE DEF again, new, plan, image
<1>15. \A i \in 1..N : again[i] = records[i]
  <2>1. ASSUME NEW i \in 1..N PROVE again[i] = records[i]
    <3>1. NamedRecord(again[i]) /\ NamedRecord(records[i])
      BY <1>14 DEF RecordsOk
    <3>2. again[i].object = records[i].object /\ again[i].members = records[i].members /\ again[i].value = records[i].value
      BY <1>7, <1>10, <1>13, <1>14
    <3>3. QED
      BY <3>1, <3>2 DEF NamedRecord
  <2>2. QED
    BY <2>1
<1>16. again = records
  <2>1. again = [i \in 1..N |-> again[i]]
    BY <1>14 DEF RecordsOk
  <2> HIDE DEF N
  <2>2. QED
    BY <1>1, <1>15, <2>1
<1>17. QED
  BY <1>12, <1>16 DEF again, new, plan, image

-----------------------------------------------------------------------------
(***************************************************************************)
(* GET_VALUE                                                               *)
(***************************************************************************)

\* A state of GET_VALUE: at a place, and with its type if that is a reference.
Shaped(state) ==
  state = [status |-> "success", loc |-> state.loc, type |-> state.type, const |-> state.const, plain |-> state.plain]
HasPlace(s, state) ==
  \E p \in Places(s) : /\ p.loc = state.loc /\ p.type.kind = state.type.kind /\ p.type.of = state.type.of
                       /\ state.type.kind = "reference" => p.type = state.type
InPlace(s, state) == Shaped(state) /\ HasPlace(s, state)

\* Following a reference ends at a place that is not one.
LEMMA NormalizeStays ==
  ASSUME NEW s, SchemaAccepted(s), NEW state, InPlace(s, state)
  PROVE  InPlace(s, Normalize(state)) /\ Normalize(state).type.kind # "reference"
<1>1. state.status = "success"
  <2>1. PICK l, ty, c, p : state = [status |-> "success", loc |-> l, type |-> ty, const |-> c, plain |-> p]
    BY DEF InPlace, Shaped
  <2>2. QED
    BY <2>1
<1>2. CASE state.type.kind # "reference"
  BY <1>1, <1>2 DEF Normalize, Is
<1>3. CASE state.type.kind = "reference"
  <2> DEFINE to == state.type.to
             at == state.type.at
             next == [status |-> "success", loc |-> at, type |-> to, const |-> state.const, plain |-> state.plain]
  <2>1. Normalize(state) = [state EXCEPT !.loc = at, !.type = to]
    BY <1>1, <1>3 DEF Normalize, Is
  <2>2. PICK p \in Places(s) : p.loc = state.loc /\ p.type = state.type
    BY <1>3 DEF InPlace, HasPlace
  <2>3. TypeAccepted(s, state.type)
    BY <2>2, PlacesOk DEF PlaceOk
  <2>4. PICK r \in Places(s) : r.loc = at /\ r.type.kind = to.kind /\ r.type.of = to.of /\ r.type.kind # "reference"
    BY <1>3, <2>3, AcceptedType
  <2>5. [state EXCEPT !.loc = at, !.type = to] = next
    <3>1. PICK l, ty, c, pl : state = [status |-> "success", loc |-> l, type |-> ty, const |-> c, plain |-> pl]
      BY DEF InPlace, Shaped
    <3>2. state.const = c /\ state.plain = pl
      BY <3>1
    <3> HIDE DEF at, to
    <3> DEFINE a == [state EXCEPT !.loc = at]
    <3>3. [state EXCEPT !.loc = at, !.type = to] = [a EXCEPT !.type = to]
      OBVIOUS
    <3>4. a = [status |-> "success", loc |-> at, type |-> ty, const |-> c, plain |-> pl]
      BY <3>1
    <3> HIDE DEF a
    <3>5. [a EXCEPT !.type = to] = [status |-> "success", loc |-> at, type |-> to, const |-> c, plain |-> pl]
      BY <3>4
    <3>6. QED
      BY <3>2, <3>3, <3>5
  <2> HIDE DEF to, at
  <2>6. next.loc = at /\ next.type = to /\ Shaped(next)
    BY DEF Shaped
  <2> HIDE DEF next
  <2>7. HasPlace(s, next) /\ next.type.kind # "reference"
    BY <2>4, <2>6 DEF HasPlace
  <2>8. QED
    BY <2>1, <2>5, <2>6, <2>7 DEF InPlace
<1>4. QED
  BY <1>2, <1>3

\* A step of GET_VALUE goes from place to place.
LEMMA QueryStep ==
  ASSUME NEW s, SchemaAccepted(s), NEW state, InPlace(s, state), NEW name, MemberStep(s, state, name).status = "success"
  PROVE  InPlace(s, MemberStep(s, state, name))
<1> DEFINE next == MemberStep(s, state, name)
           a == FindMember(s, state.type.of, name)
           c == state.const \/ state.type.const
           l == state.loc \o a.loc
<1>1. PICK p \in Places(s) : p.loc = state.loc /\ p.type.kind = state.type.kind /\ p.type.of = state.type.of
  BY DEF InPlace, HasPlace
<1>2. At(s, state)
  BY <1>1 DEF At
<1>3. state.status = "success"
  BY StepSucceeds
<1>4. /\ state.type.kind = "named" /\ FoundIn(s, state.type.of, name, a)
      /\ next = [status |-> "success", loc |-> l, type |-> a.type, const |-> c, plain |-> a.plain]
  BY <1>2, <1>3, StepIs
<1>5. PICK q \in Places(s) : AtMember(p, q, a)
  BY <1>1, <1>4 DEF FoundIn
<1>6. q.loc = l /\ q.type = a.type
  BY <1>1, <1>5 DEF AtMember
<1> HIDE DEF c, l, a, next
<1>7. next.loc = l /\ next.type = a.type /\ Shaped(next)
  BY <1>4 DEF Shaped
<1>8. HasPlace(s, next)
  BY <1>6, <1>7 DEF HasPlace
<1>9. QED
  BY <1>7, <1>8 DEF InPlace, next

\* An object is a place.
LEMMA ObjectInPlace ==
  ASSUME NEW s, SchemaAccepted(s), NEW o \in ToSet(s.objects)
  PROVE  InPlace(s, ResolveObject(s, o.path))
<1> DEFINE object == o.path
           state == ResolveObject(s, object)
           no == FALSE
<1>1. o.path = object
  OBVIOUS
<1> HIDE DEF object
<1>2. state = [status |-> "success", loc |-> <<object>>, type |-> o.type, const |-> no, plain |-> o.plain]
  BY <1>1, ObjectState
<1> HIDE DEF state, no
<1>3. state.status = "success" /\ Shaped(state)
  BY <1>2 DEF Shaped
<1>4. Exact(s, state)
  BY <1>3, ObjectState DEF state
<1>5. HasPlace(s, state)
  BY <1>4 DEF Exact, HasPlace
<1>6. QED
  BY <1>3, <1>5 DEF InPlace, state, object

\* Along the way of GET_VALUE every state that succeeded is in place.
LEMMA QueryStates ==
  ASSUME NEW s, SchemaAccepted(s), NEW o \in ToSet(s.objects), NEW names, HasLength(names),
         NEW g, g = Follow(s, ResolveObject(s, o.path), names, TRUE)
  PROVE  \A n \in 0..Len(names) : g[n].status = "success" => InPlace(s, g[n])
<1> DEFINE N == Len(names)
           start == ResolveObject(s, o.path)
           yes == TRUE
           Good == {n \in 0..N : g[n].status = "success" => InPlace(s, g[n])}
<1>1. N \in Nat
  BY DEF HasLength
<1>2. InPlace(s, start)
  BY ObjectInPlace
<1>3. Goes(s, g, start, names, yes)
  <2> HIDE DEF start, yes
  <2>1. g = Follow(s, start, names, yes)
    BY DEF start, yes
  <2>2. QED
    BY <2>1, FollowGoes
<1> HIDE DEF N, start
<1>4. g[0] = start /\ \A n \in 1..N : g[n] = MemberStep(s, Normalize(g[n - 1]), names[n])
  BY <1>3 DEF Goes, StateBefore, yes, N
<1>5. 0 \in Good
  <2>1. 0 \in 0..N
    BY <1>1
  <2>2. InPlace(s, g[0])
    BY <1>2, <1>4, Zenon
  <2>3. QED
    BY <2>1, <2>2, Zenon
<1>6. ASSUME NEW n \in Nat, n < N, n \in Good PROVE n + 1 \in Good
  <2>1. n + 1 \in 0..N /\ n + 1 \in 1..N /\ (n + 1) - 1 = n
    BY <1>1, <1>6
  <2> DEFINE x == g[n]
             y == Normalize(x)
             name == names[n + 1]
             z == MemberStep(s, y, name)
  <2>2. g[n + 1] = z /\ (x.status = "success" => InPlace(s, x))
    BY <1>4, <1>6, <2>1
  <2> HIDE DEF x, name
  <2>3. ASSUME z.status = "success" PROVE InPlace(s, z)
    <3>1. y.status = "success"
      <4> HIDE DEF y
      <4>1. QED
        BY <2>3, StepSucceeds
    <3>2. x.status = "success"
      BY <3>1 DEF Normalize, Is
    <3>3. InPlace(s, y)
      BY <2>2, <3>2, NormalizeStays
    <3> HIDE DEF y
    <3>4. QED
      BY <2>3, <3>3, QueryStep
  <2> HIDE DEF z
  <2>4. QED
    BY <2>1, <2>2, <2>3
<1> HIDE DEF Good
<1>7. \A n \in 0..N : n \in Good
  BY <1>1, <1>5, <1>6, UpTo
<1>8. QED
  BY <1>7 DEF Good, N

\* An answer of GET_VALUE is the scalar the IC commands see, and fits.
LEMMA AnswerFits ==
  ASSUME NEW state, FinishQuery(state).status = "success"
  PROVE  FinishQuery(state) = FinishScalar(state) /\ FinishScalar(state).status = "success" /\ FitsInAnswer(state.type.of)
<1>1. ~(Is(state, "success") /\ state.type.kind = "intrinsic" /\ ~FitsInAnswer(state.type.of))
  <2>1. Outcome("unsupported_type").status # "success"
    BY DEF Outcome
  <2>2. QED
    BY <2>1 DEF FinishQuery
<1>2. FinishQuery(state) = FinishScalar(state)
  BY <1>1 DEF FinishQuery
<1>3. FinishScalar(state).status = "success"
  BY <1>2
<1>4. state.status = "success" /\ state.type.kind = "intrinsic"
  BY <1>3, FinishSucceeds
<1>5. QED
  BY <1>1, <1>2, <1>3, <1>4 DEF Is

\* What GET_VALUE says of a scalar the IC commands see.
AnswerOf(target, query) ==
  /\ FitsInAnswer(target.type) => query = target
  /\ ~FitsInAnswer(target.type) => query.status = "unsupported_type"

LEMMA ScalarAnswered ==
  ASSUME NEW state, FinishScalar(state).status = "success"
  PROVE  AnswerOf(FinishScalar(state), FinishQuery(state))
<1> DEFINE c == state.const \/ state.type.const
<1>1. /\ state.status = "success" /\ state.type.kind = "intrinsic"
      /\ FinishScalar(state) = [status |-> "success", loc |-> state.loc, type |-> state.type.of, const |-> c, plain |-> state.plain]
  BY FinishSucceeds
<1> HIDE DEF c
<1>2. FinishScalar(state).type = state.type.of
  BY <1>1
<1>3. Outcome("unsupported_type").status = "unsupported_type"
  BY DEF Outcome
<1>4. FinishQuery(state) = IF ~FitsInAnswer(state.type.of) THEN Outcome("unsupported_type") ELSE FinishScalar(state)
  BY <1>1 DEF FinishQuery, Is
<1>5. QED
  BY <1>2, <1>3, <1>4 DEF AnswerOf

\* GET_VALUE answers with a scalar of the Project.
LEMMA QueryIsCell ==
  ASSUME NEW s, SchemaAccepted(s), NEW o \in ToSet(s.objects), NEW names, HasLength(names),
         Query(s, o.path, names).status = "success"
  PROVE  /\ \E c \in ProjectCells(s) : c.loc = Query(s, o.path, names).loc /\ c.type = Query(s, o.path, names).type
         /\ FitsInAnswer(Query(s, o.path, names).type)
<1> DEFINE g == Follow(s, ResolveObject(s, o.path), names, TRUE)
           x == g[Len(names)]
           y == Normalize(x)
           query == Query(s, o.path, names)
<1>1. query = FinishScalar(y) /\ query.status = "success" /\ FitsInAnswer(y.type.of)
  <2>1. query = FinishQuery(y)
    BY DEF Query
  <2> HIDE DEF y, query
  <2>2. query.status = "success"
    BY DEF query
  <2>3. QED
    BY <2>1, <2>2, AnswerFits
<1>2. \A n \in 0..Len(names) : g[n].status = "success" => InPlace(s, g[n])
  BY QueryStates
<1>3. Len(names) \in 0..Len(names)
  BY DEF HasLength
<1> HIDE DEF g, query
<1>4. x.status = "success" => InPlace(s, x)
  BY <1>2, <1>3
<1> HIDE DEF x
<1>5. y.status = "success" /\ y.type.kind = "intrinsic" /\ query.loc = y.loc /\ query.type = y.type.of
  <2> HIDE DEF y
  <2>1. FinishScalar(y).status = "success"
    BY <1>1
  <2> DEFINE c == y.const \/ y.type.const
  <2>2. /\ y.status = "success" /\ y.type.kind = "intrinsic"
        /\ query = [status |-> "success", loc |-> y.loc, type |-> y.type.of, const |-> c, plain |-> y.plain]
    BY <1>1, <2>1, FinishSucceeds
  <2> HIDE DEF c
  <2>3. QED
    BY <2>2
<1>6. x.status = "success"
  BY <1>5 DEF Normalize, Is
<1>7. InPlace(s, y)
  BY <1>4, <1>6, NormalizeStays
<1>8. PICK p \in Places(s) : p.loc = y.loc /\ p.type.kind = y.type.kind /\ p.type.of = y.type.of
  BY <1>7 DEF InPlace, HasPlace
<1> HIDE DEF y
<1> DEFINE k == p.const \/ p.type.const
           cell == [loc |-> p.loc, type |-> p.type.of, const |-> k, plain |-> p.plain]
<1>9. cell \in ProjectCells(s)
  BY <1>5, <1>8 DEF ProjectCells
<1> HIDE DEF k
<1>10. cell.loc = p.loc /\ cell.type = p.type.of
  OBVIOUS
<1> HIDE DEF cell
<1>11. FitsInAnswer(query.type)
  BY <1>1, <1>5
<1>12. QED
  BY <1>5, <1>8, <1>9, <1>10, <1>11 DEF query

\* By a path that RESET_IC resolves it means the same scalar: there is no reference on the way.
LEMMA QueryIsResolve ==
  ASSUME NEW s, SchemaAccepted(s), NEW object, NEW names, HasLength(names), Resolve(s, object, names).status = "success"
  PROVE  AnswerOf(Resolve(s, object, names), Query(s, object, names))
<1> DEFINE start == ResolveObject(s, object)
           f == StatesOf(s, object, names)
           N == Len(names)
           no == FALSE
           yes == TRUE
           g == Follow(s, start, names, yes)
<1>1. N \in Nat
  BY DEF HasLength
<1>2. Resolve(s, object, names) = FinishScalar(f[N])
  BY DEF Resolve, StatesOf
<1>3. f = StatesOf(s, object, names)
  OBVIOUS
<1>4. Goes(s, f, start, names, no)
  <2>1. f = Follow(s, start, names, no)
    BY DEF StatesOf
  <2> HIDE DEF start, no, f
  <2>2. QED
    BY <2>1, FollowGoes
<1> HIDE DEF f
<1>5. f[N].status = "success" /\ f[N].type.kind = "intrinsic"
  <2> DEFINE x == f[N]
  <2> HIDE DEF x
  <2>1. FinishScalar(x).status = "success"
    BY <1>2 DEF x
  <2>2. QED
    BY <2>1, FinishSucceeds DEF x
<1>6. \A n \in 0..N : f[n].status = "success"
  BY <1>3, <1>5, WaySucceeds
<1>7. \A n \in 1..N : f[n].status = "success" => Reached(s, f, names, n)
  BY <1>1, <1>3, StatesFacts
<1> HIDE DEF N
<1>8. \A n \in 1..N : n \in 0..N /\ f[n - 1].type.kind = "named"
  BY <1>1, <1>6, <1>7 DEF Reached
<1>9. \A n \in 1..N : Normalize(f[n - 1]) = f[n - 1]
  BY <1>8 DEF Normalize
<1>10. Normalize(f[N]) = f[N]
  BY <1>5 DEF Normalize
<1>11. Goes(s, f, start, names, yes)
  <2>1. f[0] = start /\ \A n \in 1..N : f[n] = MemberStep(s, f[n - 1], names[n])
    BY <1>4 DEF Goes, StateBefore, no, N
  <2>2. \A n \in 1..N : f[n] = MemberStep(s, StateBefore(yes, f[n - 1]), names[n])
    BY <1>9, <2>1 DEF StateBefore
  <2>3. QED
    BY <2>1, <2>2 DEF Goes, N
<1>12. SameStates(N, g, f)
  <2> HIDE DEF start, yes
  <2>1. QED
    BY <1>11, FollowIs DEF N
<1>13. g[N] = f[N]
  <2> HIDE DEF g
  <2>1. N \in 0..N
    BY <1>1
  <2>2. QED
    BY <1>12, <2>1 DEF SameStates
<1>14. Query(s, object, names) = FinishQuery(Normalize(g[N]))
  BY DEF Query, N
<1>15. Query(s, object, names) = FinishQuery(f[N])
  BY <1>10, <1>13, <1>14
<1> DEFINE last == f[N]
<1>16. FinishScalar(last).status = "success"
  BY <1>2
<1> HIDE DEF last
<1>17. AnswerOf(FinishScalar(last), FinishQuery(last))
  BY <1>16, ScalarAnswered
<1>18. QED
  BY <1>2, <1>15, <1>17 DEF last

LEMMA PathsHaveLength ==
  ASSUME NEW s, SchemaAccepted(s), NEW names \in MemberPaths(s)
  PROVE  names \in Seq(Known(s)) /\ HasLength(names)
<1>1. TypeCount(s) \in Nat
  BY CountIsNat
<1>2. PICK n \in 0..TypeCount(s) : names \in [1..n -> Known(s)]
  BY DEF MemberPaths, Known
<1>3. n \in Nat
  BY <1>1
<1>4. names \in Seq(Known(s)) /\ Len(names) = n
  BY <1>2, <1>3, FunIsSeq
<1>5. QED
  BY <1>3, <1>4 DEF HasLength

-----------------------------------------------------------------------------
(***************************************************************************)
(* The walk comes to every path                                            *)
(***************************************************************************)

\* It does not matter which two of three pieces are joined first.
InOrder(a, b, c) == (a \o b) \o c = a \o (b \o c)

\* Three sequences join in order.
LEMMA JoinedInOrder ==
  ASSUME NEW S, NEW a \in Seq(S), NEW b \in Seq(S), NEW c \in Seq(S)
  PROVE  InOrder(a, b, c)
BY ConcatAssociative DEF InOrder

OneMore(q, b, e) ==
  Len(q) = Len(b) + 1 /\ q[Len(b) + 1] = e /\ \A i \in 1..Len(b) : q[i] = b[i]

LEMMA JoinedOne ==
  ASSUME NEW S, NEW b \in Seq(S), NEW e \in S
  PROVE  OneMore(b \o <<e>>, b, e)
BY DEF OneMore

\* w is the visit of the member that was found where v is.
GoesTo(w, v, name, a) ==
  w.members = v.members \o <<name>> /\ w.loc = v.loc \o a.loc /\ w.type = a.type
HasNext(q, v, name, a) == \E w \in ToSet(q) : GoesTo(w, v, name, a)
Closed(s, q) ==
  \A v \in ToSet(q) : v.type.kind = "named" =>
     \A name, a : FoundIn(s, v.type.of, name, a) => HasNext(q, v, name, a)

\* What a search finds is a location.
LEMMA FoundShape ==
  ASSUME NEW s, NEW t, NEW name, NEW a, FoundIn(s, t, name, a)
  PROVE  a.loc \in Seq(Steps(s)) /\ name \in Known(s) /\ <<name>> \in Seq(Known(s))
<1>1. a.loc \in Seq(Steps(s))
  BY DEF FoundIn, WayTo, Locations
<1>2. name \in Known(s)
  BY DEF FoundIn, Known
<1>3. QED
  BY <1>1, <1>2, Single

\* A longer visit of a longer path.
Extends(x, v, m, l) == x.members = m \o v.members /\ x.loc = l \o v.loc /\ x.type = v.type

\* A visit and the visits of its members move down together.
LEMMA GoesToJoined ==
  ASSUME NEW s, NEW x, NEW v, NEW w, NEW y, NEW name, NEW a, NEW m \in Seq(Known(s)), NEW l \in Seq(Steps(s)),
         v \in Visits(s), a.loc \in Seq(Steps(s)), <<name>> \in Seq(Known(s)),
         Extends(x, v, m, l), GoesTo(w, v, name, a), Extends(y, w, m, l)
  PROVE  GoesTo(y, x, name, a)
<1> DEFINE b == v.members
           c == v.loc
           d == a.loc
           one == <<name>>
<1>1. b \in Seq(Known(s)) /\ one \in Seq(Known(s)) /\ c \in Seq(Steps(s)) /\ d \in Seq(Steps(s))
  BY DEF Visits
<1>2. w.members = b \o one /\ w.loc = c \o d /\ w.type = a.type
  BY DEF GoesTo
<1> HIDE DEF b, c, d, one
<1>3. InOrder(m, b, one)
  BY <1>1, JoinedInOrder
<1>4. InOrder(l, c, d)
  BY <1>1, JoinedInOrder
<1>5. QED
  BY <1>2, <1>3, <1>4 DEF GoesTo, Extends, InOrder, b, c, d, one

\* The walk of a type that visits a record visits each member a search finds in it.
LEMMA RecordClosed ==
  ASSUME NEW s, SchemaAccepted(s), NEW t \in DOMAIN s.types
  PROVE  Closed(s, Full(s)[t])
<1> DEFINE S == {u \in DOMAIN s.types : Closed(s, Full(s)[u])}
<1>1. ASSUME NEW u \in DOMAIN s.types,
             \A b \in ToSet(s.types[u].bases) : b.type \in S,
             \A m \in ToSet(s.types[u].members) : m.type.kind = "named" => m.type.of \in S
      PROVE  Closed(s, Full(s)[u])
  <2> SUFFICES ASSUME NEW v \in ToSet(Full(s)[u]), v.type.kind = "named", NEW name, NEW a,
                      FoundIn(s, v.type.of, name, a)
               PROVE  HasNext(Full(s)[u], v, name, a)
    BY DEF Closed
  <2>1. a.loc \in Seq(Steps(s)) /\ name \in Known(s) /\ <<name>> \in Seq(Known(s))
    BY FoundShape
  <2>2. PICK f \in ToSet(Full(s)[v.type.of]) : f.members = <<name>> /\ f.loc = a.loc /\ f.type = a.type
    BY DEF FoundIn, HasVisit
  <2>3. CASE AsRecord(u, v)
    <3>1. v.members = <<>> /\ v.loc = <<>> /\ v.type.of = u
      BY <2>3 DEF AsRecord, Root, NamedType
    <3>2. v.members \o <<name>> = <<name>> /\ v.loc \o a.loc = a.loc
      BY <2>1, <3>1, EmptyJoin
    <3>3. GoesTo(f, v, name, a)
      BY <2>2, <3>2 DEF GoesTo
    <3>4. QED
      BY <2>2, <3>1, <3>3 DEF HasNext
  <2>4. ASSUME NEW b \in ToSet(s.types[u].bases), ~b.virtual, NEW x \in ToSet(Full(s)[b.type]), InBaseOf(s, u, v, b, x)
        PROVE  HasNext(Full(s)[u], v, name, a)
    <3> DEFINE l == <<InBase(b.type)>>
               none == <<>>
    <3>1. b.type \in DOMAIN s.types /\ InBase(b.type) \in Steps(s) /\ Closed(s, Full(s)[b.type])
      BY <1>1, AcceptedBases
    <3>2. x \in Visits(s)
      BY <3>1, FullElements
    <3>3. v.members = x.members /\ v.loc = l \o x.loc /\ v.type = x.type
      BY <2>4 DEF InBaseOf
    <3>4. PICK w \in ToSet(Full(s)[b.type]) : GoesTo(w, x, name, a)
      BY <3>1, <3>3 DEF Closed, HasNext
    <3>5. w \in Visits(s)
      BY <3>1, FullElements
    <3>6. PICK y \in ToSet(Full(s)[u]) : InBaseOf(s, u, y, b, w)
      BY <2>4, VisitsAll
    <3>7. y.members = w.members /\ y.loc = l \o w.loc /\ y.type = w.type
      BY <3>6 DEF InBaseOf
    <3>8. l \in Seq(Steps(s)) /\ none \in Seq(Known(s))
      BY <3>1, Single
    <3>9. x.members \in Seq(Known(s)) /\ w.members \in Seq(Known(s))
      BY <3>2, <3>5 DEF Visits
    <3>10. v.members = none \o x.members /\ y.members = none \o w.members
      BY <3>3, <3>7, <3>9, EmptyJoin
    <3> HIDE DEF l, none
    <3>11. Extends(v, x, none, l) /\ Extends(y, w, none, l)
      BY <3>3, <3>7, <3>10 DEF Extends
    <3>12. GoesTo(y, v, name, a)
      BY <2>1, <3>2, <3>4, <3>8, <3>11, GoesToJoined
    <3>13. QED
      BY <3>6, <3>12 DEF HasNext
  <2>5. ASSUME NEW m \in ToSet(s.types[u].members), AsMember(v, m)
        PROVE  HasNext(Full(s)[u], v, name, a)
    <3>1. v.members = <<m.name>> /\ v.loc = <<InMember(m.name)>> /\ v.type = m.type
      BY <2>5 DEF AsMember
    <3>2. PICK y \in ToSet(Full(s)[u]) : InMemberOf(y, m, f)
      BY <2>2, <3>1, VisitsAll
    <3>3. GoesTo(y, v, name, a)
      BY <2>2, <3>1, <3>2 DEF InMemberOf, GoesTo
    <3>4. QED
      BY <3>2, <3>3 DEF HasNext
  <2>6. ASSUME NEW m \in ToSet(s.types[u].members), m.type.kind = "named", NEW x \in ToSet(Full(s)[m.type.of]),
               InMemberOf(v, m, x)
        PROVE  HasNext(Full(s)[u], v, name, a)
    <3> DEFINE l == <<InMember(m.name)>>
               k == <<m.name>>
    <3>1. m.type.of \in DOMAIN s.types /\ InMember(m.name) \in Steps(s) /\ m.name \in Known(s) /\ Closed(s, Full(s)[m.type.of])
      BY <1>1, <2>6, MemberType
    <3>2. x \in Visits(s)
      BY <3>1, FullElements
    <3>3. v.members = k \o x.members /\ v.loc = l \o x.loc /\ v.type = x.type
      BY <2>6 DEF InMemberOf
    <3>4. PICK w \in ToSet(Full(s)[m.type.of]) : GoesTo(w, x, name, a)
      BY <3>1, <3>3 DEF Closed, HasNext
    <3>5. PICK y \in ToSet(Full(s)[u]) : InMemberOf(y, m, w)
      BY <2>6, VisitsAll
    <3>6. y.members = k \o w.members /\ y.loc = l \o w.loc /\ y.type = w.type
      BY <3>5 DEF InMemberOf
    <3>7. l \in Seq(Steps(s)) /\ k \in Seq(Known(s))
      BY <3>1, Single
    <3> HIDE DEF l, k
    <3>8. Extends(v, x, k, l) /\ Extends(y, w, k, l)
      BY <3>3, <3>6 DEF Extends
    <3>9. GoesTo(y, v, name, a)
      BY <2>1, <3>2, <3>4, <3>7, <3>8, GoesToJoined
    <3>10. QED
      BY <3>5, <3>9 DEF HasNext
  <2>7. QED
    BY <2>3, <2>4, <2>5, <2>6, VisitCases
<1>2. \A u \in DOMAIN s.types :
         /\ \A b \in ToSet(s.types[u].bases) : b.type \in S
         /\ \A m \in ToSet(s.types[u].members) : m.type.kind = "named" => m.type.of \in S
         => u \in S
  BY <1>1
<1> HIDE DEF S
<1>3. t \in S
  BY <1>2, TypeInduction
<1>4. QED
  BY <1>3 DEF S

\* So does the walk of an object.
LEMMA TreeClosed ==
  ASSUME NEW s, SchemaAccepted(s), NEW o \in ToSet(s.objects)
  PROVE  Closed(s, WalkTree(s, o.type))
<1> DEFINE q == WalkTree(s, o.type)
           type == o.type
<1>1. /\ \A x : x \in ToSet(q) <=> TypeVisits(type, Full(s), x)
      /\ type.kind = "named" => type.of \in DOMAIN s.types
  BY TreeElements
<1> HIDE DEF q, type
<1> SUFFICES ASSUME NEW v \in ToSet(q), v.type.kind = "named", NEW name, NEW a, FoundIn(s, v.type.of, name, a)
             PROVE  HasNext(q, v, name, a)
  BY DEF Closed, q
<1>2. a.loc \in Seq(Steps(s)) /\ name \in Known(s) /\ <<name>> \in Seq(Known(s))
  BY FoundShape
<1>3. PICK f \in ToSet(Full(s)[v.type.of]) : f.members = <<name>> /\ f.loc = a.loc /\ f.type = a.type
  BY DEF FoundIn, HasVisit
<1>4. ASSUME type.kind = "named", NEW w \in ToSet(Full(s)[type.of])
      PROVE  \E y \in ToSet(q) : y.members = w.members /\ y.loc = w.loc /\ y.type = w.type
  <2> DEFINE y == Shifted(w, <<>>, <<>>, FALSE)
  <2>1. w \in Visits(s)
    BY <1>1, <1>4, FullElements
  <2>2. y.members = w.members /\ y.loc = w.loc /\ y.type = w.type
    BY <2>1, ShiftedHere
  <2>3. y \in ToSet(q)
    BY <1>1, <1>4 DEF TypeVisits
  <2> HIDE DEF y
  <2>4. QED
    BY <2>2, <2>3
<1>5. CASE v = Root(type)
  <2>1. v.members = <<>> /\ v.loc = <<>> /\ v.type = type
    BY <1>5 DEF Root
  <2>2. v.members \o <<name>> = <<name>> /\ v.loc \o a.loc = a.loc
    BY <1>2, <2>1, EmptyJoin
  <2>3. PICK y \in ToSet(q) : y.members = f.members /\ y.loc = f.loc /\ y.type = f.type
    BY <1>3, <1>4, <2>1
  <2>4. GoesTo(y, v, name, a)
    BY <1>3, <2>2, <2>3 DEF GoesTo
  <2>5. QED
    BY <2>3, <2>4 DEF HasNext
<1>6. ASSUME type.kind = "named", NEW x \in ToSet(Full(s)[type.of]), v = Shifted(x, <<>>, <<>>, FALSE)
      PROVE  HasNext(q, v, name, a)
  <2>1. x \in Visits(s)
    BY <1>1, <1>6, FullElements
  <2>2. v.members = x.members /\ v.loc = x.loc /\ v.type = x.type
    BY <1>6, <2>1, ShiftedHere
  <2>3. Closed(s, Full(s)[type.of])
    BY <1>1, <1>6, RecordClosed
  <2>4. PICK w \in ToSet(Full(s)[type.of]) : GoesTo(w, x, name, a)
    BY <2>2, <2>3 DEF Closed, HasNext
  <2>5. PICK y \in ToSet(q) : y.members = w.members /\ y.loc = w.loc /\ y.type = w.type
    BY <1>4, <1>6
  <2>6. GoesTo(y, v, name, a)
    BY <2>2, <2>4, <2>5 DEF GoesTo
  <2>7. QED
    BY <2>5, <2>6 DEF HasNext
<1>7. QED
  BY <1>1, <1>5, <1>6 DEF TypeVisits

\* The visit of the first n names of a path.
VisitOf(q, o, names, n, state) ==
  \E v \in ToSet(q) : /\ Len(v.members) = n /\ \A i \in 1..n : v.members[i] = names[i]
                      /\ state.loc = <<o.path>> \o v.loc /\ v.type = state.type

\* Every path of an object that resolves is visited by the walk of the object.
LEMMA EveryPathVisited ==
  ASSUME NEW s, SchemaAccepted(s), NEW o \in ToSet(s.objects), NEW names, HasLength(names),
         NEW f, f = StatesOf(s, o.path, names)
  PROVE  \A n \in 0..Len(names) : f[n].status = "success" => VisitOf(WalkTree(s, o.type), o, names, n, f[n])
<1> DEFINE N == Len(names)
           q == WalkTree(s, o.type)
           Good == {n \in 0..N : f[n].status = "success" => VisitOf(q, o, names, n, f[n])}
<1>1. N \in Nat
  BY DEF HasLength
<1>2. /\ f[0] = ResolveObject(s, o.path)
      /\ \A n \in 1..N : f[n] = MemberStep(s, f[n - 1], names[n])
      /\ \A n \in 0..N : f[n].status = "success" => Exact(s, f[n])
      /\ \A n \in 1..N : f[n].status = "success" => Reached(s, f, names, n)
  <2> DEFINE object == o.path
  <2> HIDE DEF object
  <2>1. f = StatesOf(s, object, names)
    BY DEF object
  <2>2. QED
    BY <1>1, <2>1, StatesFacts DEF object
<1>3. ToSet(q) \subseteq Visits(s) /\ \A x : x \in ToSet(q) <=> TypeVisits(o.type, Full(s), x)
  BY TreeElements
<1>4. Closed(s, q)
  BY TreeClosed
<1>5. o.path \in Steps(s) /\ <<o.path>> \in Seq(Steps(s))
  <2>1. o.path \in Steps(s)
    BY AcceptedObjects
  <2>2. QED
    BY <2>1, Single
<1> HIDE DEF N, q
<1>6. 0 \in Good
  <2>1. f[0].loc = <<o.path>> /\ f[0].type = o.type
    <3> DEFINE object == o.path
               no == FALSE
    <3>1. o.path = object
      OBVIOUS
    <3> HIDE DEF object
    <3>2. ResolveObject(s, object) = [status |-> "success", loc |-> <<object>>, type |-> o.type, const |-> no, plain |-> o.plain]
      BY <3>1, ObjectState
    <3> HIDE DEF no
    <3>3. ResolveObject(s, object).loc = <<object>> /\ ResolveObject(s, object).type = o.type
      BY <3>2
    <3>4. QED
      BY <1>2, <3>1, <3>3
  <2> DEFINE v == Root(o.type)
  <2>2. v \in ToSet(q)
    BY <1>3 DEF TypeVisits
  <2>3. v.members = <<>> /\ v.loc = <<>> /\ v.type = o.type
    BY DEF Root
  <2>4. <<o.path>> \o v.loc = <<o.path>>
    BY <1>5, <2>3, EmptyJoin
  <2> HIDE DEF v
  <2>5. Len(v.members) = 0
    BY <2>3
  <2>6. f[0].loc = <<o.path>> \o v.loc /\ v.type = f[0].type /\ \A i \in 1..0 : v.members[i] = names[i]
    BY <2>1, <2>3, <2>4
  <2>7. VisitOf(q, o, names, 0, f[0])
    BY <2>2, <2>5, <2>6 DEF VisitOf
  <2>8. 0 \in 0..N
    BY <1>1
  <2>9. QED
    BY <2>7, <2>8
<1>7. ASSUME NEW n \in Nat, n < N, n \in Good PROVE n + 1 \in Good
  <2>1. n + 1 \in 0..N /\ n + 1 \in 1..N /\ (n + 1) - 1 = n /\ n \in 0..N
    BY <1>1, <1>7
  <2> DEFINE x == f[n]
             y == f[n + 1]
             name == names[n + 1]
             a == FindMember(s, x.type.of, name)
  <2>2. y = MemberStep(s, x, name) /\ (x.status = "success" => VisitOf(q, o, names, n, x) /\ Exact(s, x))
    BY <1>2, <1>7, <2>1
  <2>3. y.status = "success" => x.status = "success"
    <3>1. y.status = "success" => f[(n + 1) - 1].status = "success"
      BY <1>2, <2>1 DEF Reached
    <3>2. QED
      BY <2>1, <3>1
  <2>4. ASSUME y.status = "success" PROVE VisitOf(q, o, names, n + 1, y)
    <3>1. x.status = "success" /\ At(s, x) /\ VisitOf(q, o, names, n, x)
      BY <2>2, <2>3, <2>4, ExactIsAt
    <3> HIDE DEF x, name
    <3> DEFINE c == x.const \/ x.type.const
    <3>2. /\ x.type.kind = "named" /\ FoundIn(s, x.type.of, name, a)
          /\ MemberStep(s, x, name) = [status |-> "success", loc |-> x.loc \o a.loc, type |-> a.type, const |-> c, plain |-> a.plain]
      <4>1. MemberStep(s, x, name).status = "success"
        BY <2>2, <2>4
      <4>2. QED
        BY <3>1, <4>1, StepIs
    <3> HIDE DEF a, c, y
    <3>3. y.loc = x.loc \o a.loc /\ y.type = a.type
      <4> DEFINE l == x.loc \o a.loc
      <4>1. y = [status |-> "success", loc |-> l, type |-> a.type, const |-> c, plain |-> a.plain]
        BY <2>2, <3>2
      <4> HIDE DEF l
      <4>2. y.loc = l /\ y.type = a.type
        BY <4>1
      <4>3. QED
        BY <4>2 DEF l
    <3>4. PICK v \in ToSet(q) : /\ Len(v.members) = n /\ \A i \in 1..n : v.members[i] = names[i]
                                /\ x.loc = <<o.path>> \o v.loc /\ v.type = x.type
      BY <3>1 DEF VisitOf
    <3>5. PICK w \in ToSet(q) : GoesTo(w, v, name, a)
      BY <1>4, <3>2, <3>4 DEF Closed, HasNext
    <3>6. w.members = v.members \o <<name>> /\ w.loc = v.loc \o a.loc /\ w.type = a.type
      BY <3>5 DEF GoesTo
    <3>7. v.members \in Seq(Known(s)) /\ v.loc \in Seq(Steps(s))
      BY <1>3, <3>4 DEF Visits
    <3>8. a.loc \in Seq(Steps(s)) /\ name \in Known(s) /\ <<name>> \in Seq(Known(s))
      BY <3>2, FoundShape
    <3>9. Len(w.members) = n + 1 /\ \A i \in 1..(n + 1) : w.members[i] = names[i]
      <4> DEFINE b == v.members
                 K == Known(s)
      <4>1. b \in Seq(K) /\ name \in K /\ Len(b) = n /\ w.members = b \o <<name>>
        BY <3>4, <3>6, <3>7, <3>8
      <4> HIDE DEF b, K
      <4>2. OneMore(w.members, b, name)
        BY <4>1, JoinedOne
      <4>3. /\ Len(w.members) = n + 1 /\ \A i \in 1..n : w.members[i] = b[i]
            /\ w.members[n + 1] = name
        BY <4>1, <4>2 DEF OneMore
      <4>4. \A i \in 1..n : b[i] = names[i]
        BY <3>4 DEF b
      <4>5. \A i \in 1..(n + 1) : i \in 1..n \/ i = n + 1
        OBVIOUS
      <4>6. QED
        BY <4>3, <4>4, <4>5 DEF name
    <3>10. y.loc = <<o.path>> \o w.loc
      <4> DEFINE p == <<o.path>>
                 l == v.loc
                 d == a.loc
      <4>1. p \in Seq(Steps(s)) /\ l \in Seq(Steps(s)) /\ d \in Seq(Steps(s))
        BY <1>5, <3>7, <3>8
      <4>2. y.loc = (p \o l) \o d /\ w.loc = l \o d
        BY <3>3, <3>4, <3>6
      <4> HIDE DEF p, l, d
      <4>3. InOrder(p, l, d)
        BY <4>1, JoinedInOrder
      <4>4. QED
        BY <4>2, <4>3 DEF p, InOrder
    <3>11. w.type = y.type
      BY <3>3, <3>6
    <3>12. QED
      BY <3>5, <3>9, <3>10, <3>11 DEF VisitOf
  <2>5. QED
    BY <2>1, <2>4
<1> HIDE DEF Good
<1>8. \A n \in 0..N : n \in Good
  BY <1>1, <1>6, <1>7, UpTo
<1>9. QED
  BY <1>8 DEF Good, N, q

-----------------------------------------------------------------------------
(***************************************************************************)
(* The walk comes to every location once                                   *)
(***************************************************************************)

\* No two elements of q are related by R, and none of q is related to one of r.
Once(q, R) == \A i, j \in DOMAIN q : <<q[i], q[j]>> \in R => i = j
Apart(q, r, R) == \A x \in ToSet(q), y \in ToSet(r) : <<x, y>> \notin R /\ <<y, x>> \notin R

\* Sequences without repetition that are apart join to one.
LEMMA OnceJoined ==
  ASSUME NEW S, NEW q \in Seq(S), NEW r \in Seq(S), NEW R, Once(q, R), Once(r, R), Apart(q, r, R)
  PROVE  Once(q \o r, R)
<1> DEFINE qr == q \o r
           a == Len(q)
           b == Len(r)
<1>1. /\ a \in Nat /\ b \in Nat /\ DOMAIN q = 1..a /\ DOMAIN r = 1..b /\ DOMAIN qr = 1..(a + b)
      /\ \A i \in 1..(a + b) : qr[i] = IF i <= a THEN q[i] ELSE r[i - a]
  OBVIOUS
<1> HIDE DEF qr, a, b
<1>2. \A i \in 1..(a + b) : i <= a => i \in 1..a /\ q[i] \in ToSet(q) /\ qr[i] = q[i]
  <2> SUFFICES ASSUME NEW i \in 1..(a + b), i <= a PROVE i \in 1..a /\ q[i] \in ToSet(q) /\ qr[i] = q[i]
    OBVIOUS
  <2>1. i \in 1..a
    BY <1>1
  <2>2. QED
    BY <1>1, <2>1 DEF ToSet
<1>3. \A i \in 1..(a + b) : ~(i <= a) => i - a \in 1..b /\ r[i - a] \in ToSet(r) /\ qr[i] = r[i - a]
  <2> SUFFICES ASSUME NEW i \in 1..(a + b), ~(i <= a) PROVE i - a \in 1..b /\ r[i - a] \in ToSet(r) /\ qr[i] = r[i - a]
    OBVIOUS
  <2>1. i - a \in 1..b
    BY <1>1
  <2>2. QED
    BY <1>1, <2>1 DEF ToSet
<1>4. ASSUME NEW i \in 1..(a + b), NEW j \in 1..(a + b), <<qr[i], qr[j]>> \in R PROVE i = j
  <2>1. CASE i <= a /\ j <= a
    <3>1. i \in 1..a /\ j \in 1..a /\ <<q[i], q[j]>> \in R
      BY <1>2, <1>4, <2>1
    <3>2. QED
      BY <1>1, <3>1 DEF Once
  <2>2. CASE ~(i <= a) /\ ~(j <= a)
    <3>1. i - a \in 1..b /\ j - a \in 1..b /\ <<r[i - a], r[j - a]>> \in R
      BY <1>3, <1>4, <2>2
    <3>2. i - a = j - a
      BY <1>1, <3>1 DEF Once
    <3>3. QED
      BY <1>1, <3>2
  <2>3. CASE i <= a /\ ~(j <= a)
    <3>1. q[i] \in ToSet(q) /\ r[j - a] \in ToSet(r) /\ <<q[i], r[j - a]>> \in R
      BY <1>2, <1>3, <1>4, <2>3
    <3>2. QED
      BY <3>1 DEF Apart
  <2>4. CASE ~(i <= a) /\ j <= a
    <3>1. q[j] \in ToSet(q) /\ r[i - a] \in ToSet(r) /\ <<r[i - a], q[j]>> \in R
      BY <1>2, <1>3, <1>4, <2>4
    <3>2. QED
      BY <3>1 DEF Apart
  <2>5. QED
    BY <2>1, <2>2, <2>3, <2>4
<1>5. QED
  BY <1>1, <1>4 DEF Once, qr

\* The parts of a sequence of parts, each on its own and each two of them.
PartsOnce(seqs, R) ==
  /\ \A i \in DOMAIN seqs : Once(seqs[i], R)
  /\ \A i, j \in DOMAIN seqs : i # j => Apart(seqs[i], seqs[j], R)

\* So do any number of them.
LEMMA OnceFlattened ==
  ASSUME NEW S, NEW seqs \in Seq(Seq(S)), NEW R, PartsOnce(seqs, R)
  PROVE  Once(FlattenSeq(seqs), R)
<1> DEFINE N == Len(seqs)
           OutOf(q, n) == \A x \in ToSet(q) : \E i \in 1..n : x \in ToSet(seqs[i])
<1>1. N \in Nat /\ DOMAIN seqs = 1..N /\ \A i \in 1..N : seqs[i] \in Seq(S)
  OBVIOUS
<1>2. PICK h : JoinsUp(h, seqs)
  BY FlattenSteps
<1>3. h[0] = <<>> /\ (\A n \in 1..N : h[n] = h[n - 1] \o seqs[n]) /\ FlattenSeq(seqs) = h[N]
  BY <1>2 DEF JoinsUp
<1> HIDE DEF N
<1> DEFINE Good == {n \in 0..N : h[n] \in Seq(S) /\ Once(h[n], R) /\ OutOf(h[n], n)}
<1>4. 0 \in Good
  <2> DEFINE q == h[0]
  <2>1. q = <<>>
    BY <1>3
  <2> HIDE DEF q
  <2>2. q \in Seq(S) /\ DOMAIN q = {} /\ ToSet(q) = {}
    BY <2>1 DEF ToSet
  <2>3. Once(q, R) /\ OutOf(q, 0)
    BY <2>2 DEF Once
  <2> HIDE DEF OutOf
  <2>4. QED
    BY <1>1, <2>2, <2>3 DEF q
<1>5. ASSUME NEW n \in Nat, n < N, n \in Good PROVE n + 1 \in Good
  <2> DEFINE q == h[n]
             r == seqs[n + 1]
  <2>1. n + 1 \in 1..N /\ n + 1 \in 0..N /\ (n + 1) - 1 = n
    BY <1>1, <1>5
  <2>2. h[n + 1] = q \o r /\ q \in Seq(S) /\ r \in Seq(S) /\ Once(q, R) /\ OutOf(q, n)
    BY <1>1, <1>3, <1>5, <2>1
  <2>3. Once(r, R)
    BY <1>1, <2>1 DEF PartsOnce
  <2>4. Apart(q, r, R)
    <3> SUFFICES ASSUME NEW x \in ToSet(q), NEW y \in ToSet(r) PROVE <<x, y>> \notin R /\ <<y, x>> \notin R
      BY DEF Apart
    <3>1. PICK i \in 1..n : x \in ToSet(seqs[i])
      BY <2>2
    <3>2. i \in DOMAIN seqs /\ n + 1 \in DOMAIN seqs /\ i # n + 1
      BY <1>1, <1>5, <2>1
    <3>3. Apart(seqs[i], seqs[n + 1], R)
      BY <3>2 DEF PartsOnce
    <3>4. QED
      BY <3>1, <3>3 DEF Apart
  <2>5. \A x : x \in ToSet(q \o r) <=> x \in ToSet(q) \/ x \in ToSet(r)
    BY <2>2, JoinedElements
  <2>6. OutOf(q \o r, n + 1)
    <3>1. \A i \in 1..n : i \in 1..(n + 1)
      OBVIOUS
    <3>2. n + 1 \in 1..(n + 1)
      OBVIOUS
    <3>3. QED
      BY <2>2, <2>5, <3>1, <3>2
  <2> HIDE DEF OutOf, q, r
  <2>7. Once(q \o r, R) /\ q \o r \in Seq(S)
    BY <2>2, <2>3, <2>4, OnceJoined
  <2>8. QED
    BY <2>1, <2>2, <2>6, <2>7
<1> HIDE DEF Good
<1>6. \A n \in 0..N : n \in Good
  BY <1>1, <1>4, <1>5, UpTo
<1>7. Once(h[N], R)
  <2>1. N \in 0..N
    BY <1>1
  <2>2. QED
    BY <1>6, <2>1 DEF Good
<1>8. QED
  BY <1>3, <1>7

\* Two visits of one scalar.
SameCell(s) ==
  {p \in Visits(s) \X Visits(s) : /\ p[1].loc = p[2].loc
                                  /\ p[1].type.kind = "intrinsic" /\ p[2].type.kind = "intrinsic"}

\* Two visits of the same scalar.
LEMMA SameCellIs ==
  ASSUME NEW s, NEW x \in Visits(s), NEW y \in Visits(s)
  PROVE  <<x, y>> \in SameCell(s) <=> x.loc = y.loc /\ x.type.kind = "intrinsic" /\ y.type.kind = "intrinsic"
BY DEF SameCell

\* What follows the same start is the same, and the first step tells two locations
\* apart.
LEMMA SameStart ==
  ASSUME NEW S, NEW a \in Seq(S), NEW x \in Seq(S), NEW y \in Seq(S), a \o x = a \o y
  PROVE  x = y
<1> DEFINE k == Len(a)
           m == Len(x)
           n == Len(y)
           l == a \o x
<1>1. k \in Nat /\ m \in Nat /\ n \in Nat /\ Len(l) = k + m /\ Len(l) = k + n
  OBVIOUS
<1>2. (\A i \in 1..m : l[k + i] = x[i]) /\ (\A i \in 1..n : l[k + i] = y[i])
  BY Joined
<1> HIDE DEF l, k
<1>3. m = n
  BY <1>1
<1>4. \A i \in 1..m : x[i] = y[i]
  BY <1>2, <1>3
<1>5. QED
  BY <1>3, <1>4, SeqEqual

LEMMA SameHead ==
  ASSUME NEW S, NEW a \in S, NEW b \in S, NEW x \in Seq(S), NEW y \in Seq(S), <<a>> \o x = <<b>> \o y
  PROVE  a = b
<1>1. (<<a>> \o x)[1] = a /\ (<<b>> \o y)[1] = b
  OBVIOUS
<1>2. QED
  BY <1>1

\* A moved visit, in the fields that tell scalars apart.
LEMMA ShiftedPlace ==
  ASSUME NEW s, NEW v \in Visits(s), NEW members \in Seq(Known(s)), NEW loc \in Seq(Steps(s)), NEW inh \in BOOLEAN,
         NEW x, x = Shifted(v, members, loc, inh)
  PROVE  x.loc = loc \o v.loc /\ x.type = v.type
BY ShiftedIs

\* Moved visits repeat no scalar if they did not before.
LEMMA OnceShifted ==
  ASSUME NEW s, NEW q, NEW visits \in Seq(Visits(s)), NEW members \in Seq(Known(s)), NEW loc \in Seq(Steps(s)),
         NEW inh \in BOOLEAN, IsShift(s, q, visits, members, loc, inh), Once(visits, SameCell(s))
  PROVE  Once(q, SameCell(s))
<1> DEFINE N == Len(visits)
<1>1. /\ q \in Seq(Visits(s)) /\ Len(q) = N /\ N \in Nat
      /\ \A i \in 1..N : q[i] = Shifted(visits[i], members, loc, inh)
  BY DEF IsShift
<1>2. DOMAIN q = 1..N /\ DOMAIN visits = 1..N /\ \A i \in 1..N : q[i] \in Visits(s) /\ visits[i] \in Visits(s)
  <2>1. DOMAIN q = 1..Len(q) /\ \A i \in DOMAIN q : q[i] \in Visits(s)
    BY <1>1, SeqElements
  <2>2. DOMAIN visits = 1..N /\ \A i \in DOMAIN visits : visits[i] \in Visits(s)
    BY SeqElements
  <2>3. QED
    BY <1>1, <2>1, <2>2
<1> HIDE DEF N
<1>3. ASSUME NEW i \in 1..N, NEW j \in 1..N, <<q[i], q[j]>> \in SameCell(s) PROVE i = j
  <2> DEFINE v == visits[i]
             w == visits[j]
             x == q[i]
             y == q[j]
  <2>1. v \in Visits(s) /\ w \in Visits(s) /\ x \in Visits(s) /\ y \in Visits(s)
    BY <1>2
  <2>2. x = Shifted(v, members, loc, inh) /\ y = Shifted(w, members, loc, inh)
    BY <1>1
  <2>3. <<x, y>> \in SameCell(s)
    BY <1>3
  <2>4. <<v, w>> \in SameCell(s) => i = j
    BY <1>2 DEF Once
  <2> HIDE DEF v, w, x, y
  <2>5. x.loc = loc \o v.loc /\ x.type = v.type
    <3>1. v \in Visits(s) /\ x = Shifted(v, members, loc, inh)
      BY <2>1, <2>2
    <3>2. QED
      BY <3>1, ShiftedPlace
  <2>6. y.loc = loc \o w.loc /\ y.type = w.type
    <3>1. w \in Visits(s) /\ y = Shifted(w, members, loc, inh)
      BY <2>1, <2>2
    <3>2. QED
      BY <3>1, ShiftedPlace
  <2>7. x.loc = y.loc /\ x.type.kind = "intrinsic" /\ y.type.kind = "intrinsic"
    BY <2>1, <2>3, SameCellIs
  <2>8. v.loc \in Seq(Steps(s)) /\ w.loc \in Seq(Steps(s))
    BY <2>1 DEF Visits
  <2>9. v.loc = w.loc
    <3> DEFINE a == v.loc
               b == w.loc
    <3>1. a \in Seq(Steps(s)) /\ b \in Seq(Steps(s)) /\ loc \o a = loc \o b
      BY <2>5, <2>6, <2>7, <2>8
    <3> HIDE DEF a, b
    <3>2. a = b
      BY <3>1, SameStart
    <3>3. QED
      BY <3>2 DEF a, b
  <2>10. QED
    BY <2>1, <2>4, <2>5, <2>6, <2>7, <2>9, SameCellIs
<1>4. QED
  BY <1>2, <1>3 DEF Once

LEMMA NoneOnce == ASSUME NEW q, q = <<>>, NEW R PROVE Once(q, R)
<1>1. DOMAIN q = {}
  OBVIOUS
<1>2. QED
  BY <1>1 DEF Once

LEMMA OneOnce == ASSUME NEW r, NEW R PROVE Once(<<r>>, R)
<1>1. DOMAIN <<r>> = {1}
  OBVIOUS
<1>2. QED
  BY <1>1 DEF Once

\* A record is no scalar.
LEMMA RecordApart ==
  ASSUME NEW s, NEW r \in Visits(s), r.type.kind # "intrinsic", NEW q \in Seq(Visits(s))
  PROVE  Apart(<<r>>, q, SameCell(s))
<1>1. ToSet(<<r>>) = {r}
  BY DEF ToSet
<1>2. ToSet(q) \subseteq Visits(s)
  BY OwnElements
<1>3. ASSUME NEW y \in Visits(s) PROVE <<r, y>> \notin SameCell(s) /\ <<y, r>> \notin SameCell(s)
  BY SameCellIs
<1>4. QED
  BY <1>1, <1>2, <1>3 DEF Apart

\* All visits of q are below the step h.
Begins(s, q, h) == h \in Steps(s) /\ \A x \in ToSet(q) : \E r \in Seq(Steps(s)) : x.loc = <<h>> \o r

\* Locations that begin with different steps differ.
LEMMA BeginsApart ==
  ASSUME NEW s, NEW q \in Seq(Visits(s)), NEW r \in Seq(Visits(s)), NEW h, NEW k, Begins(s, q, h), Begins(s, r, k), h # k
  PROVE  Apart(q, r, SameCell(s))
<1> SUFFICES ASSUME NEW x \in ToSet(q), NEW y \in ToSet(r)
             PROVE  <<x, y>> \notin SameCell(s) /\ <<y, x>> \notin SameCell(s)
  BY DEF Apart
<1>1. x \in Visits(s) /\ y \in Visits(s)
  BY OwnElements
<1>2. PICK a \in Seq(Steps(s)) : x.loc = <<h>> \o a
  BY DEF Begins
<1>3. PICK b \in Seq(Steps(s)) : y.loc = <<k>> \o b
  BY DEF Begins
<1>4. h \in Steps(s) /\ k \in Steps(s)
  BY DEF Begins
<1>5. <<h>> \o a # <<k>> \o b
  BY <1>4, SameHead
<1>6. x.loc # y.loc
  BY <1>2, <1>3, <1>5
<1>7. QED
  BY <1>1, <1>6, SameCellIs

\* The walk of a type repeats no scalar if those below do not, nor do the walks of
\* a base, a member and a record.
LEMMA TypeOnce ==
  ASSUME NEW s, SchemaAccepted(s), NEW below, PartsListed(s, below), NEW type \in Types(s),
         type.kind = "named" => type.of \in DOMAIN s.types /\ Once(below[type.of], SameCell(s))
  PROVE  Once(WalkType(type, below), SameCell(s))
<1> DEFINE rest == IF type.kind = "named" THEN Shift(below[type.of], <<>>, <<>>, FALSE) ELSE <<>>
           r == Root(type)
           R == SameCell(s)
           one == <<r>>
<1>1. WalkType(type, below) = one \o rest
  BY DEF WalkType, Root
<1>2. r \in Visits(s) /\ r.type = type
  BY RootIs
<1> HIDE DEF r
<1>3. one \in Seq(Visits(s)) /\ Once(one, R)
  BY <1>2, OneOnce, Single
<1>4. rest \in Seq(Visits(s)) /\ Once(rest, R) /\ Apart(one, rest, R)
  <2>1. CASE type.kind = "named"
    <3> DEFINE visits == below[type.of]
               nothing == <<>>
               no == FALSE
    <3>1. visits \in Seq(Visits(s)) /\ Once(visits, R)
      BY <2>1 DEF PartsListed
    <3>2. rest = Shift(visits, nothing, nothing, no)
      BY <2>1
    <3>3. nothing \in Seq(Known(s)) /\ nothing \in Seq(Steps(s)) /\ no \in BOOLEAN
      OBVIOUS
    <3> HIDE DEF visits, nothing, no, rest
    <3>4. IsShift(s, rest, visits, nothing, nothing, no)
      BY <3>1, <3>2, <3>3, ShiftIs
    <3>5. rest \in Seq(Visits(s))
      BY <3>4 DEF IsShift
    <3>6. Once(rest, R)
      BY <3>1, <3>3, <3>4, OnceShifted
    <3>7. r.type.kind # "intrinsic"
      BY <1>2, <2>1
    <3>8. QED
      BY <1>2, <3>5, <3>6, <3>7, RecordApart
  <2>2. CASE type.kind # "named"
    <3>1. rest = <<>>
      BY <2>2
    <3> HIDE DEF rest
    <3>2. rest \in Seq(Visits(s)) /\ ToSet(rest) = {}
      BY <3>1 DEF ToSet
    <3>3. QED
      BY <3>1, <3>2, NoneOnce DEF Apart
  <2>3. QED
    BY <2>1, <2>2
<1> HIDE DEF one, rest, R
<1>5. QED
  BY <1>1, <1>3, <1>4, OnceJoined DEF R

LEMMA BaseOnce ==
  ASSUME NEW s, SchemaAccepted(s), NEW below, PartsListed(s, below), NEW t \in DOMAIN s.types,
         NEW b \in ToSet(s.types[t].bases), Once(below[b.type], SameCell(s))
  PROVE  Once(BaseWalk(b, below), SameCell(s)) /\ Begins(s, BaseWalk(b, below), InBase(b.type))
<1> DEFINE q == BaseWalk(b, below)
           visits == below[b.type]
           nothing == <<>>
           loc == <<InBase(b.type)>>
           yes == TRUE
<1>1. b.type \in DOMAIN s.types /\ InBase(b.type) \in Steps(s)
  BY AcceptedBases
<1>2. visits \in Seq(Visits(s)) /\ nothing \in Seq(Known(s)) /\ yes \in BOOLEAN
  BY <1>1 DEF PartsListed
<1>3. loc \in Seq(Steps(s))
  BY <1>1, Single
<1>4. /\ ~b.virtual => IsShift(s, q, visits, nothing, loc, yes)
      /\ \A x : x \in ToSet(q) <=> BaseVisits(b, below, x)
  BY BaseWalkIs
<1>5. Once(q, SameCell(s))
  <2>1. CASE b.virtual
    <3>1. q = <<>>
      BY <2>1 DEF BaseWalk
    <3>2. QED
      BY <3>1, NoneOnce
  <2>2. CASE ~b.virtual
    <3> HIDE DEF q, visits, nothing, loc, yes
    <3>1. IsShift(s, q, visits, nothing, loc, yes) /\ Once(visits, SameCell(s))
      BY <1>4, <2>2 DEF visits
    <3>2. QED
      BY <1>2, <1>3, <3>1, OnceShifted
  <2>3. QED
    BY <2>1, <2>2
<1>6. ASSUME NEW x \in ToSet(q) PROVE \E r \in Seq(Steps(s)) : x.loc = <<InBase(b.type)>> \o r
  <2>1. PICK v \in ToSet(visits) : x = Shifted(v, <<>>, <<InBase(b.type)>>, TRUE)
    BY <1>4, <1>6 DEF BaseVisits
  <2>2. v \in Visits(s)
    BY <1>2, OwnElements
  <2>3. InBaseOf(s, t, x, b, v)
    BY <2>1, <2>2, ShiftedBase
  <2>4. v.loc \in Seq(Steps(s))
    BY <2>2 DEF Visits
  <2>5. QED
    BY <2>3, <2>4 DEF InBaseOf
<1>7. QED
  BY <1>1, <1>5, <1>6 DEF Begins

LEMMA MemberOnce ==
  ASSUME NEW s, SchemaAccepted(s), NEW below, PartsListed(s, below), NEW t \in DOMAIN s.types,
         NEW m \in ToSet(s.types[t].members),
         m.type.kind = "named" => Once(below[m.type.of], SameCell(s))
  PROVE  Once(MemberWalk(m, below), SameCell(s)) /\ Begins(s, MemberWalk(m, below), InMember(m.name))
<1> DEFINE q == MemberWalk(m, below)
           visits == WalkType(m.type, below)
           members == <<m.name>>
           loc == <<InMember(m.name)>>
           no == FALSE
<1>1. /\ m.type \in Types(s) /\ m.name \in Known(s) /\ InMember(m.name) \in Steps(s)
      /\ m.type.kind = "named" => m.type.of \in DOMAIN s.types
  BY MemberType
<1>2. /\ visits \in Seq(Visits(s)) /\ IsShift(s, q, visits, members, loc, no)
      /\ \A x : x \in ToSet(q) <=> MemberVisits(m, below, x)
  BY MemberWalkIs
<1>3. loc \in Seq(Steps(s)) /\ members \in Seq(Known(s)) /\ no \in BOOLEAN
  BY <1>1, Single
<1>4. Once(visits, SameCell(s))
  <2> DEFINE type == m.type
  <2>1. type \in Types(s) /\ (type.kind = "named" => type.of \in DOMAIN s.types /\ Once(below[type.of], SameCell(s)))
    BY <1>1
  <2> HIDE DEF type
  <2>2. Once(WalkType(type, below), SameCell(s))
    BY <2>1, TypeOnce
  <2>3. QED
    BY <2>2 DEF type
<1>5. ASSUME NEW x \in ToSet(q) PROVE \E r \in Seq(Steps(s)) : x.loc = <<InMember(m.name)>> \o r
  <2>1. PICK v \in ToSet(visits) : x = Shifted(v, <<m.name>>, <<InMember(m.name)>>, FALSE)
    BY <1>2, <1>5 DEF MemberVisits
  <2>2. v \in Visits(s)
    BY <1>2, OwnElements
  <2>3. InMemberOf(x, m, v)
    BY <2>1, <2>2, ShiftedMember
  <2>4. v.loc \in Seq(Steps(s))
    BY <2>2 DEF Visits
  <2>5. QED
    BY <2>3, <2>4 DEF InMemberOf
<1>6. Begins(s, q, InMember(m.name))
  BY <1>1, <1>5 DEF Begins
<1> HIDE DEF visits, members, loc, no, q
<1>7. Once(q, SameCell(s))
  BY <1>2, <1>3, <1>4, OnceShifted
<1>8. QED
  BY <1>6, <1>7 DEF q

LEMMA RecordOnce ==
  ASSUME NEW s, SchemaAccepted(s), NEW t \in DOMAIN s.types,
         \A b \in ToSet(s.types[t].bases) : Once(Full(s)[b.type], SameCell(s)),
         \A m \in ToSet(s.types[t].members) : m.type.kind = "named" => Once(Full(s)[m.type.of], SameCell(s))
  PROVE  Once(Full(s)[t], SameCell(s))
<1> DEFINE e == s.types[t]
           below == Full(s)
           R == SameCell(s)
           bs == BaseWalks(e, below)
           ms == MemberWalks(e, below)
           r == Root(NamedType(t))
           one == <<r>>
           B == FlattenSeq(bs)
           M == FlattenSeq(ms)
<1>1. PartsListed(s, below)
  BY FullListed
<1>2. Full(s)[t] = one \o B \o M
  BY FullIs, RecordIs
<1>3. bs \in Seq(Seq(Visits(s))) /\ ms \in Seq(Seq(Visits(s))) /\ B \in Seq(Visits(s)) /\ M \in Seq(Visits(s))
  BY <1>1, RecordElements
<1>4. DOMAIN bs = DOMAIN e.bases /\ \A i \in DOMAIN e.bases : bs[i] = BaseWalk(e.bases[i], below)
  BY DEF BaseWalks
<1>5. DOMAIN ms = DOMAIN e.members /\ \A i \in DOMAIN e.members : ms[i] = MemberWalk(e.members[i], below)
  BY DEF MemberWalks
<1>6. /\ \A i, j \in DOMAIN e.bases : e.bases[i].type = e.bases[j].type => i = j
      /\ \A i, j \in DOMAIN e.members : e.members[i].name = e.members[j].name => i = j
  BY DEF SchemaAccepted, RecordAccepted
<1>7. \A i \in DOMAIN e.bases : e.bases[i] \in ToSet(e.bases)
  BY DEF ToSet
<1>8. \A i \in DOMAIN e.members : e.members[i] \in ToSet(e.members)
  BY DEF ToSet
<1>9. \A i \in DOMAIN bs : Once(bs[i], R) /\ Begins(s, bs[i], InBase(e.bases[i].type)) /\ bs[i] \in Seq(Visits(s))
  <2> SUFFICES ASSUME NEW i \in DOMAIN bs
               PROVE  Once(bs[i], R) /\ Begins(s, bs[i], InBase(e.bases[i].type)) /\ bs[i] \in Seq(Visits(s))
    OBVIOUS
  <2> DEFINE b == e.bases[i]
  <2>1. b \in ToSet(s.types[t].bases) /\ bs[i] = BaseWalk(b, below)
    BY <1>4, <1>7
  <2> HIDE DEF b, below, bs
  <2>2. Once(below[b.type], SameCell(s))
    BY <2>1 DEF below
  <2>3. Once(BaseWalk(b, below), SameCell(s)) /\ Begins(s, BaseWalk(b, below), InBase(b.type)) /\ BaseWalk(b, below) \in Seq(Visits(s))
    BY <1>1, <2>1, <2>2, BaseOnce, BaseWalkIs
  <2>4. QED
    BY <2>1, <2>3 DEF b
<1>10. \A i \in DOMAIN ms : Once(ms[i], R) /\ Begins(s, ms[i], InMember(e.members[i].name)) /\ ms[i] \in Seq(Visits(s))
  <2> SUFFICES ASSUME NEW i \in DOMAIN ms
               PROVE  Once(ms[i], R) /\ Begins(s, ms[i], InMember(e.members[i].name)) /\ ms[i] \in Seq(Visits(s))
    OBVIOUS
  <2> DEFINE m == e.members[i]
  <2>1. m \in ToSet(s.types[t].members) /\ ms[i] = MemberWalk(m, below)
    BY <1>5, <1>8
  <2> HIDE DEF m, below, ms
  <2>2. m.type.kind = "named" => Once(below[m.type.of], SameCell(s))
    BY <2>1 DEF below
  <2>3. Once(MemberWalk(m, below), SameCell(s)) /\ Begins(s, MemberWalk(m, below), InMember(m.name)) /\ MemberWalk(m, below) \in Seq(Visits(s))
    BY <1>1, <2>1, <2>2, MemberOnce, MemberWalkIs
  <2>4. QED
    BY <2>1, <2>3 DEF m
<1>11. r \in Visits(s) /\ r.type.kind = "named"
  <2>1. NamedType(t) \in Types(s)
    BY DEF Types
  <2>2. r \in Visits(s) /\ r.type = NamedType(t)
    BY <2>1, RootIs
  <2>3. QED
    BY <2>2 DEF NamedType
<1>12. \A x : x \in ToSet(B) <=> \E i \in DOMAIN bs : x \in ToSet(bs[i])
  BY <1>3, FlattenElements
<1>13. \A x : x \in ToSet(M) <=> \E i \in DOMAIN ms : x \in ToSet(ms[i])
  BY <1>3, FlattenElements
<1> HIDE DEF r, bs, ms
<1>14. Once(B, R)
  <2>1. ASSUME NEW i \in DOMAIN bs, NEW j \in DOMAIN bs, i # j PROVE Apart(bs[i], bs[j], R)
    <3>1. e.bases[i].type # e.bases[j].type
      BY <1>4, <1>6, <2>1
    <3>2. InBase(e.bases[i].type) # InBase(e.bases[j].type)
      BY <3>1, StepsDiffer
    <3>3. QED
      BY <1>9, <3>2, BeginsApart
  <2>2. PartsOnce(bs, R)
    BY <1>9, <2>1 DEF PartsOnce
  <2>3. QED
    BY <1>3, <2>2, OnceFlattened
<1>15. Once(M, R)
  <2>1. ASSUME NEW i \in DOMAIN ms, NEW j \in DOMAIN ms, i # j PROVE Apart(ms[i], ms[j], R)
    <3>1. e.members[i].name # e.members[j].name
      BY <1>5, <1>6, <2>1
    <3>2. InMember(e.members[i].name) # InMember(e.members[j].name)
      BY <3>1, StepsDiffer
    <3>3. QED
      BY <1>10, <3>2, BeginsApart
  <2>2. PartsOnce(ms, R)
    BY <1>10, <2>1 DEF PartsOnce
  <2>3. QED
    BY <1>3, <2>2, OnceFlattened
<1>16. Apart(B, M, R)
  <2> SUFFICES ASSUME NEW x \in ToSet(B), NEW y \in ToSet(M) PROVE <<x, y>> \notin R /\ <<y, x>> \notin R
    BY DEF Apart
  <2>1. PICK i \in DOMAIN bs : x \in ToSet(bs[i])
    BY <1>12
  <2>2. PICK j \in DOMAIN ms : y \in ToSet(ms[j])
    BY <1>13
  <2>3. InBase(e.bases[i].type) # InMember(e.members[j].name)
    BY StepsDiffer
  <2>4. Apart(bs[i], ms[j], R)
    BY <1>9, <1>10, <2>3, BeginsApart
  <2>5. QED
    BY <2>1, <2>2, <2>4 DEF Apart
<1> HIDE DEF B, M
<1>17. one \in Seq(Visits(s)) /\ Once(one, R) /\ Apart(one, B, R) /\ Apart(one, M, R)
  BY <1>3, <1>11, RecordApart, OneOnce, Single
<1> HIDE DEF one, R
<1> DEFINE oB == one \o B
<1>18. oB \in Seq(Visits(s)) /\ Once(oB, R) /\ \A x : x \in ToSet(oB) <=> x \in ToSet(one) \/ x \in ToSet(B)
  BY <1>3, <1>14, <1>17, OnceJoined, JoinedElements
<1> HIDE DEF oB
<1>19. Apart(oB, M, R)
  BY <1>16, <1>17, <1>18 DEF Apart
<1>20. Once(oB \o M, R)
  BY <1>3, <1>15, <1>18, <1>19, OnceJoined
<1>21. QED
  BY <1>2, <1>20 DEF oB, R

\* By induction on types: the walk of a type repeats no scalar.
LEMMA FullOnce ==
  ASSUME NEW s, SchemaAccepted(s), NEW t \in DOMAIN s.types
  PROVE  Once(Full(s)[t], SameCell(s))
<1> DEFINE S == {u \in DOMAIN s.types : Once(Full(s)[u], SameCell(s))}
<1>1. ASSUME NEW u \in DOMAIN s.types,
             \A b \in ToSet(s.types[u].bases) : b.type \in S,
             \A m \in ToSet(s.types[u].members) : m.type.kind = "named" => m.type.of \in S
      PROVE  u \in S
  BY <1>1, RecordOnce
<1> HIDE DEF S
<1>2. t \in S
  BY <1>1, TypeInduction
<1>3. QED
  BY <1>2 DEF S

\* The walk of an object repeats no scalar.
LEMMA TreeOnce ==
  ASSUME NEW s, SchemaAccepted(s), NEW o \in ToSet(s.objects)
  PROVE  Once(WalkTree(s, o.type), SameCell(s))
<1> DEFINE type == o.type
<1>1. PartsListed(s, Full(s))
  BY FullListed
<1>2. type \in Types(s)
  BY DEF Types
<1>3. type.kind = "named" => type.of \in DOMAIN s.types
  BY TreeElements
<1> HIDE DEF type
<1>4. type.kind = "named" => type.of \in DOMAIN s.types /\ Once(Full(s)[type.of], SameCell(s))
  BY <1>3, FullOnce
<1>5. Once(WalkType(type, Full(s)), SameCell(s))
  BY <1>1, <1>2, <1>4, TypeOnce
<1>6. QED
  BY <1>5, TreeIs DEF type

\* Two records of one location.
SameLoc(s) == {p \in PathSet(s) \X PathSet(s) : p[1].loc = p[2].loc}

LEMMA SameLocIs ==
  ASSUME NEW s, NEW x \in PathSet(s), NEW y \in PathSet(s)
  PROVE  <<x, y>> \in SameLoc(s) <=> x.loc = y.loc
BY DEF SameLoc

\* The part of an object in a snapshot repeats no location.
LEMMA ObjectOnce ==
  ASSUME NEW s, SchemaAccepted(s), NEW o \in ToSet(s.objects)
  PROVE  Once(ObjectPaths(s, o), SameLoc(s))
<1> DEFINE visits == WalkTree(s, o.type)
           R == SameLoc(s)
           P == PathSet(s)
           parts == EmitParts(s, o)
<1>1. /\ ObjectPaths(s, o) = FlattenSeq(parts) /\ parts \in Seq(Seq(P)) /\ DOMAIN parts = DOMAIN visits
      /\ \A j \in DOMAIN visits : visits[j] \in Visits(s) /\ parts[j] = EmitPart(s, o, visits[j])
  BY EmitPartsAre
<1>2. Once(visits, SameCell(s))
  BY TreeOnce
<1> HIDE DEF visits, parts
<1>3. \A j \in DOMAIN parts : Once(parts[j], R)
  BY <1>1, OneOnce, NoneOnce DEF EmitPart
<1>4. o.path \in Steps(s) /\ <<o.path>> \in Seq(Steps(s))
  <2>1. o.path \in Steps(s)
    BY AcceptedObjects
  <2>2. QED
    BY <2>1, Single
<1>5. ASSUME NEW i \in DOMAIN parts, NEW j \in DOMAIN parts, i # j PROVE Apart(parts[i], parts[j], R)
  <2> SUFFICES ASSUME NEW x \in ToSet(parts[i]), NEW y \in ToSet(parts[j]), x.loc = y.loc PROVE FALSE
    <3>1. \A x \in ToSet(parts[i]), y \in ToSet(parts[j]) : x \in P /\ y \in P
      <4>1. parts[i] \in Seq(P) /\ parts[j] \in Seq(P)
        BY <1>1, SeqElements
      <4>2. QED
        BY <4>1, OwnElements
    <3>2. QED
      BY <3>1, SameLocIs DEF Apart
  <2> DEFINE v == visits[i]
             w == visits[j]
  <2>1. v \in Visits(s) /\ w \in Visits(s) /\ x \in ToSet(EmitPart(s, o, v)) /\ y \in ToSet(EmitPart(s, o, w))
    BY <1>1
  <2>2. <<v, w>> \in SameCell(s) => i = j
    BY <1>1, <1>2 DEF Once
  <2> HIDE DEF v, w
  <2>3. Emitted(s, o, v) /\ x = PathOf(o, v) /\ Emitted(s, o, w) /\ y = PathOf(o, w)
    BY <2>1, EmitPartIs
  <2>4. v.type.kind = "intrinsic" /\ w.type.kind = "intrinsic"
    BY <2>3 DEF Emitted
  <2>5. x.loc = <<o.path>> \o v.loc /\ y.loc = <<o.path>> \o w.loc
    BY <2>3 DEF PathOf
  <2>6. v.loc = w.loc
    <3> DEFINE l == <<o.path>>
               a == v.loc
               b == w.loc
    <3>1. a \in Seq(Steps(s)) /\ b \in Seq(Steps(s))
      BY <2>1 DEF Visits
    <3>2. l \in Seq(Steps(s)) /\ l \o a = l \o b
      BY <1>4, <2>5
    <3> HIDE DEF l, a, b
    <3>3. a = b
      BY <3>1, <3>2, SameStart
    <3>4. QED
      BY <3>3 DEF a, b
  <2>7. QED
    BY <1>5, <2>1, <2>2, <2>4, <2>6, SameCellIs
<1>6. PartsOnce(parts, R)
  BY <1>3, <1>5 DEF PartsOnce
<1> HIDE DEF R, P
<1>7. QED
  BY <1>1, <1>6, OnceFlattened DEF R

\* A snapshot repeats no location.
LEMMA SnapshotOnce ==
  ASSUME NEW s, SchemaAccepted(s)
  PROVE  Once(SnapshotPaths(s), SameLoc(s))
<1> DEFINE parts == SnapshotParts(s)
           R == SameLoc(s)
           P == PathSet(s)
           objects == s.objects
<1>1. SnapshotPaths(s) = FlattenSeq(parts) /\ parts \in Seq(Seq(P))
  BY SnapshotElements
<1>2. DOMAIN parts = DOMAIN objects /\ \A i \in DOMAIN objects : parts[i] = ObjectPaths(s, objects[i])
  BY DEF SnapshotParts
<1>3. \A i, j \in DOMAIN objects : objects[i].path = objects[j].path => i = j
  BY DEF SchemaAccepted
<1>4. \A i \in DOMAIN objects : objects[i] \in ToSet(s.objects)
  BY DEF ToSet
<1> HIDE DEF parts, objects
<1>5. \A i \in DOMAIN parts : Once(parts[i], R)
  BY <1>2, <1>4, ObjectOnce
<1>6. ASSUME NEW i \in DOMAIN parts, NEW j \in DOMAIN parts, i # j PROVE Apart(parts[i], parts[j], R)
  <2> DEFINE o == objects[i]
             r == objects[j]
  <2>1. o \in ToSet(s.objects) /\ r \in ToSet(s.objects) /\ o.path # r.path
    BY <1>2, <1>3, <1>4, <1>6
  <2>2. parts[i] = ObjectPaths(s, o) /\ parts[j] = ObjectPaths(s, r)
    BY <1>2
  <2> HIDE DEF o, r
  <2> SUFFICES ASSUME NEW x \in ToSet(ObjectPaths(s, o)), NEW y \in ToSet(ObjectPaths(s, r))
               PROVE  x \in P /\ y \in P /\ x.loc # y.loc
    <3>1. \A x, y \in P : x.loc # y.loc => <<x, y>> \notin R /\ <<y, x>> \notin R
      BY SameLocIs
    <3> HIDE DEF P, R
    <3>2. QED
      BY <2>2, <3>1 DEF Apart
  <2>3. PICK v \in ToSet(WalkTree(s, o.type)) : x = PathOf(o, v)
    BY <2>1, ObjectPathsAre
  <2>4. PICK w \in ToSet(WalkTree(s, r.type)) : y = PathOf(r, w)
    BY <2>1, ObjectPathsAre
  <2>5. v \in Visits(s) /\ w \in Visits(s)
    BY <2>1, TreeElements
  <2>6. x \in P /\ y \in P
    BY <2>1, <2>3, <2>4, <2>5, PathOfIs
  <2>7. x.loc = <<o.path>> \o v.loc /\ y.loc = <<r.path>> \o w.loc
    BY <2>3, <2>4 DEF PathOf
  <2>8. x.loc # y.loc
    <3> DEFINE a == o.path
               b == r.path
               c == v.loc
               d == w.loc
    <3>1. a \in Steps(s) /\ b \in Steps(s) /\ a # b
      BY <2>1, AcceptedObjects
    <3>2. c \in Seq(Steps(s)) /\ d \in Seq(Steps(s))
      BY <2>5 DEF Visits
    <3> HIDE DEF a, b, c, d
    <3>3. <<a>> \o c # <<b>> \o d
      BY <3>1, <3>2, SameHead
    <3>4. QED
      BY <2>7, <3>3 DEF a, b, c, d
  <2>9. QED
    BY <2>6, <2>8
<1>7. PartsOnce(parts, R)
  BY <1>5, <1>6 DEF PartsOnce
<1> HIDE DEF R, P
<1>8. QED
  BY <1>1, <1>7, OnceFlattened DEF R

-----------------------------------------------------------------------------
(***************************************************************************)
(* What is recorded is what resolves                                       *)
(***************************************************************************)

\* No place is deeper than the types of a Project can nest.
LEMMA PlacesNotTooDeep ==
  ASSUME NEW s, SchemaAccepted(s), NEW p \in Places(s)
  PROVE  p.loc \in Seq(Steps(s)) /\ Len(p.loc) \in Nat /\ Len(p.loc) > 0 /\ Len(p.loc) <= TypeCount(s) + 1
<1>1. PICK level : LevelsOf(s, level)
  BY PlacesHaveLevels
<1>2. PICK height \in [DOMAIN s.types -> 0..TypeCount(s) - 1] : NoneContainsItself(s, height)
  BY DEF SchemaAccepted
<1>3. PICK n \in 0..TypeCount(s) : p \in level[n]
  BY <1>1 DEF LevelsOf
<1>4. PlaceOk(s, p) /\ Len(p.loc) = n + 1
  BY <1>1, <1>2, <1>3, LevelFacts
<1>5. TypeCount(s) \in Nat
  BY CountIsNat
<1>6. p.loc \in Seq(Steps(s))
  BY <1>4 DEF PlaceOk, Locations
<1>7. QED
  BY <1>3, <1>4, <1>5, <1>6

\* Every name of a path that resolves leads one step deeper.
LongEnough(s, state, n) == state.loc \in Seq(Steps(s)) /\ Len(state.loc) > n

\* So no path that resolves has more members than the Project has types.
LEMMA PathsNotTooLong ==
  ASSUME NEW s, SchemaAccepted(s), NEW object, NEW names, HasLength(names),
         Resolve(s, object, names).status = "success"
  PROVE  Len(names) <= TypeCount(s)
<1> DEFINE N == Len(names)
           f == StatesOf(s, object, names)
           Good == {n \in 0..N : f[n].status = "success" => LongEnough(s, f[n], n)}
<1>1. N \in Nat /\ TypeCount(s) \in Nat
  BY CountIsNat DEF HasLength
<1>2. /\ \A n \in 0..N : f[n].status = "success" => Exact(s, f[n])
      /\ \A n \in 1..N : f[n].status = "success" => Reached(s, f, names, n)
  BY <1>1, StatesFacts
<1>3. f[N].status = "success"
  <2>1. Resolve(s, object, names) = FinishScalar(f[N])
    BY DEF Resolve, StatesOf
  <2>2. QED
    BY <2>1, FinishSucceeds
<1> HIDE DEF N, f
<1>4. \A n \in 0..N : f[n].status = "success" =>
         LongEnough(s, f[n], 0) /\ Len(f[n].loc) <= TypeCount(s) + 1
  <2> SUFFICES ASSUME NEW n \in 0..N, f[n].status = "success"
               PROVE  LongEnough(s, f[n], 0) /\ Len(f[n].loc) <= TypeCount(s) + 1
    OBVIOUS
  <2>1. PICK p \in Places(s) : p.loc = f[n].loc
    BY <1>2 DEF Exact
  <2>2. QED
    BY <2>1, PlacesNotTooDeep DEF LongEnough
<1>5. 0 \in Good
  BY <1>1, <1>4
<1>6. ASSUME NEW n \in Nat, n < N, n \in Good PROVE n + 1 \in Good
  <2>1. n + 1 \in 0..N /\ n + 1 \in 1..N /\ (n + 1) - 1 = n /\ n \in 0..N
    BY <1>1, <1>6
  <2> SUFFICES ASSUME f[n + 1].status = "success" PROVE LongEnough(s, f[n + 1], n + 1)
    BY <2>1
  <2>2. Reached(s, f, names, n + 1)
    BY <1>2, <2>1
  <2>3. f[n].status = "success" /\ \E way : WayTo(s, names[n + 1], way) /\ f[n + 1].loc = f[n].loc \o way
    BY <2>1, <2>2 DEF Reached
  <2>4. PICK way : WayTo(s, names[n + 1], way) /\ f[n + 1].loc = f[n].loc \o way
    BY <2>3
  <2> DEFINE l == f[n].loc
  <2>5. l \in Seq(Steps(s)) /\ Len(l) > n
    BY <1>6, <2>3 DEF LongEnough
  <2>6. way \in Seq(Steps(s)) /\ Len(way) > 0
    BY <2>4 DEF WayTo, Locations
  <2> HIDE DEF l
  <2>7. l \o way \in Seq(Steps(s)) /\ Len(l \o way) = Len(l) + Len(way) /\ Len(l) \in Nat /\ Len(way) \in Nat
    BY <2>5, <2>6, Joined
  <2>8. Len(l \o way) > n + 1
    BY <2>5, <2>6, <2>7
  <2>9. QED
    BY <2>4, <2>7, <2>8 DEF LongEnough, l
<1> HIDE DEF Good
<1>7. \A n \in 0..N : n \in Good
  BY <1>1, <1>5, <1>6, UpTo
<1>8. N \in 0..N
  BY <1>1
<1>9. LongEnough(s, f[N], N) /\ Len(f[N].loc) <= TypeCount(s) + 1
  BY <1>3, <1>4, <1>7, <1>8 DEF Good
<1>10. Len(f[N].loc) \in Nat /\ Len(f[N].loc) > N
  BY <1>9 DEF LongEnough
<1>11. QED
  BY <1>1, <1>9, <1>10 DEF N

\* The two sides: what is recorded, and the paths of an object that name a scalar.
Names(s, o, m) ==
  LET t == Resolve(s, o.path, m) IN t.status = "success" /\ t.type # "nullptr"

Recorded(s, o, m) ==
  \E p \in ToSet(SnapshotPaths(s)) :
     p.object = o.path /\ p.members = m /\ p.loc = Resolve(s, o.path, m).loc

\* A path that names a scalar is in the snapshot, at the location it resolves to.
LEMMA NamedIsRecorded ==
  ASSUME NEW s, SchemaAccepted(s), NEW o \in ToSet(s.objects), NEW m \in MemberPaths(s), Names(s, o, m)
  PROVE  Recorded(s, o, m)
<1> DEFINE N == Len(m)
           f == StatesOf(s, o.path, m)
           x == f[N]
           t == Resolve(s, o.path, m)
           q == WalkTree(s, o.type)
<1>1. m \in Seq(Known(s)) /\ HasLength(m)
  BY PathsHaveLength
<1>2. N \in Nat /\ N \in 0..N
  BY <1>1 DEF HasLength
<1>3. t = FinishScalar(x) /\ t.status = "success" /\ t.type # "nullptr"
  BY DEF Resolve, StatesOf, Names
<1>4. x.status = "success" => VisitOf(q, o, m, N, x)
  BY <1>1, <1>2, EveryPathVisited
<1> HIDE DEF f, x, t, q
<1>5. x.status = "success" /\ x.type.kind = "intrinsic" /\ t.loc = x.loc /\ t.type = x.type.of
  <2> DEFINE c == x.const \/ x.type.const
  <2>1. /\ x.status = "success" /\ x.type.kind = "intrinsic"
        /\ FinishScalar(x) = [status |-> "success", loc |-> x.loc, type |-> x.type.of, const |-> c, plain |-> x.plain]
    BY <1>3, FinishSucceeds
  <2> HIDE DEF c
  <2>2. QED
    BY <1>3, <2>1
<1>6. PICK v \in ToSet(q) : /\ Len(v.members) = N /\ \A i \in 1..N : v.members[i] = m[i]
                            /\ x.loc = <<o.path>> \o v.loc /\ v.type = x.type
  BY <1>4, <1>5 DEF VisitOf
<1>7. v \in Visits(s)
  BY <1>6, TreeElements DEF q
<1>8. v.members = m
  <2> DEFINE a == v.members
  <2>1. a \in Seq(Known(s)) /\ Len(a) = Len(m) /\ \A i \in 1..Len(a) : a[i] = m[i]
    BY <1>6, <1>7 DEF Visits
  <2> HIDE DEF a
  <2>2. a = m
    BY <1>1, <2>1, SeqEqual
  <2>3. QED
    BY <2>2 DEF a
<1>9. Emitted(s, o, v)
  <2>1. v.type.kind = "intrinsic" /\ v.type.of # "nullptr"
    BY <1>3, <1>5, <1>6
  <2>2. Addresses(t, <<o.path>> \o v.loc, v.type.of)
    BY <1>3, <1>5, <1>6 DEF Addresses, Is
  <2>3. QED
    BY <1>8, <2>1, <2>2 DEF Emitted, t
<1> DEFINE p == PathOf(o, v)
<1>10. p \in ToSet(SnapshotPaths(s))
  <2>1. p \in ToSet(ObjectPaths(s, o))
    BY <1>6, <1>9, ObjectPathsAre DEF q
  <2>2. QED
    BY <2>1, SnapshotElements
<1>11. p.object = o.path /\ p.members = m /\ p.loc = t.loc
  BY <1>5, <1>6, <1>8 DEF PathOf
<1> HIDE DEF p
<1>12. QED
  BY <1>10, <1>11 DEF Recorded, t

\* A path in the snapshot names a scalar, and is recorded where it resolves to.
LEMMA RecordedIsNamed ==
  ASSUME NEW s, SchemaAccepted(s), NEW p \in ToSet(SnapshotPaths(s))
  PROVE  \E o \in ToSet(s.objects) : \E m \in MemberPaths(s) :
            /\ Names(s, o, m) /\ p.object = o.path /\ p.members = m /\ p.loc = Resolve(s, o.path, m).loc
<1> DEFINE t == Resolve(s, p.object, p.members)
           m == p.members
<1>1. /\ t.status = "success" /\ t.loc = p.loc /\ t.type = p.type /\ p.type # "nullptr"
      /\ m \in Seq(Known(s)) /\ \E o \in ToSet(s.objects) : p.object = o.path
  BY SnapshotResolves
<1>2. PICK o \in ToSet(s.objects) : p.object = o.path
  BY <1>1
<1>3. Len(m) \in Nat /\ DOMAIN m = 1..Len(m) /\ \A i \in DOMAIN m : m[i] \in Known(s)
  BY <1>1, SeqElements
<1>4. Len(m) <= TypeCount(s) /\ TypeCount(s) \in Nat
  BY <1>1, <1>3, PathsNotTooLong, CountIsNat DEF HasLength
<1>5. m \in [1..Len(m) -> Known(s)]
  <2> HIDE DEF m
  <2>1. m \in [1..Len(m) -> Known(s)]
    BY <1>1
  <2>2. QED
    BY <2>1
<1>6. Len(m) \in 0..TypeCount(s)
  BY <1>3, <1>4
<1> HIDE DEF m
<1>7. m \in MemberPaths(s)
  BY <1>5, <1>6 DEF MemberPaths, Known
<1>8. t = Resolve(s, o.path, m)
  BY <1>2 DEF m
<1> HIDE DEF t
<1>9. Names(s, o, m) /\ p.loc = Resolve(s, o.path, m).loc
  BY <1>1, <1>8 DEF Names
<1>10. QED
  BY <1>2, <1>7, <1>9 DEF m

\* No path is recorded twice: one path resolves to one location.
LEMMA RecordedOnce ==
  ASSUME NEW s, SchemaAccepted(s), NEW i \in DOMAIN SnapshotPaths(s), NEW j \in DOMAIN SnapshotPaths(s),
         SnapshotPaths(s)[i].object = SnapshotPaths(s)[j].object,
         SnapshotPaths(s)[i].members = SnapshotPaths(s)[j].members
  PROVE  i = j
<1> DEFINE paths == SnapshotPaths(s)
           x == paths[i]
           y == paths[j]
<1>1. paths \in Seq(PathSet(s)) /\ Once(paths, SameLoc(s))
  BY SnapshotElements, SnapshotOnce
<1>2. x \in ToSet(paths) /\ y \in ToSet(paths)
  BY DEF ToSet
<1>3. x \in PathSet(s) /\ y \in PathSet(s)
  BY <1>1, <1>2, OwnElements
<1>4. Resolve(s, x.object, x.members).loc = x.loc /\ Resolve(s, y.object, y.members).loc = y.loc
  BY <1>2, SnapshotResolves
<1>5. <<x, y>> \in SameLoc(s) => i = j
  BY <1>1 DEF Once
<1>6. x.object = y.object /\ x.members = y.members
  OBVIOUS
<1> HIDE DEF paths, x, y
<1>7. x.loc = y.loc
  BY <1>4, <1>6
<1>8. QED
  BY <1>3, <1>5, <1>7, SameLocIs

-----------------------------------------------------------------------------
(***************************************************************************)
(* The commands                                                            *)
(***************************************************************************)

FileStates == {"absent", "empty", "torn", "whole"}
Encoded(image) == \E records : RecordsOk(records) /\ image = Encode(records)

\* The Runtime is one of the Project, and what is in the file or on its way there
\* was encoded from a snapshot, whatever Project that was of.
IcInvariant ==
  /\ schema \in Schemas /\ MemoryOk(schema, memory)
  /\ file.state \in FileStates /\ (file.state = "whole" => Encoded(file.image))
  /\ pc \in {"create", "copy", "flush"} => Encoded(captured)
  /\ time \in Nat /\ rebuilds \in Nat

LEMMA FileRecord ==
  ASSUME NEW state, NEW image
  PROVE  [state |-> state, image |-> image].state = state /\ [state |-> state, image |-> image].image = image
OBVIOUS

\* An image that was encoded reads back.
LEMMA EncodedFacts ==
  ASSUME NEW image, Encoded(image)
  PROVE  ImageOk(image) /\ PathsOk(image) /\ RecordsOk(Decode(image)) /\ image = Encode(Decode(image))
<1>1. PICK records : RecordsOk(records) /\ image = Encode(records)
  BY DEF Encoded
<1>2. Decode(image) = records /\ ImageOk(image)
  BY <1>1, EncodedOk
<1>3. QED
  BY <1>1, <1>2 DEF ImageOk

\* The inductive invariant holds initially.
LEMMA InitInvariant == Init => IcInvariant
<1>1. SUFFICES ASSUME Init PROVE IcInvariant
  OBVIOUS
<1>2. schema \in Schemas /\ memory = Filled(schema, 0) /\ pc = "idle" /\ time = 0 /\ rebuilds = 0
  BY <1>1 DEF Init
<1>3. SchemaAccepted(schema)
  BY <1>2, SchemasAccepted
<1>4. MemoryOk(schema, memory)
  BY <1>2, <1>3, FilledOk
<1>5. file.state = "absent"
  BY <1>1 DEF Init
<1>6. QED
  BY <1>2, <1>4, <1>5 DEF IcInvariant, FileStates

\* Every step keeps it: only a snapshot makes images, only a reset, a write and a
\* rebuild change the Runtime.
LEMMA NextInvariant == IcInvariant /\ [Next]_vars => IcInvariant'
<1> SUFFICES ASSUME IcInvariant, [Next]_vars PROVE IcInvariant'
  OBVIOUS
<1>1. /\ schema \in Schemas /\ SchemaAccepted(schema) /\ MemoryOk(schema, memory)
      /\ file.state \in FileStates /\ (file.state = "whole" => Encoded(file.image))
      /\ pc \in {"create", "copy", "flush"} => Encoded(captured)
      /\ time \in Nat /\ rebuilds \in Nat
  BY SchemasAccepted DEF IcInvariant
<1>2. CASE UNCHANGED vars
  BY <1>2 DEF vars, IcInvariant, MemoryOk
<1>3. CASE ProcessWrites
  <2>1. memory' = Filled(schema, time') /\ time' = time + 1 /\ UNCHANGED <<schema, file, pc, captured, rebuilds>>
    BY <1>3 DEF ProcessWrites
  <2> DEFINE t == time'
  <2> HIDE DEF t
  <2>2. MemoryOk(schema, Filled(schema, t))
    BY <1>1, FilledOk
  <2>3. time' \in Nat
    BY <1>1, <2>1
  <2>4. QED
    BY <1>1, <2>1, <2>2, <2>3 DEF IcInvariant, t
<1>4. ASSUME NEW s \in Near(schema), Rebuild(s) PROVE IcInvariant'
  <2>1. s \in Schemas /\ SchemaAccepted(s)
    BY <1>1, SchemasAccepted
  <2>2. schema' = s /\ memory' = Filled(s, 0) /\ rebuilds' = rebuilds + 1 /\ UNCHANGED <<file, pc, captured, time>>
    BY <1>4 DEF Rebuild
  <2>3. MemoryOk(s, Filled(s, 0))
    BY <2>1, FilledOk
  <2>4. QED
    BY <1>1, <2>1, <2>2, <2>3 DEF IcInvariant
<1>5. CASE SnapCapture
  <2> DEFINE records == Snapshot(schema, memory)
  <2>1. UNCHANGED <<schema, memory, file, time, rebuilds>>
    BY <1>5 DEF SnapCapture
  <2>2. RecordsOk(records)
    BY <1>1, SnapshotIs
  <2> HIDE DEF records
  <2>3. UNCHANGED <<pc, captured>> \/ captured' = Encode(records)
    BY <1>5 DEF SnapCapture, records
  <2>4. Encoded(Encode(records))
    BY <2>2 DEF Encoded
  <2>5. QED
    BY <1>1, <2>1, <2>3, <2>4 DEF IcInvariant
<1>6. CASE SnapCreate
  <2>1. file' = [state |-> "torn", image |-> NoImage] /\ pc = "create" /\ UNCHANGED <<schema, memory, captured, time, rebuilds>>
    BY <1>6 DEF SnapCreate, counters
  <2>2. file'.state = "torn"
    BY <2>1, FileRecord
  <2>3. QED
    BY <1>1, <2>1, <2>2 DEF IcInvariant, FileStates
<1>7. CASE SnapCreateFails
  <2>1. /\ pc' = "idle" /\ UNCHANGED <<schema, memory, time, rebuilds>>
        /\ file' \in {file} \cup {[state |-> s, image |-> NoImage] : s \in {"empty", "torn"}}
    BY <1>7 DEF SnapCreateFails, counters
  <2>2. file' = file \/ file'.state \in {"empty", "torn"}
    BY <2>1, FileRecord
  <2>3. QED
    BY <1>1, <2>1, <2>2 DEF IcInvariant, FileStates
<1>8. CASE SnapCopy
  <2>1. file' = [state |-> "whole", image |-> captured] /\ pc = "copy" /\ UNCHANGED <<schema, memory, captured, time, rebuilds>>
    BY <1>8 DEF SnapCopy, counters
  <2>2. file'.state = "whole" /\ file'.image = captured
    BY <2>1, FileRecord
  <2>3. QED
    BY <1>1, <2>1, <2>2 DEF IcInvariant, FileStates
<1>9. CASE SnapFlush
  <2>1. /\ pc' = "idle" /\ UNCHANGED <<schema, memory, time, rebuilds>>
        /\ file' = file \/ file' = [state |-> "absent", image |-> NoImage]
    BY <1>9 DEF SnapFlush, counters
  <2>2. file' = file \/ file'.state = "absent"
    BY <2>1, FileRecord
  <2>3. QED
    BY <1>1, <2>1, <2>2 DEF IcInvariant, FileStates
<1>10. CASE Crash
  <2>1. memory' = Filled(schema, 0) /\ pc' = "idle" /\ UNCHANGED <<schema, file, time, rebuilds>>
    BY <1>10 DEF Crash, counters
  <2>2. MemoryOk(schema, Filled(schema, 0))
    BY <1>1, FilledOk
  <2>3. QED
    BY <1>1, <2>1, <2>2 DEF IcInvariant
<1>11. ASSUME NEW options \in SUBSET ResetOptions, ResetIc(options) PROVE IcInvariant'
  <2> DEFINE plan == PlanBinary(schema, file.image, options)
  <2>1. /\ UNCHANGED <<schema, file, pc, captured, time, rebuilds>>
        /\ memory' = IF Bind(file) = "success" /\ Is(plan, "success") THEN Apply(memory, plan) ELSE memory
    BY <1>11 DEF ResetIc, counters
  <2>2. Bind(file) = "success" => file.state = "whole"
    BY <1>1 DEF Bind, FileStates
  <2>3. CASE file.state = "whole"
    <3>1. PathsOk(file.image)
      BY <1>1, <2>3, EncodedFacts
    <3>2. MemoryOk(schema, Apply(memory, plan))
      BY <1>1, <3>1, ResetKeepsMemory
    <3>3. MemoryOk(schema, memory')
      BY <1>1, <2>1, <3>2
    <3>4. QED
      BY <1>1, <2>1, <3>3 DEF IcInvariant
  <2>4. CASE file.state # "whole"
    BY <1>1, <2>1, <2>2, <2>4 DEF IcInvariant
  <2>5. QED
    BY <2>3, <2>4
<1>12. QED
  BY <1>2, <1>3, <1>4, <1>5, <1>6, <1>7, <1>8, <1>9, <1>10, <1>11 DEF Next

\* The inductive invariant.
THEOREM SnapshotsStayWhole == Spec => []IcInvariant
BY InitInvariant, NextInvariant, PTL DEF Spec

\* Every scalar of the Runtime holds a value of its own type, in every Project and
\* after any sequence of snapshots, rebuilds and resets (TypedRuntime).
THEOREM RuntimeStaysTyped == Spec => []TypedRuntime
<1>1. IcInvariant => TypedRuntime
  BY DEF IcInvariant, MemoryOk, TypedRuntime
<1>2. QED
  BY <1>1, SnapshotsStayWhole, PTL

\* The reset that keeps the states of shared prefixes plans what resolving every
\* record from its object on plans (BinaryMatchesRecords).
THEOREM PrefixesAreKeptRightly == Spec => []BinaryMatchesRecords
<1>1. ASSUME IcInvariant PROVE BinaryMatchesRecords
  <2> SUFFICES ASSUME file.state = "whole", NEW options \in SUBSET ResetOptions
               PROVE  LET binary == PlanBinary(schema, file.image, options)
                          records == PlanRecords(schema, Decode(file.image), options)
                      IN  /\ Is(binary, "success") <=> Is(records, "success")
                          /\ Is(binary, "success") => binary.writes = records.writes
    BY DEF BinaryMatchesRecords
  <2>1. SchemaAccepted(schema) /\ Encoded(file.image)
    BY <1>1, SchemasAccepted DEF IcInvariant
  <2> DEFINE image == file.image
  <2>2. ImageOk(image)
    BY <2>1, EncodedFacts
  <2> HIDE DEF image
  <2>3. LET binary == PlanBinary(schema, image, options)
            records == PlanRecords(schema, Decode(image), options)
        IN  /\ Is(binary, "success") <=> Is(records, "success")
            /\ Is(binary, "success") => binary.writes = records.writes
    BY <2>1, <2>2, BinaryIsRecords
  <2>4. QED
    BY <2>3 DEF image
<1>2. QED
  BY <1>1, SnapshotsStayWhole, PTL

\* No reset writes a scalar of a category that its options keep (OptionsRespected).
THEOREM OptionsAreRespected == Spec => []OptionsRespected
<1>1. ASSUME IcInvariant PROVE OptionsRespected
  <2> DEFINE Cell(w) == CHOOSE c \in ProjectCells(schema) : c.loc = w.loc
  <2> SUFFICES ASSUME file.state = "whole", NEW options \in SUBSET ResetOptions,
                      NEW w \in ToSet(PlanBinary(schema, file.image, options).writes)
               PROVE  /\ "constants" \in options => ~Cell(w).const
                      /\ "variables" \in options => Cell(w).const
                      /\ "defaults" \in options => ~Cell(w).plain
    BY DEF OptionsRespected
  <2>1. SchemaAccepted(schema) /\ Encoded(file.image)
    BY <1>1, SchemasAccepted DEF IcInvariant
  <2>2. PathsOk(file.image)
    BY <2>1, EncodedFacts
  <2>3. WriteOk(schema, w, options)
    BY <2>1, <2>2, WritesOk
  <2>4. PICK c \in ProjectCells(schema) : /\ c.loc = w.loc
                                          /\ ~("constants" \in options /\ c.const) /\ ~("variables" \in options /\ ~c.const)
                                          /\ ~("defaults" \in options /\ c.plain)
    BY <2>3 DEF WriteOk
  <2>5. Cell(w) \in ProjectCells(schema) /\ Cell(w).loc = w.loc
    BY <2>4
  <2> HIDE DEF Cell
  <2>6. Cell(w) = c
    BY <2>1, <2>4, <2>5, CellUnique
  <2>7. QED
    BY <2>4, <2>6, Zenon
<1>2. QED
  BY <1>1, SnapshotsStayWhole, PTL

\* A Project with the scalars of the image can be reset, and a snapshot taken right
\* after gives the image back (RoundTrip).
THEOREM SnapshotsComeBack == Spec => []RoundTrip
<1>1. ASSUME IcInvariant PROVE RoundTrip
  <2> DEFINE records == Decode(file.image)
             paths == SnapshotPaths(schema)
             plan == PlanBinary(schema, file.image, {})
  <2> SUFFICES ASSUME file.state = "whole", DOMAIN paths = DOMAIN records,
                      \A i \in DOMAIN paths : /\ paths[i].object = records[i].object
                                              /\ paths[i].members = records[i].members
                                              /\ paths[i].type = records[i].value.type
               PROVE  /\ Is(plan, "success")
                      /\ Encode(Snapshot(schema, Apply(memory, plan))) = file.image
    BY DEF RoundTrip
  <2>1. SchemaAccepted(schema) /\ Encoded(file.image) /\ MemoryOk(schema, memory)
    BY <1>1, SchemasAccepted DEF IcInvariant
  <2>2. RecordsOk(records) /\ file.image = Encode(records)
    BY <2>1, EncodedFacts
  <2>3. SameScalars(schema, records)
    BY DEF SameScalars
  <2> HIDE DEF records, paths
  <2>4. /\ Is(PlanBinary(schema, Encode(records), {}), "success")
        /\ Snapshot(schema, Apply(memory, PlanBinary(schema, Encode(records), {}))) = records
    BY <2>1, <2>2, <2>3, ResetGivesBack
  <2>5. QED
    BY <2>2, <2>4
<1>2. QED
  BY <1>1, SnapshotsStayWhole, PTL

\* A reset that changes the Runtime has applied the whole image
\* (ResetAllOrNothing).
THEOREM ResetsAreWhole == Spec => ResetAllOrNothing
<1> DEFINE AppliedWith(options) ==
             \A r \in ToSet(Decode(file.image)) :
                LET t == Resolve(schema, r.object, r.members)
                IN  /\ Is(t, "success")
                    /\ memory'[t.loc] = IF Excluded(t, options) THEN memory[t.loc] ELSE r.value
           Whole == memory' # memory /\ UNCHANGED <<time, rebuilds>> /\ ~Restarts =>
                      /\ status' = "success" /\ file.state = "whole"
                      /\ \E options \in SUBSET ResetOptions : AppliedWith(options)
<1>1. ASSUME IcInvariant, [Next]_vars, memory' # memory, UNCHANGED <<time, rebuilds>>, ~Restarts
      PROVE  /\ status' = "success" /\ file.state = "whole"
             /\ \E options \in SUBSET ResetOptions : AppliedWith(options)
  <2>1. /\ SchemaAccepted(schema) /\ MemoryOk(schema, memory)
        /\ file.state \in FileStates /\ (file.state = "whole" => Encoded(file.image))
        /\ time \in Nat /\ rebuilds \in Nat
    BY <1>1, SchemasAccepted DEF IcInvariant
  <2>2. PICK options \in SUBSET ResetOptions : ResetIc(options)
    <3>1. ~UNCHANGED vars
      BY <1>1 DEF vars
    <3>2. ~ProcessWrites
      <4>1. SUFFICES ASSUME ProcessWrites PROVE FALSE
        OBVIOUS
      <4>2. time' = time + 1 /\ time' = time
        BY <1>1, <4>1 DEF ProcessWrites
      <4>3. QED
        BY <2>1, <4>2
    <3>3. ASSUME NEW s \in Near(schema), Rebuild(s) PROVE FALSE
      <4>1. rebuilds' = rebuilds + 1 /\ rebuilds' = rebuilds
        BY <1>1, <3>3 DEF Rebuild
      <4>2. QED
        BY <2>1, <4>1
    <3>4. ~SnapCapture /\ ~SnapCreate /\ ~SnapCreateFails /\ ~SnapCopy /\ ~SnapFlush /\ ~Crash
      BY <1>1 DEF SnapCapture, SnapCreate, SnapCreateFails, SnapCopy, SnapFlush, Crash, Restarts
    <3>5. QED
      BY <1>1, <3>1, <3>2, <3>3, <3>4 DEF Next
  <2> DEFINE image == file.image
             plan == PlanBinary(schema, image, options)
             new == Apply(memory, plan)
  <2>3. /\ Bind(file) = "success" /\ Is(plan, "success") /\ memory' = new
        /\ status' = "success"
    <3>1. /\ status' = IF Bind(file) = "success" THEN plan.status ELSE Bind(file)
          /\ memory' = IF Bind(file) = "success" /\ Is(plan, "success") THEN new ELSE memory
      BY <2>2 DEF ResetIc
    <3> HIDE DEF plan, new
    <3>2. Bind(file) = "success" /\ Is(plan, "success") /\ memory' = new
      BY <1>1, <3>1
    <3>3. QED
      BY <3>1, <3>2 DEF Is
  <2>4. file.state = "whole"
    BY <2>1, <2>3 DEF Bind, FileStates
  <2>5. ImageOk(image) /\ PathsOk(image)
    BY <2>1, <2>4, EncodedFacts
  <2> HIDE DEF image, new
  <2>6. ASSUME NEW r \in ToSet(Decode(image))
        PROVE  LET t == Resolve(schema, r.object, r.members)
               IN  /\ Is(t, "success")
                   /\ memory'[t.loc] = IF Excluded(t, options) THEN memory[t.loc] ELSE r.value
    <3>1. PICK i \in 1..Len(image.records) : r = Decode(image)[i]
      BY <2>5 DEF ToSet, Decode, PathsOk
    <3> DEFINE t == Targets(schema, image)[i]
    <3>2. t = Resolve(schema, r.object, r.members) /\ r.value = image.records[i].value
      BY <2>1, <2>5, <3>1, TargetsAre
    <3>3. plan.status = "success"
      BY <2>3 DEF Is
    <3>4. t.status = "success" /\ new[t.loc] = IF Excluded(t, options) THEN memory[t.loc] ELSE image.records[i].value
      BY <2>1, <2>5, <3>3, ResetIsWhole DEF new
    <3> HIDE DEF t
    <3>5. QED
      BY <2>3, <3>2, <3>4 DEF Is
  <2>7. AppliedWith(options)
    BY <2>6 DEF image
  <2> HIDE DEF AppliedWith
  <2>8. QED
    BY <2>3, <2>4, <2>7
<1>2. IcInvariant /\ [Next]_vars => [Whole]_vars
  <2> HIDE DEF AppliedWith
  <2>1. QED
    BY <1>1
<1>3. QED
  BY <1>2, SnapshotsStayWhole, PTL DEF Spec, ResetAllOrNothing

\* GET_VALUE answers with a scalar of the Runtime under its own type, and by a path
\* that the IC commands know with the scalar they mean, unless that scalar is wider
\* than an answer: then, and only then, it refuses it as unsupported (QueryAgrees).
THEOREM QueriesAgree == Spec => []QueryAgrees
<1>1. ASSUME IcInvariant PROVE QueryAgrees
  <2> DEFINE Target(o, m) == Resolve(schema, o.path, m)
             Answer(o, m) == Query(schema, o.path, m)
  <2> SUFFICES ASSUME NEW o \in ToSet(schema.objects), NEW m \in MemberPaths(schema)
               PROVE  /\ Is(Answer(o, m), "success") =>
                           /\ \E c \in ProjectCells(schema) : c.loc = Answer(o, m).loc /\ c.type = Answer(o, m).type
                           /\ FitsInAnswer(Answer(o, m).type)
                      /\ Is(Target(o, m), "success") =>
                           IF FitsInAnswer(Target(o, m).type)
                             THEN /\ Is(Answer(o, m), "success")
                                  /\ Answer(o, m).loc = Target(o, m).loc /\ Answer(o, m).type = Target(o, m).type
                             ELSE Is(Answer(o, m), "unsupported_type")
    BY DEF QueryAgrees
  <2>1. SchemaAccepted(schema)
    BY <1>1, SchemasAccepted DEF IcInvariant
  <2>2. HasLength(m)
    BY <2>1, PathsHaveLength
  <2>3. ASSUME Is(Answer(o, m), "success")
        PROVE  /\ \E c \in ProjectCells(schema) : c.loc = Answer(o, m).loc /\ c.type = Answer(o, m).type
               /\ FitsInAnswer(Answer(o, m).type)
    BY <2>1, <2>2, <2>3, QueryIsCell DEF Is
  <2>4. ASSUME Is(Target(o, m), "success") PROVE AnswerOf(Target(o, m), Answer(o, m))
    BY <2>1, <2>2, <2>4, QueryIsResolve DEF Is
  <2> HIDE DEF Target, Answer
  <2>5. ASSUME Is(Target(o, m), "success")
        PROVE  IF FitsInAnswer(Target(o, m).type)
                 THEN /\ Is(Answer(o, m), "success")
                      /\ Answer(o, m).loc = Target(o, m).loc /\ Answer(o, m).type = Target(o, m).type
                 ELSE Is(Answer(o, m), "unsupported_type")
    BY <2>4, <2>5 DEF AnswerOf, Is
  <2>6. QED
    BY <2>3, <2>5
<1>2. QED
  BY <1>1, SnapshotsStayWhole, PTL

\* SNAP_IC records exactly the paths that name a scalar, each one once and at the
\* location it resolves to (SnapshotComplete).
THEOREM SnapshotsAreComplete == Spec => []SnapshotComplete
<1>1. ASSUME IcInvariant PROVE SnapshotComplete
  <2> DEFINE paths == SnapshotPaths(schema)
             Target(o, m) == Resolve(schema, o.path, m)
             key == [i \in DOMAIN paths |-> <<paths[i].object, paths[i].members>>]
             All == ToSet(schema.objects) \X MemberPaths(schema)
             Named == {r \in All : Is(Target(r[1], r[2]), "success") /\ Target(r[1], r[2]).type # "nullptr"}
             Record(q) == [object |-> q[1].path, members |-> q[2], loc |-> Target(q[1], q[2]).loc]
             Entry(p) == [object |-> p.object, members |-> p.members, loc |-> p.loc]
             Left == {Entry(p) : p \in ToSet(paths)}
             Right == {Record(q) : q \in Named}
  <2>1. SUFFICES IsInjective(key) /\ Left = Right
    BY DEF SnapshotComplete
  <2>2. SchemaAccepted(schema)
    BY <1>1, SchemasAccepted DEF IcInvariant
  <2>3. IsInjective(key)
    <3> SUFFICES ASSUME NEW i \in DOMAIN key, NEW j \in DOMAIN key, key[i] = key[j] PROVE i = j
      BY DEF IsInjective
    <3> HIDE DEF paths
    <3>1. i \in DOMAIN paths /\ j \in DOMAIN paths
      OBVIOUS
    <3>2. <<paths[i].object, paths[i].members>> = <<paths[j].object, paths[j].members>>
      BY <3>1
    <3>3. paths[i].object = paths[j].object /\ paths[i].members = paths[j].members
      BY <3>2
    <3>4. QED
      BY <2>2, <3>1, <3>3, RecordedOnce DEF paths
  <2>4. \A o \in ToSet(schema.objects), m \in MemberPaths(schema) :
           Names(schema, o, m) => <<o, m>> \in Named /\ Record(<<o, m>>)
              = [object |-> o.path, members |-> m, loc |-> Resolve(schema, o.path, m).loc]
    BY DEF Names, Is
  <2>5. ASSUME NEW p \in ToSet(paths) PROVE Entry(p) \in Right
    <3>1. PICK o \in ToSet(schema.objects), m \in MemberPaths(schema) :
             /\ Names(schema, o, m) /\ p.object = o.path /\ p.members = m
             /\ p.loc = Resolve(schema, o.path, m).loc
      BY <2>2, RecordedIsNamed
    <3>2. <<o, m>> \in Named /\ Record(<<o, m>>) = Entry(p)
      BY <2>4, <3>1
    <3> HIDE DEF Record, Entry, Named
    <3>3. QED
      BY <3>2
  <2>6. ASSUME NEW q \in Named PROVE Record(q) \in Left
    <3>1. q[1] \in ToSet(schema.objects) /\ q[2] \in MemberPaths(schema) /\ Names(schema, q[1], q[2])
      BY DEF Names, Is
    <3>2. Recorded(schema, q[1], q[2])
      BY <2>2, <3>1, NamedIsRecorded
    <3>3. PICK p \in ToSet(paths) : /\ p.object = q[1].path /\ p.members = q[2]
                                    /\ p.loc = Resolve(schema, q[1].path, q[2]).loc
      BY <3>2 DEF Recorded
    <3>4. Record(q) = Entry(p)
      BY <3>3
    <3> HIDE DEF Record, Entry, Named
    <3>5. QED
      BY <3>4
  <2>7. Left = Right
    <3> HIDE DEF Record, Entry, Named, paths
    <3>1. QED
      BY <2>5, <2>6
  <2>8. QED
    BY <2>3, <2>7
<1>2. QED
  BY <1>1, SnapshotsStayWhole, PTL

=============================================================================
