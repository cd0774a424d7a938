---------------------------- MODULE FilesProofs -----------------------------
(***************************************************************************)
(* The tokens of a Project, for any files, any edits and any number of     *)
(* lanes: the pools give every lane work, the lanes tokenize every header  *)
(* and source exactly once however they interleave, a BUILD reads the      *)
(* words of an unchanged file through the committed image, and the file    *)
(* that is reported is the first that is rejected.  And the dependency     *)
(* topology of its files: the tables both ways, over committed ones too,   *)
(* are the relation the callers declared.  And what a BUILD does with      *)
(* them: it finds every edit since its REBUILD began and treats exactly    *)
(* the roots that an edit reaches.                                         *)
(***************************************************************************)
EXTENDS LexicalState, FileTopology, IncrementalBuild, Integers, FiniteSetTheorems, SequenceTheorems,
        WellFoundedInduction, TLAPS

\* A set of numbers that is not empty has a least one.
LEMMA LeastNat ==
  ASSUME NEW T \in SUBSET Nat, T # {}
  PROVE  \E n \in T : \A m \in T : n <= m
<1> DEFINE R == {pair \in Nat \X Nat : pair[1] < pair[2]}
<1>1. IsWellFoundedOn(OpToRel(<, Nat), Nat)
  BY NatLessThanWellFounded
<1>2. OpToRel(<, Nat) = R
  BY DEF OpToRel
<1>3. IsWellFoundedOn(R, Nat)
  BY <1>1, <1>2
<1>4. \A m, n \in Nat : m < n => <<m, n>> \in R
  OBVIOUS
<1> HIDE DEF R
<1>5. PICK n \in T : \A m \in T : ~(<<m, n>> \in R)
  BY <1>3, WFMin
<1>6. ASSUME NEW m \in T PROVE n <= m
  <2>1. m \in Nat /\ n \in Nat
    OBVIOUS
  <2>2. ~(m < n)
    BY <1>4, <1>5, <2>1, Zenon
  <2>3. QED
    BY <2>1, <2>2
<1>7. QED
  BY <1>6

\* What holds of 0 and goes on from each number holds up to any bound.
LEMMA UpTo ==
  ASSUME NEW N \in Nat, NEW S, 0 \in S, \A n \in Nat : n < N /\ n \in S => n + 1 \in S
  PROVE  \A n \in 0..N : n \in S
<1> DEFINE T == {n \in Nat : n <= N /\ n \notin S}
<1>1. SUFFICES ASSUME T # {} PROVE FALSE
  OBVIOUS
<1>2. PICK n \in T : \A m \in T : n <= m
  BY <1>1, LeastNat
<1>3. n # 0
  OBVIOUS
<1>4. n - 1 \in Nat /\ n - 1 \notin T /\ n - 1 < N
  BY <1>2, <1>3
<1>5. n - 1 \in S
  BY <1>4
<1>6. QED
  BY <1>4, <1>5

-----------------------------------------------------------------------------
(***************************************************************************)
(* The pools                                                               *)
(***************************************************************************)

\* The pools of the lanes are in order, cover the work list, and each of
\* them holds a file to tokenize.
Cut(pools, weights, lanes) ==
  /\ DOMAIN pools = 1..lanes
  /\ \A l \in 1..lanes : /\ pools[l][1] \in 1..Len(weights) /\ pools[l][2] \in 1..Len(weights)
                         /\ \E i \in pools[l][1]..pools[l][2] : weights[i] # 0
  /\ \A k, l \in 1..lanes : k < l => pools[k][2] < pools[l][1]
  /\ \A i \in 1..Len(weights) : \E l \in 1..lanes : i \in pools[l][1]..pools[l][2]

PoolStart(weights) ==
  [lane |-> 0, begin |-> 1, left |-> WorkCount(weights),
   assigned |-> 0, weight |-> 0, pools |-> <<>>]

Take(state, w) == [state EXCEPT !.weight = @ + w, !.left = @ - 1]

Close(taken, i) ==
  [taken EXCEPT !.lane = @ + 1, !.begin = i + 1, !.weight = 0,
                !.assigned = @ + taken.weight,
                !.pools = Append(@, <<taken.begin, i>>)]

PoolStep(weights, lanes, state, i) ==
  IF weights[i] = 0 THEN state
  ELSE IF ClosePool(Take(state, weights[i]), i, lanes, TotalWeight(weights))
       THEN Close(Take(state, weights[i]), i)
  ELSE Take(state, weights[i])

PooledBy(g, weights, lanes, n) ==
  IF n = 0 THEN PoolStart(weights) ELSE PoolStep(weights, lanes, g[n - 1], n)

LEMMA PooledUpTo ==
  ASSUME NEW weights, NEW lanes, NEW N \in Nat
  PROVE  \E g : g = [n \in 0..N |-> PooledBy(g, weights, lanes, n)]
<1> DEFINE By(g, n) == PooledBy(g, weights, lanes, n)
           S == {m \in Nat : \E g : g = [n \in 0..m |-> By(g, n)]}
<1>1. \A g, h, n : (n # 0 => g[n - 1] = h[n - 1]) => By(g, n) = By(h, n)
  BY DEF PooledBy
<1>2. \A g, h : By(g, 0) = By(h, 0)
  BY DEF PooledBy
<1>3. \A g : By(g, 0) = PoolStart(weights)
  BY DEF PooledBy
<1> HIDE DEF By
<1>4. 0 \in S
  <2> DEFINE g == [n \in 0..0 |-> By(<<>>, 0)]
  <2>1. g = [n \in 0..0 |-> By(g, n)]
    BY <1>2
  <2>2. QED
    BY <2>1
<1>5. ASSUME NEW m \in Nat, m \in S PROVE m + 1 \in S
  <2>1. PICK g : g = [n \in 0..m |-> By(g, n)]
    BY <1>5
  <2> DEFINE h == [n \in 0..(m + 1) |-> IF n = m + 1 THEN By(g, m + 1) ELSE g[n]]
  <2>2. ASSUME NEW n \in 0..(m + 1) PROVE h[n] = By(h, n)
    <3>1. n # 0 => n - 1 \in 0..(m + 1) /\ n - 1 # m + 1
      OBVIOUS
    <3>2. n # 0 => h[n - 1] = g[n - 1]
      BY <3>1
    <3>3. By(h, n) = By(g, n)
      BY <1>1, <3>2
    <3>4. n # m + 1 => n \in 0..m
      OBVIOUS
    <3>5. n # m + 1 => g[n] = By(g, n)
      BY <2>1, <3>4
    <3>6. QED
      BY <3>3, <3>5
  <2>3. h = [n \in 0..(m + 1) |-> h[n]]
    OBVIOUS
  <2> HIDE DEF h
  <2>4. h = [n \in 0..(m + 1) |-> By(h, n)]
    BY <2>2, <2>3
  <2>5. QED
    BY <2>4
<1> HIDE DEF S
<1>6. N \in S
  BY <1>4, <1>5, UpTo
<1>7. QED
  BY <1>6 DEF S, By

\* The files to tokenize behind position n.
Behind(weights, n) == {i \in DOMAIN weights : weights[i] # 0 /\ i > n}

\* What build_pools keeps while it walks: the lanes after the present one can
\* each have a file, the present one has a file or can still have one, and the
\* pools that are closed end before the present one begins.
PoolNumbers(weights, lanes, state, n) ==
  /\ DOMAIN state = {"lane", "begin", "left", "assigned", "weight", "pools"}
  /\ state.lane \in Nat /\ state.lane + 1 <= lanes
  /\ state.begin \in Nat /\ 1 <= state.begin /\ state.begin <= n + 1
  /\ state.weight \in Nat
  /\ state.left \in Nat /\ state.left = Cardinality(Behind(weights, n))
  /\ state.lane + 1 < lanes => state.left >= lanes - state.lane
  /\ state.weight = 0 => state.left >= 1

PoolTable(weights, state, n) ==
  /\ state.weight # 0 => \E i \in state.begin..n : weights[i] # 0
  /\ state.pools \in Seq((1..n) \X (1..n))
  /\ Len(state.pools) = state.lane
  /\ \A l \in 1..state.lane : /\ state.pools[l][2] < state.begin
                              /\ \E i \in state.pools[l][1]..state.pools[l][2] : weights[i] # 0
  /\ \A k, l \in 1..state.lane : k < l => state.pools[k][2] < state.pools[l][1]
  /\ \A i \in 1..(state.begin - 1) :
        \E l \in 1..state.lane : i \in state.pools[l][1]..state.pools[l][2]

PoolOk(weights, lanes, state, n) == PoolNumbers(weights, lanes, state, n) /\ PoolTable(weights, state, n)

LEMMA BehindNext ==
  ASSUME NEW weights \in Seq(Nat), NEW n \in Nat, n + 1 \in DOMAIN weights
  PROVE  /\ Cardinality(Behind(weights, n)) \in Nat
         /\ Cardinality(Behind(weights, n + 1)) \in Nat
         /\ weights[n + 1] = 0 => Behind(weights, n + 1) = Behind(weights, n)
         /\ weights[n + 1] # 0 =>
              Cardinality(Behind(weights, n + 1)) = Cardinality(Behind(weights, n)) - 1
<1>1. DOMAIN weights = 1..Len(weights) /\ Len(weights) \in Nat
  OBVIOUS
<1>2. IsFiniteSet(1..Len(weights))
  BY <1>1, FS_Interval
<1>3. Behind(weights, n) \subseteq 1..Len(weights) /\ Behind(weights, n + 1) \subseteq 1..Len(weights)
  BY <1>1 DEF Behind
<1>4. IsFiniteSet(Behind(weights, n)) /\ IsFiniteSet(Behind(weights, n + 1))
  BY <1>2, <1>3, FS_Subset
<1>5. weights[n + 1] = 0 => Behind(weights, n + 1) = Behind(weights, n)
  BY <1>1 DEF Behind
<1>6. weights[n + 1] # 0 => /\ n + 1 \in Behind(weights, n)
                            /\ Behind(weights, n + 1) = Behind(weights, n) \ {n + 1}
  BY <1>1 DEF Behind
<1>7. QED
  BY <1>4, <1>5, <1>6, FS_RemoveElement, FS_CardinalityType

LEMMA TakeFields ==
  ASSUME NEW state, NEW w,
         DOMAIN state = {"lane", "begin", "left", "assigned", "weight", "pools"}
  PROVE  /\ DOMAIN Take(state, w) = DOMAIN state
         /\ Take(state, w).lane = state.lane /\ Take(state, w).begin = state.begin
         /\ Take(state, w).left = state.left - 1
         /\ Take(state, w).weight = state.weight + w
         /\ Take(state, w).pools = state.pools
BY DEF Take

LEMMA CloseFields ==
  ASSUME NEW state, NEW i,
         DOMAIN state = {"lane", "begin", "left", "assigned", "weight", "pools"}
  PROVE  /\ DOMAIN Close(state, i) = DOMAIN state
         /\ Close(state, i).lane = state.lane + 1 /\ Close(state, i).begin = i + 1
         /\ Close(state, i).left = state.left
         /\ Close(state, i).weight = 0
         /\ Close(state, i).pools = Append(state.pools, <<state.begin, i>>)
BY DEF Close

LEMMA PoolStepOk ==
  ASSUME NEW weights \in Seq(Nat), NEW lanes \in Nat, NEW n \in Nat, n + 1 \in DOMAIN weights,
         NEW state, PoolOk(weights, lanes, state, n)
  PROVE  PoolOk(weights, lanes, PoolStep(weights, lanes, state, n + 1), n + 1)
<1> DEFINE w == weights[n + 1]
           taken == Take(state, w)
<1>1. w \in Nat
  OBVIOUS
<1>2. CASE w = 0
  <2>1. PoolStep(weights, lanes, state, n + 1) = state
    BY <1>2 DEF PoolStep
  <2>2. Behind(weights, n + 1) = Behind(weights, n)
    BY <1>2, BehindNext
  <2>3. PoolNumbers(weights, lanes, state, n + 1)
    BY <2>2 DEF PoolOk, PoolNumbers
  <2>4. state.pools \in Seq((1..(n + 1)) \X (1..(n + 1)))
    <3>1. state.pools \in Seq((1..n) \X (1..n))
      BY DEF PoolOk, PoolTable
    <3>2. (1..n) \X (1..n) \subseteq (1..(n + 1)) \X (1..(n + 1))
      OBVIOUS
    <3>3. QED
      BY <3>1, <3>2
  <2>5. state.weight # 0 => \E i \in state.begin..(n + 1) : weights[i] # 0
    <3>1. state.begin..n \subseteq state.begin..(n + 1)
      BY DEF PoolOk, PoolNumbers
    <3>2. QED
      BY <3>1 DEF PoolOk, PoolTable
  <2>6. PoolTable(weights, state, n + 1)
    BY <2>4, <2>5 DEF PoolOk, PoolTable
  <2>7. QED
    BY <2>1, <2>3, <2>6 DEF PoolOk
<1>3. CASE w # 0
  <2>1. PoolNumbers(weights, lanes, state, n) /\ PoolTable(weights, state, n)
    BY DEF PoolOk
  <2>2. DOMAIN state = {"lane", "begin", "left", "assigned", "weight", "pools"}
    BY <2>1 DEF PoolNumbers
  <2>3. /\ DOMAIN taken = DOMAIN state
        /\ taken.lane = state.lane /\ taken.begin = state.begin
        /\ taken.left = state.left - 1 /\ taken.weight = state.weight + w
        /\ taken.pools = state.pools
    BY <2>2, TakeFields
  <2> HIDE DEF taken
  <2>4. /\ state.left \in Nat
        /\ taken.left = Cardinality(Behind(weights, n + 1)) /\ taken.left \in Nat
    BY <1>3, <2>1, <2>3, BehindNext DEF PoolNumbers
  <2>5. state.lane \in Nat /\ state.lane + 1 <= lanes /\ state.begin \in Nat /\ state.begin <= n + 1
        /\ state.begin >= 1
    BY <2>1 DEF PoolNumbers
  <2>6. taken.weight \in Nat /\ taken.weight # 0
    BY <1>1, <1>3, <2>1, <2>3, SMTT(20) DEF PoolNumbers
  <2>7. /\ state.pools \in Seq((1..n) \X (1..n)) /\ Len(state.pools) = state.lane
        /\ state.pools \in Seq((1..(n + 1)) \X (1..(n + 1)))
    <3>1. state.pools \in Seq((1..n) \X (1..n)) /\ Len(state.pools) = state.lane
      BY <2>1 DEF PoolTable
    <3>2. (1..n) \X (1..n) \subseteq (1..(n + 1)) \X (1..(n + 1))
      OBVIOUS
    <3>3. QED
      BY <3>1, <3>2
  <2>8. CASE ClosePool(taken, n + 1, lanes, TotalWeight(weights))
    <3> DEFINE closed == Close(taken, n + 1)
    <3>1. PoolStep(weights, lanes, state, n + 1) = closed
      BY <1>3, <2>8 DEF PoolStep, taken
    <3>2. /\ DOMAIN closed = DOMAIN state
          /\ closed.lane = state.lane + 1 /\ closed.begin = (n + 1) + 1
          /\ closed.left = taken.left /\ closed.weight = 0
      <4>1. DOMAIN taken = {"lane", "begin", "left", "assigned", "weight", "pools"}
        BY <2>2, <2>3
      <4>2. /\ DOMAIN closed = DOMAIN taken
            /\ closed.lane = taken.lane + 1 /\ closed.begin = (n + 1) + 1
            /\ closed.left = taken.left /\ closed.weight = 0
        BY <4>1, CloseFields
      <4> HIDE DEF closed
      <4>3. QED
        BY <2>3, <4>2
    <3>3. closed.pools = Append(state.pools, <<state.begin, n + 1>>)
      <4>1. DOMAIN taken = {"lane", "begin", "left", "assigned", "weight", "pools"}
        BY <2>2, <2>3
      <4>2. closed.pools = Append(taken.pools, <<taken.begin, n + 1>>)
        BY <4>1, CloseFields
      <4>3. QED
        BY <2>3, <4>2
    <3> HIDE DEF closed
    <3>4. state.lane + 1 < lanes
      BY <2>3, <2>8 DEF ClosePool
    <3>5. state.left >= lanes - state.lane
      BY <2>1, <3>4 DEF PoolNumbers
    <3>6. closed.left >= lanes - closed.lane /\ closed.left >= 1
      BY <2>3, <2>4, <2>5, <3>2, <3>4, <3>5, SMTT(20)
    <3>7. PoolNumbers(weights, lanes, closed, n + 1)
      BY <2>2, <2>4, <2>5, <3>2, <3>4, <3>6 DEF PoolNumbers
    <3>8. <<state.begin, n + 1>> \in (1..(n + 1)) \X (1..(n + 1))
      BY <2>5
    <3>9. /\ closed.pools \in Seq((1..(n + 1)) \X (1..(n + 1)))
          /\ Len(closed.pools) = state.lane + 1
          /\ \A l \in 1..state.lane : closed.pools[l] = state.pools[l]
          /\ closed.pools[state.lane + 1] = <<state.begin, n + 1>>
      BY <2>5, <2>7, <3>3, <3>8, SMTT(20)
    <3>10. closed.pools[state.lane + 1][1] = state.begin /\ closed.pools[state.lane + 1][2] = n + 1
      BY <3>9
    <3>11. ASSUME NEW l \in 1..state.lane
           PROVE  state.pools[l][1] \in Nat /\ state.pools[l][2] \in Nat
      <4>1. PICK pair : pair = state.pools[l]
        OBVIOUS
      <4>2. pair \in (1..n) \X (1..n)
        BY <2>7, <4>1
      <4>3. pair[1] \in Nat /\ pair[2] \in Nat
        BY <4>2
      <4>4. QED
        BY <4>1, <4>3
    <3>12. ASSUME NEW l \in 1..closed.lane
           PROVE  /\ closed.pools[l][2] < closed.begin
                  /\ \E i \in closed.pools[l][1]..closed.pools[l][2] : weights[i] # 0
      <4>1. CASE l = state.lane + 1
        <5>1. n + 1 \in state.begin..(n + 1)
          BY <2>5
        <5>2. QED
          BY <1>3, <3>2, <3>10, <4>1, <5>1
      <4>2. CASE l # state.lane + 1
        <5>1. l \in 1..state.lane
          BY <2>5, <3>2, <4>2, SMTT(20)
        <5>2. /\ state.pools[l][2] < state.begin
              /\ \E i \in state.pools[l][1]..state.pools[l][2] : weights[i] # 0
          BY <2>1, <5>1 DEF PoolTable
        <5>3. closed.pools[l] = state.pools[l]
          BY <3>9, <5>1
        <5>4. state.pools[l][2] < closed.begin
          <6>1. PICK end : end = state.pools[l][2]
            OBVIOUS
          <6>2. end \in Nat /\ end < state.begin
            BY <3>11, <5>1, <5>2, <6>1
          <6>3. state.begin < closed.begin /\ state.begin \in Nat /\ closed.begin \in Nat
            BY <2>5, <3>2
          <6>4. QED
            BY <6>1, <6>2, <6>3
        <5>5. QED
          BY <5>2, <5>3, <5>4
      <4>3. QED
        BY <4>1, <4>2
    <3>13. ASSUME NEW k \in 1..closed.lane, NEW l \in 1..closed.lane, k < l
           PROVE  closed.pools[k][2] < closed.pools[l][1]
      <4>1. k \in 1..state.lane
        BY <2>5, <3>2, <3>13
      <4>2. k \in 1..state.lane /\ closed.pools[k] = state.pools[k]
        BY <3>9, <4>1
      <4>3. CASE l = state.lane + 1
        <5>1. state.pools[k][2] < state.begin
          BY <2>1, <4>2 DEF PoolTable
        <5>2. QED
          BY <3>10, <4>2, <4>3, <5>1
      <4>4. CASE l # state.lane + 1
        <5>1. l \in 1..state.lane
          BY <2>5, <3>2, <4>4, SMTT(20)
        <5>2. l \in 1..state.lane /\ closed.pools[l] = state.pools[l]
          BY <3>9, <5>1
        <5>3. QED
          BY <2>1, <3>13, <4>2, <5>2 DEF PoolTable
      <4>5. QED
        BY <4>3, <4>4
    <3>14. ASSUME NEW i \in 1..(closed.begin - 1)
           PROVE  \E l \in 1..closed.lane : i \in closed.pools[l][1]..closed.pools[l][2]
      <4>1. CASE i < state.begin
        <5>1. i \in 1..(state.begin - 1)
          BY <2>5, <3>2, <4>1
        <5>2. PICK l \in 1..state.lane : i \in state.pools[l][1]..state.pools[l][2]
          BY <2>1, <5>1 DEF PoolTable
        <5>3. l \in 1..closed.lane
          BY <2>5, <3>2
        <5>4. QED
          BY <3>9, <5>2, <5>3
      <4>2. CASE i >= state.begin
        <5>1. i \in state.begin..(n + 1)
          BY <2>5, <3>2, <4>2
        <5>2. state.lane + 1 \in 1..closed.lane
          BY <2>5, <3>2
        <5>3. QED
          BY <3>10, <5>1, <5>2
      <4>3. QED
        BY <2>5, <3>2, <4>1, <4>2
    <3>15. PoolTable(weights, closed, n + 1)
      BY <3>2, <3>9, <3>12, <3>13, <3>14 DEF PoolTable
    <3>16. QED
      BY <3>1, <3>7, <3>15 DEF PoolOk
  <2>9. CASE ~ClosePool(taken, n + 1, lanes, TotalWeight(weights))
    <3>1. PoolStep(weights, lanes, state, n + 1) = taken
      BY <1>3, <2>9 DEF PoolStep, taken
    <3>2. taken.lane + 1 < lanes => taken.left >= lanes - taken.lane
      <4>1. taken.lane + 1 < lanes => ~(taken.left <= lanes - taken.lane - 1)
        BY <2>9 DEF ClosePool
      <4>2. QED
        BY <2>3, <2>4, <2>5, <4>1, SMTT(20)
    <3>3. PoolNumbers(weights, lanes, taken, n + 1)
      BY <2>2, <2>3, <2>4, <2>5, <2>6, <3>2 DEF PoolNumbers
    <3>4. n + 1 \in state.begin..(n + 1)
      BY <2>5
    <3>5. \E i \in taken.begin..(n + 1) : weights[i] # 0
      BY <1>3, <2>3, <3>4
    <3>6. PoolTable(weights, taken, n + 1)
      BY <2>1, <2>3, <2>7, <3>5 DEF PoolTable
    <3>7. QED
      BY <3>1, <3>3, <3>6 DEF PoolOk
  <2>10. QED
    BY <2>8, <2>9
<1>4. QED
  BY <1>2, <1>3

\* build_pools finds a pool with work for each of the lanes, as long as there
\* are as many files to tokenize as lanes.
LEMMA BuildPoolsCut ==
  ASSUME NEW weights \in Seq(Nat), NEW lanes \in Nat \ {0}, lanes <= WorkCount(weights)
  PROVE  BuildPools(weights, lanes) # <<>> /\ Cut(BuildPools(weights, lanes), weights, lanes)
<1> DEFINE N == Len(weights)
           pooled == CHOOSE g : g = [n \in 0..N |-> PooledBy(g, weights, lanes, n)]
           final == pooled[N]
           S == {n \in Nat : PoolOk(weights, lanes, pooled[n], n)}
<1>1. N \in Nat /\ DOMAIN weights = 1..N
  OBVIOUS
<1>2. BuildPools(weights, lanes) = IF final.lane + 1 # lanes THEN <<>>
                                   ELSE Append(final.pools, <<final.begin, N>>)
  BY DEF BuildPools, PooledBy, PoolStep, PoolStart, Take, Close
<1>3. pooled = [n \in 0..N |-> PooledBy(pooled, weights, lanes, n)]
  BY <1>1, PooledUpTo
<1> HIDE DEF pooled
<1>4. 0 \in S
  <2>1. pooled[0] = PoolStart(weights)
    BY <1>1, <1>3 DEF PooledBy
  <2>2. Behind(weights, 0) = {i \in DOMAIN weights : weights[i] # 0}
    BY <1>1 DEF Behind
  <2>3. WorkCount(weights) \in Nat
    <3>1. IsFiniteSet(1..N)
      BY <1>1, FS_Interval
    <3>2. {i \in DOMAIN weights : weights[i] # 0} \subseteq 1..N
      BY <1>1
    <3>3. QED
      BY <3>1, <3>2, FS_Subset, FS_CardinalityType DEF WorkCount
  <2>4. <<>> \in Seq((1..0) \X (1..0)) /\ Len(<<>>) = 0
    OBVIOUS
  <2>5. PoolNumbers(weights, lanes, PoolStart(weights), 0)
    <3> DEFINE count == WorkCount(weights)
    <3>1. count \in Nat /\ lanes <= count /\ count = Cardinality(Behind(weights, 0))
      BY <2>2, <2>3 DEF WorkCount
    <3> HIDE DEF count
    <3>2. PoolStart(weights) = [lane |-> 0, begin |-> 1, left |-> count,
                                assigned |-> 0, weight |-> 0, pools |-> <<>>]
      BY DEF PoolStart, count
    <3>3. QED
      BY <3>1, <3>2 DEF PoolNumbers
  <2>6. PoolTable(weights, PoolStart(weights), 0)
    BY <2>4 DEF PoolTable, PoolStart
  <2>7. QED
    BY <2>1, <2>5, <2>6 DEF PoolOk
<1>5. ASSUME NEW n \in Nat, n < N, n \in S PROVE n + 1 \in S
  <2>1. n + 1 \in 0..N /\ n + 1 # 0 /\ (n + 1) - 1 = n
    BY <1>1, <1>5
  <2>2. pooled[n + 1] = PoolStep(weights, lanes, pooled[n], n + 1)
    BY <1>3, <2>1 DEF PooledBy
  <2>3. n + 1 \in DOMAIN weights
    BY <1>1, <1>5
  <2>4. QED
    BY <1>5, <2>2, <2>3, PoolStepOk
<1> HIDE DEF S
<1>6. N \in S
  <2>1. \A n \in 0..N : n \in S
    BY <1>1, <1>4, <1>5, UpTo
  <2>2. QED
    BY <1>1, <2>1
<1>7. PoolNumbers(weights, lanes, final, N) /\ PoolTable(weights, final, N)
  BY <1>6 DEF S, PoolOk
<1> HIDE DEF final
<1>8. Behind(weights, N) = {}
  BY <1>1 DEF Behind
<1>9. final.left = 0
  BY <1>7, <1>8, FS_EmptySet DEF PoolNumbers
<1>10. final.lane + 1 = lanes /\ final.weight # 0
  BY <1>7, <1>9 DEF PoolNumbers
<1> DEFINE pools == Append(final.pools, <<final.begin, N>>)
<1>11. BuildPools(weights, lanes) = pools
  BY <1>2, <1>10
<1>12. PICK i \in final.begin..N : weights[i] # 0
  BY <1>7, <1>10 DEF PoolTable
<1>13. final.begin \in 1..N /\ N \in 1..N
  BY <1>1, <1>7, <1>12 DEF PoolNumbers
<1>14. final.lane = lanes - 1
  BY <1>7, <1>10, SMTT(20) DEF PoolNumbers
<1>15. final.pools \in Seq((1..N) \X (1..N)) /\ Len(final.pools) = lanes - 1
  BY <1>7, <1>14 DEF PoolTable
<1>16. /\ pools \in Seq((1..N) \X (1..N)) /\ Len(pools) = lanes /\ DOMAIN pools = 1..lanes
       /\ \A l \in 1..(lanes - 1) : pools[l] = final.pools[l]
       /\ pools[lanes] = <<final.begin, N>>
  <2>1. PICK pair, cuts, before : pair = <<final.begin, N>> /\ cuts = (1..N) \X (1..N)
                                  /\ before = final.pools
    OBVIOUS
  <2>2. pair \in cuts /\ before \in Seq(cuts) /\ Len(before) = lanes - 1
    BY <1>13, <1>15, <2>1
  <2>3. /\ Append(before, pair) \in Seq(cuts)
        /\ Len(Append(before, pair)) = Len(before) + 1
        /\ \A p \in 1..Len(before) : Append(before, pair)[p] = before[p]
        /\ Append(before, pair)[Len(before) + 1] = pair
    BY <2>2, AppendProperties
  <2>4. Len(before) + 1 = lanes
    BY <1>1, <2>2
  <2>5. pools = Append(before, pair)
    BY <2>1
  <2> HIDE DEF pools
  <2>6. /\ pools \in Seq(cuts) /\ Len(pools) = lanes
        /\ \A l \in 1..(lanes - 1) : pools[l] = before[l]
        /\ pools[lanes] = pair
    BY <2>2, <2>3, <2>4, <2>5
  <2>7. DOMAIN pools = 1..lanes
    BY <2>6
  <2>8. QED
    BY <2>1, <2>6, <2>7
<1> HIDE DEF pools
<1>17. ASSUME NEW l \in 1..lanes
       PROVE  /\ pools[l][1] \in 1..N /\ pools[l][2] \in 1..N
              /\ \E j \in pools[l][1]..pools[l][2] : weights[j] # 0
  <2>1. pools[l] \in (1..N) \X (1..N)
    BY <1>16
  <2>2. CASE l = lanes
    BY <1>12, <1>16, <2>1, <2>2
  <2>3. CASE l # lanes
    <3>1. l \in 1..(lanes - 1)
      BY <2>3
    <3>2. QED
      BY <1>7, <1>16, <1>14, <2>1, <3>1 DEF PoolTable
  <2>4. QED
    BY <2>2, <2>3
<1>18. ASSUME NEW k \in 1..lanes, NEW l \in 1..lanes, k < l PROVE pools[k][2] < pools[l][1]
  <2>1. k \in 1..(lanes - 1)
    BY <1>18
  <2>2. CASE l = lanes
    <3>1. final.pools[k][2] < final.begin
      BY <1>7, <1>14, <2>1 DEF PoolTable
    <3>2. QED
      BY <1>16, <2>1, <2>2, <3>1, SMTT(20)
  <2>3. CASE l # lanes
    <3>1. l \in 1..(lanes - 1)
      BY <2>3
    <3>2. QED
      BY <1>7, <1>16, <1>14, <1>18, <2>1, <3>1 DEF PoolTable
  <2>4. QED
    BY <2>2, <2>3
<1>19. ASSUME NEW j \in 1..N PROVE \E l \in 1..lanes : j \in pools[l][1]..pools[l][2]
  <2>1. CASE j < final.begin
    <3>1. j \in 1..(final.begin - 1)
      BY <1>13, <2>1
    <3>2. PICK l \in 1..(lanes - 1) : j \in final.pools[l][1]..final.pools[l][2]
      BY <1>7, <1>14, <3>1 DEF PoolTable
    <3>3. l \in 1..lanes
      OBVIOUS
    <3>4. QED
      BY <1>16, <3>2, <3>3
  <2>2. CASE j >= final.begin
    <3>1. j \in final.begin..N /\ lanes \in 1..lanes
      BY <1>13, <2>2
    <3>2. pools[lanes][1] = final.begin /\ pools[lanes][2] = N
      BY <1>16
    <3>3. QED
      BY <3>1, <3>2
  <2>3. QED
    BY <1>13, <2>1, <2>2
<1>20. Cut(pools, weights, lanes)
  BY <1>16, <1>17, <1>18, <1>19 DEF Cut
<1>21. pools # <<>>
  BY <1>16
<1>22. QED
  BY <1>11, <1>20, <1>21

-----------------------------------------------------------------------------
(***************************************************************************)
(* The work list of a BUILD                                                *)
(***************************************************************************)

ListedBy(g, changed, n) ==
  IF n = 0 THEN <<>>
  ELSE IF n \in changed THEN Append(g[n - 1], n) ELSE g[n - 1]

LEMMA ListedUpTo ==
  ASSUME NEW changed, NEW N \in Nat
  PROVE  \E g : g = [n \in 0..N |-> ListedBy(g, changed, n)]
<1> DEFINE By(g, n) == ListedBy(g, changed, n)
           S == {m \in Nat : \E g : g = [n \in 0..m |-> By(g, n)]}
<1>1. \A g, h, n : (n # 0 => g[n - 1] = h[n - 1]) => By(g, n) = By(h, n)
  BY DEF ListedBy
<1>2. \A g, h : By(g, 0) = By(h, 0)
  BY DEF ListedBy
<1> HIDE DEF By
<1>3. 0 \in S
  <2> DEFINE g == [n \in 0..0 |-> By(<<>>, 0)]
  <2>1. g = [n \in 0..0 |-> By(g, n)]
    BY <1>2
  <2>2. QED
    BY <2>1
<1>4. ASSUME NEW m \in Nat, m \in S PROVE m + 1 \in S
  <2>1. PICK g : g = [n \in 0..m |-> By(g, n)]
    BY <1>4
  <2> DEFINE h == [n \in 0..(m + 1) |-> IF n = m + 1 THEN By(g, m + 1) ELSE g[n]]
  <2>2. ASSUME NEW n \in 0..(m + 1) PROVE h[n] = By(h, n)
    <3>1. n # 0 => n - 1 \in 0..(m + 1) /\ n - 1 # m + 1
      OBVIOUS
    <3>2. n # 0 => h[n - 1] = g[n - 1]
      BY <3>1
    <3>3. By(h, n) = By(g, n)
      BY <1>1, <3>2
    <3>4. n # m + 1 => n \in 0..m
      OBVIOUS
    <3>5. n # m + 1 => g[n] = By(g, n)
      BY <2>1, <3>4
    <3>6. QED
      BY <3>3, <3>5
  <2>3. h = [n \in 0..(m + 1) |-> h[n]]
    OBVIOUS
  <2> HIDE DEF h
  <2>4. h = [n \in 0..(m + 1) |-> By(h, n)]
    BY <2>2, <2>3
  <2>5. QED
    BY <2>4
<1> HIDE DEF S
<1>5. N \in S
  BY <1>3, <1>4, UpTo
<1>6. QED
  BY <1>5 DEF S, By

\* A list of files in ascending order.
Ascending(list) ==
  /\ list \in Seq(Nat)
  /\ \A i, j \in 1..Len(list) : i < j => list[i] < list[j]

\* The list holds the changed files up to n and is in order.
ListOk(list, changed, n) ==
  /\ Ascending(list)
  /\ \A i \in 1..Len(list) : list[i] \in changed /\ list[i] \in 1..n
  /\ \A f \in 1..n : f \in changed => \E i \in 1..Len(list) : list[i] = f

LEMMA InOrderLists ==
  ASSUME NEW changed, NEW N \in Nat PROVE ListOk(InOrder(changed, N), changed, N)
<1> DEFINE listed == CHOOSE g : g = [n \in 0..N |-> ListedBy(g, changed, n)]
           S == {n \in Nat : ListOk(listed[n], changed, n)}
<1>1. InOrder(changed, N) = listed[N]
  BY DEF InOrder, ListedBy
<1>2. listed = [n \in 0..N |-> ListedBy(listed, changed, n)]
  BY ListedUpTo
<1> HIDE DEF listed
<1>3. 0 \in S
  <2>1. listed[0] = <<>>
    BY <1>2 DEF ListedBy
  <2>2. <<>> \in Seq(Nat) /\ Len(<<>>) = 0
    OBVIOUS
  <2>3. ListOk(<<>>, changed, 0)
    BY <2>2 DEF ListOk, Ascending
  <2>4. QED
    BY <2>1, <2>3
<1>4. ASSUME NEW n \in Nat, n < N, n \in S PROVE n + 1 \in S
  <2> DEFINE old == listed[n]
             new == listed[n + 1]
             L == Len(old)
  <2>1. n + 1 \in 0..N /\ n + 1 # 0 /\ (n + 1) - 1 = n
    BY <1>4
  <2>2. new = IF n + 1 \in changed THEN Append(old, n + 1) ELSE old
    BY <1>2, <2>1 DEF ListedBy
  <2>3. ListOk(old, changed, n)
    BY <1>4
  <2> HIDE DEF new, old
  <2>4. old \in Seq(Nat) /\ L \in Nat /\ \A i \in 1..L : old[i] \in 1..n
    BY <2>3 DEF ListOk, Ascending
  <2>5. CASE n + 1 \notin changed
    <3>1. new = old
      BY <2>2, <2>5
    <3>2. \A f \in 1..(n + 1) : f \in changed => f \in 1..n
      BY <2>5
    <3>3. ListOk(old, changed, n + 1)
      BY <2>3, <2>4, <3>2 DEF ListOk
    <3>4. QED
      BY <3>1, <3>3 DEF new
  <2>6. CASE n + 1 \in changed
    <3>1. new = Append(old, n + 1)
      BY <2>2, <2>6
    <3>2. /\ new \in Seq(Nat) /\ Len(new) = L + 1
          /\ \A i \in 1..L : new[i] = old[i]
          /\ new[L + 1] = n + 1
      BY <2>4, <3>1
    <3>3. ASSUME NEW i \in 1..Len(new), NEW j \in 1..Len(new), i < j PROVE new[i] < new[j]
      <4>1. i \in 1..L
        BY <2>4, <3>2, <3>3
      <4>2. CASE j = L + 1
        <5>1. new[i] = old[i] /\ old[i] \in 1..n /\ new[j] = n + 1
          BY <2>4, <3>2, <4>1, <4>2
        <5>2. QED
          BY <5>1
      <4>3. CASE j # L + 1
        <5>1. j \in 1..L
          BY <2>4, <3>2, <4>3
        <5>2. QED
          BY <2>3, <3>2, <3>3, <4>1, <5>1 DEF ListOk, Ascending
      <4>4. QED
        BY <4>2, <4>3
    <3>4. ASSUME NEW i \in 1..Len(new) PROVE new[i] \in changed /\ new[i] \in 1..(n + 1)
      <4>1. CASE i = L + 1
        BY <2>6, <3>2, <4>1
      <4>2. CASE i # L + 1
        <5>1. i \in 1..L
          BY <2>4, <3>2, <4>2
        <5>2. old[i] \in changed /\ old[i] \in 1..n
          BY <2>3, <5>1 DEF ListOk
        <5>3. QED
          BY <3>2, <5>1, <5>2
      <4>3. QED
        BY <4>1, <4>2
    <3>5. ASSUME NEW f \in 1..(n + 1), f \in changed PROVE \E i \in 1..Len(new) : new[i] = f
      <4>1. CASE f = n + 1
        <5>1. L + 1 \in 1..Len(new)
          BY <2>4, <3>2
        <5>2. QED
          BY <3>2, <4>1, <5>1
      <4>2. CASE f # n + 1
        <5>1. f \in 1..n
          BY <4>2
        <5>2. PICK i \in 1..L : old[i] = f
          BY <2>3, <3>5, <5>1 DEF ListOk
        <5>3. i \in 1..Len(new)
          BY <2>4, <3>2
        <5>4. QED
          BY <3>2, <5>2, <5>3
      <4>3. QED
        BY <4>1, <4>2
    <3>6. ListOk(new, changed, n + 1)
      BY <3>2, <3>3, <3>4, <3>5 DEF ListOk, Ascending
    <3>7. QED
      BY <3>6 DEF new
  <2>7. QED
    BY <2>5, <2>6
<1> HIDE DEF S
<1>5. N \in S
  <2>1. \A n \in 0..N : n \in S
    BY <1>3, <1>4, UpTo
  <2>2. QED
    BY <2>1
<1>6. QED
  BY <1>1, <1>5 DEF S

-----------------------------------------------------------------------------
(***************************************************************************)
(* The invariant                                                           *)
(***************************************************************************)

LexFields == {"phase", "files", "changed", "baseline", "records", "arenas", "work", "pools",
              "cursor", "status", "result", "failed"}

FilesOk(s) ==
  /\ s.files \in Seq(Range(s.files))
  /\ \A f \in DOMAIN s.files : IsSourceFile(s.files[f])

\* The file is read through the committed image.
Settled(s, f) == f <= Len(s.baseline) /\ f \notin s.changed

CommittedExact(s, f) ==
  IF WorkWeight(s.files, f) = 0 THEN s.baseline[f] = NoRecord
  ELSE /\ s.baseline[f] # NoRecord
       /\ s.baseline[f].words = s.files[f].words
       /\ s.files[f].error = FALSE

Committed(s) ==
  /\ Len(s.baseline) \in Nat
  /\ \A f \in DOMAIN s.files : Settled(s, f) => CommittedExact(s, f)

\* A record points at the words of its file.
RecordExact(s, r, f) ==
  /\ r.arena \in 1..LexicalLanes /\ r.offset \in Nat /\ r.count \in Nat
  /\ r.offset + r.count <= Len(s.arenas[r.arena])
  /\ WordsAt(s.arenas, r) = s.files[f].words

Stored(s) ==
  /\ DOMAIN s.arenas = 1..LexicalLanes
  /\ \A l \in 1..LexicalLanes : s.arenas[l] \in Seq(Range(s.arenas[l]))
  /\ DOMAIN s.records = DOMAIN s.files
  /\ \A f \in DOMAIN s.files :
        s.records[f] # NoRecord => WorkWeight(s.files, f) # 0 /\ RecordExact(s, s.records[f], f)

Fresh(s) ==
  /\ s.arenas = [l \in 1..LexicalLanes |-> <<>>]
  /\ s.records = [f \in DOMAIN s.files |-> NoRecord]

\* The work list is in order and holds what is not read from the image.
WorkOk(s, list) ==
  /\ Ascending(list)
  /\ \A i \in 1..Len(list) : list[i] \in DOMAIN s.files /\ ~Settled(s, list[i])
  /\ \A f \in DOMAIN s.files : Settled(s, f) \/ \E i \in 1..Len(list) : list[i] = f

WorkWeights(s, list) == [i \in DOMAIN list |-> WorkWeight(s.files, list[i])]

\* A lane has published or passed over what is before its cursor, and nothing
\* behind it; it stops where the lexer rejects a file.
LaneOk(s, l) ==
  /\ s.cursor[l] \in Nat /\ s.pools[l][1] <= s.cursor[l] /\ s.cursor[l] <= s.pools[l][2] + 1
  /\ \A i \in s.pools[l][1]..(s.cursor[l] - 1) :
        \/ WorkWeight(s.files, s.work[i]) = 0
        \/ s.records[s.work[i]] # NoRecord /\ s.files[s.work[i]].error = FALSE
  /\ \A i \in s.cursor[l]..s.pools[l][2] : s.records[s.work[i]] = NoRecord
  /\ s.status[l] # 0 => /\ s.cursor[l] <= s.pools[l][2]
                        /\ s.status[l] = s.work[s.cursor[l]]
                        /\ WorkWeight(s.files, s.status[l]) # 0
                        /\ s.files[s.status[l]].error = TRUE

Lexing(s) ==
  /\ Stored(s)
  /\ Committed(s)
  /\ WorkOk(s, s.work)
  /\ \E lanes \in 1..LexicalLanes :
        /\ Cut(s.pools, WorkWeights(s, s.work), lanes)
        /\ DOMAIN s.cursor = 1..lanes /\ DOMAIN s.status = 1..lanes
  /\ \A l \in DOMAIN s.pools : LaneOk(s, l)

\* Every header and source has the words of its bytes.
Done(s) ==
  /\ Rejected(s) = {}
  /\ \A f \in DOMAIN s.files :
        IF WorkWeight(s.files, f) = 0 THEN Words(s, f) = <<>> /\ ~Available(s, f)
        ELSE Words(s, f) = s.files[f].words /\ Available(s, f)

Bound(s) ==
  /\ Fresh(s)
  /\ Committed(s)
  /\ \A f \in DOMAIN s.files : Settled(s, f) \/ f \in s.changed

FirstRejected(s) ==
  s.failed \in Rejected(s) /\ \A f \in Rejected(s) : s.failed <= f

LexInvOf(s) ==
  /\ DOMAIN s = LexFields
  /\ s.phase \in {"idle", "lexing", "done", "bound", "failed"}
  /\ s.result # "pools"
  /\ s.phase = "idle" => s.baseline = <<>> /\ s.changed = {}
  /\ s.phase \in {"lexing", "done", "bound"} => FilesOk(s)
  /\ s.phase = "lexing" => Lexing(s)
  /\ s.phase = "done" => Done(s)
  /\ s.phase = "bound" => Bound(s)
  /\ s.result = "lexical" => s.phase = "failed" /\ FirstRejected(s)

LexInv == LexInvOf(lex)

-----------------------------------------------------------------------------
(***************************************************************************)
(* Files and words                                                         *)
(***************************************************************************)

LEMMA FilesDomain == ASSUME NEW s, FilesOk(s) PROVE Len(s.files) \in Nat /\ DOMAIN s.files = 1..Len(s.files)
BY DEF FilesOk

LEMMA WeightIsNat ==
  ASSUME NEW s, FilesOk(s), NEW f \in DOMAIN s.files
  PROVE  /\ WorkWeight(s.files, f) \in Nat
         /\ WorkWeight(s.files, f) = 0 <=> s.files[f] = Missing \/ ~LexicalKind(s.files[f])
         /\ WorkWeight(s.files, f) # 0 => /\ s.files[f].words \in Seq(Range(s.files[f].words))
                                          /\ s.files[f].error \in BOOLEAN
<1> DEFINE file == s.files[f]
<1>1. IsSourceFile(file)
  BY DEF FilesOk
<1> HIDE DEF file
<1>2. CASE file = Missing \/ ~LexicalKind(file)
  BY <1>2 DEF WorkWeight, file
<1>3. CASE ~(file = Missing \/ ~LexicalKind(file))
  <2>1. WorkWeight(s.files, f) = Weight(file)
    BY <1>3 DEF WorkWeight, file
  <2>2. file.words \in Seq(Range(file.words)) /\ file.error \in BOOLEAN
    BY <1>1, <1>3 DEF IsSourceFile
  <2>3. Len(file.words) \in Nat /\ (file.words # <<>> => Len(file.words) # 0)
    BY <2>2, EmptySeq
  <2>4. Weight(file) \in Nat /\ Weight(file) # 0
    BY <2>3 DEF Weight
  <2>5. QED
    BY <1>3, <2>1, <2>2, <2>4 DEF file
<1>4. QED
  BY <1>2, <1>3

\* The files the lexer rejects.
LEMMA RejectedIs ==
  ASSUME NEW s, FilesOk(s)
  PROVE  /\ Rejected(s) \subseteq DOMAIN s.files
         /\ \A f \in DOMAIN s.files :
               f \in Rejected(s) <=> WorkWeight(s.files, f) # 0 /\ s.files[f].error = TRUE
<1>1. ASSUME NEW f \in DOMAIN s.files
      PROVE  f \in Rejected(s) <=> WorkWeight(s.files, f) # 0 /\ s.files[f].error = TRUE
  <2>1. /\ WorkWeight(s.files, f) = 0 <=> s.files[f] = Missing \/ ~LexicalKind(s.files[f])
        /\ WorkWeight(s.files, f) # 0 => s.files[f].error \in BOOLEAN
    BY WeightIsNat
  <2>2. QED
    BY <2>1, Zenon DEF Rejected
<1>2. QED
  BY <1>1 DEF Rejected

LEMMA SameRejected ==
  ASSUME NEW s, NEW t, t.files = s.files PROVE Rejected(t) = Rejected(s)
BY DEF Rejected

\* A slice of a sequence, by its length and its elements.
LEMMA SliceFacts ==
  ASSUME NEW S, NEW s \in Seq(S), NEW off \in Nat, NEW n \in Nat, off + n <= Len(s)
  PROVE  /\ SubSeq(s, off + 1, off + n) \in Seq(S)
         /\ Len(SubSeq(s, off + 1, off + n)) = n
         /\ \A i \in 1..n : SubSeq(s, off + 1, off + n)[i] = s[off + i]
<1>1. PICK first, last : first = off + 1 /\ last = off + n
  OBVIOUS
<1>2. first \in Int /\ last \in Int /\ Len(s) \in Nat
  BY <1>1
<1>3. \A i \in first..last : s[i] \in S
  <2>1. \A i \in first..last : i \in 1..Len(s)
    BY <1>1, <1>2
  <2>2. QED
    BY <2>1
<1>4. /\ SubSeq(s, first, last) \in Seq(S)
      /\ Len(SubSeq(s, first, last)) = IF first <= last THEN last - first + 1 ELSE 0
      /\ \A i \in 1..(last - first + 1) : SubSeq(s, first, last)[i] = s[first + i - 1]
  BY <1>2, <1>3, SubSeqProperties
<1>5. PICK u : u = SubSeq(s, first, last)
  OBVIOUS
<1>6. /\ u \in Seq(S)
      /\ Len(u) = IF first <= last THEN last - first + 1 ELSE 0
      /\ \A i \in 1..(last - first + 1) : u[i] = s[first + i - 1]
  BY <1>4, <1>5
<1>7. last - first + 1 = n /\ (first <= last <=> n > 0)
  BY <1>1
<1>8. Len(u) = n
  BY <1>6, <1>7
<1>9. \A i \in 1..n : first + i - 1 = off + i
  BY <1>1
<1>10. \A i \in 1..n : u[i] = s[off + i]
  BY <1>6, <1>7, <1>9
<1>11. QED
  BY <1>1, <1>5, <1>6, <1>8, <1>10

\* What is appended to an arena leaves the words before it.
LEMMA SliceKept ==
  ASSUME NEW S, NEW a \in Seq(S), NEW b \in Seq(S), NEW off \in Nat, NEW n \in Nat, off + n <= Len(a)
  PROVE  SubSeq(a \o b, off + 1, off + n) = SubSeq(a, off + 1, off + n)
<1> DEFINE u == SubSeq(a \o b, off + 1, off + n)
           v == SubSeq(a, off + 1, off + n)
<1>1. a \o b \in Seq(S) /\ Len(a \o b) = Len(a) + Len(b) /\ Len(a) \in Nat /\ Len(b) \in Nat
  OBVIOUS
<1>2. \A i \in 1..n : (a \o b)[off + i] = a[off + i]
  BY <1>1
<1>3. u \in Seq(S) /\ Len(u) = n /\ \A i \in 1..n : u[i] = (a \o b)[off + i]
  <2>1. PICK c : c = a \o b
    OBVIOUS
  <2>2. c \in Seq(S) /\ off + n <= Len(c)
    BY <1>1, <2>1
  <2>3. /\ SubSeq(c, off + 1, off + n) \in Seq(S)
        /\ Len(SubSeq(c, off + 1, off + n)) = n
        /\ \A i \in 1..n : SubSeq(c, off + 1, off + n)[i] = c[off + i]
    BY <2>2, SliceFacts
  <2>4. QED
    BY <2>1, <2>3
<1>4. v \in Seq(S) /\ Len(v) = n /\ \A i \in 1..n : v[i] = a[off + i]
  BY SliceFacts
<1> HIDE DEF u, v
<1>5. \A i \in 1..Len(u) : u[i] = v[i]
  BY <1>2, <1>3, <1>4
<1>6. u = v
  BY <1>3, <1>4, <1>5, SeqEqual
<1>7. QED
  BY <1>6 DEF u, v

LEMMA Concatenated ==
  ASSUME NEW S, NEW a \in Seq(S), NEW b \in Seq(S)
  PROVE  /\ Len(a) \in Nat /\ Len(b) \in Nat /\ a \o b \in Seq(S)
         /\ Len(a \o b) \in Nat /\ Len(a \o b) = Len(a) + Len(b) /\ Len(a) <= Len(a \o b)
<1>1. Len(a) \in Nat /\ Len(b) \in Nat /\ Len(a \o b) = Len(a) + Len(b) /\ a \o b \in Seq(S)
  OBVIOUS
<1> DEFINE m == Len(a)
           n == Len(b)
           k == Len(a \o b)
<1>2. m \in Nat /\ n \in Nat /\ k = m + n
  BY <1>1
<1> HIDE DEF m, n, k
<1>3. k \in Nat /\ m <= k
  BY <1>2
<1>4. QED
  BY <1>1, <1>3 DEF m, n, k

LEMMA SliceOfNew ==
  ASSUME NEW S, NEW a \in Seq(S), NEW b \in Seq(S)
  PROVE  SubSeq(a \o b, Len(a) + 1, Len(a) + Len(b)) = b
<1>1. a \o b \in Seq(S) /\ Len(a \o b) = Len(a) + Len(b)
  OBVIOUS
<1>2. \A i \in 1..Len(b) : (a \o b)[Len(a) + i] = b[i]
  OBVIOUS
<1>3. QED
  BY <1>1, <1>2

-----------------------------------------------------------------------------
(***************************************************************************)
(* Frames, and when the tokens are complete                                *)
(***************************************************************************)

LEMMA FilesFrame ==
  ASSUME NEW s, NEW t, t.files = s.files, t.baseline = s.baseline, t.changed = s.changed
  PROVE  /\ FilesOk(s) => FilesOk(t)
         /\ Committed(s) => Committed(t)
         /\ \A list : WorkOk(s, list) => WorkOk(t, list)
         /\ \A list : WorkWeights(t, list) = WorkWeights(s, list)
         /\ \A f : Settled(t, f) <=> Settled(s, f)
BY DEF FilesOk, Committed, Settled, CommittedExact, WorkOk, WorkWeights

LEMMA StoredFrame ==
  ASSUME NEW s, NEW t, t.files = s.files, t.records = s.records, t.arenas = s.arenas, Stored(s)
  PROVE  Stored(t)
BY DEF Stored, RecordExact

LEMMA FreshIsStored == ASSUME NEW s, FilesOk(s), Fresh(s) PROVE Stored(s)
<1>1. \A l \in 1..LexicalLanes : s.arenas[l] = <<>>
  BY DEF Fresh
<1>2. \A S : <<>> \in Seq(S)
  OBVIOUS
<1>3. QED
  BY <1>1, <1>2 DEF Fresh, Stored

\* When every file outside the image is published or has no words to publish,
\* the tokens are complete.
LEMMA Complete ==
  ASSUME NEW s, FilesOk(s), Stored(s), Committed(s),
         \A f \in DOMAIN s.files :
            \/ Settled(s, f)
            \/ WorkWeight(s.files, f) = 0
            \/ s.records[f] # NoRecord /\ s.files[f].error = FALSE
  PROVE  Done(s)
<1>1. ASSUME NEW f \in DOMAIN s.files
      PROVE  /\ f \notin Rejected(s)
             /\ IF WorkWeight(s.files, f) = 0 THEN Words(s, f) = <<>> /\ ~Available(s, f)
                ELSE Words(s, f) = s.files[f].words /\ Available(s, f)
  <2> DEFINE w == WorkWeight(s.files, f)
  <2>1. f \in Rejected(s) <=> w # 0 /\ s.files[f].error = TRUE
    BY RejectedIs
  <2>2. Settled(s, f) => CommittedExact(s, f)
    BY DEF Committed
  <2>3. CASE s.records[f] # NoRecord
    <3>1. w # 0 /\ WordsAt(s.arenas, s.records[f]) = s.files[f].words
      BY <2>3 DEF Stored, RecordExact
    <3>2. Words(s, f) = s.files[f].words /\ Available(s, f)
      BY <2>3, <3>1 DEF Words, Available
    <3>3. s.files[f].error = FALSE
      BY <2>2, <3>1 DEF CommittedExact
    <3>4. QED
      BY <2>1, <3>1, <3>2, <3>3
  <2>4. CASE s.records[f] = NoRecord /\ Settled(s, f)
    <3>1. CommittedExact(s, f) /\ f <= Len(s.baseline) /\ f \notin s.changed
      BY <2>2, <2>4 DEF Settled
    <3>2. CASE w = 0
      BY <2>1, <2>4, <3>1, <3>2 DEF CommittedExact, Words, Available
    <3>3. CASE w # 0
      BY <2>1, <2>4, <3>1, <3>3 DEF CommittedExact, Words, Available
    <3>4. QED
      BY <3>2, <3>3
  <2>5. CASE s.records[f] = NoRecord /\ ~Settled(s, f)
    <3>1. w = 0
      BY <2>5
    <3>2. Words(s, f) = <<>> /\ ~Available(s, f)
      BY <2>5 DEF Words, Available, Settled
    <3>3. QED
      BY <2>1, <3>1, <3>2
  <2>6. QED
    BY <2>3, <2>4, <2>5
<1>2. Rejected(s) = {}
  BY <1>1, RejectedIs
<1>3. QED
  BY <1>1, <1>2 DEF Done

LEMMA WorkWeightsOk ==
  ASSUME NEW s, FilesOk(s), NEW list, WorkOk(s, list)
  PROVE  /\ WorkWeights(s, list) \in Seq(Nat) /\ Len(WorkWeights(s, list)) = Len(list)
         /\ Len(list) \in Nat
         /\ \A i \in 1..Len(list) : WorkWeights(s, list)[i] = WorkWeight(s.files, list[i])
<1>1. list \in Seq(Nat) /\ DOMAIN list = 1..Len(list) /\ Len(list) \in Nat
  BY DEF WorkOk, Ascending
<1>2. \A i \in 1..Len(list) : list[i] \in DOMAIN s.files
  BY DEF WorkOk
<1>3. \A i \in 1..Len(list) : WorkWeight(s.files, list[i]) \in Nat
  BY <1>2, WeightIsNat
<1>4. WorkWeights(s, list) = [i \in 1..Len(list) |-> WorkWeight(s.files, list[i])]
  BY <1>1 DEF WorkWeights
<1>5. WorkWeights(s, list) \in [1..Len(list) -> Nat]
  BY <1>3, <1>4
<1>6. QED
  BY <1>1, <1>4, <1>5

-----------------------------------------------------------------------------
(***************************************************************************)
(* The lanes start                                                         *)
(***************************************************************************)

LEMMA StartOk ==
  ASSUME NEW s, DOMAIN s = LexFields, FilesOk(s), Fresh(s), Committed(s),
         s.result # "pools", s.result # "lexical",
         NEW list, WorkOk(s, list)
  PROVE  LexInvOf(StartLanes(s, list))
<1> DEFINE weights == WorkWeights(s, list)
           count == WorkCount(weights)
           lanes == IF count < LexicalLanes THEN count ELSE LexicalLanes
           pools == BuildPools(weights, lanes)
           none == [s EXCEPT !.phase = "done", !.result = "success"]
           run == [s EXCEPT !.phase = "lexing", !.work = list, !.pools = pools,
                            !.cursor = [l \in 1 .. lanes |-> pools[l][1]],
                            !.status = [l \in 1 .. lanes |-> 0]]
<1>1. weights \in Seq(Nat) /\ Len(weights) = Len(list) /\ Len(list) \in Nat
      /\ \A i \in 1..Len(list) : weights[i] = WorkWeight(s.files, list[i])
  BY WorkWeightsOk
<1>2. count \in Nat /\ (count = 0 => \A i \in 1..Len(list) : weights[i] = 0)
  <2> DEFINE W == {i \in DOMAIN weights : weights[i] # 0}
  <2>1. DOMAIN weights = 1..Len(list)
    BY <1>1
  <2>2. IsFiniteSet(1..Len(list)) /\ W \subseteq 1..Len(list)
    BY <1>1, <2>1, FS_Interval
  <2>3. IsFiniteSet(W)
    BY <2>2, FS_Subset
  <2>4. Cardinality(W) \in Nat /\ (Cardinality(W) = 0 => W = {})
    BY <2>3, FS_CardinalityType, FS_EmptySet
  <2>5. W = {} => \A i \in 1..Len(list) : weights[i] = 0
    BY <1>1
  <2>6. QED
    BY <2>4, <2>5 DEF WorkCount
<1>3. StartLanes(s, list) = IF count = 0 THEN none
                            ELSE IF pools = <<>> THEN [s EXCEPT !.phase = "failed", !.result = "pools"]
                            ELSE run
  BY DEF StartLanes, WorkWeights
<1> HIDE DEF weights, count
<1>4. CASE count = 0
  <2>1. StartLanes(s, list) = none
    BY <1>3, <1>4
  <2>2. /\ DOMAIN none = LexFields /\ none.phase = "done" /\ none.result = "success"
        /\ none.files = s.files /\ none.baseline = s.baseline /\ none.changed = s.changed
        /\ none.records = s.records /\ none.arenas = s.arenas
    BY DEF LexFields
  <2> HIDE DEF none
  <2>3. FilesOk(none) /\ Committed(none) /\ Stored(none)
    BY <2>2, FilesFrame, StoredFrame, FreshIsStored
  <2>4. ASSUME NEW f \in DOMAIN none.files
        PROVE  Settled(none, f) \/ WorkWeight(none.files, f) = 0
    <3>1. CASE Settled(s, f)
      BY <2>2, <3>1, FilesFrame
    <3>2. CASE ~Settled(s, f)
      <4>1. PICK i \in 1..Len(list) : list[i] = f
        BY <2>2, <3>2 DEF WorkOk
      <4>2. QED
        BY <1>1, <1>2, <1>4, <2>2, <4>1
    <3>3. QED
      BY <3>1, <3>2
  <2>5. Done(none)
    BY <2>3, <2>4, Complete
  <2>6. QED
    BY <2>1, <2>2, <2>3, <2>5 DEF LexInvOf
<1>5. CASE count # 0
  <2>1. lanes \in Nat \ {0} /\ lanes <= count /\ lanes \in 1..LexicalLanes
    BY <1>2, <1>5, LexicalStateBounds
  <2> HIDE DEF lanes
  <2>2. pools # <<>> /\ Cut(pools, weights, lanes)
    BY <1>1, <2>1, BuildPoolsCut DEF count
  <2>3. StartLanes(s, list) = run
    BY <1>3, <1>5, <2>2
  <2> HIDE DEF pools
  <2>4. /\ DOMAIN run = LexFields /\ run.phase = "lexing" /\ run.result = s.result
        /\ run.files = s.files /\ run.baseline = s.baseline /\ run.changed = s.changed
        /\ run.records = s.records /\ run.arenas = s.arenas
        /\ run.work = list /\ run.pools = pools
        /\ run.cursor = [l \in 1 .. lanes |-> pools[l][1]]
        /\ run.status = [l \in 1 .. lanes |-> 0]
    BY DEF LexFields
  <2> HIDE DEF run
  <2>5. FilesOk(run) /\ Committed(run) /\ Stored(run) /\ WorkOk(run, run.work)
        /\ WorkWeights(run, run.work) = weights
    BY <2>4, FilesFrame, StoredFrame, FreshIsStored DEF weights
  <2>6. DOMAIN run.pools = 1..lanes
    BY <2>2, <2>4 DEF Cut
  <2>7. ASSUME NEW l \in 1..lanes PROVE LaneOk(run, l)
    <3>1. pools[l][1] \in 1..Len(list) /\ pools[l][2] \in 1..Len(list)
          /\ \E i \in pools[l][1]..pools[l][2] : weights[i] # 0
      BY <1>1, <2>2 DEF Cut
    <3>2. pools[l][1] \in Nat /\ pools[l][2] \in Nat /\ pools[l][1] <= pools[l][2]
      BY <1>1, <3>1
    <3>3. run.cursor[l] = pools[l][1] /\ run.status[l] = 0 /\ run.pools[l] = pools[l]
      BY <2>4
    <3>4. \A i \in pools[l][1]..pools[l][2] : run.records[run.work[i]] = NoRecord
      <4>1. \A i \in pools[l][1]..pools[l][2] : i \in 1..Len(list)
        BY <1>1, <3>1, SMTT(20)
      <4>2. \A i \in 1..Len(list) : list[i] \in DOMAIN s.files
        BY DEF WorkOk
      <4>3. \A f \in DOMAIN s.files : s.records[f] = NoRecord
        BY DEF Fresh
      <4>4. QED
        BY <2>4, <4>1, <4>2, <4>3
    <3>5. pools[l][1]..(pools[l][1] - 1) = {}
      BY <3>2
    <3>6. QED
      BY <3>2, <3>3, <3>4, <3>5 DEF LaneOk
  <2>8. DOMAIN run.cursor = 1..lanes /\ DOMAIN run.status = 1..lanes
    BY <2>4
  <2>9. Lexing(run)
    BY <2>1, <2>2, <2>4, <2>5, <2>6, <2>7, <2>8 DEF Lexing
  <2>10. QED
    BY <2>3, <2>4, <2>5, <2>9 DEF LexInvOf
<1>6. QED
  BY <1>4, <1>5

-----------------------------------------------------------------------------
(***************************************************************************)
(* REBUILD                                                                 *)
(***************************************************************************)

LEMMA LexStart == LexicalStateInit => LexInv
BY DEF LexicalStateInit, LexInv, LexInvOf, LexFields

LEMMA PrepareStep ==
  ASSUME LexInv, NEW files \in LexicalProjects, PrepareSources(files) PROVE LexInv'
<1> DEFINE s == [lex EXCEPT !.files = files,
                            !.records = [f \in DOMAIN files |-> NoRecord],
                            !.arenas = [l \in 1 .. LexicalLanes |-> <<>>]]
           list == [f \in DOMAIN files |-> f]
<1>1. DOMAIN lex = LexFields /\ lex.phase = "idle" /\ lex.baseline = <<>> /\ lex.changed = {}
      /\ lex.result # "pools" /\ lex.result # "lexical"
  BY DEF LexInv, LexInvOf, PrepareSources
<1>2. lex' = IF Missing \in Range(files)
             THEN [s EXCEPT !.phase = "failed", !.result = "missing"]
             ELSE StartLanes(s, list)
  BY DEF PrepareSources
<1>3. /\ DOMAIN s = LexFields /\ s.files = files /\ s.baseline = <<>> /\ s.changed = {}
      /\ s.records = [f \in DOMAIN files |-> NoRecord]
      /\ s.arenas = [l \in 1 .. LexicalLanes |-> <<>>]
      /\ s.result # "pools" /\ s.result # "lexical"
  BY <1>1 DEF LexFields
<1> HIDE DEF s
<1>4. CASE Missing \in Range(files)
  <2> DEFINE t == [s EXCEPT !.phase = "failed", !.result = "missing"]
  <2>1. DOMAIN t = LexFields /\ t.phase = "failed" /\ t.result = "missing"
    BY <1>3 DEF LexFields
  <2> HIDE DEF t
  <2>2. LexInvOf(t)
    BY <2>1 DEF LexInvOf
  <2>3. QED
    BY <1>2, <1>4, <2>2 DEF t, LexInv
<1>5. CASE Missing \notin Range(files)
  <2>1. files \in Seq(Range(files)) /\ \A f \in DOMAIN files : IsSourceFile(files[f])
    BY LexicalMenus
  <2>2. FilesOk(s) /\ Fresh(s)
    BY <1>3, <2>1 DEF FilesOk, Fresh
  <2>3. Len(files) \in Nat /\ DOMAIN files = 1..Len(files)
    BY <2>1
  <2>4. \A f \in DOMAIN files : ~Settled(s, f)
    <3>1. Len(<<>>) = 0
      OBVIOUS
    <3>2. QED
      BY <1>3, <2>3, <3>1 DEF Settled
  <2>5. Committed(s)
    <3>1. Len(<<>>) = 0
      OBVIOUS
    <3>2. QED
      BY <1>3, <2>4, <3>1 DEF Committed
  <2>6. list \in Seq(Nat) /\ Len(list) = Len(files) /\ \A i \in 1..Len(files) : list[i] = i
    <3>1. list = [f \in 1..Len(files) |-> f]
      BY <2>3
    <3>2. [f \in 1..Len(files) |-> f] \in [1..Len(files) -> Nat]
      OBVIOUS
    <3>3. QED
      BY <2>3, <3>1, <3>2
  <2> HIDE DEF list
  <2>7. Ascending(list)
    BY <2>3, <2>6 DEF Ascending
  <2>8. WorkOk(s, list)
    BY <1>3, <2>3, <2>4, <2>6, <2>7 DEF WorkOk
  <2>9. LexInvOf(StartLanes(s, list))
    BY <1>3, <2>2, <2>5, <2>8, StartOk
  <2>10. QED
    BY <1>2, <1>5, <2>9 DEF LexInv
<1>6. QED
  BY <1>4, <1>5

\* The words a lane publishes, and what it leaves of the rest.
LEMMA PublishOk ==
  ASSUME NEW s, DOMAIN s = LexFields, FilesOk(s), Stored(s),
         NEW lane \in 1..LexicalLanes, NEW f \in DOMAIN s.files,
         WorkWeight(s.files, f) # 0
  PROVE  LET t == Publish(s, lane, f)
         IN  /\ Stored(t)
             /\ DOMAIN t = LexFields /\ t.phase = s.phase /\ t.result = s.result
             /\ t.files = s.files /\ t.baseline = s.baseline /\ t.changed = s.changed
             /\ t.work = s.work /\ t.pools = s.pools /\ t.cursor = s.cursor /\ t.status = s.status
             /\ \A g \in DOMAIN s.files : g # f => t.records[g] = s.records[g]
             /\ t.records[f] # NoRecord
<1> DEFINE t == Publish(s, lane, f)
           text == s.files[f].words
           arena == s.arenas[lane]
           r == [arena |-> lane, offset |-> Len(arena), count |-> Len(text)]
<1>1. /\ DOMAIN t = LexFields /\ t.phase = s.phase /\ t.result = s.result
      /\ t.files = s.files /\ t.baseline = s.baseline /\ t.changed = s.changed
      /\ t.work = s.work /\ t.pools = s.pools /\ t.cursor = s.cursor /\ t.status = s.status
      /\ t.records = [s.records EXCEPT ![f] = r]
      /\ t.arenas = [s.arenas EXCEPT ![lane] = arena \o text]
  BY DEF Publish, LexFields
<1> HIDE DEF t
<1>2. DOMAIN s.records = DOMAIN s.files /\ DOMAIN s.arenas = 1..LexicalLanes
      /\ \A l \in 1..LexicalLanes : s.arenas[l] \in Seq(Range(s.arenas[l]))
  BY DEF Stored
<1>3. text \in Seq(Range(text)) /\ arena \in Seq(Range(arena))
  BY <1>2, WeightIsNat
<1> DEFINE S == Range(text) \cup Range(arena)
<1>4. text \in Seq(S) /\ arena \in Seq(S)
  <2>1. Range(text) \subseteq S /\ Range(arena) \subseteq S
    OBVIOUS
  <2> HIDE DEF S
  <2>2. QED
    BY <1>3, <2>1
<1> HIDE DEF S
<1> DEFINE longer == arena \o text
<1> HIDE DEF longer
<1>5. /\ Len(text) \in Nat /\ Len(arena) \in Nat /\ longer \in Seq(S)
      /\ Len(longer) \in Nat /\ Len(longer) = Len(arena) + Len(text) /\ Len(arena) <= Len(longer)
  BY <1>4, Concatenated DEF longer
<1>6. longer \in Seq(S)
  BY <1>5
<1>7. longer \in Seq(Range(longer))
  <2>1. Len(longer) \in Nat /\ DOMAIN longer = 1..Len(longer) /\ longer \in [1..Len(longer) -> S]
    BY <1>6
  <2>2. \A i \in 1..Len(longer) : longer[i] \in Range(longer)
    BY <2>1 DEF Range
  <2>3. longer \in [1..Len(longer) -> Range(longer)]
    BY <2>1, <2>2
  <2>4. QED
    BY <2>1, <2>3, SeqDef
<1>8. t.arenas[lane] = longer /\ \A l \in 1..LexicalLanes : l # lane => t.arenas[l] = s.arenas[l]
  BY <1>1, <1>2 DEF longer
<1>9. t.records[f] = r /\ \A g \in DOMAIN s.files : g # f => t.records[g] = s.records[g]
  BY <1>1, <1>2
<1>10. r # NoRecord
  <2>1. r.arena = lane /\ NoRecord.arena = 0
    BY DEF NoRecord
  <2>2. QED
    BY <2>1, LexicalStateBounds
<1>11. RecordExact(t, r, f)
  <2>1. r.arena = lane /\ r.offset = Len(arena) /\ r.count = Len(text)
    OBVIOUS
  <2> HIDE DEF r
  <2>2. WordsAt(t.arenas, r) = SubSeq(arena \o text, Len(arena) + 1, Len(arena) + Len(text))
    BY <1>8, <2>1 DEF WordsAt, longer
  <2>3. WordsAt(t.arenas, r) = text
    BY <1>4, <2>2, SliceOfNew
  <2>4. r.offset + r.count <= Len(t.arenas[r.arena])
    <3>1. t.arenas[r.arena] = longer
      BY <1>8, <2>1
    <3>2. r.offset + r.count = Len(longer)
      BY <1>5, <2>1
    <3>3. Len(longer) \in Nat
      BY <1>5
    <3>4. QED
      BY <3>1, <3>2, <3>3
  <2>5. QED
    BY <1>1, <1>5, <2>1, <2>3, <2>4 DEF RecordExact
<1>12. ASSUME NEW g \in DOMAIN s.files, g # f, s.records[g] # NoRecord
       PROVE  RecordExact(t, s.records[g], g)
  <2> DEFINE q == s.records[g]
  <2>1. RecordExact(s, q, g)
    BY <1>12 DEF Stored
  <2> HIDE DEF q
  <2>2. q.arena \in 1..LexicalLanes /\ q.offset \in Nat /\ q.count \in Nat
        /\ q.offset + q.count <= Len(s.arenas[q.arena])
        /\ SubSeq(s.arenas[q.arena], q.offset + 1, q.offset + q.count) = s.files[g].words
    BY <2>1 DEF RecordExact, WordsAt
  <2>3. CASE q.arena = lane
    <3>1. SubSeq(arena \o text, q.offset + 1, q.offset + q.count)
            = SubSeq(arena, q.offset + 1, q.offset + q.count)
      BY <1>4, <2>2, <2>3, SliceKept
    <3>2. q.offset + q.count <= Len(longer)
      <4>1. s.arenas[q.arena] = arena
        BY <2>3
      <4>2. q.offset \in Nat /\ q.count \in Nat /\ q.offset + q.count <= Len(arena)
        BY <2>2, <4>1
      <4>3. Len(arena) \in Nat /\ Len(longer) \in Nat /\ Len(arena) <= Len(longer)
        BY <1>5
      <4> DEFINE a == Len(arena)
                 b == Len(longer)
      <4>4. a \in Nat /\ b \in Nat /\ a <= b /\ q.offset + q.count <= a
        BY <4>2, <4>3
      <4> HIDE DEF a, b
      <4>5. q.offset + q.count <= b
        BY <4>2, <4>4
      <4>6. QED
        BY <4>5 DEF b
    <3>3. t.arenas[q.arena] = longer /\ s.arenas[q.arena] = arena
      BY <1>8, <2>3
    <3>4. WordsAt(t.arenas, q) = s.files[g].words
      BY <2>2, <3>1, <3>3 DEF WordsAt, longer
    <3>5. QED
      BY <1>1, <2>2, <3>2, <3>3, <3>4 DEF RecordExact, q
  <2>4. CASE q.arena # lane
    <3>1. t.arenas[q.arena] = s.arenas[q.arena]
      BY <1>8, <2>2, <2>4
    <3>2. WordsAt(t.arenas, q) = s.files[g].words
      BY <2>2, <3>1 DEF WordsAt
    <3>3. QED
      BY <1>1, <2>2, <3>1, <3>2 DEF RecordExact, q
  <2>5. QED
    BY <2>3, <2>4
<1>13. DOMAIN t.arenas = 1..LexicalLanes /\ DOMAIN t.records = DOMAIN t.files
  BY <1>1, <1>2
<1>14. \A l \in 1..LexicalLanes : t.arenas[l] \in Seq(Range(t.arenas[l]))
  <2> TAKE l \in 1..LexicalLanes
  <2>1. CASE l = lane
    BY <1>7, <1>8, <2>1
  <2>2. CASE l # lane
    BY <1>2, <1>8, <2>2
  <2>3. QED
    BY <2>1, <2>2
<1>15. ASSUME NEW g \in DOMAIN t.files, t.records[g] # NoRecord
       PROVE  WorkWeight(t.files, g) # 0 /\ RecordExact(t, t.records[g], g)
  <2>1. CASE g = f
    BY <1>1, <1>9, <1>11, <2>1
  <2>2. CASE g # f
    BY <1>1, <1>9, <1>12, <1>15, <2>2 DEF Stored
  <2>3. QED
    BY <2>1, <2>2
<1>16. Stored(t)
  BY <1>13, <1>14, <1>15 DEF Stored
<1>17. QED
  BY <1>1, <1>9, <1>10, <1>16 DEF t

\* The work list names each file once, and its positions lie in one pool.
LEMMA WorkOnce ==
  ASSUME NEW s, WorkOk(s, s.work), NEW i \in 1..Len(s.work), NEW j \in 1..Len(s.work), i # j
  PROVE  s.work[i] # s.work[j]
<1>1. s.work \in Seq(Nat) /\ Len(s.work) \in Nat
  BY DEF WorkOk, Ascending
<1>2. s.work[i] \in Nat /\ s.work[j] \in Nat
  BY <1>1
<1>3. i < j \/ j < i
  BY <1>1
<1>4. s.work[i] < s.work[j] \/ s.work[j] < s.work[i]
  BY <1>3 DEF WorkOk, Ascending
<1>5. QED
  BY <1>2, <1>4

LEMMA CutFacts ==
  ASSUME NEW s, FilesOk(s), Lexing(s)
  PROVE  /\ \E lanes \in 1..LexicalLanes :
               DOMAIN s.pools = 1..lanes /\ DOMAIN s.cursor = 1..lanes /\ DOMAIN s.status = 1..lanes
         /\ Len(s.work) \in Nat
         /\ \A l \in DOMAIN s.pools : /\ l \in Nat /\ l \in 1..LexicalLanes
                                      /\ s.pools[l][1] \in 1..Len(s.work)
                                      /\ s.pools[l][2] \in 1..Len(s.work)
         /\ \A k, l \in DOMAIN s.pools : k < l => s.pools[k][2] < s.pools[l][1]
         /\ \A i \in 1..Len(s.work) : \E l \in DOMAIN s.pools : i \in s.pools[l][1]..s.pools[l][2]
         /\ \A l \in DOMAIN s.pools : \E i \in s.pools[l][1]..s.pools[l][2] :
               WorkWeight(s.files, s.work[i]) # 0
<1> DEFINE weights == WorkWeights(s, s.work)
<1>1. PICK lanes \in 1..LexicalLanes : /\ Cut(s.pools, weights, lanes)
                                       /\ DOMAIN s.cursor = 1..lanes /\ DOMAIN s.status = 1..lanes
  BY DEF Lexing
<1>2. Len(weights) = Len(s.work) /\ Len(s.work) \in Nat
      /\ \A i \in 1..Len(s.work) : weights[i] = WorkWeight(s.files, s.work[i])
  BY WorkWeightsOk DEF Lexing
<1> HIDE DEF weights
<1>3. DOMAIN s.pools = 1..lanes
  BY <1>1 DEF Cut
<1>4. \A l \in 1..lanes : l \in Nat /\ l \in 1..LexicalLanes
  BY LexicalStateBounds
<1>5. \A l \in 1..lanes : /\ s.pools[l][1] \in 1..Len(s.work) /\ s.pools[l][2] \in 1..Len(s.work)
                          /\ \E i \in s.pools[l][1]..s.pools[l][2] : weights[i] # 0
  BY <1>1, <1>2 DEF Cut
<1>6. ASSUME NEW l \in 1..lanes
      PROVE  \E i \in s.pools[l][1]..s.pools[l][2] : WorkWeight(s.files, s.work[i]) # 0
  <2>1. PICK i \in s.pools[l][1]..s.pools[l][2] : weights[i] # 0
    BY <1>5
  <2>2. i \in 1..Len(s.work)
    BY <1>2, <1>5
  <2>3. QED
    BY <1>2, <2>1, <2>2
<1>7. \A k, l \in 1..lanes : k < l => s.pools[k][2] < s.pools[l][1]
  BY <1>1 DEF Cut
<1>8. \A i \in 1..Len(s.work) : \E l \in 1..lanes : i \in s.pools[l][1]..s.pools[l][2]
  BY <1>1, <1>2 DEF Cut
<1>9. QED
  BY <1>1, <1>2, <1>3, <1>4, <1>5, <1>6, <1>7, <1>8

\* A lane is where it was when nothing it reads has changed.
LEMMA LaneFrame ==
  ASSUME NEW s, NEW t, NEW l, LaneOk(s, l), t.files = s.files, t.work = s.work,
         t.pools = s.pools, t.cursor[l] = s.cursor[l], t.status[l] = s.status[l],
         \A i \in s.pools[l][1]..s.pools[l][2] : t.records[s.work[i]] = s.records[s.work[i]],
         s.pools[l][1] \in Nat, s.pools[l][2] \in Nat
  PROVE  LaneOk(t, l)
<1>1. s.cursor[l] \in Nat /\ s.pools[l][1] <= s.cursor[l] /\ s.cursor[l] <= s.pools[l][2] + 1
  BY DEF LaneOk
<1>2. \A i \in s.pools[l][1]..(s.cursor[l] - 1) : i \in s.pools[l][1]..s.pools[l][2]
  BY <1>1
<1>3. \A i \in s.cursor[l]..s.pools[l][2] : i \in s.pools[l][1]..s.pools[l][2]
  BY <1>1
<1>4. QED
  BY <1>2, <1>3 DEF LaneOk

LEMMA RunStep ==
  ASSUME LexInv, NEW lane \in 1..LexicalLanes, RunLexicalLane(lane) PROVE LexInv'
<1> DEFINE i == lex.cursor[lane]
           f == lex.work[i]
           next == [lex EXCEPT !.cursor[lane] = @ + 1]
           P == DOMAIN lex.pools
<1>1. /\ DOMAIN lex = LexFields /\ lex.phase = "lexing" /\ lex.result # "pools"
      /\ lex.result # "lexical" /\ FilesOk(lex) /\ Lexing(lex)
  BY DEF LexInv, LexInvOf, RunLexicalLane
<1>2. /\ lane \in P /\ lex.status[lane] = 0 /\ i <= lex.pools[lane][2]
      /\ lex' = IF WorkWeight(lex.files, f) = 0 \/ Available(lex, f) THEN next
                ELSE IF lex.files[f].error THEN [lex EXCEPT !.status[lane] = f]
                ELSE Publish(next, lane, f)
  BY DEF RunLexicalLane
<1>3. /\ lane \in DOMAIN lex.cursor /\ lane \in DOMAIN lex.status
      /\ Len(lex.work) \in Nat
      /\ \A l \in P : /\ l \in Nat /\ l \in 1..LexicalLanes
                      /\ lex.pools[l][1] \in 1..Len(lex.work)
                      /\ lex.pools[l][2] \in 1..Len(lex.work)
      /\ \A k, l \in P : k < l => lex.pools[k][2] < lex.pools[l][1]
  BY <1>1, <1>2, CutFacts
<1>4. Stored(lex) /\ Committed(lex) /\ WorkOk(lex, lex.work) /\ \A l \in P : LaneOk(lex, l)
  BY <1>1 DEF Lexing
<1>5. i \in Nat /\ lex.pools[lane][1] <= i /\ lex.pools[lane][2] \in Nat /\ lex.pools[lane][1] \in Nat
  BY <1>2, <1>3, <1>4 DEF LaneOk
<1>6. i \in 1..Len(lex.work) /\ i \in lex.pools[lane][1]..lex.pools[lane][2]
  BY <1>2, <1>3, <1>5
<1>7. f \in DOMAIN lex.files /\ ~Settled(lex, f)
  BY <1>4, <1>6 DEF WorkOk
<1>8. lex.records[f] = NoRecord
  BY <1>2, <1>4, <1>5 DEF LaneOk
<1>9. ~Available(lex, f)
  BY <1>7, <1>8 DEF Available, Settled
<1>10. /\ DOMAIN next = LexFields /\ next.phase = lex.phase /\ next.result = lex.result
       /\ next.files = lex.files /\ next.baseline = lex.baseline /\ next.changed = lex.changed
       /\ next.work = lex.work /\ next.pools = lex.pools /\ next.status = lex.status
       /\ next.records = lex.records /\ next.arenas = lex.arenas
       /\ next.cursor = [lex.cursor EXCEPT ![lane] = i + 1]
  BY <1>1 DEF LexFields
<1> HIDE DEF next
<1>11. next.cursor[lane] = i + 1 /\ DOMAIN next.cursor = DOMAIN lex.cursor
       /\ \A l \in P : l # lane => next.cursor[l] = lex.cursor[l]
  BY <1>3, <1>10
\* Positions of other pools, and the other positions of this one, name other files.
<1>12. ASSUME NEW l \in P, l # lane, NEW j \in lex.pools[l][1]..lex.pools[l][2]
       PROVE  lex.work[j] # f /\ lex.work[j] \in DOMAIN lex.files
  <2>1. j \in 1..Len(lex.work)
    BY <1>3
  <2>2. l < lane \/ lane < l
    BY <1>2, <1>3, <1>12
  <2>3. lex.pools[l][2] < lex.pools[lane][1] \/ lex.pools[lane][2] < lex.pools[l][1]
    BY <1>2, <1>3, <2>2
  <2>4. j # i
    BY <1>2, <1>3, <1>5, <2>3
  <2>5. QED
    <3>1. lex.work[i] # lex.work[j]
      BY <1>4, <1>6, <2>1, <2>4, WorkOnce
    <3>2. lex.work[j] \in DOMAIN lex.files
      BY <1>4, <2>1 DEF WorkOk
    <3>3. QED
      BY <3>1, <3>2
<1>13. ASSUME NEW j \in lex.pools[lane][1]..lex.pools[lane][2], j # i
       PROVE  lex.work[j] # f /\ lex.work[j] \in DOMAIN lex.files
  <2>1. j \in 1..Len(lex.work)
    BY <1>2, <1>3
  <2>2. QED
    <3>1. lex.work[i] # lex.work[j]
      BY <1>4, <1>6, <1>13, <2>1, WorkOnce
    <3>2. lex.work[j] \in DOMAIN lex.files
      BY <1>4, <2>1 DEF WorkOk
    <3>3. QED
      BY <3>1, <3>2
\* A step of the lane keeps the rest of the invariant.
<1>14. ASSUME NEW t, DOMAIN t = LexFields, t.phase = lex.phase, t.result = lex.result,
              t.files = lex.files, t.baseline = lex.baseline, t.changed = lex.changed,
              t.work = lex.work, t.pools = lex.pools,
              DOMAIN t.cursor = DOMAIN lex.cursor, DOMAIN t.status = DOMAIN lex.status,
              Stored(t), \A l \in P : LaneOk(t, l)
       PROVE  LexInvOf(t)
  <2>1. FilesOk(t) /\ Committed(t) /\ WorkOk(t, t.work) /\ WorkWeights(t, t.work) = WorkWeights(lex, lex.work)
    BY <1>1, <1>4, <1>14, FilesFrame
  <2>2. \E lanes \in 1..LexicalLanes :
          /\ Cut(lex.pools, WorkWeights(lex, lex.work), lanes)
          /\ DOMAIN lex.cursor = 1..lanes /\ DOMAIN lex.status = 1..lanes
    BY <1>1 DEF Lexing
  <2>3. \E lanes \in 1..LexicalLanes :
          /\ Cut(t.pools, WorkWeights(t, t.work), lanes)
          /\ DOMAIN t.cursor = 1..lanes /\ DOMAIN t.status = 1..lanes
    BY <1>14, <2>1, <2>2
  <2>4. Lexing(t)
    BY <1>14, <2>1, <2>3 DEF Lexing
  <2>5. QED
    BY <1>1, <1>14, <2>1, <2>4 DEF LexInvOf
<1>15. CASE WorkWeight(lex.files, f) = 0
  <2>1. lex' = next
    BY <1>2, <1>15
  <2>2. Stored(next)
    BY <1>4, <1>10, StoredFrame
  <2>3. ASSUME NEW l \in P PROVE LaneOk(next, l)
    <3>1. CASE l # lane
      <4>1. \A j \in lex.pools[l][1]..lex.pools[l][2] : next.records[lex.work[j]] = lex.records[lex.work[j]]
        BY <1>10
      <4>2. next.cursor[l] = lex.cursor[l] /\ next.status[l] = lex.status[l]
        BY <1>10, <1>11, <3>1
      <4>3. LaneOk(lex, l) /\ lex.pools[l][1] \in Nat /\ lex.pools[l][2] \in Nat
        BY <1>3, <1>4
      <4>4. next.files = lex.files /\ next.work = lex.work /\ next.pools = lex.pools
        BY <1>10
      <4>5. QED
        BY <4>1, <4>2, <4>3, <4>4, LaneFrame
    <3>2. CASE l = lane
      <4>1. LaneOk(lex, lane)
        BY <1>2, <1>4
      <4>2. \A j \in lex.pools[lane][1]..((i + 1) - 1) : j = i \/ j \in lex.pools[lane][1]..(i - 1)
        BY <1>5
      <4>3. \A j \in (i + 1)..lex.pools[lane][2] : j \in i..lex.pools[lane][2]
        BY <1>5
      <4>4. i + 1 \in Nat /\ lex.pools[lane][1] <= i + 1 /\ i + 1 <= lex.pools[lane][2] + 1
        BY <1>2, <1>5
      <4>5. \A j \in lex.pools[lane][1]..((i + 1) - 1) :
              \/ WorkWeight(lex.files, lex.work[j]) = 0
              \/ lex.records[lex.work[j]] # NoRecord /\ lex.files[lex.work[j]].error = FALSE
        BY <1>15, <4>1, <4>2 DEF LaneOk
      <4>6. \A j \in (i + 1)..lex.pools[lane][2] : lex.records[lex.work[j]] = NoRecord
        BY <4>1, <4>3 DEF LaneOk
      <4>7. LaneOk(next, lane)
        BY <1>2, <1>10, <1>11, <4>4, <4>5, <4>6 DEF LaneOk
      <4>8. QED
        BY <3>2, <4>7
    <3>3. QED
      BY <3>1, <3>2
  <2>4. LexInvOf(next)
    BY <1>10, <1>11, <1>14, <2>2, <2>3
  <2>5. QED
    BY <2>1, <2>4 DEF LexInv
<1>16. CASE WorkWeight(lex.files, f) # 0 /\ lex.files[f].error
  <2> DEFINE t == [lex EXCEPT !.status[lane] = f]
  <2>1. lex' = t
    BY <1>2, <1>9, <1>16
  <2>2. /\ DOMAIN t = LexFields /\ t.phase = lex.phase /\ t.result = lex.result
        /\ t.files = lex.files /\ t.baseline = lex.baseline /\ t.changed = lex.changed
        /\ t.work = lex.work /\ t.pools = lex.pools /\ t.cursor = lex.cursor
        /\ t.records = lex.records /\ t.arenas = lex.arenas
        /\ t.status = [lex.status EXCEPT ![lane] = f]
    BY <1>1 DEF LexFields
  <2> HIDE DEF t
  <2>3. t.status[lane] = f /\ DOMAIN t.status = DOMAIN lex.status
        /\ \A l \in P : l # lane => t.status[l] = lex.status[l]
    BY <1>3, <2>2
  <2>4. lex.files[f].error = TRUE
    <3>1. lex.files[f].error \in BOOLEAN
      BY <1>1, <1>7, <1>16, WeightIsNat
    <3>2. QED
      BY <1>16, <3>1
  <2>5. Stored(t)
    BY <1>4, <2>2, StoredFrame
  <2>6. ASSUME NEW l \in P PROVE LaneOk(t, l)
    <3>1. CASE l # lane
      <4>1. \A j \in lex.pools[l][1]..lex.pools[l][2] : t.records[lex.work[j]] = lex.records[lex.work[j]]
        BY <2>2
      <4>2. t.cursor[l] = lex.cursor[l] /\ t.status[l] = lex.status[l]
        BY <2>2, <2>3, <3>1
      <4>3. LaneOk(lex, l) /\ lex.pools[l][1] \in Nat /\ lex.pools[l][2] \in Nat
        BY <1>3, <1>4
      <4>4. t.files = lex.files /\ t.work = lex.work /\ t.pools = lex.pools
        BY <2>2
      <4>5. QED
        BY <4>1, <4>2, <4>3, <4>4, LaneFrame
    <3>2. CASE l = lane
      <4>1. LaneOk(lex, lane)
        BY <1>2, <1>4
      <4>2. LaneOk(t, lane)
        BY <1>2, <1>16, <2>2, <2>3, <2>4, <4>1 DEF LaneOk
      <4>3. QED
        BY <3>2, <4>2
    <3>3. QED
      BY <3>1, <3>2
  <2>7. LexInvOf(t)
    BY <1>14, <2>2, <2>3, <2>5, <2>6
  <2>8. QED
    BY <2>1, <2>7 DEF LexInv
<1>17. CASE WorkWeight(lex.files, f) # 0 /\ ~lex.files[f].error
  <2> DEFINE t == Publish(next, lane, f)
  <2>1. lex' = t
    BY <1>2, <1>9, <1>17
  <2>2. FilesOk(next) /\ Stored(next) /\ f \in DOMAIN next.files /\ WorkWeight(next.files, f) # 0
    BY <1>1, <1>4, <1>7, <1>10, <1>17, StoredFrame, FilesFrame
  <2>3. /\ Stored(t)
        /\ DOMAIN t = LexFields /\ t.phase = next.phase /\ t.result = next.result
        /\ t.files = next.files /\ t.baseline = next.baseline /\ t.changed = next.changed
        /\ t.work = next.work /\ t.pools = next.pools
        /\ t.cursor = next.cursor /\ t.status = next.status
        /\ \A g \in DOMAIN next.files : g # f => t.records[g] = next.records[g]
        /\ t.records[f] # NoRecord
    BY <1>10, <2>2, PublishOk
  <2> HIDE DEF t
  <2>4. /\ t.phase = lex.phase /\ t.result = lex.result
        /\ t.files = lex.files /\ t.baseline = lex.baseline /\ t.changed = lex.changed
        /\ t.work = lex.work /\ t.pools = lex.pools /\ t.status = lex.status
        /\ t.cursor = next.cursor
        /\ \A g \in DOMAIN lex.files : g # f => t.records[g] = lex.records[g]
    BY <1>10, <2>3
  <2>5. lex.files[f].error = FALSE
    <3>1. lex.files[f].error \in BOOLEAN
      BY <1>1, <1>7, <1>17, WeightIsNat
    <3>2. QED
      BY <1>17, <3>1
  <2>6. ASSUME NEW l \in P PROVE LaneOk(t, l)
    <3>1. CASE l # lane
      <4>1. \A j \in lex.pools[l][1]..lex.pools[l][2] : t.records[lex.work[j]] = lex.records[lex.work[j]]
        BY <1>12, <2>4, <3>1
      <4>2. t.cursor[l] = lex.cursor[l] /\ t.status[l] = lex.status[l]
        BY <1>11, <2>4, <3>1
      <4>3. LaneOk(lex, l) /\ lex.pools[l][1] \in Nat /\ lex.pools[l][2] \in Nat
        BY <1>3, <1>4
      <4>4. QED
        BY <2>4, <4>1, <4>2, <4>3, LaneFrame
    <3>2. CASE l = lane
      <4>1. LaneOk(lex, lane)
        BY <1>2, <1>4
      <4>2. \A j \in lex.pools[lane][1]..((i + 1) - 1) :
              j = i \/ (j \in lex.pools[lane][1]..(i - 1) /\ j \in lex.pools[lane][1]..lex.pools[lane][2] /\ j # i)
        BY <1>2, <1>5
      <4>3. \A j \in (i + 1)..lex.pools[lane][2] :
              j \in i..lex.pools[lane][2] /\ j \in lex.pools[lane][1]..lex.pools[lane][2] /\ j # i
        BY <1>5
      <4>4. i + 1 \in Nat /\ lex.pools[lane][1] <= i + 1 /\ i + 1 <= lex.pools[lane][2] + 1
        BY <1>2, <1>5
      <4>5. ASSUME NEW j \in lex.pools[lane][1]..((i + 1) - 1)
            PROVE  \/ WorkWeight(lex.files, lex.work[j]) = 0
                   \/ t.records[lex.work[j]] # NoRecord /\ lex.files[lex.work[j]].error = FALSE
        <5>1. CASE j = i
          BY <2>3, <2>5, <5>1
        <5>2. CASE j # i
          <6>1. j \in lex.pools[lane][1]..(i - 1) /\ j \in lex.pools[lane][1]..lex.pools[lane][2]
            BY <4>2, <5>2
          <6>2. t.records[lex.work[j]] = lex.records[lex.work[j]]
            BY <1>13, <2>4, <5>2, <6>1
          <6>3. QED
            BY <4>1, <6>1, <6>2 DEF LaneOk
        <5>3. QED
          BY <5>1, <5>2
      <4>6. ASSUME NEW j \in (i + 1)..lex.pools[lane][2] PROVE t.records[lex.work[j]] = NoRecord
        <5>1. j \in i..lex.pools[lane][2] /\ j \in lex.pools[lane][1]..lex.pools[lane][2] /\ j # i
          BY <4>3
        <5>2. t.records[lex.work[j]] = lex.records[lex.work[j]]
          BY <1>13, <2>4, <5>1
        <5>3. QED
          BY <4>1, <5>1, <5>2 DEF LaneOk
      <4>7. t.cursor[lane] = i + 1 /\ t.status[lane] = 0
        BY <1>2, <1>11, <2>4
      <4>8. LaneOk(t, lane)
        BY <2>4, <4>4, <4>5, <4>6, <4>7, ZenonT(40) DEF LaneOk
      <4>9. QED
        BY <3>2, <4>8
    <3>3. QED
      BY <3>1, <3>2
  <2>7. LexInvOf(t)
    BY <1>11, <1>14, <2>3, <2>4, <2>6
  <2>8. QED
    BY <2>1, <2>7 DEF LexInv
<1>18. QED
  BY <1>15, <1>16, <1>17

\* A position before the cursor of its lane is published or needs no lane, and
\* no file outside the work list is rejected.
LEMMA JoinStep == ASSUME LexInv, JoinLanes PROVE LexInv'
<1> DEFINE P == DOMAIN lex.pools
           failed == {l \in P : lex.status[l] # 0}
           good == [lex EXCEPT !.phase = "done", !.result = "success", !.pools = <<>>]
           first == CHOOSE l \in failed : \A k \in failed : l <= k
           bad == [lex EXCEPT !.phase = "failed", !.result = "lexical", !.pools = <<>>,
                              !.failed = lex.status[first]]
<1>1. /\ DOMAIN lex = LexFields /\ lex.phase = "lexing" /\ FilesOk(lex) /\ Lexing(lex)
  BY DEF LexInv, LexInvOf, JoinLanes
<1>2. /\ \A l \in P : lex.status[l] # 0 \/ lex.cursor[l] > lex.pools[l][2]
      /\ lex' = IF failed = {} THEN good ELSE bad
  BY DEF JoinLanes
<1>3. /\ Len(lex.work) \in Nat
      /\ \A l \in P : /\ l \in Nat
                      /\ lex.pools[l][1] \in 1..Len(lex.work)
                      /\ lex.pools[l][2] \in 1..Len(lex.work)
      /\ \A k, l \in P : k < l => lex.pools[k][2] < lex.pools[l][1]
      /\ \A i \in 1..Len(lex.work) : \E l \in P : i \in lex.pools[l][1]..lex.pools[l][2]
  BY <1>1, CutFacts
<1>4. Stored(lex) /\ Committed(lex) /\ WorkOk(lex, lex.work) /\ \A l \in P : LaneOk(lex, l)
  BY <1>1 DEF Lexing
<1>5. ASSUME NEW l \in P, NEW i \in lex.pools[l][1]..lex.pools[l][2], i < lex.cursor[l]
      PROVE  \/ WorkWeight(lex.files, lex.work[i]) = 0
             \/ lex.records[lex.work[i]] # NoRecord /\ lex.files[lex.work[i]].error = FALSE
  <2>1. LaneOk(lex, l) /\ lex.cursor[l] \in Nat /\ lex.pools[l][1] \in Nat
    BY <1>3, <1>4 DEF LaneOk
  <2>2. i \in lex.pools[l][1]..(lex.cursor[l] - 1)
    BY <1>3, <1>5, <2>1
  <2>3. QED
    BY <2>1, <2>2 DEF LaneOk
<1>6. ASSUME NEW l \in P, lex.status[l] = 0, NEW i \in lex.pools[l][1]..lex.pools[l][2]
      PROVE  \/ WorkWeight(lex.files, lex.work[i]) = 0
             \/ lex.records[lex.work[i]] # NoRecord /\ lex.files[lex.work[i]].error = FALSE
  <2>1. lex.cursor[l] > lex.pools[l][2]
    BY <1>2, <1>6
  <2>2. lex.cursor[l] \in Nat /\ lex.pools[l][2] \in Nat /\ lex.pools[l][1] \in Nat
    BY <1>3, <1>4 DEF LaneOk
  <2>3. i < lex.cursor[l]
    BY <2>1, <2>2
  <2>4. QED
    BY <1>5, <2>3
<1>7. CASE failed = {}
  <2>1. lex' = good
    BY <1>2, <1>7
  <2>2. /\ DOMAIN good = LexFields /\ good.phase = "done" /\ good.result = "success"
        /\ good.files = lex.files /\ good.baseline = lex.baseline /\ good.changed = lex.changed
        /\ good.records = lex.records /\ good.arenas = lex.arenas
    BY <1>1 DEF LexFields
  <2> HIDE DEF good
  <2>3. FilesOk(good) /\ Committed(good) /\ Stored(good)
    BY <1>1, <1>4, <2>2, FilesFrame, StoredFrame
  <2>4. ASSUME NEW f \in DOMAIN good.files
        PROVE  \/ Settled(good, f)
               \/ WorkWeight(good.files, f) = 0
               \/ good.records[f] # NoRecord /\ good.files[f].error = FALSE
    <3>1. CASE Settled(lex, f)
      BY <2>2, <3>1, FilesFrame
    <3>2. CASE ~Settled(lex, f)
      <4>1. PICK i \in 1..Len(lex.work) : lex.work[i] = f
        BY <1>4, <2>2, <3>2 DEF WorkOk
      <4>2. PICK l \in P : i \in lex.pools[l][1]..lex.pools[l][2]
        BY <1>3
      <4>3. lex.status[l] = 0
        BY <1>7
      <4>4. QED
        BY <1>6, <2>2, <4>1, <4>2, <4>3
    <3>3. QED
      BY <3>1, <3>2
  <2>5. Done(good)
    BY <2>3, <2>4, Complete
  <2>6. QED
    BY <2>1, <2>2, <2>3, <2>5 DEF LexInv, LexInvOf
<1>8. CASE failed # {}
  <2>1. lex' = bad
    BY <1>2, <1>8
  <2>2. first \in failed /\ \A k \in failed : first <= k
    <3>1. failed \in SUBSET Nat
      BY <1>3
    <3>2. \E l \in failed : \A k \in failed : l <= k
      BY <1>8, <3>1, LeastNat
    <3>3. QED
      BY <3>2
  <2> HIDE DEF first
  <2>3. /\ DOMAIN bad = LexFields /\ bad.phase = "failed" /\ bad.result = "lexical"
        /\ bad.files = lex.files /\ bad.failed = lex.status[first]
    BY <1>1 DEF LexFields
  <2> HIDE DEF bad
  <2> DEFINE i == lex.cursor[first]
             f == lex.work[i]
  <2>4. first \in P /\ lex.status[first] # 0 /\ LaneOk(lex, first)
    BY <1>4, <2>2
  <2>5. /\ i \in Nat /\ lex.pools[first][1] <= i /\ i <= lex.pools[first][2]
        /\ lex.status[first] = f /\ WorkWeight(lex.files, f) # 0 /\ lex.files[f].error = TRUE
    <3>1. /\ i \in Nat /\ lex.pools[first][1] <= i
      BY <2>4 DEF LaneOk
    <3>2. /\ i <= lex.pools[first][2] /\ lex.status[first] = f
          /\ WorkWeight(lex.files, lex.status[first]) # 0
          /\ lex.files[lex.status[first]].error = TRUE
      BY <2>4 DEF LaneOk
    <3>3. QED
      BY <3>1, <3>2
  <2>6. i \in 1..Len(lex.work) /\ f \in DOMAIN lex.files
    <3>1. i \in 1..Len(lex.work)
      BY <1>3, <2>4, <2>5
    <3>2. QED
      BY <1>4, <3>1 DEF WorkOk
  <2>7. f \in Rejected(lex)
    BY <1>1, <2>5, <2>6, RejectedIs
  <2>8. ASSUME NEW g \in Rejected(lex) PROVE f <= g
    <3>1. g \in DOMAIN lex.files /\ WorkWeight(lex.files, g) # 0 /\ lex.files[g].error = TRUE
      BY <1>1, RejectedIs
    <3>2. ~Settled(lex, g)
      BY <1>4, <3>1 DEF Committed, CommittedExact
    <3>3. PICK j \in 1..Len(lex.work) : lex.work[j] = g
      BY <1>4, <3>1, <3>2 DEF WorkOk
    <3>4. PICK l \in P : j \in lex.pools[l][1]..lex.pools[l][2]
      BY <1>3
    <3>5. lex.status[l] # 0 /\ ~(j < lex.cursor[l])
      BY <1>5, <1>6, <3>1, <3>3, <3>4
    <3>6. first <= l /\ first \in Nat /\ l \in Nat
      BY <1>3, <2>2, <2>4, <3>5
    <3>7. i <= j
      <4>1. CASE first = l
        BY <1>3, <2>5, <3>4, <3>5, <4>1
      <4>2. CASE first < l
        <5>1. lex.pools[first][2] < lex.pools[l][1]
          BY <1>3, <2>4, <4>2
        <5>2. lex.pools[first][2] \in Nat /\ lex.pools[l][1] \in Nat /\ lex.pools[l][1] <= j
          BY <1>3, <2>4, <3>4
        <5>3. QED
          BY <2>5, <5>1, <5>2
      <4>3. QED
        BY <3>6, <4>1, <4>2
    <3>8. f \in Nat /\ g \in Nat
      <4>1. \A k \in DOMAIN lex.files : k \in Nat
        BY <1>1, FilesDomain
      <4>2. QED
        BY <2>6, <3>1, <4>1
    <3>9. i < j => f < g
      BY <1>4, <2>6, <3>3 DEF WorkOk, Ascending
    <3>10. i = j => f = g
      BY <3>3
    <3>11. QED
      BY <2>5, <2>6, <3>7, <3>8, <3>9, <3>10
  <2>9. FirstRejected(bad)
    <3>1. Rejected(bad) = Rejected(lex)
      BY <2>3, SameRejected
    <3>2. bad.failed = f
      BY <2>3, <2>5
    <3>3. QED
      BY <2>7, <2>8, <3>1, <3>2 DEF FirstRejected
  <2>10. QED
    BY <2>1, <2>3, <2>9 DEF LexInv, LexInvOf
<1>9. QED
  BY <1>7, <1>8

-----------------------------------------------------------------------------
(***************************************************************************)
(* BUILD                                                                   *)
(***************************************************************************)

\* The committed image holds the words the REBUILD has made.
LEMMA BindStep == ASSUME LexInv, BindLexicalBaseline PROVE LexInv'
<1> DEFINE base == [f \in DOMAIN lex.files |->
                      IF Available(lex, f) THEN [words |-> Words(lex, f)] ELSE NoRecord]
           t == [lex EXCEPT !.phase = "bound", !.baseline = base,
                            !.records = [f \in DOMAIN lex.files |-> NoRecord],
                            !.arenas = [l \in 1 .. LexicalLanes |-> <<>>]]
<1>1. /\ DOMAIN lex = LexFields /\ lex.phase = "done" /\ lex.result # "pools"
      /\ lex.result # "lexical" /\ FilesOk(lex) /\ Done(lex)
  BY DEF LexInv, LexInvOf, BindLexicalBaseline
<1>2. lex' = t
  BY DEF BindLexicalBaseline
<1> HIDE DEF base
<1>3. /\ DOMAIN t = LexFields /\ t.phase = "bound" /\ t.result = lex.result
      /\ t.files = lex.files /\ t.changed = lex.changed /\ t.baseline = base
      /\ t.records = [f \in DOMAIN lex.files |-> NoRecord]
      /\ t.arenas = [l \in 1 .. LexicalLanes |-> <<>>]
  BY <1>1 DEF LexFields
<1> HIDE DEF t
<1>4. FilesOk(t) /\ Fresh(t)
  BY <1>1, <1>3 DEF FilesOk, Fresh
<1>5. Len(lex.files) \in Nat /\ DOMAIN lex.files = 1..Len(lex.files)
  BY <1>1, FilesDomain
<1>6. Len(base) = Len(lex.files) /\ \A f \in DOMAIN lex.files :
        base[f] = IF Available(lex, f) THEN [words |-> Words(lex, f)] ELSE NoRecord
  <2>1. base = [f \in 1..Len(lex.files) |->
                 IF Available(lex, f) THEN [words |-> Words(lex, f)] ELSE NoRecord]
    BY <1>5 DEF base
  <2>2. QED
    BY <1>5, <2>1
<1>7. ASSUME NEW f \in DOMAIN lex.files PROVE CommittedExact(t, f)
  <2>1. CASE WorkWeight(lex.files, f) = 0
    <3>1. ~Available(lex, f)
      BY <1>1, <2>1 DEF Done
    <3>2. t.baseline[f] = NoRecord
      BY <1>3, <1>6, <3>1
    <3>3. QED
      BY <1>3, <2>1, <3>2 DEF CommittedExact
  <2>2. CASE WorkWeight(lex.files, f) # 0
    <3>1. Available(lex, f) /\ Words(lex, f) = lex.files[f].words
      BY <1>1, <2>2 DEF Done
    <3>2. t.baseline[f] = [words |-> lex.files[f].words]
      BY <1>3, <1>6, <3>1
    <3>3. t.baseline[f] # NoRecord /\ t.baseline[f].words = lex.files[f].words
      <4>1. DOMAIN NoRecord = {"arena", "offset", "count"}
        BY DEF NoRecord
      <4>2. DOMAIN t.baseline[f] = {"words"}
        BY <3>2
      <4>3. "words" \notin {"arena", "offset", "count"}
        OBVIOUS
      <4>4. QED
        BY <3>2, <4>1, <4>2, <4>3
    <3>4. lex.files[f].error = FALSE
      <4>1. lex.files[f].error \in BOOLEAN
        BY <1>1, <2>2, WeightIsNat
      <4>2. f \notin Rejected(lex)
        BY <1>1 DEF Done
      <4>3. lex.files[f].error # TRUE
        BY <1>1, <2>2, <4>2, RejectedIs
      <4>4. QED
        BY <4>1, <4>3
    <3>5. QED
      BY <1>3, <2>2, <3>3, <3>4 DEF CommittedExact
  <2>3. QED
    BY <2>1, <2>2
<1>8. Committed(t)
  BY <1>3, <1>5, <1>6, <1>7 DEF Committed
<1>9. \A f \in DOMAIN t.files : Settled(t, f) \/ f \in t.changed
  BY <1>3, <1>5, <1>6 DEF Settled
<1>10. Bound(t)
  BY <1>4, <1>8, <1>9 DEF Bound
<1>11. LexInvOf(t)
  BY <1>1, <1>3, <1>4, <1>10 DEF LexInvOf
<1>12. QED
  BY <1>2, <1>11 DEF LexInv

\* A sequence is a sequence of its elements.
LEMMA OwnRange == ASSUME NEW S, NEW s \in Seq(S) PROVE s \in Seq(Range(s))
<1>1. Len(s) \in Nat /\ DOMAIN s = 1..Len(s) /\ s \in [1..Len(s) -> S]
  OBVIOUS
<1>2. \A i \in 1..Len(s) : s[i] \in Range(s)
  BY <1>1 DEF Range
<1>3. s \in [1..Len(s) -> Range(s)]
  BY <1>1, <1>2
<1>4. QED
  BY <1>1, <1>3, SeqDef

LEMMA ChangeStep ==
  ASSUME LexInv, NEW f \in DOMAIN lex.files, NEW file \in LexicalEdits, ChangeFile(f, file) PROVE LexInv'
<1> DEFINE t == [lex EXCEPT !.files[f] = file, !.changed = @ \cup {f}]
<1>1. /\ DOMAIN lex = LexFields /\ lex.phase = "bound" /\ lex.result # "pools"
      /\ lex.result # "lexical" /\ FilesOk(lex) /\ Bound(lex)
  BY DEF LexInv, LexInvOf, ChangeFile
<1>2. lex' = t
  BY DEF ChangeFile
<1>3. /\ DOMAIN t = LexFields /\ t.phase = "bound" /\ t.result = lex.result
      /\ t.files = [lex.files EXCEPT ![f] = file] /\ t.changed = lex.changed \cup {f}
      /\ t.baseline = lex.baseline /\ t.records = lex.records /\ t.arenas = lex.arenas
  BY <1>1 DEF LexFields
<1> HIDE DEF t
<1>4. /\ DOMAIN t.files = DOMAIN lex.files /\ t.files[f] = file
      /\ \A g \in DOMAIN lex.files : g # f => t.files[g] = lex.files[g]
  BY <1>3
<1>5. FilesOk(t)
  <2>1. Len(lex.files) \in Nat /\ DOMAIN lex.files = 1..Len(lex.files)
        /\ lex.files \in [1..Len(lex.files) -> Range(lex.files)]
    BY <1>1 DEF FilesOk
  <2> DEFINE S == Range(lex.files) \cup {file}
  <2>2. t.files \in [1..Len(lex.files) -> S]
    BY <1>3, <2>1
  <2>3. t.files \in Seq(S)
    BY <2>1, <2>2, SeqDef
  <2>4. t.files \in Seq(Range(t.files))
    BY <2>3, OwnRange
  <2>5. ASSUME NEW g \in DOMAIN t.files PROVE IsSourceFile(t.files[g])
    <3>1. CASE g = f
      BY <1>4, <3>1, LexicalMenus
    <3>2. CASE g # f
      BY <1>1, <1>4, <3>2 DEF FilesOk
    <3>3. QED
      BY <3>1, <3>2
  <2>6. QED
    BY <2>4, <2>5 DEF FilesOk
<1>6. Fresh(t)
  BY <1>1, <1>3, <1>4 DEF Bound, Fresh
<1>7. ASSUME NEW g \in DOMAIN t.files, Settled(t, g) PROVE CommittedExact(t, g)
  <2>1. g # f /\ Settled(lex, g) /\ t.files[g] = lex.files[g]
    BY <1>3, <1>4, <1>7 DEF Settled
  <2>2. CommittedExact(lex, g)
    BY <1>1, <1>4, <2>1 DEF Bound, Committed
  <2>3. WorkWeight(t.files, g) = WorkWeight(lex.files, g)
    BY <2>1 DEF WorkWeight
  <2>4. QED
    BY <1>3, <2>1, <2>2, <2>3 DEF CommittedExact
<1>8. Committed(t)
  BY <1>1, <1>3, <1>7 DEF Bound, Committed
<1>9. \A g \in DOMAIN t.files : Settled(t, g) \/ g \in t.changed
  BY <1>1, <1>3, <1>4 DEF Bound, Settled
<1>10. LexInvOf(t)
  BY <1>1, <1>3, <1>5, <1>6, <1>8, <1>9 DEF LexInvOf, Bound
<1>11. QED
  BY <1>2, <1>10 DEF LexInv

LEMMA AppendStep ==
  ASSUME LexInv, NEW file \in LexicalEdits, AppendFile(file) PROVE LexInv'
<1> DEFINE N == Len(lex.files)
           t == [lex EXCEPT !.files = Append(@, file), !.records = Append(@, NoRecord),
                            !.changed = @ \cup {N + 1}]
<1>1. /\ DOMAIN lex = LexFields /\ lex.phase = "bound" /\ lex.result # "pools"
      /\ lex.result # "lexical" /\ FilesOk(lex) /\ Bound(lex)
  BY DEF LexInv, LexInvOf, AppendFile
<1>2. lex' = t
  BY DEF AppendFile
<1>3. /\ DOMAIN t = LexFields /\ t.phase = "bound" /\ t.result = lex.result
      /\ t.changed = lex.changed \cup {N + 1}
      /\ t.baseline = lex.baseline /\ t.arenas = lex.arenas
  BY <1>1 DEF LexFields
<1>4. t.files = Append(lex.files, file) /\ t.records = Append(lex.records, NoRecord)
  BY <1>1 DEF LexFields
<1> HIDE DEF t
<1>5. N \in Nat /\ DOMAIN lex.files = 1..N /\ lex.files \in Seq(Range(lex.files))
  BY <1>1, FilesDomain DEF FilesOk
<1>6. /\ t.files \in Seq(Range(lex.files) \cup {file}) /\ DOMAIN t.files = 1..(N + 1)
      /\ t.files[N + 1] = file /\ \A g \in 1..N : t.files[g] = lex.files[g]
  <2> DEFINE S == Range(lex.files) \cup {file}
  <2>1. Range(lex.files) \subseteq S /\ file \in S
    OBVIOUS
  <2> HIDE DEF S
  <2>2. lex.files \in Seq(S)
    BY <1>5, <2>1
  <2>3. /\ t.files \in Seq(S) /\ Len(t.files) = N + 1
        /\ t.files[N + 1] = file /\ \A g \in 1..N : t.files[g] = lex.files[g]
    BY <1>4, <1>5, <2>1, <2>2
  <2>4. QED
    BY <2>3 DEF S
<1>7. FilesOk(t)
  <2>1. t.files \in Seq(Range(t.files))
    BY <1>6, OwnRange
  <2>2. ASSUME NEW g \in 1..(N + 1) PROVE IsSourceFile(t.files[g])
    <3>1. CASE g = N + 1
      BY <1>6, <3>1, LexicalMenus
    <3>2. CASE g # N + 1
      <4>1. g \in 1..N
        BY <1>5, <3>2
      <4>2. QED
        BY <1>1, <1>5, <1>6, <4>1 DEF FilesOk
    <3>3. QED
      BY <3>1, <3>2
  <2>3. QED
    BY <1>6, <2>1, <2>2 DEF FilesOk
<1>8. Fresh(t)
  <2>1. lex.records = [g \in 1..N |-> NoRecord]
    BY <1>1, <1>5 DEF Bound, Fresh
  <2>2. lex.records \in Seq({NoRecord}) /\ Len(lex.records) = N
    <3>1. [g \in 1..N |-> NoRecord] \in [1..N -> {NoRecord}]
      OBVIOUS
    <3>2. QED
      BY <1>5, <2>1, <3>1
  <2>3. /\ t.records \in Seq({NoRecord}) /\ Len(t.records) = N + 1
        /\ DOMAIN t.records = 1..(N + 1)
    BY <1>4, <1>5, <2>2
  <2>4. t.records \in [1..(N + 1) -> {NoRecord}]
    BY <2>3
  <2>5. t.records = [g \in 1..(N + 1) |-> NoRecord]
    BY <2>4
  <2>6. QED
    BY <1>1, <1>3, <1>6, <2>5 DEF Bound, Fresh
<1>9. ASSUME NEW g \in DOMAIN t.files, Settled(t, g) PROVE CommittedExact(t, g)
  <2>1. g \in 1..N /\ Settled(lex, g) /\ t.files[g] = lex.files[g]
    BY <1>3, <1>5, <1>6, <1>9 DEF Settled
  <2>2. CommittedExact(lex, g)
    BY <1>1, <1>5, <2>1 DEF Bound, Committed
  <2>3. WorkWeight(t.files, g) = WorkWeight(lex.files, g)
    BY <2>1 DEF WorkWeight
  <2>4. QED
    BY <1>3, <2>1, <2>2, <2>3 DEF CommittedExact
<1>10. Committed(t)
  BY <1>1, <1>3, <1>9 DEF Bound, Committed
<1>11. ASSUME NEW g \in DOMAIN t.files PROVE Settled(t, g) \/ g \in t.changed
  <2>1. CASE g = N + 1
    BY <1>3, <2>1
  <2>2. CASE g # N + 1
    <3>1. g \in DOMAIN lex.files
      BY <1>5, <1>6, <2>2
    <3>2. QED
      BY <1>1, <1>3, <2>2, <3>1 DEF Bound, Settled
  <2>3. QED
    BY <2>1, <2>2
<1>12. LexInvOf(t)
  BY <1>1, <1>3, <1>7, <1>8, <1>10, <1>11 DEF LexInvOf, Bound
<1>13. QED
  BY <1>2, <1>12 DEF LexInv

LEMMA ReplaceStep == ASSUME LexInv, ReplaceSources PROVE LexInv'
<1> DEFINE N == Len(lex.files)
           list == InOrder(lex.changed, N)
           t == [lex EXCEPT !.phase = "failed", !.result = "missing"]
<1>1. /\ DOMAIN lex = LexFields /\ lex.phase = "bound" /\ lex.result # "pools"
      /\ lex.result # "lexical" /\ FilesOk(lex) /\ Bound(lex)
  BY DEF LexInv, LexInvOf, ReplaceSources
<1>2. lex' = t \/ lex' = StartLanes(lex, list)
  BY DEF ReplaceSources
<1>3. LexInvOf(t)
  <2>1. DOMAIN t = LexFields /\ t.phase = "failed" /\ t.result = "missing"
    BY <1>1 DEF LexFields
  <2> HIDE DEF t
  <2>2. QED
    BY <2>1 DEF LexInvOf
<1>4. N \in Nat /\ DOMAIN lex.files = 1..N
  BY <1>1, FilesDomain
<1>5. ListOk(list, lex.changed, N)
  BY <1>4, InOrderLists
<1> HIDE DEF list
<1>6. WorkOk(lex, list)
  <2>1. \A i \in 1..Len(list) : list[i] \in DOMAIN lex.files /\ ~Settled(lex, list[i])
    BY <1>4, <1>5 DEF ListOk, Settled
  <2>2. \A f \in DOMAIN lex.files : Settled(lex, f) \/ \E i \in 1..Len(list) : list[i] = f
    BY <1>1, <1>4, <1>5 DEF ListOk, Bound
  <2>3. QED
    BY <1>5, <2>1, <2>2 DEF WorkOk, ListOk
<1>7. LexInvOf(StartLanes(lex, list))
  BY <1>1, <1>6, StartOk DEF Bound
<1>8. QED
  BY <1>2, <1>3, <1>7 DEF LexInv

-----------------------------------------------------------------------------
(***************************************************************************)
(* The theorem                                                             *)
(***************************************************************************)

LEMMA LexStep == LexInv /\ [LexicalStateNext]_lex => LexInv'
<1> SUFFICES ASSUME LexInv, [LexicalStateNext]_lex PROVE LexInv'
  OBVIOUS
<1>1. CASE \E files \in LexicalProjects : PrepareSources(files)
  BY <1>1, PrepareStep
<1>2. CASE \E lane \in 1 .. LexicalLanes : RunLexicalLane(lane)
  BY <1>2, RunStep
<1>3. CASE JoinLanes
  BY <1>3, JoinStep
<1>4. CASE BindLexicalBaseline
  BY <1>4, BindStep
<1>5. CASE \E f \in DOMAIN lex.files, file \in LexicalEdits : ChangeFile(f, file)
  BY <1>5, ChangeStep
<1>6. CASE \E file \in LexicalEdits : AppendFile(file)
  BY <1>6, AppendStep
<1>7. CASE ReplaceSources
  BY <1>7, ReplaceStep
<1>8. CASE UNCHANGED lex
  BY <1>8 DEF LexInv
<1>9. QED
  BY <1>1, <1>2, <1>3, <1>4, <1>5, <1>6, <1>7, <1>8 DEF LexicalStateNext

LEMMA LexInvExact == LexInv => LexicalExact
<1> SUFFICES ASSUME LexInv PROVE LexicalExact
  OBVIOUS
<1>1. lex.phase = "lexing" =>
        \A l \in DOMAIN lex.pools : \E i \in lex.pools[l][1] .. lex.pools[l][2] :
            WorkWeight(lex.files, lex.work[i]) # 0
  BY CutFacts DEF LexInv, LexInvOf
<1>2. lex.phase = "done" => Done(lex)
  BY DEF LexInv, LexInvOf
<1>3. lex.result = "lexical" => FirstRejected(lex)
  BY DEF LexInv, LexInvOf
<1>4. lex.result # "pools"
  BY DEF LexInv, LexInvOf
<1>5. QED
  BY <1>1, <1>2, <1>3, <1>4 DEF LexicalExact, Done, FirstRejected

\* For any files, any edits and any number of lanes, however the lanes
\* interleave: every lane gets work, the tokens that are left are those of the
\* files' present bytes, and a rejection names the first file that has one.
THEOREM TokensAreExact == LexicalStateSpec => []LexicalExact
<1>1. LexicalStateSpec => []LexInv
  BY LexStart, LexStep, PTL DEF LexicalStateSpec
<1>2. QED
  BY <1>1, LexInvExact, PTL

-----------------------------------------------------------------------------
(***************************************************************************)
(* Recursion and concatenation                                             *)
(***************************************************************************)

\* A recursive function over 0..N, by its first value and its step.
Iterates(g, N, base, step) ==
  \A n \in 0..N : g[n] = IF n = 0 THEN base ELSE step[<<g[n - 1], n>>]

\* A recursive function over 0..N whose values stay in a set exists.
LEMMA RecursionExists ==
  ASSUME NEW N \in Nat, NEW V, NEW base \in V, NEW step \in [V \X (1..N) -> V]
  PROVE  \E g \in [0..N -> V] : Iterates(g, N, base, step)
<1> DEFINE By(g, n) == IF n = 0 THEN base ELSE step[<<g[n - 1], n>>]
           S == {m \in 0..N : \E g \in [0..m -> V] : \A n \in 0..m : g[n] = By(g, n)}
<1>1. 0 \in S
  <2> DEFINE start == [n \in 0..0 |-> base]
  <2>1. start \in [0..0 -> V] /\ \A n \in 0..0 : start[n] = base /\ n = 0
    OBVIOUS
  <2> HIDE DEF start
  <2>2. \A n \in 0..0 : start[n] = By(start, n)
    BY <2>1
  <2>3. 0 \in 0..N
    OBVIOUS
  <2>4. QED
    BY <2>1, <2>2, <2>3
<1>2. ASSUME NEW m \in Nat, m < N, m \in S PROVE m + 1 \in S
  <2>1. PICK g \in [0..m -> V] : \A n \in 0..m : g[n] = By(g, n)
    BY <1>2
  <2> DEFINE h == [n \in 0..(m + 1) |-> IF n = m + 1 THEN step[<<g[m], m + 1>>] ELSE g[n]]
  <2>2. g[m] \in V /\ m + 1 \in 1..N
    BY <1>2
  <2>3. step[<<g[m], m + 1>>] \in V
    BY <2>2
  <2>4. h \in [0..(m + 1) -> V]
    <3>1. ASSUME NEW n \in 0..(m + 1) PROVE h[n] \in V
      <4>1. n # m + 1 => n \in 0..m
        OBVIOUS
      <4>2. QED
        BY <2>3, <4>1
    <3>2. QED
      BY <3>1
  <2>5. ASSUME NEW n \in 0..(m + 1) PROVE h[n] = By(h, n)
    <3>1. n # 0 => n - 1 \in 0..m /\ n - 1 \in 0..(m + 1) /\ n - 1 # m + 1
      OBVIOUS
    <3>2. n # 0 => h[n - 1] = g[n - 1]
      BY <3>1
    <3>3. CASE n = m + 1
      <4>1. n # 0 /\ n - 1 = m
        BY <3>3
      <4>2. h[n] = step[<<g[m], m + 1>>]
        BY <3>3
      <4> HIDE DEF h
      <4>3. QED
        BY <3>2, <3>3, <4>1, <4>2
    <3>4. CASE n # m + 1
      <4>1. n \in 0..m
        BY <3>4
      <4>2. h[n] = g[n] /\ g[n] = By(g, n)
        BY <2>1, <3>4, <4>1
      <4> HIDE DEF h
      <4>3. QED
        BY <3>2, <4>2
    <3>5. QED
      BY <3>3, <3>4
  <2> HIDE DEF h
  <2>6. m + 1 \in 0..N
    BY <1>2
  <2>7. QED
    BY <2>4, <2>5, <2>6
<1> HIDE DEF S
<1>3. \A n \in 0..N : n \in S
  BY <1>1, <1>2, UpTo
<1>4. N \in S
  BY <1>3
<1>5. QED
  BY <1>4 DEF S, Iterates

LEMMA TableIsSeq ==
  ASSUME NEW N \in Nat, NEW S, NEW s \in [1..N -> S] PROVE s \in Seq(S)
BY SeqDef

\* The function FlattenSeq is defined with.
Flattened(g, seqs) ==
  g = [i \in 1..Len(seqs) |-> IF i = 1 THEN seqs[i] ELSE g[i - 1] \o seqs[i]]

LEMMA FlattenedExists ==
  ASSUME NEW S, NEW seqs \in Seq(Seq(S))
  PROVE  \E g : Flattened(g, seqs)
<1> DEFINE N == Len(seqs)
           V == Seq(S)
           step == [vn \in V \X (1..N) |-> vn[1] \o seqs[vn[2]]]
<1>1. N \in Nat /\ \A n \in 1..N : seqs[n] \in V
  OBVIOUS
<1>2. step \in [V \X (1..N) -> V]
  <2>1. ASSUME NEW vn \in V \X (1..N) PROVE vn[1] \o seqs[vn[2]] \in V
    <3>1. vn[1] \in Seq(S) /\ seqs[vn[2]] \in Seq(S)
      OBVIOUS
    <3>2. QED
      BY <3>1
  <2>2. QED
    BY <2>1
<1>3. <<>> \in V
  OBVIOUS
<1>4. \A v \in V, n \in 1..N : step[<<v, n>>] = v \o seqs[n]
  OBVIOUS
<1> HIDE DEF step, N, V
<1>5. PICK h \in [0..N -> V] : Iterates(h, N, <<>>, step)
  BY <1>1, <1>2, <1>3, RecursionExists, Zenon
<1> DEFINE g == [n \in 1..N |-> h[n]]
<1>6. ASSUME NEW n \in 1..N PROVE g[n] = IF n = 1 THEN seqs[n] ELSE g[n - 1] \o seqs[n]
  <2>1. n \in 0..N /\ n - 1 \in 0..N /\ n # 0
    BY <1>1
  <2>2. h[n - 1] \in V
    BY <2>1
  <2>3. h[n] = h[n - 1] \o seqs[n]
    BY <1>4, <1>5, <2>1, <2>2 DEF Iterates
  <2>4. CASE n = 1
    <3>1. h[0] = <<>>
      <4>1. 0 \in 0..N
        BY <1>1
      <4>2. QED
        BY <1>5, <4>1 DEF Iterates
    <3>2. seqs[n] \in Seq(S)
      BY <1>1 DEF V
    <3>3. <<>> \o seqs[n] = seqs[n]
      BY <3>2
    <3>4. g[n] = h[n] /\ n - 1 = 0
      BY <2>4
    <3> HIDE DEF g
    <3>5. QED
      BY <2>3, <2>4, <3>1, <3>3, <3>4
  <2>5. CASE n # 1
    <3>1. n - 1 \in 1..N
      BY <1>1, <2>5
    <3>2. g[n] = h[n] /\ g[n - 1] = h[n - 1]
      BY <3>1
    <3> HIDE DEF g
    <3>3. QED
      BY <2>3, <2>5, <3>2
  <2>6. QED
    BY <2>4, <2>5
<1>7. g = [n \in 1..N |-> g[n]]
  OBVIOUS
<1> HIDE DEF g
<1>8. g = [n \in 1..N |-> IF n = 1 THEN seqs[n] ELSE g[n - 1] \o seqs[n]]
  BY <1>6, <1>7
<1>9. QED
  BY <1>8 DEF Flattened, N

\* FlattenSeq is the last of the partial concatenations.
LEMMA FlattenIsLast ==
  ASSUME NEW S, NEW seqs \in Seq(Seq(S)), seqs # <<>>
  PROVE  \E g : /\ FlattenSeq(seqs) = g[Len(seqs)]
                /\ \A n \in 1..Len(seqs) : g[n] = IF n = 1 THEN seqs[n] ELSE g[n - 1] \o seqs[n]
<1> DEFINE g == CHOOSE g : Flattened(g, seqs)
<1>1. Flattened(g, seqs)
  BY FlattenedExists, Zenon
<1>2. Len(seqs) # 0
  OBVIOUS
<1>3. FlattenSeq(seqs) = g[Len(seqs)]
  BY <1>2, Zenon DEF FlattenSeq, Flattened
<1> HIDE DEF g
<1>4. QED
  BY <1>1, <1>3 DEF Flattened

\* Where the sequences begin when they are laid behind each other.
Offsets(off, seqs) ==
  /\ off \in [0..Len(seqs) -> Nat]
  /\ off[0] = 0
  /\ \A n \in 1..Len(seqs) : off[n] = off[n - 1] + Len(seqs[n])

LEMMA OffsetsExist ==
  ASSUME NEW S, NEW seqs \in Seq(Seq(S))
  PROVE  \E off : Offsets(off, seqs)
<1> DEFINE N == Len(seqs)
           step == [vn \in Nat \X (1..N) |-> vn[1] + Len(seqs[vn[2]])]
<1>1. N \in Nat /\ \A n \in 1..N : Len(seqs[n]) \in Nat
  <2>1. ASSUME NEW n \in 1..N PROVE Len(seqs[n]) \in Nat
    <3>1. seqs[n] \in Seq(S)
      OBVIOUS
    <3>2. QED
      BY <3>1
  <2>2. QED
    BY <2>1
<1> DEFINE size == [n \in 1..N |-> Len(seqs[n])]
<1>2. size \in [1..N -> Nat]
  BY <1>1
<1>3. step \in [Nat \X (1..N) -> Nat] /\ \A v \in Nat, n \in 1..N : step[<<v, n>>] = v + Len(seqs[n])
  BY <1>1, SMTT(20)
<1> HIDE DEF step, N
<1>4. PICK off \in [0..N -> Nat] : Iterates(off, N, 0, step)
  BY <1>1, <1>3, RecursionExists, Zenon
<1>5. off[0] = 0
  <2>1. 0 \in 0..N
    BY <1>1
  <2>2. QED
    BY <1>4, <2>1 DEF Iterates
<1>6. ASSUME NEW n \in 1..N PROVE off[n] = off[n - 1] + Len(seqs[n])
  <2>1. n \in 0..N /\ n - 1 \in 0..N /\ n # 0
    BY <1>1
  <2>2. off[n] = step[<<off[n - 1], n>>] /\ off[n - 1] \in Nat
    BY <1>4, <2>1 DEF Iterates
  <2>3. QED
    BY <1>3, <2>2
<1>7. QED
  BY <1>5, <1>6 DEF Offsets, N

LEMMA OffsetsGrow ==
  ASSUME NEW S, NEW seqs \in Seq(Seq(S)), NEW off, Offsets(off, seqs),
         NEW m \in 0..Len(seqs), NEW n \in 0..Len(seqs), m <= n
  PROVE  off[m] <= off[n]
<1> DEFINE N == Len(seqs)
           R == {k \in 0..N : m <= k => off[m] <= off[k]}
<1>1. N \in Nat /\ off \in [0..N -> Nat]
  BY DEF Offsets
<1>2. 0 \in R
  BY <1>1
<1>3. ASSUME NEW k \in Nat, k < N, k \in R PROVE k + 1 \in R
  <2>1. k + 1 \in 1..N /\ k + 1 \in 0..N /\ k \in 0..N
    BY <1>1, <1>3
  <2>2. seqs[k + 1] \in Seq(S)
    BY <2>1
  <2>3. Len(seqs[k + 1]) \in Nat
    BY <2>2
  <2>4. (k + 1) - 1 = k
    OBVIOUS
  <2>5. off[k + 1] = off[k] + Len(seqs[k + 1])
    BY <2>1, <2>4 DEF Offsets
  <2>6. off[k] \in Nat /\ off[k + 1] \in Nat /\ off[m] \in Nat
    BY <1>1, <2>1
  <2>7. CASE m <= k
    BY <1>3, <2>1, <2>3, <2>5, <2>6, <2>7
  <2>8. CASE ~(m <= k)
    <3>1. m <= k + 1 => m = k + 1
      BY <1>1, <2>8
    <3>2. QED
      BY <2>1, <2>6, <3>1
  <2>9. QED
    BY <2>7, <2>8
<1> HIDE DEF R
<1>4. \A k \in 0..N : k \in R
  BY <1>1, <1>2, <1>3, UpTo
<1>5. QED
  BY <1>4 DEF R

\* Every place belongs to one of the sequences.
LEMMA OffsetsCover ==
  ASSUME NEW S, NEW seqs \in Seq(Seq(S)), NEW off, Offsets(off, seqs)
  PROVE  \A p \in 1..off[Len(seqs)] :
            \E n \in 1..Len(seqs) : \E i \in 1..Len(seqs[n]) : p = off[n - 1] + i
<1> DEFINE N == Len(seqs)
           Covered(p) == \E n \in 1..N : \E i \in 1..Len(seqs[n]) : p = off[n - 1] + i
           R == {k \in 0..N : \A p \in 1..off[k] : Covered(p)}
<1>1. N \in Nat /\ off \in [0..N -> Nat] /\ off[0] = 0
  BY DEF Offsets
<1>2. 0 \in R
  BY <1>1
<1> HIDE DEF Covered
<1>3. ASSUME NEW k \in Nat, k < N, k \in R PROVE k + 1 \in R
  <2>1. k + 1 \in 1..N /\ k + 1 \in 0..N /\ k \in 0..N
    BY <1>1, <1>3
  <2>2. seqs[k + 1] \in Seq(S)
    BY <2>1
  <2>3. Len(seqs[k + 1]) \in Nat
    BY <2>2
  <2>4. (k + 1) - 1 = k
    OBVIOUS
  <2>5. off[k + 1] = off[k] + Len(seqs[k + 1])
    BY <2>1, <2>4 DEF Offsets
  <2>6. off[k] \in Nat
    BY <1>1, <2>1
  <2>7. ASSUME NEW p \in 1..off[k + 1] PROVE Covered(p)
    <3>1. CASE p <= off[k]
      <4>1. \A x \in 1..off[k] : Covered(x)
        BY <1>3
      <4>2. p \in 1..off[k]
        BY <2>6, <3>1
      <4>3. QED
        BY <4>1, <4>2
    <3>2. CASE p > off[k]
      <4> DEFINE i == p - off[k]
      <4>1. i \in 1..Len(seqs[k + 1])
        BY <2>3, <2>5, <2>6, <3>2
      <4>2. p = off[(k + 1) - 1] + i
        BY <2>4, <2>6
      <4> HIDE DEF i
      <4>3. QED
        BY <2>1, <4>1, <4>2 DEF Covered
    <3>3. QED
      BY <2>6, <3>1, <3>2
  <2>8. QED
    BY <2>1, <2>7
<1> HIDE DEF R, Covered
<1>4. \A k \in 0..N : k \in R
  BY <1>1, <1>2, <1>3, UpTo
<1>5. N \in R
  BY <1>1, <1>4
<1>6. QED
  BY <1>5 DEF R, Covered

LEMMA ConcatPlaces ==
  ASSUME NEW S, NEW a \in Seq(S), NEW b \in Seq(S), NEW c, c = a \o b
  PROVE  /\ c \in Seq(S) /\ Len(c) = Len(a) + Len(b)
         /\ \A p \in 1..Len(a) : c[p] = a[p]
         /\ \A i \in 1..Len(b) : c[Len(a) + i] = b[i]
<1>1. a \o b \in Seq(S) /\ Len(a \o b) = Len(a) + Len(b)
  OBVIOUS
<1>2. Len(a) \in Nat /\ Len(b) \in Nat
  OBVIOUS
<1>3. \A p \in 1..(Len(a) + Len(b)) : (a \o b)[p] = IF p <= Len(a) THEN a[p] ELSE b[p - Len(a)]
  BY ConcatProperties
<1>4. \A p \in 1..Len(a) : (a \o b)[p] = a[p]
  BY <1>2, <1>3
<1>5. ASSUME NEW i \in 1..Len(b) PROVE (a \o b)[Len(a) + i] = b[i]
  <2>1. Len(a) + i \in 1..(Len(a) + Len(b)) /\ ~(Len(a) + i <= Len(a)) /\ (Len(a) + i) - Len(a) = i
    BY <1>2
  <2>2. QED
    BY <1>3, <2>1
<1>6. QED
  BY <1>1, <1>4, <1>5

\* FlattenSeq lays the sequences behind each other.
LEMMA FlattenLaysOut ==
  ASSUME NEW S, NEW seqs \in Seq(Seq(S)), NEW off, Offsets(off, seqs)
  PROVE  /\ FlattenSeq(seqs) \in Seq(S)
         /\ Len(FlattenSeq(seqs)) = off[Len(seqs)]
         /\ \A n \in 1..Len(seqs) : \A i \in 1..Len(seqs[n]) :
               FlattenSeq(seqs)[off[n - 1] + i] = seqs[n][i]
<1> DEFINE N == Len(seqs)
<1>1. N \in Nat /\ off \in [0..N -> Nat] /\ off[0] = 0
  BY DEF Offsets
<1>2. CASE seqs = <<>>
  <2>1. N = 0 /\ FlattenSeq(seqs) = <<>>
    BY <1>2 DEF FlattenSeq
  <2>2. QED
    BY <1>1, <2>1
<1>3. CASE seqs # <<>>
  <2>1. PICK g : /\ FlattenSeq(seqs) = g[N]
                 /\ \A n \in 1..N : g[n] = IF n = 1 THEN seqs[n] ELSE g[n - 1] \o seqs[n]
    BY <1>3, FlattenIsLast
  <2>2. N # 0
    BY <1>3
  <2> DEFINE Laid(k) ==
        /\ g[k] \in Seq(S)
        /\ Len(g[k]) = off[k]
        /\ \A n \in 1..k : \A i \in 1..Len(seqs[n]) : g[k][off[n - 1] + i] = seqs[n][i]
             R == {k \in 0..N : k = 0 \/ Laid(k)}
  <2>3. 0 \in R
    BY <1>1
  <2> HIDE DEF Laid
  <2>4. ASSUME NEW k \in Nat, k < N, k \in R PROVE k + 1 \in R
    <3>1. k + 1 \in 1..N /\ k + 1 \in 0..N /\ k \in 0..N /\ (k + 1) - 1 = k
      BY <1>1, <2>4
    <3>2. seqs[k + 1] \in Seq(S)
      BY <3>1
    <3>3. Len(seqs[k + 1]) \in Nat
      BY <3>2
    <3>4. off[k + 1] = off[k] + Len(seqs[k + 1]) /\ off[k] \in Nat
      BY <1>1, <3>1 DEF Offsets
    <3>5. CASE k = 0
      <4>1. g[k + 1] = seqs[k + 1]
        BY <2>1, <3>1, <3>5
      <4>2. off[k] = 0
        BY <1>1, <3>5
      <4>3. \A i \in 1..Len(seqs[k + 1]) : off[(k + 1) - 1] + i = i
        BY <3>1, <3>3, <4>2
      <4>4. \A n \in 1..(k + 1) : n = k + 1
        BY <3>5
      <4>5. Len(g[k + 1]) = off[k + 1]
        BY <3>3, <3>4, <4>1, <4>2
      <4>6. Laid(k + 1)
        BY <3>2, <4>1, <4>3, <4>4, <4>5 DEF Laid
      <4>7. QED
        BY <3>1, <4>6
    <3>6. CASE k # 0
      <4>1. Laid(k)
        BY <2>4, <3>6
      <4>2. g[k + 1] = g[k] \o seqs[k + 1]
        <5>1. k + 1 # 1
          BY <3>6
        <5>2. g[k + 1] = g[(k + 1) - 1] \o seqs[k + 1]
          BY <2>1, <3>1, <5>1
        <5>3. QED
          BY <3>1, <5>2
      <4>3. /\ g[k + 1] \in Seq(S) /\ Len(g[k + 1]) = off[k + 1]
            /\ \A p \in 1..off[k] : g[k + 1][p] = g[k][p]
            /\ \A i \in 1..Len(seqs[k + 1]) : g[k + 1][off[k] + i] = seqs[k + 1][i]
        <5>1. g[k] \in Seq(S) /\ Len(g[k]) = off[k]
          BY <4>1 DEF Laid
        <5>2. PICK a, b, c : a = g[k] /\ b = seqs[k + 1] /\ c = g[k + 1]
          OBVIOUS
        <5>3. a \in Seq(S) /\ b \in Seq(S) /\ c = a \o b
          BY <3>2, <4>2, <5>1, <5>2
        <5>4. Len(a) = off[k]
          BY <5>1, <5>2
        <5>5. /\ c \in Seq(S) /\ Len(c) = Len(a) + Len(b)
              /\ \A p \in 1..Len(a) : c[p] = a[p]
              /\ \A i \in 1..Len(b) : c[Len(a) + i] = b[i]
          BY <5>3, ConcatPlaces
        <5>6. QED
          BY <3>4, <5>2, <5>4, <5>5
      <4>4. ASSUME NEW n \in 1..(k + 1), NEW i \in 1..Len(seqs[n])
            PROVE  g[k + 1][off[n - 1] + i] = seqs[n][i]
        <5>1. CASE n = k + 1
          BY <3>1, <4>3, <5>1
        <5>2. CASE n # k + 1
          <6>1. n \in 1..k /\ n \in 1..N /\ n \in 0..N /\ n - 1 \in 0..N /\ n <= k
            BY <1>1, <3>1, <5>2
          <6>2. seqs[n] \in Seq(S)
            BY <6>1
          <6>3. Len(seqs[n]) \in Nat
            BY <6>2
          <6>4. off[n] = off[n - 1] + Len(seqs[n]) /\ off[n] \in Nat /\ off[n - 1] \in Nat
            BY <1>1, <6>1 DEF Offsets
          <6>5. off[n] <= off[k]
            BY <3>1, <6>1, OffsetsGrow
          <6>6. off[n - 1] + i \in 1..off[k]
            <7>1. PICK before, size, after, end : before = off[n - 1] /\ size = Len(seqs[n])
                                                  /\ after = off[n] /\ end = off[k]
              OBVIOUS
            <7>2. before \in Nat /\ size \in Nat /\ after = before + size /\ end \in Nat
                  /\ after <= end /\ i \in 1..size
              BY <3>4, <6>3, <6>4, <6>5, <7>1
            <7>3. before + i \in 1..end
              BY <7>2
            <7>4. QED
              BY <7>1, <7>3
          <6>7. g[k][off[n - 1] + i] = seqs[n][i]
            BY <4>1, <6>1 DEF Laid
          <6>8. QED
            BY <4>3, <6>6, <6>7
        <5>3. QED
          BY <5>1, <5>2
      <4>5. Laid(k + 1)
        BY <4>3, <4>4 DEF Laid
      <4>6. QED
        BY <3>1, <4>5
    <3>7. QED
      BY <3>5, <3>6
  <2> HIDE DEF R
  <2>5. \A k \in 0..N : k \in R
    BY <1>1, <2>3, <2>4, UpTo
  <2>6. N \in R
    BY <1>1, <2>5
  <2>7. Laid(N)
    BY <2>2, <2>6 DEF R
  <2>8. QED
    BY <2>1, <2>7 DEF Laid
<1>4. QED
  BY <1>2, <1>3

\* What FlattenSeq gives has the elements of the sequences, each as often.
LEMMA FlattenElements ==
  ASSUME NEW S, NEW seqs \in Seq(Seq(S))
  PROVE  /\ FlattenSeq(seqs) \in Seq(S)
         /\ \A x : x \in Range(FlattenSeq(seqs)) <=> \E n \in DOMAIN seqs : x \in Range(seqs[n])
<1> DEFINE N == Len(seqs)
           flat == FlattenSeq(seqs)
<1>1. PICK off : Offsets(off, seqs)
  BY OffsetsExist
<1>2. N \in Nat /\ off \in [0..N -> Nat] /\ DOMAIN seqs = 1..N
  BY <1>1 DEF Offsets
<1>3. /\ flat \in Seq(S) /\ Len(flat) = off[N]
      /\ \A n \in 1..N : \A i \in 1..Len(seqs[n]) : flat[off[n - 1] + i] = seqs[n][i]
  BY <1>1, FlattenLaysOut
<1>4. ASSUME NEW n \in 1..N
      PROVE  seqs[n] \in Seq(S) /\ Len(seqs[n]) \in Nat /\ DOMAIN seqs[n] = 1..Len(seqs[n])
  <2>1. seqs[n] \in Seq(S)
    OBVIOUS
  <2>2. QED
    BY <2>1
<1>5. DOMAIN flat = 1..off[N]
  BY <1>3
<1> HIDE DEF flat
<1>6. ASSUME NEW x, x \in Range(flat) PROVE \E n \in DOMAIN seqs : x \in Range(seqs[n])
  <2>1. PICK p \in 1..off[N] : x = flat[p]
    BY <1>5, <1>6 DEF Range
  <2>2. PICK n \in 1..N : \E i \in 1..Len(seqs[n]) : p = off[n - 1] + i
    BY <1>1, OffsetsCover
  <2>3. PICK i \in 1..Len(seqs[n]) : p = off[n - 1] + i
    BY <2>2
  <2>4. x = seqs[n][i]
    BY <1>3, <2>1, <2>3
  <2>5. QED
    BY <1>2, <1>4, <2>4 DEF Range
<1>7. ASSUME NEW n \in DOMAIN seqs, NEW x, x \in Range(seqs[n]) PROVE x \in Range(flat)
  <2>1. n \in 1..N
    BY <1>2
  <2>2. PICK i \in 1..Len(seqs[n]) : x = seqs[n][i]
    BY <1>4, <1>7, <2>1 DEF Range
  <2>3. n \in 0..N /\ N \in 0..N /\ n <= N /\ n - 1 \in 0..N
    BY <1>2, <2>1
  <2>4. off[n] = off[n - 1] + Len(seqs[n]) /\ off[n] <= off[N]
    BY <1>1, <2>1, <2>3, OffsetsGrow DEF Offsets
  <2>5. off[n - 1] \in Nat /\ off[n] \in Nat /\ off[N] \in Nat
    BY <1>2, <2>3
  <2>6. off[n - 1] + i \in 1..off[N]
    BY <1>4, <2>1, <2>4, <2>5
  <2>7. x = flat[off[n - 1] + i]
    BY <1>3, <2>1, <2>2
  <2>8. QED
    BY <1>5, <2>6, <2>7 DEF Range
<1>8. QED
  BY <1>3, <1>6, <1>7 DEF flat

LEMMA FlattenInjective ==
  ASSUME NEW S, NEW seqs \in Seq(Seq(S)),
         \A n \in DOMAIN seqs : IsInjective(seqs[n]),
         \A m, n \in DOMAIN seqs : m # n => Range(seqs[m]) \cap Range(seqs[n]) = {}
  PROVE  IsInjective(FlattenSeq(seqs))
<1> DEFINE N == Len(seqs)
           flat == FlattenSeq(seqs)
<1>1. PICK off : Offsets(off, seqs)
  BY OffsetsExist
<1>2. N \in Nat /\ off \in [0..N -> Nat] /\ DOMAIN seqs = 1..N
  BY <1>1 DEF Offsets
<1>3. /\ flat \in Seq(S) /\ Len(flat) = off[N]
      /\ \A n \in 1..N : \A i \in 1..Len(seqs[n]) : flat[off[n - 1] + i] = seqs[n][i]
  BY <1>1, FlattenLaysOut
<1>4. ASSUME NEW n \in 1..N
      PROVE  seqs[n] \in Seq(S) /\ Len(seqs[n]) \in Nat /\ DOMAIN seqs[n] = 1..Len(seqs[n])
  <2>1. seqs[n] \in Seq(S)
    OBVIOUS
  <2>2. QED
    BY <2>1
<1>5. DOMAIN flat = 1..off[N]
  BY <1>3
<1> HIDE DEF flat
<1>6. \A p \in 1..off[N] : \E n \in 1..N : \E i \in 1..Len(seqs[n]) : p = off[n - 1] + i
  BY <1>1, OffsetsCover
<1>7. ASSUME NEW p \in 1..off[N], NEW q \in 1..off[N], flat[p] = flat[q] PROVE p = q
  <2>1. PICK m \in 1..N : \E i \in 1..Len(seqs[m]) : p = off[m - 1] + i
    BY <1>6
  <2>2. PICK i \in 1..Len(seqs[m]) : p = off[m - 1] + i
    BY <2>1
  <2>3. PICK n \in 1..N : \E j \in 1..Len(seqs[n]) : q = off[n - 1] + j
    BY <1>6
  <2>4. PICK j \in 1..Len(seqs[n]) : q = off[n - 1] + j
    BY <2>3
  <2>5. flat[p] = seqs[m][i] /\ flat[q] = seqs[n][j]
    BY <1>3, <2>2, <2>4
  <2>6. i \in DOMAIN seqs[m] /\ j \in DOMAIN seqs[n]
    BY <1>4
  <2>7. seqs[m][i] \in Range(seqs[m]) /\ seqs[m][i] \in Range(seqs[n])
    BY <1>7, <2>5, <2>6 DEF Range
  <2>8. m = n
    BY <1>2, <2>7
  <2>9. i = j
    BY <1>2, <1>7, <2>5, <2>6, <2>8 DEF IsInjective
  <2>10. QED
    BY <2>2, <2>4, <2>8, <2>9
<1>8. QED
  BY <1>5, <1>7 DEF IsInjective, flat

-----------------------------------------------------------------------------
(***************************************************************************)
(* The tables of FileTopology                                              *)
(***************************************************************************)

LEMMA PickedParts ==
  ASSUME NEW S, NEW s \in Seq(S), NEW keep
  PROVE  LET parts == [i \in DOMAIN s |-> IF i \in keep THEN <<s[i]>> ELSE <<>>]
         IN  /\ parts \in Seq(Seq(S)) /\ DOMAIN parts = DOMAIN s
             /\ \A i \in DOMAIN s : i \in keep => Range(parts[i]) = {s[i]}
             /\ \A i \in DOMAIN s : i \notin keep => Range(parts[i]) = {}
             /\ \A i \in DOMAIN s : IsInjective(parts[i])
<1> DEFINE part(i) == IF i \in keep THEN <<s[i]>> ELSE <<>>
           parts == [i \in DOMAIN s |-> part(i)]
<1>1. DOMAIN s = 1..Len(s) /\ Len(s) \in Nat
  OBVIOUS
<1>2. ASSUME NEW i \in DOMAIN s
      PROVE  /\ part(i) \in Seq(S)
             /\ i \in keep => Range(part(i)) = {s[i]}
             /\ i \notin keep => Range(part(i)) = {}
             /\ IsInjective(part(i))
  <2>1. s[i] \in S
    OBVIOUS
  <2>2. CASE i \in keep
    <3>1. part(i) = <<s[i]>>
      BY <2>2
    <3>2. <<s[i]>> \in Seq(S) /\ DOMAIN <<s[i]>> = {1} /\ <<s[i]>>[1] = s[i]
      BY <2>1
    <3> HIDE DEF part
    <3>3. QED
      BY <2>2, <3>1, <3>2 DEF Range, IsInjective
  <2>3. CASE i \notin keep
    <3>1. part(i) = <<>>
      BY <2>3
    <3>2. <<>> \in Seq(S) /\ DOMAIN <<>> = {}
      OBVIOUS
    <3> HIDE DEF part
    <3>3. QED
      BY <2>3, <3>1, <3>2 DEF Range, IsInjective
  <2>4. QED
    BY <2>2, <2>3
<1> HIDE DEF part
<1>3. parts \in [1..Len(s) -> Seq(S)]
  BY <1>1, <1>2
<1>4. parts \in Seq(Seq(S))
  BY <1>1, <1>3, SeqDef
<1>5. QED
  BY <1>2, <1>4 DEF part

LEMMA PickedElements ==
  ASSUME NEW S, NEW s \in Seq(S), NEW keep
  PROVE  /\ Picked(s, keep) \in Seq(S)
         /\ \A x : x \in Range(Picked(s, keep)) <=> \E i \in DOMAIN s : i \in keep /\ x = s[i]
<1> DEFINE parts == [i \in DOMAIN s |-> IF i \in keep THEN <<s[i]>> ELSE <<>>]
<1>1. /\ parts \in Seq(Seq(S)) /\ DOMAIN parts = DOMAIN s
      /\ \A i \in DOMAIN s : i \in keep => Range(parts[i]) = {s[i]}
      /\ \A i \in DOMAIN s : i \notin keep => Range(parts[i]) = {}
  BY PickedParts, SMTT(20)
<1>2. Picked(s, keep) = FlattenSeq(parts)
  BY DEF Picked
<1> HIDE DEF parts
<1>3. /\ FlattenSeq(parts) \in Seq(S)
      /\ \A x : x \in Range(FlattenSeq(parts)) <=> \E i \in DOMAIN parts : x \in Range(parts[i])
  BY <1>1, FlattenElements
<1>4. \A x : (\E i \in DOMAIN parts : x \in Range(parts[i]))
             <=> \E i \in DOMAIN s : i \in keep /\ x = s[i]
  BY <1>1
<1>5. QED
  BY <1>2, <1>3, <1>4

LEMMA PickedInjective ==
  ASSUME NEW S, NEW s \in Seq(S), NEW keep,
         \A i, j \in DOMAIN s : i \in keep /\ j \in keep /\ s[i] = s[j] => i = j
  PROVE  IsInjective(Picked(s, keep))
<1> DEFINE parts == [i \in DOMAIN s |-> IF i \in keep THEN <<s[i]>> ELSE <<>>]
<1>1. /\ parts \in Seq(Seq(S)) /\ DOMAIN parts = DOMAIN s
      /\ \A i \in DOMAIN s : i \in keep => Range(parts[i]) = {s[i]}
      /\ \A i \in DOMAIN s : i \notin keep => Range(parts[i]) = {}
      /\ \A i \in DOMAIN s : IsInjective(parts[i])
  BY PickedParts
<1>2. Picked(s, keep) = FlattenSeq(parts)
  BY DEF Picked
<1> HIDE DEF parts
<1>3. ASSUME NEW i \in DOMAIN parts, NEW j \in DOMAIN parts, i # j
      PROVE  Range(parts[i]) \cap Range(parts[j]) = {}
  BY <1>1, <1>3, SMTT(20)
<1>4. \A n \in DOMAIN parts : IsInjective(parts[n])
  BY <1>1
<1>5. IsInjective(FlattenSeq(parts))
  BY <1>1, <1>3, <1>4, FlattenInjective
<1>6. QED
  BY <1>2, <1>5

LEMMA UniqueFacts ==
  ASSUME NEW S, NEW s \in Seq(S)
  PROVE  /\ UniqueEdges(s) \in Seq(S)
         /\ Range(UniqueEdges(s)) = Range(s)
         /\ IsInjective(UniqueEdges(s))
<1> DEFINE keep == {i \in DOMAIN s : \A j \in 1 .. i - 1 : s[j] # s[i]}
<1>1. DOMAIN s = 1..Len(s) /\ Len(s) \in Nat
  OBVIOUS
<1>2. UniqueEdges(s) = Picked(s, keep)
  BY DEF UniqueEdges
<1>3. ASSUME NEW i \in DOMAIN s, NEW j \in DOMAIN s, i \in keep, j \in keep, s[i] = s[j]
      PROVE  i = j
  <2>1. i < j => i \in 1..(j - 1)
    BY <1>1
  <2>2. j < i => j \in 1..(i - 1)
    BY <1>1
  <2>3. ~(i < j) /\ ~(j < i)
    BY <1>3, <2>1, <2>2
  <2>4. QED
    BY <1>1, <2>3
<1>4. ASSUME NEW x, x \in Range(s) PROVE \E i \in DOMAIN s : i \in keep /\ x = s[i]
  <2> DEFINE T == {i \in DOMAIN s : s[i] = x}
  <2>1. T # {} /\ T \in SUBSET Nat
    BY <1>1, <1>4 DEF Range
  <2>2. PICK i \in T : \A j \in T : i <= j
    BY <2>1, LeastNat
  <2>3. ASSUME NEW j \in 1..(i - 1) PROVE s[j] # s[i]
    BY <1>1, <2>2
  <2>4. QED
    BY <2>3
<1> HIDE DEF keep
<1>5. /\ Picked(s, keep) \in Seq(S)
      /\ \A x : x \in Range(Picked(s, keep)) <=> \E i \in DOMAIN s : i \in keep /\ x = s[i]
  BY PickedElements
<1>6. IsInjective(Picked(s, keep))
  BY <1>3, PickedInjective
<1>7. \A x : (\E i \in DOMAIN s : i \in keep /\ x = s[i]) => x \in Range(s)
  BY DEF Range
<1>8. Range(Picked(s, keep)) = Range(s)
  BY <1>4, <1>5, <1>7
<1>9. QED
  BY <1>2, <1>5, <1>6, <1>8

Edges == Nat \X Nat

LEMMA ValuesOfFacts ==
  ASSUME NEW pairs \in Seq(Edges), NEW owner
  PROVE  /\ ValuesOf(pairs, owner) \in Seq(Nat)
         /\ \A x : x \in Range(ValuesOf(pairs, owner)) <=> <<owner, x>> \in Range(pairs)
         /\ IsInjective(pairs) => IsInjective(ValuesOf(pairs, owner))
<1> DEFINE keep == {i \in DOMAIN pairs : pairs[i][1] = owner}
           own == Picked(pairs, keep)
           vals == [i \in DOMAIN own |-> own[i][2]]
<1>1. ValuesOf(pairs, owner) = vals
  BY DEF ValuesOf
<1>2. /\ own \in Seq(Edges)
      /\ \A x : x \in Range(own) <=> \E i \in DOMAIN pairs : i \in keep /\ x = pairs[i]
  BY PickedElements
<1>3. IsInjective(pairs) => IsInjective(own)
  BY PickedInjective DEF IsInjective
<1> HIDE DEF own
<1>4. DOMAIN own = 1..Len(own) /\ Len(own) \in Nat
  BY <1>2
<1>5. ASSUME NEW i \in DOMAIN own PROVE own[i] = <<owner, own[i][2]>> /\ own[i][2] \in Nat
  <2>1. own[i] \in Range(own)
    BY DEF Range
  <2>2. PICK j \in DOMAIN pairs : j \in keep /\ own[i] = pairs[j]
    BY <1>2, <2>1
  <2>3. pairs[j] \in Nat \X Nat /\ pairs[j][1] = owner
    BY <2>2 DEF Edges
  <2>4. QED
    BY <2>2, <2>3
<1>6. vals \in [1..Len(own) -> Nat]
  BY <1>4, <1>5
<1>7. vals \in Seq(Nat)
  BY <1>4, <1>6, SeqDef
<1>8. ASSUME NEW x, x \in Range(vals) PROVE <<owner, x>> \in Range(pairs)
  <2>1. PICK i \in DOMAIN own : x = own[i][2]
    BY <1>8 DEF Range
  <2>2. own[i] = <<owner, x>> /\ own[i] \in Range(own)
    BY <1>5, <2>1 DEF Range
  <2>3. QED
    BY <1>2, <2>2 DEF Range
<1>9. ASSUME NEW x, <<owner, x>> \in Range(pairs) PROVE x \in Range(vals)
  <2>1. PICK j \in DOMAIN pairs : pairs[j] = <<owner, x>>
    BY <1>9 DEF Range
  <2>2. j \in keep
    BY <2>1
  <2>3. <<owner, x>> \in Range(own)
    BY <1>2, <2>1, <2>2
  <2>4. PICK i \in DOMAIN own : own[i] = <<owner, x>>
    BY <2>3 DEF Range
  <2>5. vals[i] = x
    BY <2>4
  <2>6. QED
    BY <2>5 DEF Range
<1>10. ASSUME IsInjective(own) PROVE IsInjective(vals)
  <2>1. ASSUME NEW i \in DOMAIN own, NEW j \in DOMAIN own, own[i][2] = own[j][2] PROVE i = j
    <3>1. own[i] = own[j]
      BY <1>5, <2>1
    <3>2. QED
      BY <1>10, <3>1 DEF IsInjective
  <2>2. QED
    BY <2>1 DEF IsInjective
<1>11. QED
  BY <1>1, <1>3, <1>7, <1>8, <1>9, <1>10

\* The begins of the ranges as Compact defines them.
Begins(g, owners, values) ==
  g = [i \in DOMAIN owners |-> IF i = 1 THEN 0 ELSE g[i - 1] + Len(values[i - 1])]

LEMMA BeginsAreOffsets ==
  ASSUME NEW O, NEW owners \in Seq(O), NEW S, NEW values \in Seq(Seq(S)),
         DOMAIN values = DOMAIN owners, NEW off, Offsets(off, values)
  PROVE  /\ \E g : Begins(g, owners, values)
         /\ \A g : Begins(g, owners, values) => \A i \in DOMAIN owners : g[i] = off[i - 1]
<1> DEFINE N == Len(values)
           h == [i \in DOMAIN owners |-> off[i - 1]]
<1>1. N \in Nat /\ off \in [0..N -> Nat] /\ off[0] = 0 /\ DOMAIN owners = 1..N
  BY DEF Offsets
<1>2. ASSUME NEW i \in 1..N, i # 1
      PROVE  i - 1 \in 1..N /\ off[i - 1] = off[(i - 1) - 1] + Len(values[i - 1])
  <2>1. i - 1 \in 1..N
    BY <1>1, <1>2
  <2>2. QED
    BY <2>1 DEF Offsets
<1>3. Begins(h, owners, values)
  <2>1. ASSUME NEW i \in 1..N PROVE h[i] = IF i = 1 THEN 0 ELSE h[i - 1] + Len(values[i - 1])
    <3>1. h[i] = off[i - 1]
      BY <1>1
    <3>2. CASE i = 1
      BY <1>1, <3>1, <3>2
    <3>3. CASE i # 1
      <4>1. h[i - 1] = off[(i - 1) - 1]
        BY <1>1, <1>2, <3>3
      <4> HIDE DEF h
      <4>2. QED
        BY <1>2, <3>1, <3>3, <4>1
    <3>4. QED
      BY <3>2, <3>3
  <2>2. h = [i \in 1..N |-> h[i]]
    BY <1>1
  <2> HIDE DEF h
  <2>3. QED
    BY <1>1, <2>1, <2>2 DEF Begins
<1>4. ASSUME NEW g, Begins(g, owners, values) PROVE \A i \in 1..N : g[i] = off[i - 1]
  <2> DEFINE R == {k \in 0..N : k = 0 \/ g[k] = off[k - 1]}
  <2>1. \A i \in 1..N : g[i] = IF i = 1 THEN 0 ELSE g[i - 1] + Len(values[i - 1])
    BY <1>1, <1>4 DEF Begins
  <2>2. 0 \in R
    BY <1>1
  <2>3. ASSUME NEW k \in Nat, k < N, k \in R PROVE k + 1 \in R
    <3>1. k + 1 \in 1..N /\ k + 1 \in 0..N /\ (k + 1) - 1 = k
      BY <1>1, <2>3
    <3>2. CASE k = 0
      <4>1. k + 1 = 1
        BY <3>2
      <4>2. g[k + 1] = 0
        BY <2>1, <3>1, <4>1
      <4>3. QED
        BY <1>1, <3>1, <3>2, <4>2
    <3>3. CASE k # 0
      <4>1. k + 1 # 1
        BY <3>3
      <4>2. g[k + 1] = g[k] + Len(values[k])
        BY <2>1, <3>1, <4>1
      <4>3. g[k] = off[k - 1]
        BY <2>3, <3>3
      <4>4. off[k] = off[k - 1] + Len(values[k])
        BY <1>2, <3>1, <4>1
      <4>5. QED
        BY <3>1, <4>2, <4>3, <4>4
    <3>4. QED
      BY <3>2, <3>3
  <2> HIDE DEF R
  <2>4. \A k \in 0..N : k \in R
    BY <1>1, <2>2, <2>3, UpTo
  <2>5. ASSUME NEW i \in 1..N PROVE g[i] = off[i - 1]
    <3>1. i \in R /\ i # 0
      BY <1>1, <2>4
    <3>2. QED
      BY <3>1 DEF R
  <2>6. QED
    BY <2>5
<1> HIDE DEF h
<1>5. QED
  BY <1>1, <1>3, <1>4

LEMMA SliceIsPart ==
  ASSUME NEW S, NEW flat \in Seq(S), NEW part \in Seq(S), NEW begin \in Nat,
         begin + Len(part) <= Len(flat),
         \A i \in 1..Len(part) : flat[begin + i] = part[i]
  PROVE  SubSeq(flat, begin + 1, begin + Len(part)) = part
<1> DEFINE sub == SubSeq(flat, begin + 1, begin + Len(part))
<1>1. Len(part) \in Nat /\ Len(flat) \in Nat
  OBVIOUS
<1>2. /\ sub \in Seq(S) /\ Len(sub) = Len(part)
      /\ \A i \in 1..Len(part) : sub[i] = flat[begin + i]
  <2>1. /\ begin + 1 \in Int /\ begin + Len(part) \in Int
        /\ Len(sub) = Len(part)
    BY <1>1
  <2>2. sub \in Seq(S)
    BY <1>1
  <2>3. \A i \in 1..Len(part) : sub[i] = flat[begin + i]
    BY <1>1
  <2>4. QED
    BY <2>1, <2>2, <2>3
<1> HIDE DEF sub
<1>3. QED
  BY <1>2, SeqEqual DEF sub

LEMMA CompactRange ==
  ASSUME NEW pairs \in Seq(Edges), NEW owners \in Seq(Nat),
         NEW i \in DOMAIN owners
  PROVE  RangeValues(Compact(pairs, owners), i) = ValuesOf(pairs, owners[i])
<1> DEFINE values == [n \in DOMAIN owners |-> ValuesOf(pairs, owners[n])]
           g == CHOOSE g : Begins(g, owners, values)
           tables == [ranges |-> [n \in DOMAIN owners |-> [offset |-> g[n], count |-> Len(values[n])]],
                      values |-> FlattenSeq(values)]
<1>1. Compact(pairs, owners) = tables
  BY Zenon DEF Compact, Begins
<1>2. DOMAIN owners = 1..Len(owners) /\ Len(owners) \in Nat
  OBVIOUS
<1>3. \A n \in DOMAIN owners : ValuesOf(pairs, owners[n]) \in Seq(Nat)
  BY ValuesOfFacts
<1>4. values \in [1..Len(owners) -> Seq(Nat)]
  BY <1>2, <1>3
<1>5. values \in Seq(Seq(Nat)) /\ DOMAIN values = DOMAIN owners
  BY <1>2, <1>4, SeqDef
<1>6. values[i] = ValuesOf(pairs, owners[i])
  OBVIOUS
<1> HIDE DEF values
<1>7. PICK off : Offsets(off, values)
  BY <1>5, OffsetsExist
<1>8. Begins(g, owners, values) /\ g[i] = off[i - 1]
  BY <1>5, <1>7, BeginsAreOffsets
<1>9. /\ tables.ranges[i].offset = g[i] /\ tables.ranges[i].count = Len(values[i])
      /\ tables.values = FlattenSeq(values)
  OBVIOUS
<1> HIDE DEF tables, g
<1>10. RangeValues(tables, i) =
          SubSeq(FlattenSeq(values), off[i - 1] + 1, off[i - 1] + Len(values[i]))
  BY <1>8, <1>9 DEF RangeValues
<1>11. /\ FlattenSeq(values) \in Seq(Nat) /\ Len(FlattenSeq(values)) = off[Len(values)]
       /\ \A j \in 1..Len(values[i]) : FlattenSeq(values)[off[i - 1] + j] = values[i][j]
  <2>1. /\ FlattenSeq(values) \in Seq(Nat) /\ Len(FlattenSeq(values)) = off[Len(values)]
        /\ \A n \in 1..Len(values) : \A j \in 1..Len(values[n]) :
              FlattenSeq(values)[off[n - 1] + j] = values[n][j]
    BY <1>5, <1>7, FlattenLaysOut, SMTT(20)
  <2>2. i \in 1..Len(values)
    BY <1>2, <1>5
  <2>3. QED
    BY <2>1, <2>2
<1>12. /\ Len(values) \in Nat /\ i \in 1..Len(values) /\ i - 1 \in 0..Len(values)
       /\ i \in 0..Len(values) /\ Len(values) \in 0..Len(values) /\ i <= Len(values)
  BY <1>2, <1>5
<1>13. /\ off[i - 1] \in Nat
       /\ off[i] = off[i - 1] + Len(values[i]) /\ off[i] <= off[Len(values)]
  BY <1>5, <1>7, <1>12, OffsetsGrow DEF Offsets
<1>14. values[i] \in Seq(Nat)
  BY <1>5
<1>15. SubSeq(FlattenSeq(values), off[i - 1] + 1, off[i - 1] + Len(values[i])) = values[i]
  <2>1. PICK flat, part, begin : /\ flat = FlattenSeq(values) /\ part = values[i]
                                 /\ begin = off[i - 1]
    OBVIOUS
  <2>2. /\ flat \in Seq(Nat) /\ part \in Seq(Nat) /\ begin \in Nat
        /\ begin + Len(part) <= Len(flat)
        /\ \A j \in 1..Len(part) : flat[begin + j] = part[j]
    BY <1>11, <1>13, <1>14, <2>1
  <2>3. SubSeq(flat, begin + 1, begin + Len(part)) = part
    BY <2>2, SliceIsPart
  <2>4. QED
    BY <2>1, <2>3
<1>16. QED
  BY <1>1, <1>6, <1>10, <1>15

LEMMA ConcatElements ==
  ASSUME NEW S, NEW a \in Seq(S), NEW b \in Seq(S)
  PROVE  /\ a \o b \in Seq(S) /\ Len(a \o b) = Len(a) + Len(b)
         /\ Range(a \o b) = Range(a) \cup Range(b)
         /\ /\ IsInjective(a) /\ IsInjective(b)
            /\ Range(a) \cap Range(b) = {}
            => IsInjective(a \o b)
<1>1. PICK c : c = a \o b
  OBVIOUS
<1>2. /\ c \in Seq(S) /\ Len(c) = Len(a) + Len(b)
      /\ \A p \in 1..Len(a) : c[p] = a[p]
      /\ \A i \in 1..Len(b) : c[Len(a) + i] = b[i]
  BY <1>1, ConcatPlaces
<1>3. /\ DOMAIN a = 1..Len(a) /\ DOMAIN b = 1..Len(b) /\ DOMAIN c = 1..(Len(a) + Len(b))
      /\ Len(a) \in Nat /\ Len(b) \in Nat
  BY <1>2
<1>4. ASSUME NEW p \in DOMAIN c
      PROVE  \/ p \in DOMAIN a /\ c[p] = a[p]
             \/ \E i \in DOMAIN b : p = Len(a) + i /\ c[p] = b[i]
  <2>1. CASE p <= Len(a)
    BY <1>2, <1>3, <2>1
  <2>2. CASE p > Len(a)
    <3> DEFINE i == p - Len(a)
    <3>1. i \in 1..Len(b) /\ p = Len(a) + i
      BY <1>3, <2>2
    <3> HIDE DEF i
    <3>2. QED
      BY <1>2, <1>3, <3>1
  <2>3. QED
    BY <1>3, <2>1, <2>2
<1>5. Range(c) = Range(a) \cup Range(b)
  <2>1. ASSUME NEW x, x \in Range(c) PROVE x \in Range(a) \cup Range(b)
    BY <1>4, <2>1 DEF Range
  <2>2. ASSUME NEW x, x \in Range(a) PROVE x \in Range(c)
    <3>1. PICK p \in 1..Len(a) : x = a[p]
      BY <1>3, <2>2 DEF Range
    <3>2. p \in DOMAIN c /\ c[p] = x
      BY <1>2, <1>3, <3>1
    <3>3. QED
      BY <3>2 DEF Range
  <2>3. ASSUME NEW x, x \in Range(b) PROVE x \in Range(c)
    <3>1. PICK i \in 1..Len(b) : x = b[i]
      BY <1>3, <2>3 DEF Range
    <3>2. Len(a) + i \in DOMAIN c /\ c[Len(a) + i] = x
      BY <1>2, <1>3, <3>1
    <3>3. QED
      BY <3>2 DEF Range
  <2>4. QED
    BY <2>1, <2>2, <2>3
<1>6. ASSUME IsInjective(a), IsInjective(b), Range(a) \cap Range(b) = {} PROVE IsInjective(c)
  <2>1. ASSUME NEW p \in DOMAIN c, NEW q \in DOMAIN c, c[p] = c[q] PROVE p = q
    <3>1. \A i \in DOMAIN a : a[i] \in Range(a)
      BY DEF Range
    <3>2. \A i \in DOMAIN b : b[i] \in Range(b)
      BY DEF Range
    <3>3. CASE p \in DOMAIN a /\ c[p] = a[p]
      <4>1. q \in DOMAIN a /\ c[q] = a[q]
        BY <1>4, <1>6, <2>1, <3>1, <3>2, <3>3
      <4>2. QED
        BY <1>6, <2>1, <3>3, <4>1 DEF IsInjective
    <3>4. CASE \E i \in DOMAIN b : p = Len(a) + i /\ c[p] = b[i]
      <4>1. PICK i \in DOMAIN b : p = Len(a) + i /\ c[p] = b[i]
        BY <3>4
      <4>2. PICK j \in DOMAIN b : q = Len(a) + j /\ c[q] = b[j]
        BY <1>4, <1>6, <2>1, <3>1, <3>2, <4>1
      <4>3. i = j
        BY <1>6, <2>1, <4>1, <4>2 DEF IsInjective
      <4>4. QED
        BY <4>1, <4>2, <4>3
    <3>5. QED
      BY <1>4, <3>3, <3>4
  <2>2. QED
    BY <2>1 DEF IsInjective
<1>7. QED
  BY <1>1, <1>2, <1>5, <1>6

-----------------------------------------------------------------------------
(***************************************************************************)
(* What differs from the committed edges                                   *)
(***************************************************************************)

EventSet == [target : Nat, source : Nat, addition : BOOLEAN]

Event(e, addition) == [target |-> e[2], source |-> e[1], addition |-> addition]

LEMMA SameEvent ==
  ASSUME NEW a \in EventSet, NEW b \in EventSet,
         a.target = b.target, a.source = b.source, a.addition = b.addition
  PROVE  a = b
BY DEF EventSet

\* The events of a sequence of edges.
LEMMA EventsOf ==
  ASSUME NEW s \in Seq(Edges), NEW addition \in BOOLEAN, NEW evs,
         evs = [i \in DOMAIN s |-> Event(s[i], addition)]
  PROVE  /\ evs \in Seq(EventSet)
         /\ \A x : x \in Range(evs) <=>
                /\ x \in EventSet /\ x.addition = addition
                /\ <<x.source, x.target>> \in Range(s)
         /\ IsInjective(s) => IsInjective(evs)
<1>1. DOMAIN s = 1..Len(s) /\ Len(s) \in Nat /\ DOMAIN evs = DOMAIN s
  OBVIOUS
<1>2. ASSUME NEW i \in DOMAIN s
      PROVE  /\ s[i] \in Edges /\ s[i] = <<s[i][1], s[i][2]>>
             /\ evs[i] \in EventSet
             /\ evs[i].target = s[i][2] /\ evs[i].source = s[i][1] /\ evs[i].addition = addition
  <2>1. s[i] \in Edges
    OBVIOUS
  <2>2. s[i] = <<s[i][1], s[i][2]>> /\ s[i][1] \in Nat /\ s[i][2] \in Nat
    BY <2>1 DEF Edges
  <2>3. evs[i] = [target |-> s[i][2], source |-> s[i][1], addition |-> addition]
    BY DEF Event
  <2>4. QED
    BY <2>1, <2>2, <2>3 DEF EventSet
<1>3. evs \in [1..Len(s) -> EventSet]
  BY <1>1, <1>2
<1>4. evs \in Seq(EventSet)
  BY <1>1, <1>3, SeqDef
<1>5. ASSUME NEW x, x \in Range(evs)
      PROVE  /\ x \in EventSet /\ x.addition = addition
             /\ <<x.source, x.target>> \in Range(s)
  <2>1. PICK i \in DOMAIN s : x = evs[i]
    BY <1>1, <1>5 DEF Range
  <2>2. QED
    BY <1>2, <2>1 DEF Range
<1>6. ASSUME NEW x, x \in EventSet, x.addition = addition, <<x.source, x.target>> \in Range(s)
      PROVE  x \in Range(evs)
  <2>1. PICK i \in DOMAIN s : <<x.source, x.target>> = s[i]
    BY <1>6 DEF Range
  <2>2. evs[i].target = x.target /\ evs[i].source = x.source /\ evs[i].addition = x.addition
    BY <1>2, <1>6, <2>1
  <2>3. evs[i] = x
    BY <1>2, <1>6, <2>2 DEF EventSet
  <2>4. QED
    BY <1>1, <2>3 DEF Range
<1>7. ASSUME IsInjective(s) PROVE IsInjective(evs)
  <2>1. ASSUME NEW i \in DOMAIN s, NEW j \in DOMAIN s, evs[i] = evs[j] PROVE i = j
    <3>1. s[i] = s[j]
      BY <1>2, <2>1
    <3>2. QED
      BY <1>7, <3>1 DEF IsInjective
  <2>2. QED
    BY <1>1, <2>1 DEF IsInjective
<1>8. QED
  BY <1>4, <1>5, <1>6, <1>7

LEMMA DeltaEventsFacts ==
  ASSUME NEW old \in Seq(Edges), NEW new \in Seq(Edges), IsInjective(new), IsInjective(old)
  PROVE  /\ DeltaEvents(old, new) \in Seq(EventSet)
         /\ \A x : x \in Range(DeltaEvents(old, new)) <=>
                /\ x \in EventSet
                /\ <<x.source, x.target>> \in IF x.addition THEN Range(new) \ Range(old)
                                              ELSE Range(old) \ Range(new)
         /\ IsInjective(DeltaEvents(old, new))
<1> DEFINE removed == Picked(old, {i \in DOMAIN old : old[i] \notin Range(new)})
           added == Picked(new, {i \in DOMAIN new : new[i] \notin Range(old)})
           revs == [i \in DOMAIN removed |-> Event(removed[i], FALSE)]
           aevs == [i \in DOMAIN added |-> Event(added[i], TRUE)]
<1>1. DeltaEvents(old, new) = revs \o aevs
  BY DEF DeltaEvents, Event
<1>2. /\ removed \in Seq(Edges) /\ IsInjective(removed)
      /\ \A x : x \in Range(removed) <=> x \in Range(old) \ Range(new)
  <2>1. removed \in Seq(Edges)
    BY PickedElements
  <2>2. IsInjective(removed)
    BY PickedInjective DEF IsInjective
  <2>3. \A x : x \in Range(removed) <=>
           \E i \in DOMAIN old : i \in {j \in DOMAIN old : old[j] \notin Range(new)} /\ x = old[i]
    BY PickedElements
  <2> HIDE DEF removed
  <2>4. \A x : x \in Range(removed) <=> x \in Range(old) \ Range(new)
    BY <2>3 DEF Range
  <2>5. QED
    BY <2>1, <2>2, <2>4
<1>3. /\ added \in Seq(Edges) /\ IsInjective(added)
      /\ \A x : x \in Range(added) <=> x \in Range(new) \ Range(old)
  <2>1. added \in Seq(Edges)
    BY PickedElements
  <2>2. IsInjective(added)
    BY PickedInjective DEF IsInjective
  <2>3. \A x : x \in Range(added) <=>
           \E i \in DOMAIN new : i \in {j \in DOMAIN new : new[j] \notin Range(old)} /\ x = new[i]
    BY PickedElements
  <2> HIDE DEF added
  <2>4. \A x : x \in Range(added) <=> x \in Range(new) \ Range(old)
    BY <2>3 DEF Range
  <2>5. QED
    BY <2>1, <2>2, <2>4
<1> HIDE DEF removed, added
<1>4. /\ revs \in Seq(EventSet) /\ IsInjective(revs)
      /\ \A x : x \in Range(revs) <=>
            /\ x \in EventSet /\ x.addition = FALSE
            /\ <<x.source, x.target>> \in Range(removed)
  BY <1>2, EventsOf
<1>5. /\ aevs \in Seq(EventSet) /\ IsInjective(aevs)
      /\ \A x : x \in Range(aevs) <=>
            /\ x \in EventSet /\ x.addition = TRUE
            /\ <<x.source, x.target>> \in Range(added)
  BY <1>3, EventsOf
<1> HIDE DEF revs, aevs
<1>6. Range(revs) \cap Range(aevs) = {}
  BY <1>4, <1>5
<1>7. /\ revs \o aevs \in Seq(EventSet) /\ IsInjective(revs \o aevs)
      /\ Range(revs \o aevs) = Range(revs) \cup Range(aevs)
  BY <1>4, <1>5, <1>6, ConcatElements
<1>8. ASSUME NEW x
      PROVE  x \in Range(revs) \cup Range(aevs) <=>
                /\ x \in EventSet
                /\ <<x.source, x.target>> \in IF x.addition THEN Range(new) \ Range(old)
                                              ELSE Range(old) \ Range(new)
  <2>1. x \in EventSet => x.addition \in BOOLEAN
    BY DEF EventSet
  <2>2. QED
    BY <1>2, <1>3, <1>4, <1>5, <2>1
<1>9. QED
  BY <1>1, <1>7, <1>8

LEMMA TargetFacts ==
  ASSUME NEW events \in Seq(EventSet)
  PROVE  /\ TargetRecords(events) \in Seq(Nat)
         /\ IsInjective(TargetRecords(events))
         /\ \A x : x \in Range(TargetRecords(events)) <=> \E e \in Range(events) : e.target = x
<1> DEFINE s == [i \in DOMAIN events |-> events[i].target]
<1>1. DOMAIN events = 1..Len(events) /\ Len(events) \in Nat
  OBVIOUS
<1>2. \A i \in DOMAIN events : events[i].target \in Nat
  <2>1. ASSUME NEW i \in DOMAIN events PROVE events[i].target \in Nat
    <3>1. events[i] \in EventSet
      OBVIOUS
    <3>2. QED
      BY <3>1 DEF EventSet
  <2>2. QED
    BY <2>1
<1>3. s \in [1..Len(events) -> Nat]
  BY <1>1, <1>2
<1>4. s \in Seq(Nat)
  BY <1>1, <1>3, SeqDef
<1>5. \A x : x \in Range(s) <=> \E e \in Range(events) : e.target = x
  BY DEF Range
<1>6. TargetRecords(events) = UniqueEdges(s)
  BY DEF TargetRecords
<1> HIDE DEF s
<1>7. QED
  BY <1>4, <1>5, <1>6, UniqueFacts

LEMMA RemovalFacts ==
  ASSUME NEW events \in Seq(EventSet)
  PROVE  /\ \A r \in ReverseRemovals(events) : r \in Nat \X Nat
         /\ \A x, s : <<x, s>> \in ReverseRemovals(events) <=>
               \E e \in Range(events) : ~e.addition /\ e.target = x /\ e.source = s
<1>1. \A i \in DOMAIN events : events[i] \in EventSet
  OBVIOUS
<1>2. \A i \in DOMAIN events : events[i].target \in Nat /\ events[i].source \in Nat
  BY <1>1 DEF EventSet
<1>3. ASSUME NEW r \in ReverseRemovals(events) PROVE r \in Nat \X Nat
  <2>1. PICK i \in {j \in DOMAIN events : ~events[j].addition} :
             r = <<events[i].target, events[i].source>>
    BY DEF ReverseRemovals
  <2>2. QED
    BY <1>2, <2>1
<1>4. ASSUME NEW x, NEW s, <<x, s>> \in ReverseRemovals(events)
      PROVE  \E e \in Range(events) : ~e.addition /\ e.target = x /\ e.source = s
  <2>1. PICK i \in {j \in DOMAIN events : ~events[j].addition} :
             <<x, s>> = <<events[i].target, events[i].source>>
    BY <1>4 DEF ReverseRemovals
  <2>2. events[i] \in Range(events)
    BY DEF Range
  <2>3. QED
    BY <2>1, <2>2
<1>5. ASSUME NEW e \in Range(events), ~e.addition
      PROVE  <<e.target, e.source>> \in ReverseRemovals(events)
  <2>1. PICK i \in DOMAIN events : e = events[i]
    BY DEF Range
  <2>2. QED
    BY <1>5, <2>1 DEF ReverseRemovals
<1>6. QED
  BY <1>3, <1>4, <1>5

LEMMA AdditionPairs ==
  ASSUME NEW events \in Seq(EventSet), IsInjective(events)
  PROVE  \E pairs \in Seq(Edges) :
            /\ IsInjective(pairs)
            /\ \A x, s : <<x, s>> \in Range(pairs) <=>
                  \E e \in Range(events) : e.addition /\ e.target = x /\ e.source = s
            /\ \A targets : ReverseAdditions(events, targets) = Compact(pairs, targets)
<1> DEFINE keep == {i \in DOMAIN events : events[i].addition}
           added == Picked(events, keep)
           pairs == [i \in DOMAIN added |-> <<added[i].target, added[i].source>>]
<1>1. \A targets : ReverseAdditions(events, targets) = Compact(pairs, targets)
  BY DEF ReverseAdditions
<1>2. /\ added \in Seq(EventSet)
      /\ \A x : x \in Range(added) <=> \E i \in DOMAIN events : i \in keep /\ x = events[i]
  BY PickedElements
<1>3. IsInjective(added)
  BY PickedInjective DEF IsInjective
<1> HIDE DEF added
<1>4. DOMAIN added = 1..Len(added) /\ Len(added) \in Nat
  BY <1>2
<1>5. ASSUME NEW i \in DOMAIN added
      PROVE  /\ added[i] \in EventSet /\ added[i].addition = TRUE
             /\ added[i].target \in Nat /\ added[i].source \in Nat
  <2>1. added[i] \in EventSet
    BY <1>2
  <2>2. added[i] \in Range(added)
    BY DEF Range
  <2>3. PICK j \in DOMAIN events : j \in keep /\ added[i] = events[j]
    BY <1>2, <2>2
  <2>4. added[i].addition
    BY <2>3
  <2>5. QED
    BY <2>1, <2>4 DEF EventSet
<1>6. pairs \in [1..Len(added) -> Edges]
  BY <1>4, <1>5 DEF Edges
<1>7. pairs \in Seq(Edges)
  BY <1>4, <1>6, SeqDef
<1>8. IsInjective(pairs)
  <2>1. ASSUME NEW i \in DOMAIN added, NEW j \in DOMAIN added, pairs[i] = pairs[j] PROVE i = j
    <3>1. added[i].target = added[j].target /\ added[i].source = added[j].source
      BY <2>1
    <3>2. added[i] = added[j]
      BY <1>5, <3>1, SameEvent
    <3>3. QED
      BY <1>3, <3>2 DEF IsInjective
  <2>2. QED
    BY <2>1 DEF IsInjective
<1>9. ASSUME NEW x, NEW s
      PROVE  <<x, s>> \in Range(pairs) <=>
                \E e \in Range(events) : e.addition /\ e.target = x /\ e.source = s
  <2>1. ASSUME <<x, s>> \in Range(pairs)
        PROVE  \E e \in Range(events) : e.addition /\ e.target = x /\ e.source = s
    <3>1. PICK i \in DOMAIN added : <<x, s>> = <<added[i].target, added[i].source>>
      BY <2>1 DEF Range
    <3>2. added[i] \in Range(added)
      BY DEF Range
    <3>3. PICK j \in DOMAIN events : j \in keep /\ added[i] = events[j]
      BY <1>2, <3>2
    <3>4. events[j] \in Range(events) /\ events[j].addition
      BY <3>3 DEF Range
    <3>5. QED
      BY <3>1, <3>3, <3>4
  <2>2. ASSUME NEW e \in Range(events), e.addition, e.target = x, e.source = s
        PROVE  <<x, s>> \in Range(pairs)
    <3>1. PICK j \in DOMAIN events : e = events[j]
      BY DEF Range
    <3>2. j \in keep
      BY <2>2, <3>1
    <3>3. e \in Range(added)
      BY <1>2, <3>1, <3>2
    <3>4. PICK i \in DOMAIN added : e = added[i]
      BY <3>3 DEF Range
    <3>5. pairs[i] = <<x, s>>
      BY <2>2, <3>4
    <3>6. QED
      BY <3>5 DEF Range
  <2>3. QED
    BY <2>1, <2>2
<1> HIDE DEF pairs
<1>10. QED
  BY <1>1, <1>7, <1>8, <1>9

LEMMA AdditionFacts ==
  ASSUME NEW events \in Seq(EventSet), IsInjective(events),
         NEW targets \in Seq(Nat), NEW k \in DOMAIN targets
  PROVE  LET values == RangeValues(ReverseAdditions(events, targets), k)
         IN  /\ values \in Seq(Nat)
             /\ IsInjective(values)
             /\ \A s : s \in Range(values) <=>
                   \E e \in Range(events) : e.addition /\ e.target = targets[k] /\ e.source = s
<1>1. PICK pairs \in Seq(Edges) :
            /\ IsInjective(pairs)
            /\ \A x, s : <<x, s>> \in Range(pairs) <=>
                  \E e \in Range(events) : e.addition /\ e.target = x /\ e.source = s
            /\ \A other : ReverseAdditions(events, other) = Compact(pairs, other)
  BY AdditionPairs
<1>2. RangeValues(Compact(pairs, targets), k) = ValuesOf(pairs, targets[k])
  BY CompactRange
<1>3. /\ ValuesOf(pairs, targets[k]) \in Seq(Nat)
      /\ IsInjective(ValuesOf(pairs, targets[k]))
      /\ \A s : s \in Range(ValuesOf(pairs, targets[k])) <=> <<targets[k], s>> \in Range(pairs)
  BY <1>1, ValuesOfFacts
<1>4. PICK values : values = ValuesOf(pairs, targets[k])
  OBVIOUS
<1>5. values = RangeValues(ReverseAdditions(events, targets), k)
  BY <1>1, <1>2, <1>4
<1>6. /\ values \in Seq(Nat)
      /\ IsInjective(values)
      /\ \A s : s \in Range(values) <=> <<targets[k], s>> \in Range(pairs)
  BY <1>3, <1>4
<1>7. \A s : s \in Range(values) <=>
          \E e \in Range(events) : e.addition /\ e.target = targets[k] /\ e.source = s
  <2>1. PICK t : t = targets[k]
    OBVIOUS
  <2>2. \A s : <<t, s>> \in Range(pairs) <=>
           \E e \in Range(events) : e.addition /\ e.target = t /\ e.source = s
    BY <1>1, Zenon
  <2>3. \A s : s \in Range(values) <=> <<t, s>> \in Range(pairs)
    BY <1>6, <2>1
  <2>4. \A s : s \in Range(values) <=>
           \E e \in Range(events) : e.addition /\ e.target = t /\ e.source = s
    BY <2>2, <2>3, Zenon
  <2>5. QED
    BY <2>1, <2>4
<1>8. QED
  BY <1>5, <1>6, <1>7

\* A sequence without repetitions is as long as the set of its elements.
LEMMA InjectiveLength ==
  ASSUME NEW S, NEW s \in Seq(S), IsInjective(s)
  PROVE  IsFiniteSet(Range(s)) /\ Cardinality(Range(s)) = Len(s)
<1>1. DOMAIN s = 1..Len(s) /\ Len(s) \in Nat
  OBVIOUS
<1>2. s \in [1..Len(s) -> Range(s)] /\ \A y \in Range(s) : \E i \in 1..Len(s) : s[i] = y
  BY <1>1 DEF Range
<1>3. \A i, j \in 1..Len(s) : s[i] = s[j] => i = j
  BY <1>1 DEF IsInjective
<1>4. s \in Bijection(1..Len(s), Range(s))
  BY <1>2, <1>3 DEF Bijection, Injection, Surjection, IsInjective
<1>5. ExistsBijection(1..Len(s), Range(s))
  BY <1>4 DEF ExistsBijection
<1>6. IsFiniteSet(1..Len(s)) /\ Cardinality(1..Len(s)) = Len(s)
  BY <1>1, FS_Interval
<1>7. QED
  BY <1>5, <1>6, FS_Bijection

\* The size of a view over committed dependents is computed and not counted.
LEMMA OverlaySize ==
  ASSUME NEW base \in Seq(Nat), IsInjective(base), NEW adds \in Seq(Nat),
         NEW removals, \A r \in removals : r \in Nat \X Nat, NEW target,
         \A s : <<target, s>> \in removals => s \in Range(base)
  PROVE  LET view == OverlayView(base, adds, removals, target)
         IN  /\ view.values \in Seq(Nat)
             /\ view.size = Len(view.values)
             /\ Range(view.values) =
                   {s \in Range(base) : <<target, s>> \notin removals} \cup Range(adds)
             /\ IsInjective(adds) /\ Range(base) \cap Range(adds) = {} => IsInjective(view.values)
<1> DEFINE keep == {i \in DOMAIN base : <<target, base[i]>> \notin removals}
           kept == Picked(base, keep)
           gone == {r \in removals : r[1] = target}
           left == {s \in Range(base) : <<target, s>> \in removals}
           view == OverlayView(base, adds, removals, target)
<1>1. /\ view.values = kept \o adds
      /\ view.size = Len(base) - Cardinality(gone) + Len(adds)
  BY DEF OverlayView
<1>2. /\ kept \in Seq(Nat)
      /\ \A x : x \in Range(kept) <=> \E i \in DOMAIN base : i \in keep /\ x = base[i]
  <2> HIDE DEF keep
  <2>1. QED
    BY PickedElements
<1>3. IsInjective(kept)
  BY PickedInjective DEF IsInjective
<1> HIDE DEF kept
<1>4. Range(kept) = {s \in Range(base) : <<target, s>> \notin removals}
  BY <1>2 DEF Range
<1>5. /\ IsFiniteSet(Range(base)) /\ Cardinality(Range(base)) = Len(base)
      /\ IsFiniteSet(Range(kept)) /\ Cardinality(Range(kept)) = Len(kept)
  BY <1>2, <1>3, InjectiveLength
<1>6. left = Range(base) \ Range(kept) /\ Range(kept) \subseteq Range(base)
  BY <1>4
<1>7. IsFiniteSet(left) /\ Cardinality(left) = Len(base) - Len(kept)
  <2>1. IsFiniteSet(left)
    BY <1>5, <1>6, FS_Subset
  <2>2. Range(base) = left \cup Range(kept) /\ left \cap Range(kept) = {}
    BY <1>6
  <2>3. Cardinality(Range(base)) =
           Cardinality(left) + Cardinality(Range(kept)) - Cardinality(left \cap Range(kept))
    BY <1>5, <2>1, <2>2, FS_Union
  <2>4. Cardinality(left \cap Range(kept)) = 0
    BY <2>2, FS_EmptySet
  <2>5. Cardinality(left) \in Nat
    BY <2>1, FS_CardinalityType
  <2>6. Len(base) \in Nat /\ Len(kept) \in Nat
    BY <1>2
  <2>7. QED
    BY <1>5, <2>1, <2>3, <2>4, <2>5, <2>6
<1>8. Cardinality(gone) = Cardinality(left)
  <2> DEFINE f == [s \in left |-> <<target, s>>]
  <2>1. ASSUME NEW r \in gone PROVE r[2] \in left /\ r = <<target, r[2]>>
    <3>1. r \in Nat \X Nat /\ r[1] = target /\ r \in removals
      OBVIOUS
    <3>2. r = <<target, r[2]>>
      BY <3>1
    <3>3. QED
      BY <3>1, <3>2
  <2>2. \A s \in left : <<target, s>> \in gone
    OBVIOUS
  <2>3. f \in [left -> gone]
    BY <2>2
  <2>4. \A r \in gone : \E s \in left : f[s] = r
    BY <2>1
  <2>5. \A s, t \in left : f[s] = f[t] => s = t
    OBVIOUS
  <2> HIDE DEF f, left, gone
  <2>6. f \in Bijection(left, gone)
    BY <2>3, <2>4, <2>5 DEF Bijection, Injection, Surjection, IsInjective
  <2>7. ExistsBijection(left, gone)
    BY <2>6 DEF ExistsBijection
  <2>8. QED
    BY <1>7, <2>7, FS_Bijection
<1>9. /\ kept \o adds \in Seq(Nat) /\ Len(kept \o adds) = Len(kept) + Len(adds)
      /\ Range(kept \o adds) = Range(kept) \cup Range(adds)
      /\ IsInjective(adds) /\ Range(kept) \cap Range(adds) = {} => IsInjective(kept \o adds)
  BY <1>2, <1>3, ConcatElements
<1>10. Len(base) \in Nat /\ Len(kept) \in Nat /\ Len(adds) \in Nat
  BY <1>2
<1>11. view.size = Len(kept) + Len(adds)
  BY <1>1, <1>7, <1>8, <1>10
<1> HIDE DEF view, left, gone
<1>12. Range(base) \cap Range(adds) = {} => Range(kept) \cap Range(adds) = {}
  BY <1>6
<1>13. QED
  BY <1>1, <1>4, <1>9, <1>11, <1>12 DEF view

-----------------------------------------------------------------------------
(***************************************************************************)
(* The invariant                                                           *)
(***************************************************************************)

TopologyFields ==
  {"baseline", "count", "files", "sources", "edges", "finalized", "forward", "reverse",
   "targets", "removals", "additions", "wanted"}

TopologyShape(t) ==
  /\ DOMAIN t = TopologyFields
  /\ t.count \in Nat /\ t.files \in Nat /\ t.count <= t.files /\ t.finalized \in BOOLEAN
  /\ t.wanted \in Seq(SUBSET Nat) /\ Len(t.wanted) = t.files
  /\ \A f \in 1..t.files : t.wanted[f] \subseteq 1..t.files
  /\ t.edges \in Seq(Edges)
  /\ \A e \in Range(t.edges) : e[1] \in 1..t.files /\ e[2] \in 1..t.files
  /\ t.sources \in Seq(Nat) /\ IsInjective(t.sources) /\ Range(t.sources) \subseteq 1..t.files

\* Committed tables are the two directions of one relation.
CommittedOk(t) ==
  \A f \in 1..t.count :
    /\ t.baseline.dependencies[f] \in Seq(Nat)
    /\ IsInjective(t.baseline.dependencies[f])
    /\ Range(t.baseline.dependencies[f]) \subseteq 1..t.count
    /\ t.baseline.dependents[f] \in Seq(Nat)
    /\ IsInjective(t.baseline.dependents[f])
    /\ \A s : s \in Range(t.baseline.dependents[f]) <=>
                 s \in 1..t.count /\ f \in Range(t.baseline.dependencies[s])

\* An edge counts when it is staged, or committed and its source is kept.
Declared(t, f, x) ==
  \/ <<f, x>> \in Range(t.edges)
  \/ f <= t.count /\ f \notin Range(t.sources) /\ x \in Range(t.baseline.dependencies[f])

StagedOk(t) ==
  /\ \A f \in 1..t.files : \A x : x \in t.wanted[f] <=> Declared(t, f, x)
  /\ t.count > 0 => \A e \in Range(t.edges) : e[1] \in Range(t.sources)

ForwardOk(t, f) ==
  /\ FileDependencies(t, f) \in Seq(Nat)
  /\ IsInjective(FileDependencies(t, f))
  /\ Range(FileDependencies(t, f)) = t.wanted[f]

ReverseOk(t, f) ==
  /\ FileDependents(t, f).values \in Seq(Nat)
  /\ IsInjective(FileDependents(t, f).values)
  /\ Range(FileDependents(t, f).values) = {s \in 1..t.files : f \in t.wanted[s]}
  /\ FileDependents(t, f).size = Len(FileDependents(t, f).values)

ViewsOk(t) == t.files > 0 /\ \A f \in 1..t.files : ForwardOk(t, f) /\ ReverseOk(t, f)

TopologyOk(t) ==
  /\ TopologyShape(t)
  /\ CommittedOk(t)
  /\ ~t.finalized => StagedOk(t)
  /\ t.finalized => ViewsOk(t)

LEMMA ReplacedIsListed ==
  ASSUME NEW t, NEW f PROVE ReplacedSource(t, f) <=> f \in Range(t.sources)
BY DEF ReplacedSource, Range

-----------------------------------------------------------------------------
(***************************************************************************)
(* Staging                                                                 *)
(***************************************************************************)

LEMMA ResolveKeeps ==
  ASSUME NEW t, TopologyOk(t), ~t.finalized, NEW u,
         u = [t EXCEPT !.files = @ + 1, !.wanted = Append(@, {})]
  PROVE  TopologyOk(u)
<1>1. TopologyShape(t) /\ CommittedOk(t) /\ StagedOk(t)
  BY DEF TopologyOk
<1>2. /\ DOMAIN u = TopologyFields
      /\ u.files = t.files + 1 /\ u.wanted = Append(t.wanted, {})
      /\ u.count = t.count /\ u.baseline = t.baseline /\ u.edges = t.edges
      /\ u.sources = t.sources /\ u.finalized = t.finalized
  BY <1>1 DEF TopologyShape, TopologyFields
<1>3. /\ t.wanted \in Seq(SUBSET Nat) /\ Len(t.wanted) = t.files /\ t.files \in Nat
      /\ t.count \in Nat /\ t.count <= t.files
  BY <1>1 DEF TopologyShape
<1>4. /\ u.wanted \in Seq(SUBSET Nat) /\ Len(u.wanted) = u.files
      /\ \A f \in 1..t.files : u.wanted[f] = t.wanted[f]
      /\ u.wanted[u.files] = {}
  <2>1. PICK w : w = t.wanted
    OBVIOUS
  <2>2. {} \in SUBSET Nat
    OBVIOUS
  <2>3. /\ Append(w, {}) \in Seq(SUBSET Nat) /\ Len(Append(w, {})) = Len(w) + 1
        /\ \A f \in 1..Len(w) : Append(w, {})[f] = w[f]
        /\ Append(w, {})[Len(w) + 1] = {}
    BY <1>3, <2>1, <2>2, AppendProperties
  <2>4. QED
    BY <1>2, <1>3, <2>1, <2>3
<1>5. \A f \in 1..u.files : f \in 1..t.files \/ f = u.files
  BY <1>2, <1>3
<1>6. 1..t.files \subseteq 1..u.files
  BY <1>2, <1>3
<1>7. TopologyShape(u)
  <2>1. \A f \in 1..u.files : u.wanted[f] \subseteq 1..u.files
    BY <1>1, <1>4, <1>5, <1>6 DEF TopologyShape
  <2>2. \A e \in Range(u.edges) : e[1] \in 1..u.files /\ e[2] \in 1..u.files
    BY <1>1, <1>2, <1>6 DEF TopologyShape
  <2>3. Range(u.sources) \subseteq 1..u.files
    BY <1>1, <1>2, <1>6 DEF TopologyShape
  <2>4. u.count <= u.files /\ u.files \in Nat
    BY <1>2, <1>3
  <2>5. QED
    BY <1>1, <1>2, <1>4, <2>1, <2>2, <2>3, <2>4 DEF TopologyShape
<1>8. CommittedOk(u)
  BY <1>1, <1>2 DEF CommittedOk
<1>9. \A f, x : Declared(u, f, x) <=> Declared(t, f, x)
  BY <1>2 DEF Declared
<1>10. ASSUME NEW x PROVE ~Declared(t, u.files, x)
  <2>1. <<u.files, x>> \notin Range(t.edges)
    <3>1. ASSUME <<u.files, x>> \in Range(t.edges) PROVE FALSE
      <4>1. <<u.files, x>>[1] \in 1..t.files
        BY <1>1, <3>1 DEF TopologyShape
      <4>2. u.files \in 1..t.files
        BY <4>1
      <4>3. QED
        BY <1>2, <1>3, <4>2
    <3>2. QED
      BY <3>1
  <2>2. ~(u.files <= t.count)
    BY <1>2, <1>3
  <2>3. QED
    BY <2>1, <2>2 DEF Declared
<1>11. StagedOk(u)
  <2>1. ASSUME NEW f \in 1..u.files, NEW x PROVE x \in u.wanted[f] <=> Declared(u, f, x)
    <3>1. CASE f \in 1..t.files
      BY <1>1, <1>4, <1>9, <3>1 DEF StagedOk
    <3>2. CASE f = u.files
      BY <1>4, <1>9, <1>10, <3>2
    <3>3. QED
      BY <1>5, <3>1, <3>2
  <2>2. QED
    BY <1>1, <1>2, <2>1 DEF StagedOk
<1>12. QED
  BY <1>2, <1>7, <1>8, <1>11 DEF TopologyOk

\* A call for a source that is new in the list drops its committed edges.
LEMMA BeginKeeps ==
  ASSUME NEW t, TopologyOk(t), ~t.finalized, t.count > 0, NEW source \in 1..t.files, NEW u,
         u = BeginReplacement(t, source)
  PROVE  /\ TopologyOk(u) /\ ~u.finalized /\ u.files = t.files /\ u.count = t.count
         /\ source \in Range(u.sources)
<1>1. TopologyShape(t) /\ CommittedOk(t) /\ StagedOk(t)
  BY DEF TopologyOk
<1>2. CASE source \in Range(t.sources)
  <2>1. u = t
    BY <1>2, ReplacedIsListed DEF BeginReplacement
  <2>2. QED
    BY <1>2, <2>1
<1>3. CASE source \notin Range(t.sources)
  <2>1. u = [t EXCEPT !.sources = Append(@, source), !.wanted[source] = {}]
    BY <1>3, ReplacedIsListed DEF BeginReplacement
  <2>2. /\ DOMAIN u = TopologyFields
        /\ u.files = t.files /\ u.wanted = [t.wanted EXCEPT ![source] = {}]
        /\ u.count = t.count /\ u.baseline = t.baseline /\ u.edges = t.edges
        /\ u.sources = Append(t.sources, source) /\ u.finalized = t.finalized
    BY <1>1, <2>1 DEF TopologyShape, TopologyFields
  <2>3. /\ t.wanted \in Seq(SUBSET Nat) /\ Len(t.wanted) = t.files /\ t.files \in Nat
        /\ t.count \in Nat /\ t.count <= t.files
        /\ t.sources \in Seq(Nat) /\ IsInjective(t.sources) /\ Range(t.sources) \subseteq 1..t.files
        /\ source \in Nat
    BY <1>1 DEF TopologyShape
  <2>4. /\ u.wanted \in Seq(SUBSET Nat) /\ Len(u.wanted) = u.files
        /\ \A f \in 1..t.files : u.wanted[f] = IF f = source THEN {} ELSE t.wanted[f]
    <3>1. PICK w : w = t.wanted
      OBVIOUS
    <3>2. {} \in SUBSET Nat /\ w \in Seq(SUBSET Nat) /\ source \in 1..Len(w)
      BY <2>3, <3>1
    <3>3. /\ [w EXCEPT ![source] = {}] \in Seq(SUBSET Nat)
          /\ Len([w EXCEPT ![source] = {}]) = Len(w)
          /\ \A f \in 1..Len(w) : [w EXCEPT ![source] = {}][f] = IF f = source THEN {} ELSE w[f]
      BY <3>2, ExceptSeq
    <3>4. QED
      BY <2>2, <2>3, <3>1, <3>3
  <2>5. /\ u.sources \in Seq(Nat) /\ IsInjective(u.sources)
        /\ Range(u.sources) = Range(t.sources) \cup {source}
    <3>1. <<source>> \in Seq(Nat) /\ Range(<<source>>) = {source} /\ IsInjective(<<source>>)
      <4>1. <<source>> \in Seq(Nat) /\ DOMAIN <<source>> = {1} /\ <<source>>[1] = source
        BY <2>3
      <4>2. QED
        BY <4>1 DEF Range, IsInjective
    <3>2. PICK a : a = t.sources
      OBVIOUS
    <3>3. Append(a, source) = a \o <<source>>
      BY <2>3, <3>2, AppendIsConcat
    <3>4. a \in Seq(Nat) /\ IsInjective(a) /\ Range(a) \cap Range(<<source>>) = {}
      BY <1>3, <2>3, <3>1, <3>2
    <3>5. PICK b : b = <<source>>
      OBVIOUS
    <3>6. /\ a \o b \in Seq(Nat) /\ IsInjective(a \o b) /\ Range(a \o b) = Range(a) \cup Range(b)
      BY <3>1, <3>4, <3>5, ConcatElements, ZenonT(40)
    <3>7. QED
      BY <2>2, <3>1, <3>2, <3>3, <3>5, <3>6
  <2>6. TopologyShape(u)
    <3>1. \A f \in 1..u.files : u.wanted[f] \subseteq 1..u.files
      BY <1>1, <2>2, <2>4 DEF TopologyShape
    <3>2. Range(u.sources) \subseteq 1..u.files
      BY <2>2, <2>3, <2>5
    <3>3. QED
      BY <1>1, <2>2, <2>4, <2>5, <3>1, <3>2 DEF TopologyShape
  <2>7. CommittedOk(u)
    BY <1>1, <2>2 DEF CommittedOk
  <2>8. ASSUME NEW x PROVE ~Declared(u, source, x)
    <3>1. ASSUME <<source, x>> \in Range(t.edges) PROVE FALSE
      <4>1. <<source, x>>[1] \in Range(t.sources)
        BY <1>1, <3>1 DEF StagedOk
      <4>2. QED
        BY <1>3, <4>1
    <3>2. source \in Range(u.sources)
      BY <2>5
    <3>3. QED
      BY <2>2, <3>1, <3>2 DEF Declared
  <2>9. ASSUME NEW f, f # source, NEW x PROVE Declared(u, f, x) <=> Declared(t, f, x)
    BY <2>2, <2>5, <2>9 DEF Declared
  <2>10. StagedOk(u)
    <3>1. ASSUME NEW f \in 1..u.files, NEW x PROVE x \in u.wanted[f] <=> Declared(u, f, x)
      <4>1. CASE f = source
        BY <2>2, <2>4, <2>8, <4>1
      <4>2. CASE f # source
        <5>1. u.wanted[f] = t.wanted[f] /\ f \in 1..t.files
          BY <2>2, <2>4, <4>2
        <5>2. x \in t.wanted[f] <=> Declared(t, f, x)
          BY <1>1, <5>1 DEF StagedOk
        <5>3. QED
          BY <2>9, <4>2, <5>1, <5>2
      <4>3. QED
        BY <4>1, <4>2
    <3>2. \A e \in Range(u.edges) : e[1] \in Range(u.sources)
      BY <1>1, <2>2, <2>5 DEF StagedOk
    <3>3. QED
      BY <3>1, <3>2 DEF StagedOk
  <2>11. QED
    BY <2>2, <2>5, <2>6, <2>7, <2>10 DEF TopologyOk
<1>4. QED
  BY <1>2, <1>3

LEMMA AddKeeps ==
  ASSUME NEW t, TopologyOk(t), ~t.finalized, NEW source \in 1..t.files, NEW target \in 1..t.files,
         t.count > 0 => source \in Range(t.sources), NEW u,
         u = [t EXCEPT !.edges = Append(@, <<source, target>>), !.wanted[source] = @ \cup {target}]
  PROVE  TopologyOk(u)
<1>1. TopologyShape(t) /\ CommittedOk(t) /\ StagedOk(t)
  BY DEF TopologyOk
<1> DEFINE e0 == <<source, target>>
           set == t.wanted[source] \cup {target}
<1>2. /\ DOMAIN u = TopologyFields
      /\ u.files = t.files /\ u.wanted = [t.wanted EXCEPT ![source] = set]
      /\ u.count = t.count /\ u.baseline = t.baseline /\ u.edges = Append(t.edges, e0)
      /\ u.sources = t.sources /\ u.finalized = t.finalized
  BY <1>1 DEF TopologyShape, TopologyFields
<1>3. /\ t.wanted \in Seq(SUBSET Nat) /\ Len(t.wanted) = t.files /\ t.files \in Nat
      /\ t.count \in Nat /\ t.count <= t.files
      /\ source \in Nat /\ target \in Nat /\ t.edges \in Seq(Edges) /\ e0 \in Edges
  BY <1>1 DEF TopologyShape, Edges
<1>4. set \in SUBSET Nat /\ set \subseteq 1..t.files
  <2>1. t.wanted[source] \subseteq 1..t.files
    BY <1>1 DEF TopologyShape
  <2>2. QED
    BY <1>3, <2>1
<1> HIDE DEF set
<1>5. /\ u.wanted \in Seq(SUBSET Nat) /\ Len(u.wanted) = u.files
      /\ \A f \in 1..t.files : u.wanted[f] = IF f = source THEN set ELSE t.wanted[f]
  <2>1. PICK w : w = t.wanted
    OBVIOUS
  <2>2. w \in Seq(SUBSET Nat) /\ source \in 1..Len(w)
    BY <1>3, <2>1
  <2>3. /\ [w EXCEPT ![source] = set] \in Seq(SUBSET Nat)
        /\ Len([w EXCEPT ![source] = set]) = Len(w)
        /\ \A f \in 1..Len(w) : [w EXCEPT ![source] = set][f] = IF f = source THEN set ELSE w[f]
    BY <1>4, <2>2, ExceptSeq
  <2>4. u.wanted = [w EXCEPT ![source] = set] /\ Len(w) = u.files /\ t.files = u.files
    BY <1>2, <1>3, <2>1
  <2>5. PICK v : v = [w EXCEPT ![source] = set]
    OBVIOUS
  <2>6. /\ v \in Seq(SUBSET Nat) /\ Len(v) = Len(w)
        /\ \A f \in 1..Len(w) : v[f] = IF f = source THEN set ELSE w[f]
    BY <2>3, <2>5
  <2>7. QED
    BY <2>1, <2>4, <2>5, <2>6
<1> HIDE DEF e0
<1>6. u.edges \in Seq(Edges) /\ Range(u.edges) = Range(t.edges) \cup {e0}
  <2>1. <<e0>> \in Seq(Edges) /\ Range(<<e0>>) = {e0}
    <3>1. <<e0>> \in Seq(Edges) /\ DOMAIN <<e0>> = {1} /\ <<e0>>[1] = e0
      BY <1>3
    <3>2. QED
      BY <3>1 DEF Range
  <2>2. PICK a, b : a = t.edges /\ b = <<e0>>
    OBVIOUS
  <2>3. Append(a, e0) = a \o <<e0>>
    BY <1>3, <2>2, AppendIsConcat
  <2>4. a \o b \in Seq(Edges) /\ Range(a \o b) = Range(a) \cup Range(b)
    BY <1>3, <2>1, <2>2, ConcatElements
  <2>5. QED
    BY <1>2, <2>1, <2>2, <2>3, <2>4
<1>7. e0[1] = source /\ e0[2] = target
  BY DEF e0
<1>8. TopologyShape(u)
  <2>1. \A f \in 1..u.files : u.wanted[f] \subseteq 1..u.files
    BY <1>1, <1>2, <1>4, <1>5 DEF TopologyShape
  <2>2. \A e \in Range(u.edges) : e[1] \in 1..u.files /\ e[2] \in 1..u.files
    BY <1>1, <1>2, <1>6, <1>7 DEF TopologyShape
  <2>3. QED
    BY <1>1, <1>2, <1>5, <1>6, <2>1, <2>2 DEF TopologyShape
<1>9. CommittedOk(u)
  BY <1>1, <1>2 DEF CommittedOk
<1>10. \A f, x : Declared(u, f, x) <=> Declared(t, f, x) \/ (f = source /\ x = target)
  <2>1. \A f, x : <<f, x>> = e0 <=> f = source /\ x = target
    BY DEF e0
  <2>2. QED
    BY <1>2, <1>6, <2>1 DEF Declared
<1>11. StagedOk(u)
  <2>1. ASSUME NEW f \in 1..u.files, NEW x PROVE x \in u.wanted[f] <=> Declared(u, f, x)
    <3>1. f \in 1..t.files
      BY <1>2
    <3>2. x \in t.wanted[f] <=> Declared(t, f, x)
      BY <1>1, <3>1 DEF StagedOk
    <3>3. QED
      BY <1>5, <1>10, <3>1, <3>2 DEF set
  <2>2. u.count > 0 => \A e \in Range(u.edges) : e[1] \in Range(u.sources)
    BY <1>1, <1>2, <1>6, <1>7 DEF StagedOk
  <2>3. QED
    BY <2>1, <2>2 DEF StagedOk
<1>12. QED
  BY <1>2, <1>8, <1>9, <1>11 DEF TopologyOk

-----------------------------------------------------------------------------
(***************************************************************************)
(* The tables of a new Project                                             *)
(***************************************************************************)

LEMMA AllFilesFacts ==
  ASSUME NEW t, t.files \in Nat
  PROVE  /\ AllFiles(t) \in Seq(Nat) /\ DOMAIN AllFiles(t) = 1..t.files
         /\ \A f \in 1..t.files : AllFiles(t)[f] = f
<1>1. AllFiles(t) = [i \in 1..t.files |-> i]
  BY DEF AllFiles
<1>2. [i \in 1..t.files |-> i] \in [1..t.files -> Nat]
  OBVIOUS
<1>3. [i \in 1..t.files |-> i] \in Seq(Nat)
  BY <1>2, SeqDef
<1>4. QED
  BY <1>1, <1>3

LEMMA NativeForwardFacts ==
  ASSUME NEW t, TopologyShape(t), NEW f \in 1..t.files
  PROVE  LET values == RangeValues(NativeForward(t), f)
         IN  /\ values \in Seq(Nat) /\ IsInjective(values)
             /\ \A x : x \in Range(values) <=> <<f, x>> \in Range(t.edges)
<1> DEFINE ofSource(s) == Picked(t.edges, {i \in DOMAIN t.edges : t.edges[i][1] = s})
           parts == [s \in 1 .. t.files |-> ofSource(s)]
           sorted == FlattenSeq(parts)
           pairs == UniqueEdges(sorted)
<1>1. NativeForward(t) = Compact(pairs, AllFiles(t))
  BY DEF NativeForward
<1>2. t.files \in Nat /\ t.edges \in Seq(Edges)
  BY DEF TopologyShape
<1>3. ASSUME NEW s
      PROVE  /\ ofSource(s) \in Seq(Edges)
             /\ \A e : e \in Range(ofSource(s)) <=> e \in Range(t.edges) /\ e[1] = s
  <2> DEFINE keep == {i \in DOMAIN t.edges : t.edges[i][1] = s}
  <2>1. ofSource(s) = Picked(t.edges, keep)
    OBVIOUS
  <2>2. \A e : (\E i \in DOMAIN t.edges : i \in keep /\ e = t.edges[i])
               <=> e \in Range(t.edges) /\ e[1] = s
    BY DEF Range
  <2> HIDE DEF keep
  <2>3. /\ Picked(t.edges, keep) \in Seq(Edges)
        /\ \A e : e \in Range(Picked(t.edges, keep)) <=>
                     \E i \in DOMAIN t.edges : i \in keep /\ e = t.edges[i]
    BY <1>2, PickedElements
  <2> HIDE DEF ofSource
  <2>4. QED
    BY <2>1, <2>2, <2>3
<1> HIDE DEF ofSource
<1>4. parts \in [1..t.files -> Seq(Edges)]
  BY <1>3
<1>5. parts \in Seq(Seq(Edges)) /\ DOMAIN parts = 1..t.files
  BY <1>2, <1>4, SeqDef, SMTT(20)
<1>6. \A e : (\E s \in DOMAIN parts : e \in Range(parts[s])) <=> e \in Range(t.edges)
  <2>1. \A s \in DOMAIN parts : parts[s] = ofSource(s)
    OBVIOUS
  <2>2. \A e \in Range(t.edges) : e[1] \in 1..t.files
    BY DEF TopologyShape
  <2> HIDE DEF parts
  <2>3. QED
    BY <1>3, <1>5, <2>1, <2>2
<1> HIDE DEF parts
<1>7. sorted \in Seq(Edges) /\ Range(sorted) = Range(t.edges)
  BY <1>5, <1>6, FlattenElements
<1> HIDE DEF sorted
<1>8. pairs \in Seq(Edges) /\ IsInjective(pairs) /\ Range(pairs) = Range(t.edges)
  BY <1>7, UniqueFacts
<1> HIDE DEF pairs
<1>9. AllFiles(t) \in Seq(Nat) /\ f \in DOMAIN AllFiles(t) /\ AllFiles(t)[f] = f
  BY <1>2, AllFilesFacts
<1>10. RangeValues(Compact(pairs, AllFiles(t)), f) = ValuesOf(pairs, f)
  BY <1>8, <1>9, CompactRange
<1>11. /\ ValuesOf(pairs, f) \in Seq(Nat) /\ IsInjective(ValuesOf(pairs, f))
       /\ \A x : x \in Range(ValuesOf(pairs, f)) <=> <<f, x>> \in Range(pairs)
  BY <1>8, ValuesOfFacts
<1>12. QED
  BY <1>1, <1>8, <1>10, <1>11

LEMMA NativeReverseFacts ==
  ASSUME NEW t, t.files \in Nat, NEW forward,
         \A s \in 1..t.files : /\ RangeValues(forward, s) \in Seq(Nat)
                               /\ IsInjective(RangeValues(forward, s)),
         NEW f \in 1..t.files
  PROVE  LET values == RangeValues(NativeReverse(t, forward), f)
         IN  /\ values \in Seq(Nat) /\ IsInjective(values)
             /\ \A s : s \in Range(values) <=>
                          s \in 1..t.files /\ f \in Range(RangeValues(forward, s))
<1> DEFINE ofSource(s) == LET own == RangeValues(forward, s) IN [i \in DOMAIN own |-> <<own[i], s>>]
           parts == [s \in 1 .. t.files |-> ofSource(s)]
           pairs == FlattenSeq(parts)
<1>1. NativeReverse(t, forward) = Compact(pairs, AllFiles(t))
  BY DEF NativeReverse
<1>2. ASSUME NEW s \in 1..t.files
      PROVE  /\ ofSource(s) \in Seq(Edges) /\ IsInjective(ofSource(s))
             /\ \A x, y : <<x, y>> \in Range(ofSource(s)) <=>
                             y = s /\ x \in Range(RangeValues(forward, s))
             /\ \A e \in Range(ofSource(s)) : e[2] = s
  <2>1. PICK own : own = RangeValues(forward, s)
    OBVIOUS
  <2>2. own \in Seq(Nat) /\ IsInjective(own)
    BY <2>1
  <2>3. PICK p : p = ofSource(s)
    OBVIOUS
  <2>4. p = [i \in DOMAIN own |-> <<own[i], s>>]
    BY <2>1, <2>3
  <2>5. DOMAIN own = 1..Len(own) /\ Len(own) \in Nat /\ s \in Nat
    BY <2>2
  <2>6. p \in [1..Len(own) -> Edges]
    BY <2>2, <2>4, <2>5 DEF Edges
  <2>7. p \in Seq(Edges)
    BY <2>5, <2>6, SeqDef
  <2>8. IsInjective(p)
    BY <2>2, <2>4 DEF IsInjective
  <2>9. \A x, y : <<x, y>> \in Range(p) <=> y = s /\ x \in Range(own)
    BY <2>4 DEF Range
  <2>10. \A e \in Range(p) : e[2] = s
    BY <2>4 DEF Range
  <2>11. QED
    BY <2>1, <2>3, <2>7, <2>8, <2>9, <2>10
<1> HIDE DEF ofSource
<1>3. parts \in [1..t.files -> Seq(Edges)]
  BY <1>2
<1>4. parts \in Seq(Seq(Edges)) /\ DOMAIN parts = 1..t.files
  <2>1. DOMAIN parts = 1..t.files
    OBVIOUS
  <2> HIDE DEF parts
  <2>2. PICK N : N = t.files /\ N \in Nat
    OBVIOUS
  <2>3. parts \in [1..N -> Seq(Edges)]
    BY <1>3, <2>2
  <2>4. parts \in Seq(Seq(Edges))
    BY <2>2, <2>3, TableIsSeq
  <2>5. QED
    BY <2>1, <2>4
<1>5. \A s \in 1..t.files : parts[s] = ofSource(s)
  OBVIOUS
<1> HIDE DEF parts
<1>6. pairs \in Seq(Edges) /\ \A e : e \in Range(pairs) <=> \E s \in 1..t.files : e \in Range(parts[s])
  BY <1>4, FlattenElements
<1>7. IsInjective(pairs)
  <2>1. \A s \in DOMAIN parts : IsInjective(parts[s])
    BY <1>2, <1>4, <1>5
  <2>2. ASSUME NEW m \in DOMAIN parts, NEW n \in DOMAIN parts, m # n
        PROVE  Range(parts[m]) \cap Range(parts[n]) = {}
    <3>1. \A s \in DOMAIN parts : \A e \in Range(parts[s]) : e[2] = s
      BY <1>2, <1>4, <1>5
    <3>2. QED
      BY <2>2, <3>1
  <2>3. QED
    BY <1>4, <2>1, <2>2, FlattenInjective
<1> HIDE DEF pairs
<1>8. AllFiles(t) \in Seq(Nat) /\ f \in DOMAIN AllFiles(t) /\ AllFiles(t)[f] = f
  BY AllFilesFacts
<1>9. RangeValues(Compact(pairs, AllFiles(t)), f) = ValuesOf(pairs, f)
  BY <1>6, <1>8, CompactRange
<1>10. /\ ValuesOf(pairs, f) \in Seq(Nat) /\ IsInjective(ValuesOf(pairs, f))
       /\ \A x : x \in Range(ValuesOf(pairs, f)) <=> <<f, x>> \in Range(pairs)
  BY <1>6, <1>7, ValuesOfFacts
<1>11. ASSUME NEW s
       PROVE  <<f, s>> \in Range(pairs) <=> s \in 1..t.files /\ f \in Range(RangeValues(forward, s))
  <2>1. \A r \in 1..t.files : <<f, s>> \in Range(parts[r]) <=>
                                  s = r /\ f \in Range(RangeValues(forward, r))
    BY <1>2, <1>5
  <2>2. QED
    BY <1>6, <2>1
<1>12. QED
  BY <1>1, <1>9, <1>10, <1>11

LEMMA NativeKeeps ==
  ASSUME NEW t, TopologyOk(t), ~t.finalized, t.files > 0, ~OverBaseline(t), NEW u,
         u = FinalizeNative(t)
  PROVE  TopologyOk(u)
<1>1. TopologyShape(t) /\ CommittedOk(t) /\ StagedOk(t)
  BY DEF TopologyOk
<1>2. t.count = 0 /\ t.files \in Nat /\ t.count \in Nat
  BY <1>1 DEF OverBaseline, TopologyShape
<1>3. /\ DOMAIN u = TopologyFields
      /\ u.forward = NativeForward(t) /\ u.reverse = NativeReverse(t, NativeForward(t))
      /\ u.edges = <<>> /\ u.finalized = TRUE
      /\ u.files = t.files /\ u.wanted = t.wanted /\ u.count = t.count
      /\ u.baseline = t.baseline /\ u.sources = t.sources
  BY <1>1 DEF FinalizeNative, TopologyShape, TopologyFields
<1>4. Range(u.edges) = {} /\ u.edges \in Seq(Edges)
  <2>1. DOMAIN <<>> = {} /\ <<>> \in Seq(Edges)
    OBVIOUS
  <2>2. QED
    BY <1>3, <2>1 DEF Range
<1>5. TopologyShape(u) /\ CommittedOk(u)
  BY <1>1, <1>3, <1>4 DEF TopologyShape, CommittedOk
<1>6. ASSUME NEW f \in 1..t.files, NEW x PROVE x \in t.wanted[f] <=> <<f, x>> \in Range(t.edges)
  <2>1. ~(f <= t.count)
    BY <1>2
  <2>2. QED
    BY <1>1, <2>1 DEF StagedOk, Declared
<1>7. ASSUME NEW f \in 1..t.files
      PROVE  /\ RangeValues(u.forward, f) \in Seq(Nat) /\ IsInjective(RangeValues(u.forward, f))
             /\ Range(RangeValues(u.forward, f)) = t.wanted[f]
  BY <1>1, <1>3, <1>6, NativeForwardFacts
<1>8. ASSUME NEW f \in 1..t.files
      PROVE  /\ RangeValues(u.reverse, f) \in Seq(Nat) /\ IsInjective(RangeValues(u.reverse, f))
             /\ Range(RangeValues(u.reverse, f)) = {s \in 1..t.files : f \in t.wanted[s]}
  <2>1. u.reverse = NativeReverse(t, u.forward)
    BY <1>3
  <2>2. /\ RangeValues(u.reverse, f) \in Seq(Nat) /\ IsInjective(RangeValues(u.reverse, f))
        /\ \A s : s \in Range(RangeValues(u.reverse, f)) <=>
                    s \in 1..t.files /\ f \in Range(RangeValues(u.forward, s))
    BY <1>2, <1>7, <2>1, NativeReverseFacts
  <2>3. QED
    BY <1>7, <2>2
<1>9. ~OverBaseline(u)
  BY <1>2, <1>3 DEF OverBaseline
<1>10. ASSUME NEW f \in 1..u.files PROVE ForwardOk(u, f) /\ ReverseOk(u, f)
  <2>1. FileDependencies(u, f) = RangeValues(u.forward, f)
    BY <1>9 DEF FileDependencies
  <2>2. /\ FileDependents(u, f).values = RangeValues(u.reverse, f)
        /\ FileDependents(u, f).size = Len(RangeValues(u.reverse, f))
    BY <1>9 DEF FileDependents
  <2>3. QED
    BY <1>3, <1>7, <1>8, <2>1, <2>2 DEF ForwardOk, ReverseOk
<1>11. ViewsOk(u)
  BY <1>3, <1>10 DEF ViewsOk
<1>12. QED
  BY <1>3, <1>5, <1>11 DEF TopologyOk

-----------------------------------------------------------------------------
(***************************************************************************)
(* The tables over committed ones                                          *)
(***************************************************************************)

LEMMA OldEdgesFacts ==
  ASSUME NEW t, TopologyShape(t), CommittedOk(t)
  PROVE  /\ OldEdges(t) \in Seq(Edges) /\ IsInjective(OldEdges(t))
         /\ \A s, x : <<s, x>> \in Range(OldEdges(t)) <=>
               s \in Range(t.sources) /\ s <= t.count /\ x \in Range(t.baseline.dependencies[s])
<1> DEFINE ownOf(s) == IF s <= t.count THEN t.baseline.dependencies[s] ELSE <<>>
           ofSource(s) == LET own == ownOf(s) IN [i \in DOMAIN own |-> <<s, own[i]>>]
           parts == [i \in DOMAIN t.sources |-> ofSource(t.sources[i])]
<1>1. OldEdges(t) = FlattenSeq(parts)
  BY DEF OldEdges
<1>2. t.sources \in Seq(Nat) /\ IsInjective(t.sources) /\ t.count \in Nat /\ t.files \in Nat
      /\ Range(t.sources) \subseteq 1..t.files
  BY DEF TopologyShape
<1>3. ASSUME NEW s \in Range(t.sources)
      PROVE  /\ ofSource(s) \in Seq(Edges) /\ IsInjective(ofSource(s))
             /\ \A y, x : <<y, x>> \in Range(ofSource(s)) <=>
                   y = s /\ s <= t.count /\ x \in Range(t.baseline.dependencies[s])
             /\ \A e \in Range(ofSource(s)) : e[1] = s
  <2>1. s \in Nat /\ s \in 1..t.files
    BY <1>2
  <2>2. PICK own : own = ownOf(s)
    OBVIOUS
  <2>3. /\ own \in Seq(Nat) /\ IsInjective(own)
        /\ \A x : x \in Range(own) <=> s <= t.count /\ x \in Range(t.baseline.dependencies[s])
    <3>1. CASE s <= t.count
      <4>1. s \in 1..t.count /\ own = t.baseline.dependencies[s]
        BY <1>2, <2>1, <2>2, <3>1
      <4>2. QED
        BY <3>1, <4>1 DEF CommittedOk
    <3>2. CASE ~(s <= t.count)
      <4>1. own = <<>>
        BY <2>2, <3>2
      <4>2. <<>> \in Seq(Nat) /\ DOMAIN <<>> = {}
        OBVIOUS
      <4>3. QED
        BY <3>2, <4>1, <4>2 DEF Range, IsInjective
    <3>3. QED
      BY <3>1, <3>2
  <2>4. PICK p : p = ofSource(s)
    OBVIOUS
  <2>5. p = [i \in DOMAIN own |-> <<s, own[i]>>]
    BY <2>2, <2>4
  <2>6. DOMAIN own = 1..Len(own) /\ Len(own) \in Nat
    BY <2>3
  <2>7. p \in [1..Len(own) -> Edges]
    BY <2>1, <2>3, <2>5, <2>6 DEF Edges
  <2>8. p \in Seq(Edges)
    BY <2>6, <2>7, TableIsSeq
  <2>9. IsInjective(p)
    BY <2>3, <2>5 DEF IsInjective
  <2>10. \A y, x : <<y, x>> \in Range(p) <=> y = s /\ x \in Range(own)
    BY <2>5 DEF Range
  <2>11. \A e \in Range(p) : e[1] = s
    BY <2>5 DEF Range
  <2>12. \A y, x : <<y, x>> \in Range(p) <=>
            y = s /\ s <= t.count /\ x \in Range(t.baseline.dependencies[s])
    BY <2>3, <2>10
  <2> HIDE DEF ofSource
  <2>13. QED
    BY <2>4, <2>8, <2>9, <2>11, <2>12
<1> HIDE DEF ofSource
<1>4. DOMAIN t.sources = 1..Len(t.sources) /\ Len(t.sources) \in Nat
      /\ \A i \in DOMAIN t.sources : t.sources[i] \in Range(t.sources)
  BY <1>2 DEF Range
<1>5. /\ DOMAIN parts = DOMAIN t.sources
      /\ \A i \in DOMAIN t.sources : parts[i] = ofSource(t.sources[i])
  OBVIOUS
<1>6. parts \in [1..Len(t.sources) -> Seq(Edges)]
  BY <1>3, <1>4
<1> HIDE DEF parts
<1>7. parts \in Seq(Seq(Edges))
  BY <1>4, <1>6, TableIsSeq
<1>8. /\ FlattenSeq(parts) \in Seq(Edges)
      /\ \A e : e \in Range(FlattenSeq(parts)) <=> \E i \in DOMAIN parts : e \in Range(parts[i])
  BY <1>7, FlattenElements
<1>9. IsInjective(FlattenSeq(parts))
  <2>1. \A i \in DOMAIN parts : IsInjective(parts[i])
    BY <1>3, <1>4, <1>5
  <2>2. \A i \in DOMAIN parts : \A e \in Range(parts[i]) : e[1] = t.sources[i]
    BY <1>3, <1>4, <1>5
  <2>3. ASSUME NEW m \in DOMAIN parts, NEW n \in DOMAIN parts, m # n
        PROVE  Range(parts[m]) \cap Range(parts[n]) = {}
    <3>1. t.sources[m] # t.sources[n]
      BY <1>2, <1>5, <2>3 DEF IsInjective
    <3>2. QED
      BY <2>2, <3>1
  <2>4. QED
    BY <1>7, <2>1, <2>3, FlattenInjective
<1>10. ASSUME NEW s, NEW x
       PROVE  (\E i \in DOMAIN parts : <<s, x>> \in Range(parts[i])) <=>
                 s \in Range(t.sources) /\ s <= t.count /\ x \in Range(t.baseline.dependencies[s])
  <2>1. \A i \in DOMAIN parts : <<s, x>> \in Range(parts[i]) <=>
           /\ s = t.sources[i] /\ t.sources[i] <= t.count
           /\ x \in Range(t.baseline.dependencies[t.sources[i]])
    BY <1>3, <1>4, <1>5
  <2>2. s \in Range(t.sources) <=> \E i \in DOMAIN parts : s = t.sources[i]
    BY <1>5 DEF Range
  <2>3. QED
    BY <1>4, <1>5, <2>1, <2>2
<1>11. QED
  BY <1>1, <1>8, <1>9, <1>10

\* The events of a BUILD, by what they say of the staged and committed edges.
LEMMA BuildEvents ==
  ASSUME NEW t, TopologyShape(t), CommittedOk(t), NEW unique, unique = UniqueEdges(t.edges),
         NEW events, events = DeltaEvents(OldEdges(t), unique)
  PROVE  /\ unique \in Seq(Edges) /\ IsInjective(unique) /\ Range(unique) = Range(t.edges)
         /\ events \in Seq(EventSet) /\ IsInjective(events)
         /\ \A x, s : (\E e \in Range(events) : e.addition /\ e.target = x /\ e.source = s)
               <=> <<s, x>> \in Range(t.edges) \ Range(OldEdges(t))
         /\ \A x, s : (\E e \in Range(events) : ~e.addition /\ e.target = x /\ e.source = s)
               <=> <<s, x>> \in Range(OldEdges(t)) \ Range(t.edges)
<1>1. t.edges \in Seq(Edges)
  BY DEF TopologyShape
<1>2. unique \in Seq(Edges) /\ IsInjective(unique) /\ Range(unique) = Range(t.edges)
  BY <1>1, UniqueFacts
<1>3. OldEdges(t) \in Seq(Edges) /\ IsInjective(OldEdges(t))
  BY OldEdgesFacts
<1>4. /\ events \in Seq(EventSet) /\ IsInjective(events)
      /\ \A e : e \in Range(events) <=>
            /\ e \in EventSet
            /\ <<e.source, e.target>> \in IF e.addition THEN Range(unique) \ Range(OldEdges(t))
                                          ELSE Range(OldEdges(t)) \ Range(unique)
  BY <1>2, <1>3, DeltaEventsFacts
<1>5. ASSUME NEW q \in Seq(Edges), NEW x, NEW s, <<s, x>> \in Range(q) PROVE s \in Nat /\ x \in Nat
  <2>1. PICK i \in DOMAIN q : <<s, x>> = q[i]
    BY <1>5 DEF Range
  <2>2. q[i] \in Nat \X Nat
    BY DEF Edges
  <2>3. QED
    BY <2>1, <2>2
<1>6. ASSUME NEW x \in Nat, NEW s \in Nat, NEW b \in BOOLEAN
      PROVE  \E e \in EventSet : e.addition = b /\ e.target = x /\ e.source = s
  <2>1. [target |-> x, source |-> s, addition |-> b] \in EventSet
    BY DEF EventSet
  <2>2. QED
    BY <2>1
<1>7. ASSUME NEW x, NEW s
      PROVE  (\E e \in Range(events) : e.addition /\ e.target = x /\ e.source = s)
               <=> <<s, x>> \in Range(t.edges) \ Range(OldEdges(t))
  <2>1. ASSUME NEW e \in Range(events), e.addition, e.target = x, e.source = s
        PROVE  <<s, x>> \in Range(t.edges) \ Range(OldEdges(t))
    BY <1>2, <1>4, <2>1
  <2>2. ASSUME <<s, x>> \in Range(t.edges) \ Range(OldEdges(t))
        PROVE  \E e \in Range(events) : e.addition /\ e.target = x /\ e.source = s
    <3>1. x \in Nat /\ s \in Nat
      BY <1>1, <1>5, <2>2
    <3>2. PICK e \in EventSet : e.addition = TRUE /\ e.target = x /\ e.source = s
      BY <1>6, <3>1
    <3>3. e \in Range(events)
      BY <1>2, <1>4, <2>2, <3>2
    <3>4. QED
      BY <3>2, <3>3
  <2>3. QED
    BY <2>1, <2>2
<1>8. ASSUME NEW x, NEW s
      PROVE  (\E e \in Range(events) : ~e.addition /\ e.target = x /\ e.source = s)
               <=> <<s, x>> \in Range(OldEdges(t)) \ Range(t.edges)
  <2>1. ASSUME NEW e \in Range(events), ~e.addition, e.target = x, e.source = s
        PROVE  <<s, x>> \in Range(OldEdges(t)) \ Range(t.edges)
    BY <1>2, <1>4, <2>1
  <2>2. ASSUME <<s, x>> \in Range(OldEdges(t)) \ Range(t.edges)
        PROVE  \E e \in Range(events) : ~e.addition /\ e.target = x /\ e.source = s
    <3>1. x \in Nat /\ s \in Nat
      BY <1>3, <1>5, <2>2
    <3>2. PICK e \in EventSet : e.addition = FALSE /\ e.target = x /\ e.source = s
      BY <1>6, <3>1
    <3>3. e \in Range(events)
      BY <1>2, <1>4, <2>2, <3>2
    <3>4. QED
      BY <3>2, <3>3
  <2>3. QED
    BY <2>1, <2>2
<1>9. QED
  BY <1>2, <1>4, <1>7, <1>8

\* The committed dependents of a file, none for a file that is not committed.
LEMMA CommittedDependents ==
  ASSUME NEW t, TopologyShape(t), CommittedOk(t), NEW f \in 1..t.files, NEW base,
         base = IF f <= t.count THEN t.baseline.dependents[f] ELSE <<>>
  PROVE  /\ base \in Seq(Nat) /\ IsInjective(base)
         /\ \A s : s \in Range(base) <=> s \in 1..t.count /\ f \in Range(t.baseline.dependencies[s])
<1>1. t.count \in Nat /\ t.files \in Nat /\ f \in Nat /\ f > 0
  BY DEF TopologyShape
<1>2. CASE f <= t.count
  <2>1. f \in 1..t.count /\ base = t.baseline.dependents[f]
    BY <1>1, <1>2
  <2>2. QED
    BY <2>1 DEF CommittedOk
<1>3. CASE ~(f <= t.count)
  <2>1. base = <<>> /\ f \notin 1..t.count
    BY <1>1, <1>3
  <2>2. <<>> \in Seq(Nat) /\ DOMAIN <<>> = {}
    OBVIOUS
  <2>3. base \in Seq(Nat) /\ IsInjective(base) /\ Range(base) = {}
    BY <2>1, <2>2 DEF Range, IsInjective
  <2>4. \A s \in 1..t.count : f \notin Range(t.baseline.dependencies[s])
    BY <2>1 DEF CommittedOk
  <2>5. QED
    BY <2>3, <2>4
<1>4. QED
  BY <1>2, <1>3

\* The forward views over committed tables.
LEMMA BaselineForward ==
  ASSUME NEW t, TopologyShape(t), CommittedOk(t), StagedOk(t), OverBaseline(t), NEW u,
         u = FinalizeOverBaseline(t), NEW f \in 1..t.files
  PROVE  ForwardOk(u, f)
<1>1. PICK unique : unique = UniqueEdges(t.edges)
  OBVIOUS
<1>2. unique \in Seq(Edges) /\ IsInjective(unique) /\ Range(unique) = Range(t.edges)
  BY <1>1, UniqueFacts DEF TopologyShape
<1>3. /\ u.forward = Compact(unique, t.sources) /\ u.sources = t.sources
      /\ u.count = t.count /\ u.baseline = t.baseline /\ u.wanted = t.wanted
  BY <1>1 DEF FinalizeOverBaseline, TopologyShape, TopologyFields
<1>4. /\ t.count \in Nat /\ t.files \in Nat /\ t.sources \in Seq(Nat) /\ t.count > 0
      /\ f \in Nat /\ f > 0
  BY DEF TopologyShape, OverBaseline
<1>5. \A x : x \in t.wanted[f] <=> Declared(t, f, x)
  BY DEF StagedOk
<1>6. \A x : <<f, x>> \in Range(t.edges) => f \in Range(t.sources)
  <2>1. ASSUME NEW x, <<f, x>> \in Range(t.edges) PROVE f \in Range(t.sources)
    <3>1. <<f, x>>[1] \in Range(t.sources)
      BY <1>4, <2>1, Zenon DEF StagedOk
    <3>2. QED
      BY <3>1
  <2>2. QED
    BY <2>1
<1>7. OverBaseline(u)
  BY <1>3, <1>4 DEF OverBaseline
<1>8. ReplacedSource(u, f) <=> f \in Range(t.sources)
  BY <1>3, ReplacedIsListed
<1>9. CASE f \in Range(t.sources)
  <2>1. PICK k : k = IndexOf(t.sources, f)
    OBVIOUS
  <2>2. k \in DOMAIN t.sources /\ t.sources[k] = f
    <3>1. \E i \in DOMAIN t.sources : t.sources[i] = f
      BY <1>9 DEF Range
    <3>2. QED
      BY <2>1, <3>1 DEF IndexOf
  <2>3. FileDependencies(u, f) = RangeValues(u.forward, k)
    BY <1>3, <1>7, <1>8, <1>9, <2>1 DEF FileDependencies
  <2>4. RangeValues(Compact(unique, t.sources), k) = ValuesOf(unique, t.sources[k])
    BY <1>2, <1>4, <2>2, CompactRange
  <2>5. PICK values : values = FileDependencies(u, f)
    OBVIOUS
  <2>6. values = ValuesOf(unique, f)
    BY <1>3, <2>2, <2>3, <2>4, <2>5
  <2>7. /\ values \in Seq(Nat) /\ IsInjective(values)
        /\ \A x : x \in Range(values) <=> <<f, x>> \in Range(unique)
    BY <1>2, <2>6, ValuesOfFacts
  <2>8. \A x : x \in Range(values) <=> x \in t.wanted[f]
    BY <1>2, <1>5, <1>9, <2>7 DEF Declared
  <2>9. QED
    BY <1>3, <2>5, <2>7, <2>8 DEF ForwardOk
<1>10. CASE f \notin Range(t.sources) /\ f <= t.count
  <2>1. FileDependencies(u, f) = t.baseline.dependencies[f]
    BY <1>3, <1>7, <1>8, <1>10 DEF FileDependencies
  <2>2. f \in 1..t.count
    BY <1>4, <1>10
  <2>3. \A x : x \in Range(t.baseline.dependencies[f]) <=> x \in t.wanted[f]
    BY <1>5, <1>6, <1>10 DEF Declared
  <2>4. t.baseline.dependencies[f] \in Seq(Nat) /\ IsInjective(t.baseline.dependencies[f])
    BY <2>2 DEF CommittedOk
  <2>5. PICK own : own = t.baseline.dependencies[f]
    OBVIOUS
  <2>6. own \in Seq(Nat) /\ IsInjective(own) /\ \A x : x \in Range(own) <=> x \in t.wanted[f]
    BY <2>3, <2>4, <2>5
  <2>7. Range(own) = t.wanted[f]
    BY <2>6
  <2>8. QED
    BY <1>3, <2>1, <2>5, <2>6, <2>7 DEF ForwardOk
<1>11. CASE f \notin Range(t.sources) /\ ~(f <= t.count)
  <2>1. FileDependencies(u, f) = <<>>
    BY <1>3, <1>7, <1>8, <1>11 DEF FileDependencies
  <2>2. \A x : x \notin t.wanted[f]
    BY <1>5, <1>6, <1>11 DEF Declared
  <2>3. <<>> \in Seq(Nat) /\ DOMAIN <<>> = {}
    OBVIOUS
  <2>4. QED
    BY <1>3, <2>1, <2>2, <2>3 DEF ForwardOk, Range, IsInjective
<1>12. QED
  BY <1>9, <1>10, <1>11

\* The reverse views: committed dependents, less the removed, then the added.
LEMMA BaselineReverse ==
  ASSUME NEW t, TopologyShape(t), CommittedOk(t), StagedOk(t), OverBaseline(t), NEW u,
         u = FinalizeOverBaseline(t), NEW f \in 1..t.files
  PROVE  ReverseOk(u, f)
<1>1. PICK unique : unique = UniqueEdges(t.edges)
  OBVIOUS
<1>2. PICK events : events = DeltaEvents(OldEdges(t), unique)
  OBVIOUS
<1>3. PICK targets : targets = TargetRecords(events)
  OBVIOUS
<1>4. PICK base : base = IF f <= t.count THEN t.baseline.dependents[f] ELSE <<>>
  OBVIOUS
<1>5. /\ u.targets = targets /\ u.removals = ReverseRemovals(events)
      /\ u.additions = ReverseAdditions(events, targets)
      /\ u.count = t.count /\ u.baseline = t.baseline /\ u.wanted = t.wanted /\ u.files = t.files
  BY <1>1, <1>2, <1>3 DEF FinalizeOverBaseline, TopologyShape, TopologyFields
<1>6. /\ t.count \in Nat /\ t.files \in Nat /\ t.count <= t.files /\ t.count > 0
      /\ Range(t.sources) \subseteq 1..t.files
  BY DEF TopologyShape, OverBaseline
<1>7. OverBaseline(u)
  BY <1>5, <1>6 DEF OverBaseline
<1> DEFINE P(s) == s \in Range(base)
           S(s) == s \in Range(t.sources)
           E(s) == <<s, f>> \in Range(t.edges)
           O(s) == <<s, f>> \in Range(OldEdges(t))
           W(s) == s \in {n \in 1..t.files : f \in t.wanted[n]}
<1>8. /\ base \in Seq(Nat) /\ IsInjective(base)
      /\ \A s : s \in Range(base) <=> s \in 1..t.count /\ f \in Range(t.baseline.dependencies[s])
  BY <1>4, CommittedDependents
<1>9. \A s : O(s) <=> P(s) /\ S(s)
  <2>1. \A s : O(s) <=> S(s) /\ s <= t.count /\ f \in Range(t.baseline.dependencies[s])
    BY OldEdgesFacts
  <2>2. \A s \in 1..t.files : s <= t.count <=> s \in 1..t.count
    BY <1>6
  <2>3. QED
    BY <1>6, <1>8, <2>1, <2>2
<1>10. \A s : E(s) => S(s)
  <2>1. ASSUME NEW s, E(s) PROVE S(s)
    <3>1. <<s, f>>[1] \in Range(t.sources)
      BY <1>6, <2>1, Zenon DEF StagedOk
    <3>2. QED
      BY <3>1
  <2>2. QED
    BY <2>1
<1>11. \A s : W(s) <=> E(s) \/ (P(s) /\ ~S(s))
  <2>1. \A s \in 1..t.files : f \in t.wanted[s] <=> Declared(t, s, f)
    BY DEF StagedOk
  <2>2. \A s \in 1..t.files : s <= t.count <=> s \in 1..t.count
    BY <1>6
  <2>3. \A s \in 1..t.files : Declared(t, s, f) <=> E(s) \/ (P(s) /\ ~S(s))
    BY <1>8, <2>2 DEF Declared
  <2>4. \A s : E(s) \/ P(s) => s \in 1..t.files
    BY <1>6, <1>8, <1>10
  <2>5. QED
    BY <2>1, <2>3, <2>4
<1>12. /\ events \in Seq(EventSet) /\ IsInjective(events)
       /\ \A x, s : (\E e \in Range(events) : e.addition /\ e.target = x /\ e.source = s)
               <=> <<s, x>> \in Range(t.edges) \ Range(OldEdges(t))
       /\ \A x, s : (\E e \in Range(events) : ~e.addition /\ e.target = x /\ e.source = s)
               <=> <<s, x>> \in Range(OldEdges(t)) \ Range(t.edges)
  BY <1>1, <1>2, BuildEvents
<1>13. /\ targets \in Seq(Nat)
       /\ \A x : x \in Range(targets) <=> \E e \in Range(events) : e.target = x
  BY <1>3, <1>12, TargetFacts
<1>14. \A s : (\E e \in Range(events) : e.addition /\ e.target = f /\ e.source = s) <=> E(s) /\ ~O(s)
  BY <1>12, Zenon
<1>15. \A s : (\E e \in Range(events) : ~e.addition /\ e.target = f /\ e.source = s) <=> O(s) /\ ~E(s)
  BY <1>12, Zenon
<1> HIDE DEF P, S, E, O, W
<1>16. CASE f \notin Range(targets)
  <2>1. /\ FileDependents(u, f).values = base
        /\ FileDependents(u, f).size = Len(base)
    BY <1>4, <1>5, <1>7, <1>16 DEF FileDependents
  <2>2. \A e \in Range(events) : e.target # f
    BY <1>13, <1>16
  <2>3. \A s : ~(E(s) /\ ~O(s)) /\ ~(O(s) /\ ~E(s))
    BY <1>14, <1>15, <2>2, Zenon
  <2>4. \A s : W(s) <=> P(s)
    BY <1>9, <1>10, <1>11, <2>3
  <2>5. Range(base) = {n \in 1..t.files : f \in t.wanted[n]}
    BY <2>4 DEF W, P
  <2>6. QED
    BY <1>5, <1>8, <2>1, <2>5 DEF ReverseOk
<1>17. CASE f \in Range(targets)
  <2>1. PICK k : k = IndexOf(targets, f)
    OBVIOUS
  <2>2. k \in DOMAIN targets /\ targets[k] = f
    <3>1. \E i \in DOMAIN targets : targets[i] = f
      BY <1>17 DEF Range
    <3>2. QED
      BY <2>1, <3>1 DEF IndexOf
  <2>3. PICK adds : adds = RangeValues(ReverseAdditions(events, targets), k)
    OBVIOUS
  <2>4. /\ adds \in Seq(Nat) /\ IsInjective(adds)
        /\ \A s : s \in Range(adds) <=>
              \E e \in Range(events) : e.addition /\ e.target = targets[k] /\ e.source = s
    <3>1. events \in Seq(EventSet) /\ IsInjective(events) /\ targets \in Seq(Nat)
      BY <1>12, <1>13
    <3>2. LET values == RangeValues(ReverseAdditions(events, targets), k)
          IN  /\ values \in Seq(Nat)
              /\ IsInjective(values)
              /\ \A s : s \in Range(values) <=>
                    \E e \in Range(events) : e.addition /\ e.target = targets[k] /\ e.source = s
      BY <2>2, <3>1, AdditionFacts, ZenonT(30)
    <3>3. QED
      BY <2>3, <3>2, Zenon
  <2>5. \A s : s \in Range(adds) <=> E(s) /\ ~O(s)
    BY <1>14, <2>2, <2>4
  <2>6. PICK removals : removals = ReverseRemovals(events)
    OBVIOUS
  <2>7. /\ \A r \in removals : r \in Nat \X Nat
        /\ \A x, s : <<x, s>> \in removals <=>
              \E e \in Range(events) : ~e.addition /\ e.target = x /\ e.source = s
    BY <1>12, <2>6, RemovalFacts
  <2>8. \A s : <<f, s>> \in removals <=> O(s) /\ ~E(s)
    <3>1. \A s : <<f, s>> \in removals <=>
              \E e \in Range(events) : ~e.addition /\ e.target = f /\ e.source = s
      BY <2>7, Zenon
    <3>2. QED
      BY <1>15, <3>1
  <2>9. PICK view : view = OverlayView(base, adds, removals, f)
    OBVIOUS
  <2>10. FileDependents(u, f) = view
    BY <1>4, <1>5, <1>7, <1>17, <2>1, <2>3, <2>6, <2>9 DEF FileDependents
  <2>11. \A s : <<f, s>> \in removals => s \in Range(base)
    BY <1>9, <2>8 DEF P
  <2>12. /\ view.values \in Seq(Nat)
         /\ view.size = Len(view.values)
         /\ Range(view.values) = {s \in Range(base) : <<f, s>> \notin removals} \cup Range(adds)
         /\ IsInjective(adds) /\ Range(base) \cap Range(adds) = {} => IsInjective(view.values)
    <3>1. \A r \in removals : r \in Nat \X Nat
      BY <2>7
    <3>2. LET seen == OverlayView(base, adds, removals, f)
          IN  /\ seen.values \in Seq(Nat)
              /\ seen.size = Len(seen.values)
              /\ Range(seen.values) = {s \in Range(base) : <<f, s>> \notin removals} \cup Range(adds)
              /\ IsInjective(adds) /\ Range(base) \cap Range(adds) = {} => IsInjective(seen.values)
      BY <1>8, <2>4, <2>11, <3>1, OverlaySize
    <3>3. QED
      BY <2>9, <3>2
  <2>13. Range(base) \cap Range(adds) = {}
    <3>1. \A s : ~(P(s) /\ E(s) /\ ~O(s))
      BY <1>9, <1>10
    <3>2. QED
      BY <2>5, <3>1 DEF P
  <2>14. \A s : s \in Range(view.values) <=> W(s)
    <3>1. \A s : s \in Range(view.values) <=> (P(s) /\ ~(O(s) /\ ~E(s))) \/ (E(s) /\ ~O(s))
      BY <2>5, <2>8, <2>12 DEF P
    <3>2. QED
      BY <1>9, <1>10, <1>11, <3>1
  <2>15. Range(view.values) = {n \in 1..t.files : f \in t.wanted[n]}
    BY <2>14 DEF W
  <2>16. QED
    BY <1>5, <2>4, <2>10, <2>12, <2>13, <2>15 DEF ReverseOk
<1>18. QED
  BY <1>16, <1>17

LEMMA BaselineKeeps ==
  ASSUME NEW t, TopologyOk(t), ~t.finalized, t.files > 0, OverBaseline(t), NEW u,
         u = FinalizeOverBaseline(t)
  PROVE  TopologyOk(u)
<1>1. TopologyShape(t) /\ CommittedOk(t) /\ StagedOk(t)
  BY DEF TopologyOk
<1>2. /\ DOMAIN u = TopologyFields
      /\ u.edges = <<>> /\ u.finalized = TRUE
      /\ u.files = t.files /\ u.wanted = t.wanted /\ u.count = t.count
      /\ u.baseline = t.baseline /\ u.sources = t.sources
  BY <1>1 DEF FinalizeOverBaseline, TopologyShape, TopologyFields
<1>3. Range(u.edges) = {} /\ u.edges \in Seq(Edges)
  <2>1. DOMAIN <<>> = {} /\ <<>> \in Seq(Edges)
    OBVIOUS
  <2>2. QED
    BY <1>2, <2>1 DEF Range
<1>4. TopologyShape(u) /\ CommittedOk(u)
  BY <1>1, <1>2, <1>3 DEF TopologyShape, CommittedOk
<1>5. \A f \in 1..u.files : ForwardOk(u, f) /\ ReverseOk(u, f)
  BY <1>1, <1>2, BaselineForward, BaselineReverse
<1>6. ViewsOk(u)
  BY <1>2, <1>5 DEF ViewsOk
<1>7. QED
  BY <1>2, <1>4, <1>6 DEF TopologyOk

-----------------------------------------------------------------------------
(***************************************************************************)
(* Binding a context to the committed tables                               *)
(***************************************************************************)

LEMMA CommittedFrom ==
  ASSUME NEW u, NEW n, NEW d, NEW r,
         u.count = n, u.baseline.dependencies = d, u.baseline.dependents = r,
         \A f \in 1..n :
           /\ d[f] \in Seq(Nat) /\ IsInjective(d[f]) /\ Range(d[f]) \subseteq 1..n
           /\ r[f] \in Seq(Nat) /\ IsInjective(r[f])
           /\ \A s : s \in Range(r[f]) <=> s \in 1..n /\ f \in Range(d[s])
  PROVE  CommittedOk(u)
BY DEF CommittedOk

\* What a REBUILD wrote is the baseline of the next context.
LEMMA PersistKeeps ==
  ASSUME NEW t, TopologyOk(t), t.finalized, NEW d, NEW r, NEW u,
         \A f \in 1..t.files : d[f] = FileDependencies(t, f),
         \A f \in 1..t.files : r[f] = FileDependents(t, f).values,
         u = NewContext([dependencies |-> d, dependents |-> r], t.files, t.wanted)
  PROVE  TopologyOk(u)
<1>1. TopologyShape(t) /\ ViewsOk(t)
  BY DEF TopologyOk
<1>2. /\ DOMAIN u = TopologyFields
      /\ u.baseline.dependencies = d /\ u.baseline.dependents = r
      /\ u.count = t.files /\ u.files = t.files /\ u.wanted = t.wanted
      /\ u.sources = <<>> /\ u.edges = <<>> /\ u.finalized = FALSE
  BY DEF NewContext, TopologyFields
<1>3. DOMAIN <<>> = {} /\ <<>> \in Seq(Edges) /\ <<>> \in Seq(Nat)
  OBVIOUS
<1>4. /\ Range(u.edges) = {} /\ u.edges \in Seq(Edges)
      /\ Range(u.sources) = {} /\ u.sources \in Seq(Nat) /\ IsInjective(u.sources)
  BY <1>2, <1>3 DEF Range, IsInjective
<1>5. /\ t.files \in Nat /\ t.wanted \in Seq(SUBSET Nat) /\ Len(t.wanted) = t.files
      /\ \A f \in 1..t.files : t.wanted[f] \subseteq 1..t.files
  BY <1>1 DEF TopologyShape
<1>6. TopologyShape(u)
  <2>1. u.count <= u.files /\ u.count \in Nat
    BY <1>2, <1>5
  <2>2. u.finalized \in BOOLEAN
    BY <1>2, Zenon
  <2>3. \A f \in 1..u.files : u.wanted[f] \subseteq 1..u.files
    BY <1>2, <1>5
  <2>4. /\ \A e \in Range(u.edges) : e[1] \in 1..u.files /\ e[2] \in 1..u.files
        /\ Range(u.sources) \subseteq 1..u.files
    BY <1>4
  <2>5. u.wanted \in Seq(SUBSET Nat) /\ Len(u.wanted) = u.files
    BY <1>2, <1>5
  <2>6. QED
    BY <1>2, <1>4, <2>1, <2>2, <2>3, <2>4, <2>5, <1>5 DEF TopologyShape
<1>7. ASSUME NEW f \in 1..t.files
      PROVE  /\ d[f] \in Seq(Nat) /\ IsInjective(d[f]) /\ Range(d[f]) = t.wanted[f]
             /\ r[f] \in Seq(Nat) /\ IsInjective(r[f])
             /\ Range(r[f]) = {s \in 1..t.files : f \in t.wanted[s]}
  <2>1. d[f] = FileDependencies(t, f) /\ r[f] = FileDependents(t, f).values
    OBVIOUS
  <2>2. QED
    BY <1>1, <2>1 DEF ViewsOk, ForwardOk, ReverseOk
<1>8. CommittedOk(u)
  <2>1. \A f \in 1..t.files : Range(d[f]) \subseteq 1..t.files
    BY <1>5, <1>7
  <2>2. \A f, s \in 1..t.files : f \in t.wanted[s] <=> f \in Range(d[s])
    BY <1>7
  <2>3. \A f \in 1..t.files : \A s : s \in Range(r[f]) <=> s \in 1..t.files /\ f \in t.wanted[s]
    BY <1>7
  <2>4. \A f \in 1..t.files : \A s : s \in Range(r[f]) <=> s \in 1..t.files /\ f \in Range(d[s])
    BY <2>2, <2>3
  <2>5. \A f \in 1..t.files : /\ d[f] \in Seq(Nat) /\ IsInjective(d[f])
                              /\ r[f] \in Seq(Nat) /\ IsInjective(r[f])
    BY <1>7
  <2>6. PICK n : n = t.files
    OBVIOUS
  <2>7. u.count = n /\ u.baseline.dependencies = d /\ u.baseline.dependents = r
    BY <1>2, <2>6
  <2>8. \A f \in 1..n :
           /\ d[f] \in Seq(Nat) /\ IsInjective(d[f]) /\ Range(d[f]) \subseteq 1..n
           /\ r[f] \in Seq(Nat) /\ IsInjective(r[f])
           /\ \A s : s \in Range(r[f]) <=> s \in 1..n /\ f \in Range(d[s])
    BY <2>1, <2>4, <2>5, <2>6
  <2>9. QED
    BY <2>7, <2>8, CommittedFrom
<1>9. StagedOk(u)
  <2>1. ASSUME NEW f \in 1..t.files, NEW x PROVE x \in u.wanted[f] <=> Declared(u, f, x)
    <3>1. f <= u.count
      BY <1>2, <1>5
    <3>2. Declared(u, f, x) <=> x \in Range(d[f])
      BY <1>2, <1>4, <3>1 DEF Declared
    <3>3. Range(d[f]) = t.wanted[f]
      BY <1>7
    <3>4. QED
      BY <1>2, <3>2, <3>3
  <2>2. QED
    BY <1>2, <1>4, <2>1 DEF StagedOk
<1>10. QED
  BY <1>2, <1>6, <1>8, <1>9 DEF TopologyOk

\* The context before the first file.
LEMMA TopologyStarts ==
  ASSUME FileTopologyInit PROVE TopologyOk(topology)
<1>1. PICK t : t = topology
  OBVIOUS
<1>2. /\ DOMAIN t = TopologyFields /\ t.count = 0 /\ t.files = 0 /\ t.wanted = <<>>
      /\ t.sources = <<>> /\ t.edges = <<>> /\ t.finalized = FALSE
  BY <1>1 DEF FileTopologyInit, NewContext, TopologyFields
<1>3. /\ DOMAIN <<>> = {} /\ <<>> \in Seq(Edges) /\ <<>> \in Seq(Nat)
      /\ <<>> \in Seq(SUBSET Nat) /\ Len(<<>>) = 0 /\ 1..0 = {}
  OBVIOUS
<1>4. /\ Range(t.edges) = {} /\ Range(t.sources) = {} /\ IsInjective(t.sources)
  BY <1>2, <1>3 DEF Range, IsInjective
<1>5. TopologyShape(t)
  <2>1. t.wanted \in Seq(SUBSET Nat) /\ Len(t.wanted) = t.files
    BY <1>2, <1>3
  <2>2. t.edges \in Seq(Edges) /\ t.sources \in Seq(Nat)
    BY <1>2, <1>3
  <2>3. \A f \in 1..t.files : t.wanted[f] \subseteq 1..t.files
    BY <1>2, <1>3
  <2>4. t.finalized \in BOOLEAN
    BY <1>2, Zenon
  <2>5. QED
    BY <1>2, <1>4, <2>1, <2>2, <2>3, <2>4 DEF TopologyShape
<1>6. CommittedOk(t) /\ StagedOk(t)
  BY <1>2, <1>3, <1>4 DEF CommittedOk, StagedOk
<1>7. QED
  BY <1>1, <1>2, <1>5, <1>6 DEF TopologyOk

\* Every step of the context keeps the invariant.
LEMMA TopologyStepKeeps ==
  ASSUME TopologyOk(topology), FileTopologyNext PROVE TopologyOk(topology')
<1>1. PICK t : t = topology
  OBVIOUS
<1>2. PICK u : u = topology'
  OBVIOUS
<1>3. TopologyOk(t)
  BY <1>1
<1>4. SUFFICES TopologyOk(u)
  BY <1>2
<1>5. CASE ResolveNewFile
  <2>1. ~t.finalized /\ u = [t EXCEPT !.files = @ + 1, !.wanted = Append(@, {})]
    BY <1>1, <1>2, <1>5 DEF ResolveNewFile
  <2>2. QED
    BY <1>3, <2>1, ResolveKeeps
<1>6. ASSUME NEW source \in 1..topology.files, BeginDependencyReplacement(source)
      PROVE  TopologyOk(u)
  <2>1. ~t.finalized /\ t.count > 0 /\ source \in 1..t.files /\ u = BeginReplacement(t, source)
    BY <1>1, <1>2, <1>6 DEF BeginDependencyReplacement, OverBaseline
  <2>2. QED
    BY <1>3, <2>1, BeginKeeps
<1>7. ASSUME NEW source \in 1..topology.files, NEW target \in 1..topology.files,
             AddFileDependency(source, target)
      PROVE  TopologyOk(u)
  <2>1. PICK b : b = IF OverBaseline(t) THEN BeginReplacement(t, source) ELSE t
    OBVIOUS
  <2>2. /\ ~t.finalized /\ source \in 1..t.files /\ target \in 1..t.files
        /\ u = [b EXCEPT !.edges = Append(@, <<source, target>>), !.wanted[source] = @ \cup {target}]
    BY <1>1, <1>2, <1>7, <2>1 DEF AddFileDependency
  <2>3. /\ TopologyOk(b) /\ ~b.finalized /\ b.files = t.files
        /\ b.count > 0 => source \in Range(b.sources)
    <3>1. CASE OverBaseline(t)
      <4>1. b = BeginReplacement(t, source) /\ t.count > 0
        BY <2>1, <3>1 DEF OverBaseline
      <4>2. QED
        BY <1>3, <2>2, <4>1, BeginKeeps
    <3>2. CASE ~OverBaseline(t)
      <4>1. b = t /\ ~(t.count > 0)
        BY <2>1, <3>2 DEF OverBaseline
      <4>2. QED
        BY <1>3, <2>2, <4>1
    <3>3. QED
      BY <3>1, <3>2
  <2>4. source \in 1..b.files /\ target \in 1..b.files
    BY <2>2, <2>3
  <2>5. QED
    BY <2>2, <2>3, <2>4, AddKeeps
<1>8. CASE FinalizeTopology
  <2>1. /\ ~t.finalized /\ t.files > 0
        /\ u = IF OverBaseline(t) THEN FinalizeOverBaseline(t) ELSE FinalizeNative(t)
    BY <1>1, <1>2, <1>8 DEF FinalizeTopology
  <2>2. CASE OverBaseline(t)
    BY <1>3, <2>1, <2>2, BaselineKeeps
  <2>3. CASE ~OverBaseline(t)
    BY <1>3, <2>1, <2>3, NativeKeeps
  <2>4. QED
    BY <2>2, <2>3
<1>9. CASE PersistAndBind
  <2>1. PICK d : d = [f \in 1..t.files |-> FileDependencies(t, f)]
    OBVIOUS
  <2>2. PICK r : r = [f \in 1..t.files |-> FileDependents(t, f).values]
    OBVIOUS
  <2>3. /\ t.finalized
        /\ u = NewContext([dependencies |-> d, dependents |-> r], t.files, t.wanted)
    BY <1>1, <1>2, <1>9, <2>1, <2>2 DEF PersistAndBind
  <2>4. /\ \A f \in 1..t.files : d[f] = FileDependencies(t, f)
        /\ \A f \in 1..t.files : r[f] = FileDependents(t, f).values
    BY <2>1, <2>2
  <2>5. QED
    BY <1>3, <2>3, <2>4, PersistKeeps
<1>10. QED
  BY <1>5, <1>6, <1>7, <1>8, <1>9 DEF FileTopologyNext

TopologyInv == TopologyOk(topology)

\* Once the tables are made the context answers as the plain relation the
\* callers declared would, in both directions, whatever was committed before,
\* replaced, removed or declared again (file_context::finalize_dependency_topology
\* and the dependency views), for every number of files and edges.
THEOREM TopologyIsExact == FileTopologySpec => []TopologyExact
<1>1. FileTopologyInit => TopologyInv
  BY TopologyStarts DEF TopologyInv
<1>2. TopologyInv /\ [FileTopologyNext]_topology => TopologyInv'
  <2>1. ASSUME TopologyOk(topology), UNCHANGED topology PROVE TopologyOk(topology')
    BY <2>1
  <2>2. QED
    BY <2>1, TopologyStepKeeps DEF TopologyInv
<1>3. TopologyInv => TopologyExact
  <2>1. ASSUME TopologyOk(topology), topology.finalized, NEW f \in 1..topology.files
        PROVE  ForwardOk(topology, f) /\ ReverseOk(topology, f)
    BY <2>1 DEF TopologyOk, ViewsOk
  <2>2. SUFFICES ASSUME TopologyOk(topology), topology.finalized, NEW f \in 1..topology.files
        PROVE  /\ Range(FileDependencies(topology, f)) = topology.wanted[f]
               /\ IsInjective(FileDependencies(topology, f))
               /\ Range(FileDependents(topology, f).values) =
                     {s \in 1..topology.files : f \in topology.wanted[s]}
               /\ IsInjective(FileDependents(topology, f).values)
               /\ FileDependents(topology, f).size = Len(FileDependents(topology, f).values)
    BY Zenon DEF TopologyExact, TopologyInv
  <2>3. ForwardOk(topology, f) /\ ReverseOk(topology, f)
    BY <2>1, <2>2
  <2>4. QED
    BY <2>3 DEF ForwardOk, ReverseOk
<1>4. QED
  BY <1>1, <1>2, <1>3, PTL DEF FileTopologySpec

-----------------------------------------------------------------------------
(***************************************************************************)
(* Closures                                                                *)
(***************************************************************************)

\* The waves of a closure: g[n] is what n steps reach from init.
Waves(g, U, init, next, N) ==
  /\ g[0] = init
  /\ \A n \in 1..N : g[n - 1] \in SUBSET U => g[n] = next[g[n - 1]]

\* A step that keeps what it is given and is monotone.
Growing(U, next) ==
  /\ next \in [SUBSET U -> SUBSET U]
  /\ \A X \in SUBSET U : X \subseteq next[X]
  /\ \A X, Y \in SUBSET U : X \subseteq Y => next[X] \subseteq next[Y]

LEMMA WavesWithin ==
  ASSUME NEW U, NEW init \in SUBSET U, NEW next, Growing(U, next), NEW N \in Nat,
         NEW g, Waves(g, U, init, next, N)
  PROVE  \A n \in 0..N : g[n] \in SUBSET U
<1> DEFINE S == {k \in 0..N : g[k] \in SUBSET U}
<1>1. 0 \in S
  BY DEF Waves
<1>2. ASSUME NEW k \in Nat, k < N, k \in S PROVE k + 1 \in S
  <2>1. k + 1 \in 1..N /\ k + 1 \in 0..N /\ (k + 1) - 1 = k
    BY <1>2
  <2>2. g[k + 1] = next[g[k]]
    BY <1>2, <2>1 DEF Waves
  <2>3. g[k] \in SUBSET U
    BY <1>2
  <2>4. next[g[k]] \in SUBSET U
    BY <2>3 DEF Growing
  <2>5. QED
    BY <2>1, <2>2, <2>4
<1> HIDE DEF S
<1>3. \A n \in 0..N : n \in S
  BY <1>1, <1>2, UpTo
<1>4. QED
  BY <1>3 DEF S

LEMMA WavesStep ==
  ASSUME NEW U, NEW init \in SUBSET U, NEW next, Growing(U, next), NEW N \in Nat,
         NEW g, Waves(g, U, init, next, N), NEW k \in Nat, k < N
  PROVE  /\ g[k] \in SUBSET U /\ g[k + 1] \in SUBSET U /\ g[k + 1] = next[g[k]]
         /\ g[k] \subseteq g[k + 1]
<1>1. k \in 0..N /\ k + 1 \in 1..N /\ k + 1 \in 0..N /\ (k + 1) - 1 = k
  OBVIOUS
<1>2. g[k] \in SUBSET U /\ g[k + 1] \in SUBSET U
  <2>1. \A n \in 0..N : g[n] \in SUBSET U
    BY WavesWithin, Zenon
  <2>2. QED
    BY <1>1, <2>1
<1>3. g[k + 1] = next[g[k]]
  BY <1>1, <1>2 DEF Waves
<1>4. QED
  BY <1>2, <1>3 DEF Growing

\* As many steps as there are elements reach everything: a wave that is not
\* the last one has added an element.
LEMMA WavesEnd ==
  ASSUME NEW U, IsFiniteSet(U), NEW init \in SUBSET U, NEW next, Growing(U, next),
         NEW N \in Nat, Cardinality(U) <= N, NEW g, Waves(g, U, init, next, N)
  PROVE  next[g[N]] = g[N]
<1> DEFINE S == {k \in 0..N : next[g[k]] = g[k] \/ Cardinality(g[k]) >= k}
<1>1. \A X \in SUBSET U : IsFiniteSet(X) /\ Cardinality(X) \in Nat /\ Cardinality(X) <= Cardinality(U)
  <2>1. ASSUME NEW X \in SUBSET U
        PROVE  IsFiniteSet(X) /\ Cardinality(X) \in Nat /\ Cardinality(X) <= Cardinality(U)
    <3>1. IsFiniteSet(X) /\ Cardinality(X) <= Cardinality(U)
      BY FS_Subset, Zenon
    <3>2. QED
      BY <3>1, FS_CardinalityType
  <2>2. QED
    BY <2>1
<1>2. 0 \in S
  <2>1. g[0] \in SUBSET U
    <3>1. 0 \in 0..N
      OBVIOUS
    <3>2. QED
      BY <3>1, WavesWithin, Zenon
  <2>2. QED
    BY <1>1, <2>1
<1>3. ASSUME NEW k \in Nat, k < N, k \in S PROVE k + 1 \in S
  <2>1. PICK a, b : a = g[k] /\ b = g[k + 1]
    OBVIOUS
  <2>2. a \in SUBSET U /\ b \in SUBSET U /\ b = next[a] /\ a \subseteq b
    <3>1. /\ g[k] \in SUBSET U /\ g[k + 1] \in SUBSET U /\ g[k + 1] = next[g[k]]
          /\ g[k] \subseteq g[k + 1]
      BY <1>3, WavesStep, Zenon
    <3>2. QED
      BY <2>1, <3>1
  <2>3. CASE b = a
    <3>1. k + 1 \in 0..N
      BY <1>3
    <3>2. next[b] = b
      BY <2>2, <2>3, Zenon
    <3>3. QED
      BY <2>1, <3>1, <3>2
  <2>4. CASE b # a
    <3>1. Cardinality(a) >= k
      BY <1>3, <2>1, <2>2, <2>4
    <3>2. IsFiniteSet(b) /\ IsFiniteSet(a) /\ Cardinality(a) \in Nat /\ Cardinality(b) \in Nat
      BY <1>1, <2>2
    <3>3. Cardinality(a) <= Cardinality(b) /\ (Cardinality(a) = Cardinality(b) => a = b)
      BY <2>2, <3>2, FS_Subset
    <3>4. Cardinality(b) >= k + 1
      BY <2>4, <3>1, <3>2, <3>3
    <3>5. QED
      BY <1>3, <2>1, <3>4
  <2>5. QED
    BY <2>3, <2>4
<1> HIDE DEF S
<1>4. N \in S
  <2>1. \A k \in 0..N : k \in S
    BY <1>2, <1>3, UpTo
  <2>2. QED
    BY <2>1
<1>5. PICK a : a = g[N]
  OBVIOUS
<1>6. a \in SUBSET U
  <2>1. N \in 0..N
    OBVIOUS
  <2>2. g[N] \in SUBSET U
    BY <2>1, WavesWithin, Zenon
  <2>3. QED
    BY <1>5, <2>2
<1>7. next[a] = a \/ Cardinality(a) >= N
  BY <1>4, <1>5 DEF S
<1>8. CASE Cardinality(a) >= N
  <2>1. Cardinality(a) = Cardinality(U)
    BY <1>1, <1>6, <1>8
  <2>2. a = U
    BY <1>6, <2>1, FS_Subset
  <2>3. QED
    BY <1>5, <1>6, <2>2 DEF Growing
<1>9. QED
  BY <1>5, <1>7, <1>8

\* A closure is the least set that holds the first elements and is closed.
LEMMA ClosureIsLeast ==
  ASSUME NEW U, IsFiniteSet(U), NEW init \in SUBSET U, NEW next, Growing(U, next),
         NEW N \in Nat, Cardinality(U) <= N, NEW g, Waves(g, U, init, next, N)
  PROVE  /\ g[N] \in SUBSET U /\ init \subseteq g[N] /\ next[g[N]] = g[N]
         /\ \A Y \in SUBSET U : init \subseteq Y /\ next[Y] \subseteq Y => g[N] \subseteq Y
<1>1. g[N] \in SUBSET U
  <2>1. N \in 0..N
    OBVIOUS
  <2>2. QED
    BY <2>1, WavesWithin, Zenon
<1>2. init \subseteq g[N]
  <2> DEFINE S == {k \in 0..N : init \subseteq g[k]}
  <2>1. 0 \in S
    BY DEF Waves
  <2>2. ASSUME NEW k \in Nat, k < N, k \in S PROVE k + 1 \in S
    <3>1. g[k] \subseteq g[k + 1]
      BY <2>2, WavesStep, Zenon
    <3>2. QED
      BY <2>2, <3>1
  <2> HIDE DEF S
  <2>3. N \in S
    BY <2>1, <2>2, UpTo
  <2>4. QED
    BY <2>3 DEF S
<1>3. ASSUME NEW Y \in SUBSET U, init \subseteq Y, next[Y] \subseteq Y PROVE g[N] \subseteq Y
  <2> DEFINE S == {k \in 0..N : g[k] \subseteq Y}
  <2>1. 0 \in S
    BY <1>3 DEF Waves
  <2>2. ASSUME NEW k \in Nat, k < N, k \in S PROVE k + 1 \in S
    <3>1. /\ g[k] \in SUBSET U /\ g[k + 1] \in SUBSET U /\ g[k + 1] = next[g[k]]
          /\ g[k] \subseteq g[k + 1]
      BY <2>2, WavesStep, Zenon
    <3>2. next[g[k]] \subseteq next[Y]
      BY <2>2, <3>1 DEF Growing
    <3>3. QED
      BY <1>3, <2>2, <3>1, <3>2
  <2> HIDE DEF S
  <2>3. N \in S
    BY <2>1, <2>2, UpTo
  <2>4. QED
    BY <2>3 DEF S
<1>4. QED
  <2>1. next[g[N]] = g[N]
    BY WavesEnd
  <2>2. QED
    BY <1>1, <1>2, <1>3, <2>1, Zenon

Grows(g, init, next, N) == \A n \in 0..N : g[n] = IF n = 0 THEN init ELSE next[g[n - 1]]

\* The waves of a closure exist.
LEMMA WavesExist ==
  ASSUME NEW U, NEW init \in SUBSET U, NEW next, Growing(U, next), NEW N \in Nat
  PROVE  \E g \in [0..N -> SUBSET U] : Grows(g, init, next, N)
<1> DEFINE V == SUBSET U
           step == [p \in V \X (1..N) |-> next[p[1]]]
<1>1. \A X \in V : next[X] \in V
  BY DEF Growing
<1>2. step \in [V \X (1..N) -> V]
  BY <1>1
<1>3. \A X \in V, n \in 1..N : step[<<X, n>>] = next[X]
  OBVIOUS
<1>4. init \in V
  OBVIOUS
<1> HIDE DEF V, step
<1>5. PICK g \in [0..N -> V] : Iterates(g, N, init, step)
  BY <1>2, <1>4, RecursionExists
<1>6. ASSUME NEW n \in 0..N PROVE g[n] = IF n = 0 THEN init ELSE next[g[n - 1]]
  <2>1. g[n] = IF n = 0 THEN init ELSE step[<<g[n - 1], n>>]
    BY <1>5 DEF Iterates
  <2>2. n # 0 => n \in 1..N /\ n - 1 \in 0..N
    OBVIOUS
  <2>3. n # 0 => g[n - 1] \in V
    BY <2>2
  <2>4. QED
    BY <1>3, <2>1, <2>2, <2>3
<1>7. QED
  <2>1. Grows(g, init, next, N)
    BY <1>6 DEF Grows
  <2>2. QED
    BY <1>5, <2>1 DEF V

-----------------------------------------------------------------------------
(***************************************************************************)
(* The closures of a BUILD                                                 *)
(***************************************************************************)

\* What a REBUILD committed: known files, with every file they include.
SavedFiles(s) ==
  /\ Members(s) \subseteq Inputs
  /\ \A f \in Members(s) : Topology(s, f) \subseteq Members(s)

LEMMA InputsFinite ==
  /\ Len(InputKinds) \in Nat /\ Inputs = 1..Len(InputKinds)
  /\ IsFiniteSet(Inputs)
<1>1. InputKinds \in Seq({"project", "header", "source"})
  BY IncrementalBuildConstants
<1>2. Len(InputKinds) \in Nat /\ DOMAIN InputKinds = 1..Len(InputKinds)
  BY <1>1
<1>3. QED
  BY <1>2, FS_Interval DEF Inputs

LEMMA SavedFinite ==
  ASSUME NEW s, SavedFiles(s)
  PROVE  /\ IsFiniteSet(Members(s)) /\ Cardinality(Members(s)) \in Nat
         /\ CommittedRoots(s) \subseteq Members(s)
         /\ IsFiniteSet(CommittedRoots(s)) /\ Cardinality(CommittedRoots(s)) <= Cardinality(Members(s))
<1>1. Members(s) \subseteq Inputs /\ CommittedRoots(s) \subseteq Members(s)
  BY DEF SavedFiles, CommittedRoots
<1>2. IsFiniteSet(Members(s))
  BY <1>1, InputsFinite, FS_Subset
<1>3. Cardinality(Members(s)) \in Nat
  BY <1>2, FS_CardinalityType
<1>4. IsFiniteSet(CommittedRoots(s)) /\ Cardinality(CommittedRoots(s)) <= Cardinality(Members(s))
  BY <1>1, <1>2, FS_Subset
<1>5. QED
  BY <1>1, <1>2, <1>3, <1>4

ReachedBy(g, s, f) ==
  g = [n \in 0 .. Cardinality(Members(s)) |->
         IF n = 0 THEN {f}
         ELSE LET before == g[n - 1] IN before \cup UNION {Topology(s, h) : h \in before}]

\* Reached is the least set that holds the file and what its files include.
LEMMA ReachedIsLeast ==
  ASSUME NEW s, SavedFiles(s), NEW f \in Members(s)
  PROVE  /\ Reached(s, f) \subseteq Members(s) /\ f \in Reached(s, f)
         /\ \A h \in Reached(s, f) : Topology(s, h) \subseteq Reached(s, f)
         /\ \A Y \in SUBSET Members(s) :
               f \in Y /\ (\A h \in Y : Topology(s, h) \subseteq Y) => Reached(s, f) \subseteq Y
<1> DEFINE U == Members(s)
           N == Cardinality(U)
           next == [X \in SUBSET U |-> X \cup UNION {Topology(s, h) : h \in X}]
           reach == CHOOSE g : ReachedBy(g, s, f)
<1>1. Reached(s, f) = reach[N]
  BY Zenon DEF Reached, ReachedBy
<1>2. IsFiniteSet(U) /\ N \in Nat /\ {f} \in SUBSET U
  BY SavedFinite
<1>3. \A h \in U : Topology(s, h) \subseteq U
  BY DEF SavedFiles
<1>4. \A X \in SUBSET U : next[X] = X \cup UNION {Topology(s, h) : h \in X}
  OBVIOUS
<1>5. Growing(U, next)
  BY <1>3 DEF Growing
<1> HIDE DEF U, N, next
<1>6. \E g : ReachedBy(g, s, f)
  <2>1. PICK g \in [0..N -> SUBSET U] : Grows(g, {f}, next, N)
    BY <1>2, <1>5, WavesExist, Zenon
  <2>2. ASSUME NEW n \in 0..N
        PROVE  g[n] = IF n = 0 THEN {f}
                      ELSE g[n - 1] \cup UNION {Topology(s, h) : h \in g[n - 1]}
    <3>1. n # 0 => n - 1 \in 0..N
      BY <1>2
    <3>2. n # 0 => g[n - 1] \in SUBSET U
      BY <3>1
    <3>3. QED
      BY <1>4, <2>1, <3>2 DEF Grows
  <2>3. ReachedBy(g, s, f)
    BY <2>1, <2>2 DEF ReachedBy, N, U
  <2>4. QED
    BY <2>3
<1>7. ReachedBy(reach, s, f)
  BY <1>6
<1> HIDE DEF reach
<1>8. \A n \in 0..N : reach[n] = IF n = 0 THEN {f}
                                 ELSE reach[n - 1] \cup UNION {Topology(s, h) : h \in reach[n - 1]}
  BY <1>7, Zenon DEF ReachedBy, N, U
<1>9. Waves(reach, U, {f}, next, N)
  <2>1. 0 \in 0..N
    BY <1>2
  <2>2. \A n \in 1..N : n \in 0..N /\ n # 0
    BY <1>2
  <2>3. QED
    BY <1>4, <1>8, <2>1, <2>2 DEF Waves
<1>10. PICK C : C = reach[N]
  OBVIOUS
<1>11. N <= N
  BY <1>2
<1>12. /\ C \in SUBSET U /\ {f} \subseteq C /\ next[C] = C
       /\ \A Y \in SUBSET U : {f} \subseteq Y /\ next[Y] \subseteq Y => C \subseteq Y
  <2>1. Cardinality(U) <= N
    BY <1>11 DEF N
  <2>2. QED
    <3>1. /\ reach[N] \in SUBSET U /\ {f} \subseteq reach[N] /\ next[reach[N]] = reach[N]
          /\ \A Y \in SUBSET U : {f} \subseteq Y /\ next[Y] \subseteq Y => reach[N] \subseteq Y
      BY <1>2, <1>5, <1>9, <2>1, ClosureIsLeast, Zenon
    <3>2. QED
      BY <1>10, <3>1, Zenon
<1>13. \A h \in C : Topology(s, h) \subseteq C
  BY <1>4, <1>12
<1>14. ASSUME NEW Y \in SUBSET U, f \in Y, \A h \in Y : Topology(s, h) \subseteq Y
       PROVE  C \subseteq Y
  <2>1. next[Y] \subseteq Y
    BY <1>4, <1>14
  <2>2. QED
    BY <1>12, <1>14, <2>1
<1>15. QED
  BY <1>1, <1>10, <1>12, <1>13, <1>14 DEF U

AffectedBy(g, s, changed) ==
  g = [n \in 0 .. Cardinality(Members(s)) |->
         IF n = 0 THEN changed
         ELSE LET before == g[n - 1] IN
              before \cup {d \in Members(s) : Topology(s, d) \cap before # {}}]

\* Affected is the least set that holds the changed files and what includes
\* one of its files.
LEMMA AffectedIsLeast ==
  ASSUME NEW s, SavedFiles(s), NEW changed \in SUBSET Members(s)
  PROVE  /\ Affected(s, changed) \subseteq Members(s) /\ changed \subseteq Affected(s, changed)
         /\ \A d \in Members(s) : Topology(s, d) \cap Affected(s, changed) # {}
                                     => d \in Affected(s, changed)
         /\ \A Y \in SUBSET Members(s) :
               changed \subseteq Y /\ (\A d \in Members(s) : Topology(s, d) \cap Y # {} => d \in Y)
                  => Affected(s, changed) \subseteq Y
<1> DEFINE U == Members(s)
           N == Cardinality(U)
           next == [X \in SUBSET U |-> X \cup {d \in U : Topology(s, d) \cap X # {}}]
           wave == CHOOSE g : AffectedBy(g, s, changed)
<1>1. Affected(s, changed) = wave[N]
  BY Zenon DEF Affected, AffectedBy
<1>2. IsFiniteSet(U) /\ N \in Nat /\ changed \in SUBSET U
  BY SavedFinite
<1>3. \A X \in SUBSET U : next[X] = X \cup {d \in U : Topology(s, d) \cap X # {}}
  OBVIOUS
<1>4. Growing(U, next)
  BY DEF Growing
<1> HIDE DEF U, N, next
<1>5. \E g : AffectedBy(g, s, changed)
  <2>1. PICK g \in [0..N -> SUBSET U] : Grows(g, changed, next, N)
    BY <1>2, <1>4, WavesExist, Zenon
  <2>2. ASSUME NEW n \in 0..N
        PROVE  g[n] = IF n = 0 THEN changed
                      ELSE g[n - 1] \cup {d \in U : Topology(s, d) \cap g[n - 1] # {}}
    <3>1. n # 0 => n - 1 \in 0..N
      BY <1>2
    <3>2. n # 0 => g[n - 1] \in SUBSET U
      BY <3>1
    <3>3. QED
      BY <1>3, <2>1, <3>2 DEF Grows
  <2>3. AffectedBy(g, s, changed)
    BY <2>1, <2>2 DEF AffectedBy, N, U
  <2>4. QED
    BY <2>3
<1>6. AffectedBy(wave, s, changed)
  BY <1>5
<1> HIDE DEF wave
<1>7. \A n \in 0..N : wave[n] = IF n = 0 THEN changed
                                ELSE wave[n - 1] \cup {d \in U : Topology(s, d) \cap wave[n - 1] # {}}
  BY <1>6, Zenon DEF AffectedBy, N, U
<1>8. Waves(wave, U, changed, next, N)
  <2>1. 0 \in 0..N
    BY <1>2
  <2>2. \A n \in 1..N : n \in 0..N /\ n # 0
    BY <1>2
  <2>3. QED
    BY <1>3, <1>7, <2>1, <2>2 DEF Waves
<1>9. PICK C : C = wave[N]
  OBVIOUS
<1>10. /\ C \in SUBSET U /\ changed \subseteq C /\ next[C] = C
       /\ \A Y \in SUBSET U : changed \subseteq Y /\ next[Y] \subseteq Y => C \subseteq Y
  <2>1. Cardinality(U) <= N
    BY <1>2 DEF N
  <2>2. QED
    <3>1. /\ wave[N] \in SUBSET U /\ changed \subseteq wave[N] /\ next[wave[N]] = wave[N]
          /\ \A Y \in SUBSET U : changed \subseteq Y /\ next[Y] \subseteq Y => wave[N] \subseteq Y
      BY <1>2, <1>4, <1>8, <2>1, ClosureIsLeast, Zenon
    <3>2. QED
      BY <1>9, <3>1, Zenon
<1>11. \A d \in U : Topology(s, d) \cap C # {} => d \in C
  BY <1>3, <1>10
<1>12. ASSUME NEW Y \in SUBSET U, changed \subseteq Y,
              \A d \in U : Topology(s, d) \cap Y # {} => d \in Y
       PROVE  C \subseteq Y
  <2>1. next[Y] \subseteq Y
    BY <1>3, <1>12
  <2>2. QED
    BY <1>10, <1>12, <2>1
<1>13. QED
  BY <1>1, <1>9, <1>10, <1>11, <1>12 DEF U

ClosedBy(g, s, initial) ==
  g = [n \in 0 .. Cardinality(Members(s)) |->
         IF n = 0 THEN initial
         ELSE LET before == g[n - 1] IN before \cup UNION {SemanticDependents(s, r) : r \in before}]

\* The dependency closure is the least set of roots that holds the initial
\* ones and every root that uses what one of its roots contributed.
LEMMA DependencyClosureIsLeast ==
  ASSUME NEW s, SavedFiles(s), NEW initial \in SUBSET CommittedRoots(s)
  PROVE  /\ DependencyClosure(s, initial) \subseteq CommittedRoots(s)
         /\ initial \subseteq DependencyClosure(s, initial)
         /\ \A r \in DependencyClosure(s, initial) :
               SemanticDependents(s, r) \subseteq DependencyClosure(s, initial)
         /\ \A Y \in SUBSET CommittedRoots(s) :
               initial \subseteq Y /\ (\A r \in Y : SemanticDependents(s, r) \subseteq Y)
                  => DependencyClosure(s, initial) \subseteq Y
<1> DEFINE U == CommittedRoots(s)
           N == Cardinality(Members(s))
           next == [X \in SUBSET U |-> X \cup UNION {SemanticDependents(s, r) : r \in X}]
           wave == CHOOSE g : ClosedBy(g, s, initial)
<1>1. DependencyClosure(s, initial) = wave[N]
  BY Zenon DEF DependencyClosure, ClosedBy
<1>2. IsFiniteSet(U) /\ N \in Nat /\ Cardinality(U) <= N /\ initial \in SUBSET U
  BY SavedFinite
<1>3. \A r : SemanticDependents(s, r) \subseteq U
  BY DEF SemanticDependents
<1>4. \A X \in SUBSET U : next[X] = X \cup UNION {SemanticDependents(s, r) : r \in X}
  OBVIOUS
<1>5. Growing(U, next)
  BY <1>3 DEF Growing
<1> HIDE DEF U, N, next
<1>6. \E g : ClosedBy(g, s, initial)
  <2>1. PICK g \in [0..N -> SUBSET U] : Grows(g, initial, next, N)
    BY <1>2, <1>5, WavesExist, Zenon
  <2>2. ASSUME NEW n \in 0..N
        PROVE  g[n] = IF n = 0 THEN initial
                      ELSE g[n - 1] \cup UNION {SemanticDependents(s, r) : r \in g[n - 1]}
    <3>1. n # 0 => n - 1 \in 0..N
      BY <1>2
    <3>2. n # 0 => g[n - 1] \in SUBSET U
      BY <3>1
    <3>3. QED
      BY <1>4, <2>1, <3>2 DEF Grows
  <2>3. ClosedBy(g, s, initial)
    BY <2>1, <2>2 DEF ClosedBy, N
  <2>4. QED
    BY <2>3
<1>7. ClosedBy(wave, s, initial)
  BY <1>6
<1> HIDE DEF wave
<1>8. \A n \in 0..N : wave[n] = IF n = 0 THEN initial
                                ELSE wave[n - 1] \cup UNION {SemanticDependents(s, r) : r \in wave[n - 1]}
  BY <1>7, Zenon DEF ClosedBy, N
<1>9. Waves(wave, U, initial, next, N)
  <2>1. 0 \in 0..N
    BY <1>2
  <2>2. \A n \in 1..N : n \in 0..N /\ n # 0
    BY <1>2
  <2>3. QED
    BY <1>4, <1>8, <2>1, <2>2 DEF Waves
<1>10. PICK C : C = wave[N]
  OBVIOUS
<1>11. /\ C \in SUBSET U /\ initial \subseteq C /\ next[C] = C
       /\ \A Y \in SUBSET U : initial \subseteq Y /\ next[Y] \subseteq Y => C \subseteq Y
  <2>1. /\ wave[N] \in SUBSET U /\ initial \subseteq wave[N] /\ next[wave[N]] = wave[N]
        /\ \A Y \in SUBSET U : initial \subseteq Y /\ next[Y] \subseteq Y => wave[N] \subseteq Y
    BY <1>2, <1>5, <1>9, ClosureIsLeast, Zenon
  <2>2. QED
    BY <1>10, <2>1, Zenon
<1>12. \A r \in C : SemanticDependents(s, r) \subseteq C
  BY <1>4, <1>11
<1>13. ASSUME NEW Y \in SUBSET U, initial \subseteq Y, \A r \in Y : SemanticDependents(s, r) \subseteq Y
       PROVE  C \subseteq Y
  <2>1. next[Y] \subseteq Y
    BY <1>4, <1>13
  <2>2. QED
    BY <1>11, <1>13, <2>1
<1>14. QED
  BY <1>1, <1>10, <1>11, <1>12, <1>13 DEF U

\* The dependents of a set of files are the files that reach one of them.
LEMMA AffectedIsReaching ==
  ASSUME NEW s, SavedFiles(s), NEW changed \in SUBSET Members(s), NEW d \in Members(s)
  PROVE  d \in Affected(s, changed) <=> Reached(s, d) \cap changed # {}
<1> DEFINE R == {e \in Members(s) : Reached(s, e) \cap changed # {}}
           A == Affected(s, changed)
<1>1. /\ A \subseteq Members(s) /\ changed \subseteq A
      /\ \A e \in Members(s) : Topology(s, e) \cap A # {} => e \in A
      /\ \A Y \in SUBSET Members(s) :
            changed \subseteq Y /\ (\A e \in Members(s) : Topology(s, e) \cap Y # {} => e \in Y)
               => A \subseteq Y
  BY AffectedIsLeast, Zenon
<1>2. ASSUME NEW e \in Members(s)
      PROVE  /\ Reached(s, e) \subseteq Members(s) /\ e \in Reached(s, e)
             /\ \A h \in Reached(s, e) : Topology(s, h) \subseteq Reached(s, e)
             /\ \A Y \in SUBSET Members(s) :
                   e \in Y /\ (\A h \in Y : Topology(s, h) \subseteq Y) => Reached(s, e) \subseteq Y
  BY ReachedIsLeast, Zenon
<1> HIDE DEF A
<1>3. changed \subseteq R
  BY <1>2
<1>4. ASSUME NEW e \in Members(s), Topology(s, e) \cap R # {} PROVE e \in R
  <2>1. PICK h \in R : h \in Topology(s, e)
    BY <1>4
  <2>2. h \in Reached(s, e)
    BY <1>2, <2>1
  <2>3. Reached(s, e) \in SUBSET Members(s) /\ \A k \in Reached(s, e) : Topology(s, k) \subseteq Reached(s, e)
    BY <1>2
  <2>4. Reached(s, h) \subseteq Reached(s, e)
    BY <1>2, <2>1, <2>2, <2>3
  <2>5. QED
    BY <2>1, <2>4
<1>5. A \subseteq R
  <2>1. R \in SUBSET Members(s)
    OBVIOUS
  <2> HIDE DEF R
  <2>2. QED
    BY <1>1, <1>3, <1>4, <2>1
<1>6. ASSUME d \notin A PROVE Reached(s, d) \cap changed = {}
  <2> DEFINE Y == Members(s) \ A
  <2>1. \A h \in Y : Topology(s, h) \subseteq Y
    BY <1>1 DEF SavedFiles
  <2>2. d \in Y /\ Y \in SUBSET Members(s)
    BY <1>6
  <2>3. Y \cap changed = {}
    BY <1>1
  <2> HIDE DEF Y
  <2>4. Reached(s, d) \subseteq Y
    BY <1>2, <2>1, <2>2
  <2>5. QED
    BY <2>3, <2>4
<1>7. d \in A <=> Reached(s, d) \cap changed # {}
  BY <1>5, <1>6
<1>8. QED
  BY <1>7 DEF A

LEMMA AffectedRoots ==
  ASSUME NEW s, SavedFiles(s), NEW changed \in SUBSET Members(s)
  PROVE  SemanticRoots(s, Affected(s, changed))
            = {r \in CommittedRoots(s) : Reached(s, r) \cap changed # {}}
<1>1. PICK A : A = Affected(s, changed)
  OBVIOUS
<1>2. \A d \in Members(s) : d \in A <=> Reached(s, d) \cap changed # {}
  BY <1>1, AffectedIsReaching, Zenon
<1>3. A \subseteq Members(s)
  BY <1>1, AffectedIsLeast, Zenon
<1>4. CommittedRoots(s) \subseteq Members(s)
  BY SavedFinite
<1>5. SemanticRoots(s, A) = A \cap CommittedRoots(s)
  <2>1. \A f : f \in CommittedRoots(s)
               <=> f \in LexicalInputs /\ \E p \in Members(s) \cap ProjectInputs : f \in Topology(s, p)
    <3> DEFINE M == Members(s) \cap ProjectInputs
               V == UNION {Topology(s, p) : p \in M}
    <3>1. CommittedRoots(s) = LexicalInputs \cap V
      BY Zenon DEF CommittedRoots
    <3>2. \A f : f \in V <=> \E p \in M : f \in Topology(s, p)
      <4> HIDE DEF M
      <4>1. QED
        OBVIOUS
    <3> HIDE DEF V, M
    <3>3. \A f : f \in CommittedRoots(s) <=> f \in LexicalInputs /\ \E p \in M : f \in Topology(s, p)
      BY <3>1, <3>2
    <3>4. QED
      BY <3>3, Zenon DEF M
  <2>2. \A f : f \in SemanticRoots(s, A)
               <=> /\ f \in A /\ f \in LexicalInputs
                   /\ \E p \in Members(s) \cap ProjectInputs : f \in Topology(s, p)
    BY Zenon DEF SemanticRoots
  <2>3. QED
    BY <2>1, <2>2, Zenon
<1>6. QED
  BY <1>1, <1>2, <1>3, <1>4, <1>5

\* What must be treated, from the texts alone, is what the closure reaches.
LEMMA StaleIsClosure ==
  ASSUME NEW s, SavedFiles(s), NEW w
  PROVE  StaleRoots(s, w) = DependencyClosure(s, Outdated(s, w))
<1> DEFINE R == CommittedRoots(s)
<1>1. PICK O : O = Outdated(s, w)
  OBVIOUS
<1> DEFINE C == DependencyClosure(s, O)
<1>2. O \in SUBSET R
  BY <1>1 DEF Outdated
<1>3. /\ C \subseteq R /\ O \subseteq C
      /\ \A r \in C : SemanticDependents(s, r) \subseteq C
      /\ \A Y \in SUBSET R : O \subseteq Y /\ (\A r \in Y : SemanticDependents(s, r) \subseteq Y)
                                => C \subseteq Y
  BY <1>2, DependencyClosureIsLeast, Zenon
<1>4. \A X \in SUBSET R : (\A r \in X : SemanticDependents(s, r) \subseteq X)
         <=> (\A a \in X, b \in R :
                 Contributions(s, a) \cap SemanticDependencies(s, b) # {} => b \in X)
  BY DEF SemanticDependents
<1>5. StaleRoots(s, w) =
        {r \in R : \A X \in SUBSET R :
            /\ O \subseteq X
            /\ \A a \in X, b \in R :
                  Contributions(s, a) \cap SemanticDependencies(s, b) # {} => b \in X
            => r \in X}
  BY <1>1, Zenon DEF StaleRoots
<1> HIDE DEF C, R
<1>6. StaleRoots(s, w) \subseteq C
  <2>1. C \in SUBSET R
    BY <1>3
  <2>2. \A a \in C, b \in R : Contributions(s, a) \cap SemanticDependencies(s, b) # {} => b \in C
    BY <1>3, <1>4, <2>1
  <2>3. ASSUME NEW r \in StaleRoots(s, w) PROVE r \in C
    BY <1>3, <1>5, <2>1, <2>2, <2>3, Zenon
  <2>4. QED
    BY <2>3
<1>7. C \subseteq StaleRoots(s, w)
  <2>1. ASSUME NEW r \in C PROVE r \in StaleRoots(s, w)
    <3>1. r \in R
      BY <1>3, <2>1
    <3>2. ASSUME NEW X \in SUBSET R, O \subseteq X,
                 \A a \in X, b \in R :
                    Contributions(s, a) \cap SemanticDependencies(s, b) # {} => b \in X
          PROVE  r \in X
      <4>1. \A e \in X : SemanticDependents(s, e) \subseteq X
        BY <1>4, <3>2
      <4>2. C \subseteq X
        BY <1>3, <3>2, <4>1
      <4>3. QED
        BY <2>1, <4>2
    <3>3. QED
      BY <1>5, <3>1, <3>2, Zenon
  <2>2. QED
    BY <2>1
<1>8. StaleRoots(s, w) = C
  BY <1>6, <1>7
<1>9. QED
  BY <1>1, <1>8 DEF C

\* What the composer left of a configuration: new roots and texts only with
\* a new identity.
Composed(s, w) ==
  /\ w.identity \in BOOLEAN /\ w.newTexts \in BOOLEAN
  /\ w.identity => w.oldRoots = CommittedRoots(s)
  /\ ~w.identity => w.oldRoots = {} /\ ~w.newTexts

\* The plan over the edited files treats the stale roots and no other.
LEMMA PlanTreatsStale ==
  ASSUME NEW s, SavedFiles(s), NEW w, Composed(s, w), NEW affected, NEW closure,
         affected = SemanticRoots(s, Affected(s, Edited(s))),
         closure = DependencyClosure(s, InvalidatedRoots(w, affected))
  PROVE  /\ closure = StaleRoots(s, w)
         /\ ReplayRoots(w, affected) \cup (IF w.identity THEN closure \cap w.roots ELSE closure)
              = LET declared == IF w.identity THEN w.roots ELSE CommittedRoots(s)
                IN  (StaleRoots(s, w) \cap declared) \cup (declared \ CommittedRoots(s))
<1> DEFINE R == CommittedRoots(s)
<1>1. PICK edited : edited = Edited(s)
  OBVIOUS
<1>2. affected = {r \in R : Reached(s, r) \cap Edited(s) # {}}
  <2>1. edited \in SUBSET Members(s)
    BY <1>1 DEF Edited
  <2>2. SemanticRoots(s, Affected(s, edited)) = {r \in R : Reached(s, r) \cap edited # {}}
    BY <2>1, AffectedRoots
  <2>3. QED
    BY <1>1, <2>2
<1>3. InvalidatedRoots(w, affected) = Outdated(s, w)
  <2>1. CASE w.identity
    <3>1. w.oldRoots = R
      BY <2>1 DEF Composed
    <3>2. Outdated(s, w) = {r \in R : r \in affected \/ r \notin w.roots \/ w.newTexts}
      BY <1>2, <2>1 DEF Outdated
    <3>3. affected \subseteq R
      BY <1>2
    <3>4. QED
      BY <3>1, <3>2, <3>3 DEF InvalidatedRoots
  <2>2. CASE ~w.identity
    <3>1. w.oldRoots = {} /\ ~w.newTexts
      BY <2>2 DEF Composed
    <3>2. Outdated(s, w) = affected
      BY <1>2, <2>2 DEF Outdated
    <3>3. QED
      BY <3>1, <3>2 DEF InvalidatedRoots
  <2>3. QED
    BY <2>1, <2>2
<1>4. closure = StaleRoots(s, w)
  BY <1>3, StaleIsClosure
<1>5. Outdated(s, w) \in SUBSET R
  BY DEF Outdated
<1>6. closure \subseteq R /\ Outdated(s, w) \subseteq closure
  BY <1>3, <1>5, DependencyClosureIsLeast, Zenon
<1>7. affected \subseteq Outdated(s, w)
  BY <1>2 DEF Outdated
<1>8. CASE w.identity
  <2>1. w.oldRoots = R
    BY <1>8 DEF Composed
  <2>2. w.newTexts => R \subseteq closure
    BY <1>6, <1>8 DEF Outdated
  <2>3. ReplayRoots(w, affected) \cup (closure \cap w.roots) = (closure \cap w.roots) \cup (w.roots \ R)
    BY <1>6, <1>7, <1>8, <2>1, <2>2 DEF ReplayRoots
  <2>4. QED
    BY <1>4, <1>8, <2>3
<1>9. CASE ~w.identity
  <2>1. ReplayRoots(w, affected) \cup closure = (closure \cap R) \cup (R \ R)
    BY <1>6, <1>7, <1>9 DEF ReplayRoots
  <2>2. QED
    BY <1>4, <1>9, <2>1
<1>10. QED
  BY <1>8, <1>9

-----------------------------------------------------------------------------
(***************************************************************************)
(* The candidates and the lanes of the classifier                          *)
(***************************************************************************)

LEMMA FlattenAscending ==
  ASSUME NEW seqs \in Seq(Seq(Nat)), \A n \in DOMAIN seqs : Ascending(seqs[n]),
         \A m, n \in DOMAIN seqs : m < n =>
            \A x \in Range(seqs[m]), y \in Range(seqs[n]) : x < y
  PROVE  Ascending(FlattenSeq(seqs))
<1> DEFINE N == Len(seqs)
           flat == FlattenSeq(seqs)
<1>1. PICK off : Offsets(off, seqs)
  BY OffsetsExist
<1>2. N \in Nat /\ off \in [0..N -> Nat] /\ DOMAIN seqs = 1..N
  BY <1>1 DEF Offsets
<1>3. /\ flat \in Seq(Nat) /\ Len(flat) = off[N]
      /\ \A n \in 1..N : \A i \in 1..Len(seqs[n]) : flat[off[n - 1] + i] = seqs[n][i]
  BY <1>1, FlattenLaysOut
<1>4. ASSUME NEW n \in 1..N
      PROVE  seqs[n] \in Seq(Nat) /\ Len(seqs[n]) \in Nat /\ DOMAIN seqs[n] = 1..Len(seqs[n])
  <2>1. seqs[n] \in Seq(Nat)
    OBVIOUS
  <2>2. QED
    BY <2>1
<1>5. \A p \in 1..off[N] : \E n \in 1..N : \E i \in 1..Len(seqs[n]) : p = off[n - 1] + i
  <2>1. PICK S : S = Nat
    OBVIOUS
  <2>2. seqs \in Seq(Seq(S))
    BY <2>1
  <2>3. QED
    BY <1>1, <2>2, OffsetsCover, SMTT(30)
<1> HIDE DEF flat
<1>6. ASSUME NEW p \in 1..off[N], NEW q \in 1..off[N], p < q PROVE flat[p] < flat[q]
  <2>1. PICK m \in 1..N : \E i \in 1..Len(seqs[m]) : p = off[m - 1] + i
    BY <1>5
  <2>2. PICK n \in 1..N : \E j \in 1..Len(seqs[n]) : q = off[n - 1] + j
    BY <1>5
  <2>3. PICK i \in 1..Len(seqs[m]) : p = off[m - 1] + i
    BY <2>1
  <2>4. PICK j \in 1..Len(seqs[n]) : q = off[n - 1] + j
    BY <2>2
  <2>5. flat[p] = seqs[m][i] /\ flat[q] = seqs[n][j]
    BY <1>3, <2>3, <2>4
  <2>6. seqs[m][i] \in Range(seqs[m]) /\ seqs[n][j] \in Range(seqs[n])
    BY <1>4 DEF Range
  <2>7. CASE m < n
    BY <1>2, <2>5, <2>6, <2>7
  <2>8. CASE m = n
    <3>1. m - 1 \in 0..N
      BY <1>2
    <3>2. off[m - 1] \in Nat
      BY <1>2, <3>1
    <3>3. i \in Int /\ j \in Int
      OBVIOUS
    <3>4. i < j
      BY <1>6, <2>3, <2>4, <2>8, <3>2, <3>3
    <3>5. Ascending(seqs[m])
      BY <1>2
    <3>6. QED
      BY <2>5, <2>8, <3>4, <3>5 DEF Ascending
  <2>9. CASE n < m
    <3>1. n \in 0..N /\ m - 1 \in 0..N /\ n - 1 \in 0..N /\ n <= m - 1
      BY <1>2, <2>9
    <3>2. off[n] <= off[m - 1]
      BY <1>1, <3>1, OffsetsGrow
    <3>3. off[n] = off[n - 1] + Len(seqs[n])
      BY <1>1 DEF Offsets
    <3>4. off[n] \in Nat /\ off[m - 1] \in Nat /\ off[n - 1] \in Nat /\ Len(seqs[n]) \in Nat
      BY <1>2, <1>4, <3>1
    <3>5. i \in Nat /\ j \in Nat /\ 1 <= i /\ j <= Len(seqs[n])
      BY <1>4
    <3>6. PICK a, b, c, l : a = off[n] /\ b = off[m - 1] /\ c = off[n - 1] /\ l = Len(seqs[n])
      OBVIOUS
    <3>7. p = b + i /\ q = c + j /\ a <= b /\ a = c + l
      BY <2>3, <2>4, <3>2, <3>3, <3>6
    <3>8. a \in Nat /\ b \in Nat /\ c \in Nat /\ l \in Nat /\ j <= l
      BY <3>4, <3>5, <3>6
    <3>9. ~(p < q)
      BY <3>5, <3>7, <3>8
    <3>10. QED
      BY <1>6, <3>9
  <2>10. QED
    BY <2>7, <2>8, <2>9
<1>7. QED
  BY <1>3, <1>6 DEF Ascending, flat

LEMMA PickedAscending ==
  ASSUME NEW s \in Seq(Nat), NEW keep,
         \A i, j \in DOMAIN s : i \in keep /\ j \in keep /\ i < j => s[i] < s[j]
  PROVE  Ascending(Picked(s, keep))
<1> DEFINE parts == [i \in DOMAIN s |-> IF i \in keep THEN <<s[i]>> ELSE <<>>]
<1>1. /\ parts \in Seq(Seq(Nat)) /\ DOMAIN parts = DOMAIN s
      /\ \A i \in DOMAIN s : i \in keep => Range(parts[i]) = {s[i]}
      /\ \A i \in DOMAIN s : i \notin keep => Range(parts[i]) = {}
      /\ \A i \in DOMAIN s : IsInjective(parts[i])
  BY PickedParts, SMTT(20)
<1>2. Picked(s, keep) = FlattenSeq(parts)
  BY DEF Picked
<1> HIDE DEF parts
<1>3. ASSUME NEW n \in DOMAIN parts PROVE Ascending(parts[n])
  <2>1. PICK t : t = parts[n]
    OBVIOUS
  <2>2. t \in Seq(Nat)
    BY <1>1, <2>1
  <2>3. \A x, y \in Range(t) : x = y
    <3>1. n \in DOMAIN s
      BY <1>1
    <3>2. Range(t) = {s[n]} \/ Range(t) = {}
      BY <1>1, <2>1, <3>1, Zenon
    <3>3. QED
      BY <3>2
  <2>4. IsInjective(t)
    BY <1>1, <2>1
  <2>5. \A i, j \in DOMAIN t : i = j
    <3>1. ASSUME NEW i \in DOMAIN t, NEW j \in DOMAIN t PROVE i = j
      <4>1. t[i] \in Range(t) /\ t[j] \in Range(t)
        BY DEF Range
      <4>2. t[i] = t[j]
        BY <2>3, <4>1
      <4>3. QED
        BY <2>4, <4>2 DEF IsInjective
    <3>2. QED
      BY <3>1
  <2>6. DOMAIN t = 1..Len(t) /\ Len(t) \in Nat
    BY <2>2
  <2>7. \A i, j \in 1..Len(t) : ~(i < j)
    BY <2>5, <2>6
  <2>8. QED
    BY <2>1, <2>2, <2>7 DEF Ascending
<1>4. ASSUME NEW m \in DOMAIN parts, NEW n \in DOMAIN parts, m < n,
             NEW x \in Range(parts[m]), NEW y \in Range(parts[n])
      PROVE  x < y
  <2>1. m \in DOMAIN s /\ n \in DOMAIN s
    BY <1>1
  <2>2. Range(parts[m]) # {} /\ Range(parts[n]) # {}
    OBVIOUS
  <2>3. m \in keep /\ n \in keep
    BY <1>1, <2>1, <2>2, Zenon
  <2>4. Range(parts[m]) = {s[m]} /\ Range(parts[n]) = {s[n]}
    BY <1>1, <2>1, <2>3, Zenon
  <2>5. x = s[m] /\ y = s[n]
    BY <2>4
  <2>6. s[m] < s[n]
    BY <1>4, <2>1, <2>3
  <2>7. QED
    BY <2>5, <2>6
<1>5. QED
  BY <1>1, <1>2, <1>3, <1>4, FlattenAscending

\* The candidates are the files of the set, in file order.
LEMMA InFileOrderLists ==
  ASSUME NEW S
  PROVE  Ascending(InFileOrder(S)) /\ Range(InFileOrder(S)) = S \cap Inputs
<1> DEFINE all == [f \in Inputs |-> f]
<1>1. Len(InputKinds) \in Nat /\ Inputs = 1..Len(InputKinds)
  BY InputsFinite
<1>2. DOMAIN all = Inputs /\ \A f \in Inputs : all[f] = f
  OBVIOUS
<1>3. all \in Seq(Nat)
  <2>1. all \in [1..Len(InputKinds) -> Nat]
    BY <1>1
  <2>2. QED
    BY <1>1, <2>1, TableIsSeq
<1>4. InFileOrder(S) = Picked(all, S)
  BY <1>2, Zenon DEF InFileOrder, Picked
<1> HIDE DEF all
<1>5. Ascending(Picked(all, S))
  BY <1>1, <1>2, <1>3, PickedAscending
<1>6. \A x : x \in Range(Picked(all, S)) <=> \E i \in DOMAIN all : i \in S /\ x = all[i]
  BY <1>3, PickedElements
<1>7. QED
  BY <1>2, <1>4, <1>5, <1>6

LaneBegin(n, lanes, k) ==
  (k - 1) * (n \div lanes) + (IF k - 1 < n % lanes THEN k - 1 ELSE n % lanes)

LEMMA LaneShareIs ==
  ASSUME NEW n, NEW lanes, NEW lane
  PROVE  LaneShare(n, lanes, lane) = (LaneBegin(n, lanes, lane) + 1) .. LaneBegin(n, lanes, lane + 1)
BY DEF LaneShare, LaneBegin

LEMMA Product == ASSUME NEW a \in Nat, NEW b \in Nat PROVE a * b \in Nat
OBVIOUS

LEMMA ProductGrows ==
  ASSUME NEW a \in Nat, NEW b \in Nat, NEW c \in Nat, a <= b PROVE a * c <= b * c
OBVIOUS

LEMMA LaneBegins ==
  ASSUME NEW n \in Nat, NEW lanes \in Nat \ {0}
  PROVE  /\ LaneBegin(n, lanes, 1) = 0 /\ LaneBegin(n, lanes, lanes + 1) = n
         /\ \A k \in 1..(lanes + 1) : LaneBegin(n, lanes, k) \in Nat
         /\ \A j, k \in 1..(lanes + 1) : j <= k => LaneBegin(n, lanes, j) <= LaneBegin(n, lanes, k)
<1>1. PICK base, extra : base = n \div lanes /\ extra = n % lanes
  OBVIOUS
<1>2. base \in Nat /\ extra \in Nat /\ extra < lanes
  BY <1>1
<1>3. n = lanes * base + extra
  BY <1>1
<1>4. \A k \in 1..(lanes + 1) : /\ k - 1 \in Nat /\ k - 1 <= lanes
  OBVIOUS
<1>5. \A k \in 1..(lanes + 1) :
         LaneBegin(n, lanes, k) = (k - 1) * base + (IF k - 1 < extra THEN k - 1 ELSE extra)
  BY <1>1 DEF LaneBegin
<1>6. \A k \in 1..(lanes + 1) : LaneBegin(n, lanes, k) \in Nat
  BY <1>2, <1>4, <1>5, Product
<1>7. ASSUME NEW j \in 1..(lanes + 1), NEW k \in 1..(lanes + 1), j <= k
      PROVE  LaneBegin(n, lanes, j) <= LaneBegin(n, lanes, k)
  <2>1. (j - 1) * base <= (k - 1) * base
    <3>1. j - 1 \in Nat /\ k - 1 \in Nat /\ j - 1 <= k - 1
      BY <1>7
    <3>2. QED
      BY <1>2, <3>1, ProductGrows
  <2>2. (j - 1) * base \in Nat /\ (k - 1) * base \in Nat
    BY <1>2, <1>4, Product
  <2>3. (IF j - 1 < extra THEN j - 1 ELSE extra) <= (IF k - 1 < extra THEN k - 1 ELSE extra)
    BY <1>2, <1>7
  <2>4. QED
    BY <1>2, <1>5, <2>1, <2>2, <2>3
<1>8. LaneBegin(n, lanes, 1) = 0
  BY <1>2, <1>5
<1>9. LaneBegin(n, lanes, lanes + 1) = n
  <2>1. lanes + 1 \in 1..(lanes + 1) /\ (lanes + 1) - 1 = lanes /\ ~(lanes < extra)
    BY <1>2
  <2>2. QED
    BY <1>3, <1>5, <2>1
<1>10. QED
  BY <1>6, <1>7, <1>8, <1>9

\* The shares of the lanes are in order and cover the candidates.
LEMMA SharesCover ==
  ASSUME NEW n \in Nat, NEW lanes \in Nat \ {0}
  PROVE  /\ \A lane \in 1..lanes : LaneShare(n, lanes, lane) \subseteq 1..n
         /\ \A p \in 1..n : \E lane \in 1..lanes : p \in LaneShare(n, lanes, lane)
         /\ \A k, lane \in 1..lanes : k < lane =>
               \A p \in LaneShare(n, lanes, k), q \in LaneShare(n, lanes, lane) : p < q
<1> DEFINE B(k) == LaneBegin(n, lanes, k)
<1>1. /\ B(1) = 0 /\ B(lanes + 1) = n
      /\ \A k \in 1..(lanes + 1) : B(k) \in Nat
      /\ \A j, k \in 1..(lanes + 1) : j <= k => B(j) <= B(k)
  BY LaneBegins
<1>2. \A lane : LaneShare(n, lanes, lane) = (B(lane) + 1) .. B(lane + 1)
  BY LaneShareIs
<1> HIDE DEF B
<1>3. \A lane \in 1..lanes : /\ lane \in 1..(lanes + 1) /\ lane + 1 \in 1..(lanes + 1)
                             /\ lane + 1 <= lanes + 1
  OBVIOUS
<1>4. ASSUME NEW lane \in 1..lanes PROVE LaneShare(n, lanes, lane) \subseteq 1..n
  <2>1. lanes + 1 \in 1..(lanes + 1)
    OBVIOUS
  <2>2. B(lane) \in Nat /\ B(lane + 1) \in Nat /\ B(lane + 1) <= n
    BY <1>1, <1>3, <2>1
  <2>3. PICK b, c : b = B(lane) /\ c = B(lane + 1)
    OBVIOUS
  <2>4. LaneShare(n, lanes, lane) = (b + 1) .. c /\ b \in Nat /\ c \in Nat /\ c <= n
    BY <1>2, <2>2, <2>3
  <2>5. (b + 1) .. c \subseteq 1..n
    BY <2>4
  <2>6. QED
    BY <2>4, <2>5
<1>5. ASSUME NEW p \in 1..n PROVE \E lane \in 1..lanes : p \in LaneShare(n, lanes, lane)
  <2> DEFINE T == {k \in 1..(lanes + 1) : p <= B(k)}
  <2>1. lanes + 1 \in T
    BY <1>1
  <2>2. PICK k \in T : \A j \in T : k <= j
    <3>1. T \in SUBSET Nat
      OBVIOUS
    <3> HIDE DEF T
    <3>2. QED
      BY <2>1, <3>1, LeastNat
  <2>3. k # 1
    BY <1>1
  <2>4. k - 1 \in 1..lanes /\ (k - 1) + 1 = k /\ k - 1 \in 1..(lanes + 1)
    BY <2>3
  <2>5. ~(p <= B(k - 1))
    BY <2>2, <2>4
  <2>6. p \in (B(k - 1) + 1) .. B(k)
    BY <1>1, <2>4, <2>5
  <2>7. p \in LaneShare(n, lanes, k - 1)
    BY <1>2, <2>4, <2>6
  <2>8. QED
    BY <2>4, <2>7
<1>6. ASSUME NEW k \in 1..lanes, NEW lane \in 1..lanes, k < lane,
             NEW p \in LaneShare(n, lanes, k), NEW q \in LaneShare(n, lanes, lane)
      PROVE  p < q
  <2>1. p \in (B(k) + 1) .. B(k + 1) /\ q \in (B(lane) + 1) .. B(lane + 1)
    BY <1>2
  <2>2. k + 1 <= lane
    BY <1>6
  <2>3. B(k) \in Nat /\ B(k + 1) \in Nat /\ B(lane) \in Nat /\ B(lane + 1) \in Nat /\ B(k + 1) <= B(lane)
    BY <1>1, <1>3, <2>2
  <2>4. QED
    BY <2>1, <2>3
<1>7. QED
  BY <1>4, <1>5, <1>6

\* A lane finds the candidates of its share that differ, in order.
LEMMA RunLaneLists ==
  ASSUME NEW candidates \in Seq(Nat), NEW share
  PROVE  /\ Ascending(RunLane(candidates, share))
         /\ \A i : i \in Range(RunLane(candidates, share))
                     <=> i \in DOMAIN candidates /\ i \in share /\ Differs(saved, candidates[i])
<1> DEFINE all == [i \in DOMAIN candidates |-> i]
           keep == {i \in DOMAIN candidates : i \in share /\ Differs(saved, candidates[i])}
<1>1. Len(candidates) \in Nat /\ DOMAIN candidates = 1..Len(candidates)
  OBVIOUS
<1>2. DOMAIN all = DOMAIN candidates /\ \A i \in DOMAIN candidates : all[i] = i
  OBVIOUS
<1>3. all \in Seq(Nat)
  <2>1. all \in [1..Len(candidates) -> Nat]
    BY <1>1
  <2>2. QED
    BY <1>1, <2>1, TableIsSeq
<1>4. RunLane(candidates, share) = Picked(all, keep)
  <2>1. \A i \in DOMAIN candidates :
           i \in keep <=> i \in share /\ Differs(saved, candidates[i])
    OBVIOUS
  <2> HIDE DEF keep
  <2>2. [i \in DOMAIN candidates |->
            IF i \in share /\ Differs(saved, candidates[i]) THEN <<i>> ELSE <<>>]
          = [i \in DOMAIN all |-> IF i \in keep THEN <<all[i]>> ELSE <<>>]
    BY <1>2, <2>1, Zenon
  <2>3. QED
    BY <2>2, Zenon DEF RunLane, Picked
<1>5. \A i : i \in keep <=> i \in DOMAIN candidates /\ i \in share /\ Differs(saved, candidates[i])
  OBVIOUS
<1> HIDE DEF all, keep
<1>6. Ascending(Picked(all, keep))
  BY <1>1, <1>2, <1>3, PickedAscending
<1>7. \A x : x \in Range(Picked(all, keep)) <=> \E i \in DOMAIN all : i \in keep /\ x = all[i]
  BY <1>3, PickedElements
<1>8. QED
  BY <1>2, <1>4, <1>5, <1>6, <1>7

\* The lanes together find the candidates that differ, in order.
LEMMA ChangedFilesLists ==
  ASSUME NEW candidates, Ascending(candidates)
  PROVE  /\ Ascending(ChangedFiles(candidates))
         /\ \A f : f \in Range(ChangedFiles(candidates)) <=> f \in Range(candidates) /\ Differs(saved, f)
<1> DEFINE n == Len(candidates)
           lanes == IF n < ClassifierLanes THEN n ELSE ClassifierLanes
           runs == [lane \in 1 .. lanes |-> RunLane(candidates, LaneShare(n, lanes, lane))]
           indices == FlattenSeq(runs)
<1>1. candidates \in Seq(Nat) /\ n \in Nat /\ DOMAIN candidates = 1..n
  BY DEF Ascending
<1>2. lanes \in Nat /\ (lanes = 0 => n = 0)
  BY <1>1, IncrementalBuildConstants
<1>3. ChangedFiles(candidates) = [i \in DOMAIN indices |-> candidates[indices[i]]]
  BY Zenon DEF ChangedFiles
<1> HIDE DEF lanes
<1>4. ASSUME NEW lane \in 1..lanes
      PROVE  /\ runs[lane] = RunLane(candidates, LaneShare(n, lanes, lane))
             /\ Ascending(runs[lane])
             /\ \A i : i \in Range(runs[lane])
                   <=> i \in 1..n /\ i \in LaneShare(n, lanes, lane) /\ Differs(saved, candidates[i])
  <2>1. runs[lane] = RunLane(candidates, LaneShare(n, lanes, lane))
    OBVIOUS
  <2>2. QED
    BY <1>1, <2>1, RunLaneLists
<1>5. DOMAIN runs = 1..lanes
  OBVIOUS
<1>6. runs \in Seq(Seq(Nat))
  <2>1. runs \in [1..lanes -> Seq(Nat)]
    BY <1>4 DEF Ascending
  <2>2. QED
    BY <1>2, <2>1, TableIsSeq
<1>7. \A i \in 1..n : \E lane \in 1..lanes : i \in LaneShare(n, lanes, lane)
  <2>1. CASE lanes = 0
    BY <1>2, <2>1
  <2>2. CASE lanes # 0
    BY <1>1, <1>2, <2>2, SharesCover
  <2>3. QED
    BY <2>1, <2>2
<1>8. \A k, lane \in 1..lanes : k < lane =>
        \A p \in LaneShare(n, lanes, k), q \in LaneShare(n, lanes, lane) : p < q
  <2>1. CASE lanes = 0
    BY <2>1
  <2>2. CASE lanes # 0
    BY <1>1, <1>2, <2>2, SharesCover
  <2>3. QED
    BY <2>1, <2>2
<1> HIDE DEF runs
<1>9. Ascending(indices)
  <2>1. ASSUME NEW k \in DOMAIN runs, NEW lane \in DOMAIN runs, k < lane,
               NEW x \in Range(runs[k]), NEW y \in Range(runs[lane])
        PROVE  x < y
    BY <1>4, <1>5, <1>8, <2>1
  <2>2. QED
    BY <1>4, <1>5, <1>6, <2>1, FlattenAscending
<1>10. \A x : x \in Range(indices) <=> \E lane \in DOMAIN runs : x \in Range(runs[lane])
  BY <1>6, FlattenElements
<1>11. \A i : i \in Range(indices) <=> i \in 1..n /\ Differs(saved, candidates[i])
  BY <1>4, <1>5, <1>7, <1>10
<1> HIDE DEF indices
<1>12. PICK files : files = ChangedFiles(candidates)
  OBVIOUS
<1>13. DOMAIN indices = 1..Len(indices) /\ Len(indices) \in Nat
  BY <1>9 DEF Ascending
<1>14. DOMAIN files = 1..Len(indices) /\ \A i \in 1..Len(indices) : files[i] = candidates[indices[i]]
  BY <1>3, <1>12, <1>13
<1>15. \A i \in 1..Len(indices) : indices[i] \in 1..n
  BY <1>11, <1>13 DEF Range
<1>16. files \in Seq(Nat) /\ Len(files) = Len(indices)
  <2>1. \A i \in 1..Len(indices) : candidates[indices[i]] \in Nat
    BY <1>1, <1>15
  <2>2. files = [i \in 1..Len(indices) |-> candidates[indices[i]]]
    BY <1>3, <1>12, <1>13
  <2>3. files \in [1..Len(indices) -> Nat]
    BY <2>1, <2>2
  <2>4. files \in Seq(Nat)
    BY <1>13, <2>3, TableIsSeq
  <2>5. QED
    BY <1>13, <1>14, <2>4
<1>17. Ascending(files)
  <2>1. ASSUME NEW i \in 1..Len(indices), NEW j \in 1..Len(indices), i < j
        PROVE  files[i] < files[j]
    <3>1. indices[i] < indices[j]
      BY <1>9, <2>1 DEF Ascending
    <3>2. QED
      BY <1>14, <1>15, <3>1 DEF Ascending
  <2>2. QED
    BY <1>16, <2>1 DEF Ascending
<1>18. ASSUME NEW f PROVE f \in Range(files) <=> f \in Range(candidates) /\ Differs(saved, f)
  <2>1. ASSUME f \in Range(files) PROVE f \in Range(candidates) /\ Differs(saved, f)
    <3>1. PICK i \in 1..Len(indices) : f = candidates[indices[i]]
      BY <1>14, <2>1 DEF Range
    <3>2. indices[i] \in Range(indices)
      BY <1>13 DEF Range
    <3>3. QED
      BY <1>1, <1>11, <3>1, <3>2 DEF Range
  <2>2. ASSUME f \in Range(candidates), Differs(saved, f) PROVE f \in Range(files)
    <3>1. PICK i \in 1..n : f = candidates[i]
      BY <1>1, <2>2 DEF Range
    <3>2. i \in Range(indices)
      BY <1>11, <2>2, <3>1
    <3>3. PICK k \in 1..Len(indices) : i = indices[k]
      BY <1>13, <3>2 DEF Range
    <3>4. QED
      BY <1>14, <3>1, <3>3 DEF Range
  <2>3. QED
    BY <2>1, <2>2
<1>19. QED
  BY <1>12, <1>17, <1>18

-----------------------------------------------------------------------------
(***************************************************************************)
(* The journal                                                             *)
(***************************************************************************)

JournalRecords == [ref : Nat, reason : {"data", "topology"}]

VolumeOk(v) ==
  v \in [id : Nat, first : Nat, records : Seq(JournalRecords), dir : Nat, refs : Nat,
         events : Nat, operations : Nat]

FileFields == {"content", "ref", "usn"}

TreeOk(tr) ==
  /\ DOMAIN tr = Inputs
  /\ \A f \in Inputs : tr[f] # NoFile => DOMAIN tr[f] = FileFields /\ tr[f].ref \in Nat

\* The places of the records since the checkpoint.
Since(v, cp) == (cp.next - v.first + 1) .. Len(v.records)

Touched(v, cp, ref) == \E i \in Since(v, cp) : v.records[i].ref = ref

Moved(v, cp, dirs) ==
  \E i \in Since(v, cp) : v.records[i].reason = "topology" /\ v.records[i].ref \in dirs

Intact(tr, f, file) ==
  tr[f] # NoFile /\ tr[f].ref = file.token.ref /\ tr[f].content = file.content

Usable(v, cp) == cp.id = v.id /\ v.first <= cp.next

\* As long as the journal goes back to the checkpoint it tells of every file
\* that is not as it was read, or that its directory was exchanged.
JournalOk(v, tr, cp, dirs, files) ==
  /\ cp.id \in Nat /\ cp.next \in Nat /\ cp.id <= v.id
  /\ cp.id = v.id => cp.next <= NextUsn(v)
  /\ Usable(v, cp) =>
       \/ Moved(v, cp, dirs)
       \/ /\ v.dir \in dirs
          /\ \A f \in DOMAIN files :
                Touched(v, cp, files[f].token.ref) \/ Intact(tr, f, files[f])

LEMMA VolumeFacts ==
  ASSUME NEW v, VolumeOk(v)
  PROVE  /\ v.id \in Nat /\ v.first \in Nat /\ v.dir \in Nat /\ v.refs \in Nat
         /\ v.events \in Nat /\ v.operations \in Nat
         /\ v.records \in Seq(JournalRecords) /\ Len(v.records) \in Nat
         /\ NextUsn(v) \in Nat
         /\ DOMAIN v = {"id", "first", "records", "dir", "refs", "events", "operations"}
<1> DEFINE T == [id : Nat, first : Nat, records : Seq(JournalRecords), dir : Nat, refs : Nat,
                 events : Nat, operations : Nat]
<1>1. /\ v.id \in Nat /\ v.first \in Nat /\ v.dir \in Nat /\ v.refs \in Nat
      /\ v.events \in Nat /\ v.operations \in Nat
      /\ v.records \in Seq(JournalRecords)
      /\ DOMAIN v = {"id", "first", "records", "dir", "refs", "events", "operations"}
  BY DEF VolumeOk
<1>2. Len(v.records) \in Nat
  BY <1>1
<1>3. QED
  BY <1>1, <1>2 DEF NextUsn

Longer(v, w, more) ==
  more \in Seq(JournalRecords) /\ w.first = v.first /\ w.records = v.records \o more

Reaches(v, cp) == cp.next \in Nat /\ v.first <= cp.next /\ cp.next <= NextUsn(v)

KeepsRecords(v, w, more, cp) ==
  /\ \A ref : Touched(v, cp, ref) => Touched(w, cp, ref)
  /\ \A dirs : Moved(v, cp, dirs) => Moved(w, cp, dirs)
  /\ \A k \in DOMAIN more : \E i \in Since(w, cp) : w.records[i] = more[k]

\* What was in the journal stays in it when records are added.
LEMMA LongerJournal ==
  ASSUME NEW v, VolumeOk(v), NEW w, NEW more, Longer(v, w, more), NEW cp, Reaches(v, cp)
  PROVE  KeepsRecords(v, w, more, cp)
<1>1. PICK n, m : n = Len(v.records) /\ m = Len(more)
  OBVIOUS
<1>2. v.records \in Seq(JournalRecords) /\ v.first \in Nat /\ n \in Nat /\ m \in Nat /\ DOMAIN more = 1..m
  BY <1>1, VolumeFacts DEF Longer
<1>3. /\ Len(w.records) = n + m
      /\ \A i \in 1..n : w.records[i] = v.records[i]
      /\ \A k \in 1..m : w.records[n + k] = more[k]
  <2>1. PICK R : R = w.records
    OBVIOUS
  <2>2. PICK V : V = v.records
    OBVIOUS
  <2>3. V \in Seq(JournalRecords) /\ R = V \o more /\ n = Len(V)
    BY <1>1, <1>2, <2>1, <2>2 DEF Longer
  <2>4. /\ Len(R) = Len(V) + Len(more)
        /\ \A p \in 1..Len(V) : R[p] = V[p]
        /\ \A i \in 1..Len(more) : R[Len(V) + i] = more[i]
    BY <2>3, ConcatPlaces DEF Longer
  <2>5. QED
    BY <1>1, <2>1, <2>2, <2>3, <2>4
<1>4. cp.next <= v.first + n
  BY <1>1 DEF NextUsn, Reaches
<1>5. \A i \in Since(v, cp) : i \in 1..n /\ i \in Since(w, cp)
  BY <1>1, <1>2, <1>3 DEF Since, Longer, Reaches
<1>6. \A k \in 1..m : n + k \in Since(w, cp)
  BY <1>2, <1>3, <1>4 DEF Since, Longer, Reaches
<1>7. \A ref : Touched(v, cp, ref) => Touched(w, cp, ref)
  BY <1>3, <1>5 DEF Touched
<1>8. \A dirs : Moved(v, cp, dirs) => Moved(w, cp, dirs)
  BY <1>3, <1>5 DEF Moved
<1>9. QED
  BY <1>2, <1>3, <1>6, <1>7, <1>8 DEF KeepsRecords

LEMMA LongerUsn ==
  ASSUME NEW v, VolumeOk(v), NEW w, NEW more \in Seq(JournalRecords),
         w.first = v.first, w.records = v.records \o more
  PROVE  NextUsn(v) \in Nat /\ NextUsn(w) \in Nat /\ NextUsn(v) <= NextUsn(w)
<1>1. v.records \in Seq(JournalRecords) /\ v.first \in Nat
  BY VolumeFacts
<1>2. Len(w.records) = Len(v.records) + Len(more) /\ Len(v.records) \in Nat /\ Len(more) \in Nat
  BY <1>1
<1>3. QED
  BY <1>1, <1>2 DEF NextUsn

\* The records tell of every file that is another now.
Logged(tr, now, files, more) ==
  \A f \in DOMAIN files :
     now[f] = tr[f] \/ (tr[f] # NoFile => \E k \in DOMAIN more : more[k].ref = tr[f].ref)

\* A change that logs the files it changes keeps the journal true.
LEMMA JournalGrows ==
  ASSUME NEW v, VolumeOk(v), NEW w, NEW more, Longer(v, w, more), w.id = v.id, w.dir = v.dir,
         NEW tr, NEW now, NEW cp, NEW dirs, NEW files, JournalOk(v, tr, cp, dirs, files),
         Logged(tr, now, files, more)
  PROVE  JournalOk(w, now, cp, dirs, files)
<1>1. cp.id \in Nat /\ cp.next \in Nat /\ cp.id <= v.id /\ (cp.id = v.id => cp.next <= NextUsn(v))
  BY DEF JournalOk
<1>2. NextUsn(v) \in Nat /\ NextUsn(w) \in Nat /\ NextUsn(v) <= NextUsn(w)
  BY LongerUsn DEF Longer
<1>3. cp.id = w.id => cp.next <= NextUsn(w)
  BY <1>1, <1>2
<1>4. ASSUME Usable(w, cp), ~Moved(w, cp, dirs)
      PROVE  /\ w.dir \in dirs
             /\ \A f \in DOMAIN files :
                   Touched(w, cp, files[f].token.ref) \/ Intact(now, f, files[f])
  <2>1. Usable(v, cp) /\ v.first <= cp.next /\ cp.next <= NextUsn(v)
    BY <1>1, <1>4 DEF Usable, Longer
  <2>2. /\ \A ref : Touched(v, cp, ref) => Touched(w, cp, ref)
        /\ \A D : Moved(v, cp, D) => Moved(w, cp, D)
        /\ \A k \in DOMAIN more : \E i \in Since(w, cp) : w.records[i] = more[k]
    <3>1. Longer(v, w, more) /\ Reaches(v, cp)
      BY <1>1, <2>1 DEF Longer, Reaches
    <3>2. KeepsRecords(v, w, more, cp)
      BY <3>1, LongerJournal
    <3>3. QED
      BY <3>2 DEF KeepsRecords
  <2>3. /\ v.dir \in dirs
        /\ \A f \in DOMAIN files :
              Touched(v, cp, files[f].token.ref) \/ Intact(tr, f, files[f])
    BY <1>4, <2>1, <2>2 DEF JournalOk
  <2>4. ASSUME NEW f \in DOMAIN files, ~Touched(w, cp, files[f].token.ref)
        PROVE  Intact(now, f, files[f])
    <3>1. Intact(tr, f, files[f])
      BY <2>2, <2>3, <2>4
    <3>2. ASSUME NEW k \in DOMAIN more PROVE more[k].ref # files[f].token.ref
      <4>1. PICK i \in Since(w, cp) : w.records[i] = more[k]
        BY <2>2
      <4>2. w.records[i].ref # files[f].token.ref
        BY <2>4 DEF Touched
      <4>3. QED
        BY <4>1, <4>2
    <3>3. now[f] = tr[f]
      BY <3>1, <3>2 DEF Intact, Logged
    <3>4. QED
      BY <3>1, <3>3 DEF Intact
  <2>5. QED
    BY <2>3, <2>4
<1>5. QED
  BY <1>1, <1>3, <1>4 DEF JournalOk

\* Exchanging a watched directory is logged, whatever the files are now.
LEMMA JournalMoves ==
  ASSUME NEW v, VolumeOk(v), NEW w, w.id = v.id, w.first = v.first, w.dir \in Nat,
         w.records = v.records \o <<Record(v.dir, "topology"), Record(w.dir, "topology")>>,
         NEW tr, NEW now, NEW cp, NEW dirs, NEW files, JournalOk(v, tr, cp, dirs, files),
         NEW watched, watched = dirs \/ w.dir \in watched
  PROVE  JournalOk(w, now, cp, watched, files)
<1> DEFINE more == <<Record(v.dir, "topology"), Record(w.dir, "topology")>>
<1>1. /\ more \in Seq(JournalRecords) /\ DOMAIN more = {1, 2}
      /\ more[1].ref = v.dir /\ more[1].reason = "topology"
      /\ more[2].ref = w.dir /\ more[2].reason = "topology"
  <2>1. Record(v.dir, "topology") \in JournalRecords /\ Record(w.dir, "topology") \in JournalRecords
    BY VolumeFacts DEF Record, JournalRecords
  <2>2. QED
    BY <2>1 DEF Record
<1>2. cp.id \in Nat /\ cp.next \in Nat /\ cp.id <= v.id /\ (cp.id = v.id => cp.next <= NextUsn(v))
  BY DEF JournalOk
<1> HIDE DEF more
<1>3. w.records = v.records \o more
  BY DEF more
<1>4. NextUsn(v) \in Nat /\ NextUsn(w) \in Nat /\ NextUsn(v) <= NextUsn(w)
  BY <1>1, <1>3, LongerUsn
<1>5. cp.id = w.id => cp.next <= NextUsn(w)
  BY <1>2, <1>4
<1>6. ASSUME Usable(w, cp) PROVE Moved(w, cp, watched)
  <2>1. Usable(v, cp) /\ v.first <= cp.next /\ cp.next <= NextUsn(v)
    BY <1>2, <1>6 DEF Usable
  <2>2. /\ \A D : Moved(v, cp, D) => Moved(w, cp, D)
        /\ \A k \in DOMAIN more : \E i \in Since(w, cp) : w.records[i] = more[k]
    <3>1. Longer(v, w, more) /\ Reaches(v, cp)
      BY <1>1, <1>2, <1>3, <2>1 DEF Longer, Reaches
    <3>2. KeepsRecords(v, w, more, cp)
      BY <3>1, LongerJournal
    <3>3. QED
      BY <3>2 DEF KeepsRecords
  <2>3. PICK i \in Since(w, cp) : w.records[i] = more[1]
    BY <1>1, <2>2
  <2>4. PICK j \in Since(w, cp) : w.records[j] = more[2]
    BY <1>1, <2>2
  <2>5. w.dir \in watched => Moved(w, cp, watched)
    BY <1>1, <2>4 DEF Moved
  <2>6. v.dir \in watched => Moved(w, cp, watched)
    BY <1>1, <2>3 DEF Moved
  <2>7. Moved(v, cp, dirs) \/ v.dir \in dirs
    BY <2>1 DEF JournalOk
  <2>8. QED
    BY <2>2, <2>5, <2>6, <2>7
<1>7. QED
  BY <1>2, <1>5, <1>6 DEF JournalOk

\* A journal that lost its records is usable only when none was since.
LEMMA JournalLost ==
  ASSUME NEW v, VolumeOk(v), NEW w, w.id \in Nat, w.id >= v.id, w.dir = v.dir,
         w.first = NextUsn(v), w.records = <<>>,
         NEW tr, NEW cp, NEW dirs, NEW files, JournalOk(v, tr, cp, dirs, files)
  PROVE  JournalOk(w, tr, cp, dirs, files)
<1>1. cp.id \in Nat /\ cp.next \in Nat /\ cp.id <= v.id /\ (cp.id = v.id => cp.next <= NextUsn(v))
  BY DEF JournalOk
<1>2. v.id \in Nat /\ v.first \in Nat /\ Len(v.records) \in Nat /\ NextUsn(v) \in Nat
  BY VolumeFacts
<1>3. NextUsn(w) = NextUsn(v)
  <2>1. Len(w.records) = 0
    OBVIOUS
  <2>2. QED
    BY <1>2, <2>1 DEF NextUsn
<1>4. cp.id <= w.id /\ (cp.id = w.id => cp.id = v.id)
  BY <1>1, <1>2
<1>5. ASSUME Usable(w, cp)
      PROVE  /\ v.dir \in dirs
             /\ \A f \in DOMAIN files : Intact(tr, f, files[f])
  <2>1. cp.id = v.id /\ NextUsn(v) <= cp.next
    BY <1>4, <1>5 DEF Usable
  <2>2. cp.next = v.first + Len(v.records)
    BY <1>1, <1>2, <2>1 DEF NextUsn
  <2>3. Usable(v, cp)
    BY <1>2, <2>1, <2>2 DEF Usable
  <2>4. Since(v, cp) = {}
    BY <1>2, <2>2 DEF Since
  <2>5. QED
    BY <2>3, <2>4 DEF JournalOk, Moved, Touched
<1>6. QED
  BY <1>1, <1>3, <1>4, <1>5 DEF JournalOk

LEMMA JournalSame ==
  ASSUME NEW v, NEW w, w.id = v.id, w.first = v.first, w.dir = v.dir, w.records = v.records,
         NEW tr, NEW cp, NEW dirs, NEW files, JournalOk(v, tr, cp, dirs, files)
  PROVE  JournalOk(w, tr, cp, dirs, files)
BY DEF JournalOk, NextUsn, Usable, Moved, Touched, Since

-----------------------------------------------------------------------------
(***************************************************************************)
(* The invariant of IncrementalBuild                                       *)
(***************************************************************************)

\* The files that are not as the state s holds them.
Differing(tr, s) == {f \in Members(s) : tr[f] = NoFile \/ tr[f].content # s.files[f].content}

OutdatedIn(tr, s, w) ==
  {r \in CommittedRoots(s) :
     \/ Reached(s, r) \cap Differing(tr, s) # {}
     \/ w.identity /\ (r \notin w.roots \/ w.newTexts)}

DeclaredIn(s, w) == IF w.identity THEN w.roots ELSE CommittedRoots(s)

Planned(tr, s, w) ==
  /\ w.invalidated = DependencyClosure(s, OutdatedIn(tr, s, w))
  /\ w.replay = (w.invalidated \cap DeclaredIn(s, w)) \cup (DeclaredIn(s, w) \ CommittedRoots(s))

\* What a REBUILD committed has its journal from before its first file.
SavedOk(v, tr, s) ==
  s # NoSave =>
    /\ SavedFiles(s)
    /\ s.tracking.checkpoint # NoCheckpoint =>
         /\ s.tracking.references = [f \in Members(s) |-> s.files[f].token.ref]
         /\ JournalOk(v, tr, s.tracking.checkpoint, s.tracking.directories, s.files)

IdleFields == {"op", "phase", "result", "quiet"}
RebuildFields == IdleFields \cup {"tracked", "checkpoint", "pending", "held"}
BuildFields ==
  IdleFields \cup {"context", "loaded", "identity", "newTexts", "oldRoots", "roots", "candidates",
                   "backend", "changed", "invalidated", "replay", "lexical"}

\* The files held are closed under inclusion but for the pending ones.
RebuildOk(v, tr, w) ==
  /\ DOMAIN w.held \subseteq Inputs
  /\ \A f \in DOMAIN w.held :
        Text(f, w.held[f].content).includes \subseteq DOMAIN w.held \cup w.pending
  /\ w.checkpoint # NoCheckpoint =>
        w.tracked = TRUE /\ JournalOk(v, tr, w.checkpoint, {v.dir}, w.held)

\* A BUILD nothing was written under since its scan knows every edit.
BuildOk(tr, s, w) ==
  /\ s # NoSave /\ Composed(s, w)
  /\ w.phase = "classify" /\ w.quiet =>
        /\ Ascending(w.candidates)
        /\ Differing(tr, s) \subseteq Range(w.candidates) /\ Range(w.candidates) \subseteq Members(s)
  /\ w.phase \in {"plan", "replace", "done"} /\ w.quiet =>
        Ascending(w.changed) /\ Range(w.changed) = Differing(tr, s)
  /\ w.phase \in {"replace", "done"} /\ w.quiet => Planned(tr, s, w)

Running == {"scan", "compose", "classify", "plan", "replace"}

IdleWork(w) == w.phase = "none" /\ w.op = "idle" /\ DOMAIN w = IdleFields

RebuildWork(v, tr, w) ==
  w.phase = "acquire" /\ w.op = "rebuild" /\ DOMAIN w = RebuildFields /\ RebuildOk(v, tr, w)

BuildWork(tr, s, w) ==
  /\ \/ w.phase \in Running /\ w.op = "build"
     \/ w.phase \in {"done", "failed"} /\ w.op = "idle"
  /\ DOMAIN w = BuildFields
  /\ BuildOk(tr, s, w)

OperationOk(v, tr, s, w) == IdleWork(w) \/ RebuildWork(v, tr, w) \/ BuildWork(tr, s, w)

PlanInv ==
  VolumeOk(volume) /\ TreeOk(tree) /\ SavedOk(volume, tree, saved) /\ OperationOk(volume, tree, saved, work)

-----------------------------------------------------------------------------
(* The steps of the file system *)

JournalCarried(v, tr, w, now) ==
  \A cp, files : DOMAIN files \subseteq Inputs =>
     /\ \A dirs : JournalOk(v, tr, cp, dirs, files) => JournalOk(w, now, cp, dirs, files)
     /\ JournalOk(v, tr, cp, {v.dir}, files) => JournalOk(w, now, cp, {w.dir}, files)

LEMMA SavedCarried ==
  ASSUME NEW v, NEW tr, NEW w, NEW now, JournalCarried(v, tr, w, now), NEW s, SavedOk(v, tr, s)
  PROVE  SavedOk(w, now, s)
<1>1. SUFFICES ASSUME s # NoSave, s.tracking.checkpoint # NoCheckpoint, SavedFiles(s),
                      JournalOk(v, tr, s.tracking.checkpoint, s.tracking.directories, s.files)
               PROVE  JournalOk(w, now, s.tracking.checkpoint, s.tracking.directories, s.files)
  BY DEF SavedOk
<1>2. DOMAIN s.files \subseteq Inputs
  BY <1>1 DEF SavedFiles, Members
<1>3. QED
  BY <1>1, <1>2 DEF JournalCarried

LEMMA RebuildCarried ==
  ASSUME NEW v, NEW tr, NEW v2, NEW now, JournalCarried(v, tr, v2, now), NEW w, RebuildOk(v, tr, w),
         NEW w2, w2.held = w.held, w2.pending = w.pending, w2.checkpoint = w.checkpoint,
         w2.tracked = w.tracked
  PROVE  RebuildOk(v2, now, w2)
BY DEF RebuildOk, JournalCarried

LEMMA FileSystemStep ==
  ASSUME PlanInv, JournalCarried(volume, tree, volume', tree'), VolumeOk(volume'), TreeOk(tree'),
         saved' = saved, work' = [work EXCEPT !.quiet = FALSE]
  PROVE  PlanInv'
<1>1. SavedOk(volume', tree', saved')
  BY SavedCarried DEF PlanInv
<1>2. CASE IdleWork(work)
  <2>1. IdleWork(work')
    BY <1>2 DEF IdleWork, IdleFields
  <2>2. QED
    BY <1>1, <2>1 DEF PlanInv, OperationOk
<1>3. CASE RebuildWork(volume, tree, work)
  <2>1. /\ work'.phase = "acquire" /\ work'.op = "rebuild" /\ DOMAIN work' = RebuildFields
        /\ work'.held = work.held /\ work'.pending = work.pending
        /\ work'.checkpoint = work.checkpoint /\ work'.tracked = work.tracked
    BY <1>3 DEF RebuildWork, RebuildFields, IdleFields
  <2>2. RebuildOk(volume, tree, work)
    BY <1>3 DEF RebuildWork
  <2>3. RebuildOk(volume', tree', work')
    BY <2>1, <2>2, RebuildCarried
  <2>4. QED
    BY <1>1, <2>1, <2>3 DEF PlanInv, OperationOk, RebuildWork
<1>4. CASE BuildWork(tree, saved, work)
  <2>1. /\ DOMAIN work' = BuildFields /\ work'.quiet = FALSE
        /\ work'.phase = work.phase /\ work'.op = work.op
        /\ work'.identity = work.identity /\ work'.newTexts = work.newTexts
        /\ work'.oldRoots = work.oldRoots
    BY <1>4 DEF BuildWork, BuildFields, IdleFields
  <2>2. saved # NoSave /\ Composed(saved, work)
    BY <1>4 DEF BuildWork, BuildOk
  <2>3. BuildOk(tree', saved', work')
    BY <2>1, <2>2 DEF BuildOk, Composed
  <2>4. BuildWork(tree', saved', work')
    BY <1>4, <2>1, <2>3 DEF BuildWork
  <2>5. QED
    BY <1>1, <2>4 DEF PlanInv, OperationOk
<1>5. QED
  BY <1>2, <1>3, <1>4 DEF PlanInv, OperationOk

LEMMA ChangeCarries ==
  ASSUME VolumeOk(volume), NEW records \in Seq(JournalRecords), NEW refs \in Nat, Change(records, refs),
         \A g \in Inputs :
            tree'[g] = tree[g] \/ (tree[g] # NoFile => \E k \in DOMAIN records : records[k].ref = tree[g].ref)
  PROVE  /\ JournalCarried(volume, tree, volume', tree') /\ VolumeOk(volume')
         /\ saved' = saved /\ work' = [work EXCEPT !.quiet = FALSE]
<1>1. /\ volume' = [volume EXCEPT !.records = @ \o records, !.refs = @ + refs, !.events = @ + 1]
      /\ saved' = saved /\ work' = [work EXCEPT !.quiet = FALSE]
  BY DEF Change
<1>2. /\ volume.refs \in Nat /\ volume.events \in Nat /\ volume.records \in Seq(JournalRecords)
      /\ DOMAIN volume = {"id", "first", "records", "dir", "refs", "events", "operations"}
  BY VolumeFacts
<1>3. /\ volume'.id = volume.id /\ volume'.first = volume.first /\ volume'.dir = volume.dir
      /\ volume'.records = volume.records \o records
  BY <1>1, <1>2
<1>4. VolumeOk(volume')
  <2>1. volume.records \o records \in Seq(JournalRecords)
    BY <1>2
  <2>2. volume.refs + refs \in Nat /\ volume.events + 1 \in Nat
    BY <1>2
  <2>3. QED
    BY <1>1, <2>1, <2>2 DEF VolumeOk
<1>5. JournalCarried(volume, tree, volume', tree')
  <2>1. ASSUME NEW cp, NEW files, DOMAIN files \subseteq Inputs, NEW dirs,
               JournalOk(volume, tree, cp, dirs, files)
        PROVE  JournalOk(volume', tree', cp, dirs, files)
    <3>1. Logged(tree, tree', files, records)
      BY <2>1 DEF Logged
    <3>2. Longer(volume, volume', records)
      BY <1>3 DEF Longer
    <3>3. QED
      BY <1>3, <2>1, <3>1, <3>2, JournalGrows
  <2>2. QED
    BY <1>3, <2>1 DEF JournalCarried
<1>6. QED
  BY <1>1, <1>4, <1>5

LEMMA OneRecord ==
  ASSUME NEW ref \in Nat, NEW reason \in {"data", "topology"}
  PROVE  /\ <<Record(ref, reason)>> \in Seq(JournalRecords)
         /\ DOMAIN <<Record(ref, reason)>> = {1} /\ <<Record(ref, reason)>>[1].ref = ref
<1>1. Record(ref, reason) \in JournalRecords /\ Record(ref, reason).ref = ref
  BY DEF Record, JournalRecords
<1>2. QED
  BY <1>1

LEMMA WriteStep ==
  ASSUME PlanInv, NEW f \in Inputs, NEW c, Write(f, c) PROVE PlanInv'
<1>1. PICK records : records = <<Record(tree[f].ref, "data")>>
  OBVIOUS
<1>2. /\ tree[f] # NoFile /\ Change(records, 0)
      /\ tree' = [tree EXCEPT ![f].content = c, ![f].usn = NextUsn(volume) + 1]
  BY <1>1 DEF Write
<1>3. DOMAIN tree = Inputs /\ DOMAIN tree[f] = FileFields /\ tree[f].ref \in Nat
  BY <1>2 DEF PlanInv, TreeOk
<1>4. records \in Seq(JournalRecords) /\ DOMAIN records = {1} /\ records[1].ref = tree[f].ref
  BY <1>1, <1>3, OneRecord
<1>5. \A g \in Inputs : g # f => tree'[g] = tree[g]
  BY <1>2, <1>3
<1>6. DOMAIN tree' = Inputs /\ DOMAIN tree'[f] = FileFields /\ tree'[f].ref = tree[f].ref
  BY <1>2, <1>3 DEF FileFields
<1>7. TreeOk(tree')
  BY <1>3, <1>5, <1>6 DEF PlanInv, TreeOk
<1>8. \A g \in Inputs :
         tree'[g] = tree[g] \/ (tree[g] # NoFile => \E k \in DOMAIN records : records[k].ref = tree[g].ref)
  BY <1>4, <1>5
<1>9. /\ JournalCarried(volume, tree, volume', tree') /\ VolumeOk(volume')
      /\ saved' = saved /\ work' = [work EXCEPT !.quiet = FALSE]
  BY <1>2, <1>4, <1>8, ChangeCarries DEF PlanInv
<1>10. QED
  BY <1>7, <1>9, FileSystemStep

LEMMA GoneFacts ==
  ASSUME PlanInv, NEW f \in Inputs
  PROVE  /\ Gone(f) \in Seq(JournalRecords) /\ Len(Gone(f)) \in Nat
         /\ tree[f] # NoFile => \E k \in DOMAIN Gone(f) : Gone(f)[k].ref = tree[f].ref
<1>1. CASE tree[f] = NoFile
  <2>1. Gone(f) = <<>>
    BY <1>1 DEF Gone
  <2>2. QED
    BY <1>1, <2>1
<1>2. CASE tree[f] # NoFile
  <2>1. tree[f].ref \in Nat
    BY <1>2 DEF PlanInv, TreeOk
  <2>2. PICK gone : gone = <<Record(tree[f].ref, "topology")>>
    OBVIOUS
  <2>3. Gone(f) = gone
    BY <1>2, <2>2 DEF Gone
  <2>4. gone \in Seq(JournalRecords) /\ DOMAIN gone = {1} /\ gone[1].ref = tree[f].ref
    BY <2>1, <2>2, OneRecord
  <2>5. QED
    BY <2>3, <2>4
<1>3. QED
  BY <1>1, <1>2

LEMMA ReplaceFileStep ==
  ASSUME PlanInv, NEW f \in Inputs, NEW c, Replace(f, c) PROVE PlanInv'
<1>1. PICK ref, gone, new : ref = volume.refs + 1 /\ gone = Gone(f) /\ new = <<Record(ref, "topology")>>
  OBVIOUS
<1>2. PICK records : records = gone \o new
  OBVIOUS
<1>3. /\ Change(records, 1)
      /\ tree' = [tree EXCEPT ![f] = [content |-> c, ref |-> ref, usn |-> NextUsn(volume) + Len(records)]]
  BY <1>1, <1>2 DEF Replace
<1>4. ref \in Nat
  BY <1>1, VolumeFacts DEF PlanInv
<1>5. new \in Seq(JournalRecords)
  BY <1>1, <1>4, OneRecord
<1>6. /\ gone \in Seq(JournalRecords)
      /\ tree[f] # NoFile => \E k \in DOMAIN gone : gone[k].ref = tree[f].ref
  BY <1>1, GoneFacts
<1>7. records \in Seq(JournalRecords) /\ \A k \in DOMAIN gone : k \in DOMAIN records /\ records[k] = gone[k]
  BY <1>2, <1>5, <1>6
<1>8. DOMAIN tree = Inputs
  BY DEF PlanInv, TreeOk
<1>9. \A g \in Inputs : g # f => tree'[g] = tree[g]
  BY <1>3, <1>8
<1>10. DOMAIN tree' = Inputs /\ DOMAIN tree'[f] = FileFields /\ tree'[f].ref = ref
  BY <1>3, <1>8 DEF FileFields
<1>11. TreeOk(tree')
  BY <1>4, <1>9, <1>10 DEF PlanInv, TreeOk
<1>12. \A g \in Inputs :
         tree'[g] = tree[g] \/ (tree[g] # NoFile => \E k \in DOMAIN records : records[k].ref = tree[g].ref)
  BY <1>6, <1>7, <1>9
<1>13. /\ JournalCarried(volume, tree, volume', tree') /\ VolumeOk(volume')
      /\ saved' = saved /\ work' = [work EXCEPT !.quiet = FALSE]
  BY <1>3, <1>7, <1>12, ChangeCarries DEF PlanInv
<1>14. QED
  BY <1>11, <1>13, FileSystemStep

LEMMA DeleteStep ==
  ASSUME PlanInv, NEW f \in Inputs, Delete(f) PROVE PlanInv'
<1>1. PICK records : records = Gone(f)
  OBVIOUS
<1>2. Change(records, 0) /\ tree' = [tree EXCEPT ![f] = NoFile]
  BY <1>1 DEF Delete
<1>3. /\ records \in Seq(JournalRecords)
      /\ tree[f] # NoFile => \E k \in DOMAIN records : records[k].ref = tree[f].ref
  BY <1>1, GoneFacts
<1>4. DOMAIN tree = Inputs
  BY DEF PlanInv, TreeOk
<1>5. DOMAIN tree' = Inputs /\ tree'[f] = NoFile /\ \A g \in Inputs : g # f => tree'[g] = tree[g]
  BY <1>2, <1>4
<1>6. TreeOk(tree')
  BY <1>5 DEF PlanInv, TreeOk
<1>7. \A g \in Inputs :
         tree'[g] = tree[g] \/ (tree[g] # NoFile => \E k \in DOMAIN records : records[k].ref = tree[g].ref)
  BY <1>3, <1>5
<1>8. /\ JournalCarried(volume, tree, volume', tree') /\ VolumeOk(volume')
      /\ saved' = saved /\ work' = [work EXCEPT !.quiet = FALSE]
  BY <1>2, <1>3, <1>7, ChangeCarries DEF PlanInv
<1>9. QED
  BY <1>6, <1>8, FileSystemStep

LEMMA ExchangeStep ==
  ASSUME PlanInv, NEW f, NEW c, ExchangeDirectory(f, c) PROVE PlanInv'
<1>1. PICK dir : dir = volume.refs + Len(InputKinds) + 1
  OBVIOUS
<1>2. PICK more : more = <<Record(volume.dir, "topology"), Record(dir, "topology")>>
  OBVIOUS
<1>3. /\ volume' = [volume EXCEPT !.records = @ \o more, !.refs = dir, !.dir = dir, !.events = @ + 1]
      /\ saved' = saved /\ work' = [work EXCEPT !.quiet = FALSE]
      /\ tree' = [g \in Inputs |->
                    IF g # f /\ tree[g] = NoFile THEN NoFile
                    ELSE [content |-> IF g = f THEN c ELSE tree[g].content,
                          ref |-> volume.refs + g, usn |-> 0]]
  BY <1>1, <1>2 DEF ExchangeDirectory
<1>4. VolumeOk(volume)
  BY DEF PlanInv
<1>5. /\ volume.refs \in Nat /\ volume.events \in Nat /\ volume.records \in Seq(JournalRecords)
      /\ volume.dir \in Nat
      /\ DOMAIN volume = {"id", "first", "records", "dir", "refs", "events", "operations"}
  BY <1>4, VolumeFacts
<1>6. dir \in Nat /\ Inputs \subseteq Nat
  BY <1>1, <1>5, InputsFinite
<1>7. more \in Seq(JournalRecords)
  <2>1. Record(volume.dir, "topology") \in JournalRecords /\ Record(dir, "topology") \in JournalRecords
    BY <1>5, <1>6 DEF Record, JournalRecords
  <2>2. QED
    BY <1>2, <2>1
<1>8. /\ volume'.id = volume.id /\ volume'.first = volume.first /\ volume'.dir = dir
      /\ volume'.records = volume.records \o more
  BY <1>3, <1>5
<1>9. VolumeOk(volume')
  <2>1. volume.records \o more \in Seq(JournalRecords)
    BY <1>5, <1>7
  <2>2. volume.events + 1 \in Nat
    BY <1>5
  <2>3. QED
    BY <1>3, <1>4, <1>6, <2>1, <2>2 DEF VolumeOk
<1>10. TreeOk(tree')
  <2>1. DOMAIN tree' = Inputs
    BY <1>3
  <2>2. ASSUME NEW g \in Inputs, tree'[g] # NoFile
        PROVE  DOMAIN tree'[g] = FileFields /\ tree'[g].ref \in Nat
    <3>1. tree'[g] = [content |-> IF g = f THEN c ELSE tree[g].content,
                      ref |-> volume.refs + g, usn |-> 0]
      BY <1>3, <2>2
    <3>2. volume.refs + g \in Nat
      BY <1>5, <1>6
    <3>3. QED
      BY <3>1, <3>2 DEF FileFields
  <2>3. QED
    BY <2>1, <2>2 DEF TreeOk
<1>11. JournalCarried(volume, tree, volume', tree')
  <2>1. ASSUME NEW cp, NEW files, NEW dirs, NEW watched, JournalOk(volume, tree, cp, dirs, files),
               watched = dirs \/ volume'.dir \in watched
        PROVE  JournalOk(volume', tree', cp, watched, files)
    BY <1>2, <1>4, <1>6, <1>8, <2>1, JournalMoves
  <2>2. QED
    BY <2>1 DEF JournalCarried
<1>12. QED
  BY <1>3, <1>9, <1>10, <1>11, FileSystemStep

LEMMA LoseStep ==
  ASSUME PlanInv, NEW again \in BOOLEAN, LoseJournal(again) PROVE PlanInv'
<1>1. /\ volume' = [volume EXCEPT !.first = NextUsn(volume), !.records = <<>>,
                                  !.id = IF again THEN @ + 1 ELSE @, !.events = @ + 1]
      /\ tree' = tree /\ saved' = saved /\ work' = [work EXCEPT !.quiet = FALSE]
  BY DEF LoseJournal
<1>2. VolumeOk(volume)
  BY DEF PlanInv
<1>3. /\ volume.id \in Nat /\ volume.events \in Nat /\ NextUsn(volume) \in Nat
      /\ DOMAIN volume = {"id", "first", "records", "dir", "refs", "events", "operations"}
  BY <1>2, VolumeFacts
<1>4. /\ volume'.id \in Nat /\ volume'.id >= volume.id /\ volume'.dir = volume.dir
      /\ volume'.first = NextUsn(volume) /\ volume'.records = <<>>
  BY <1>1, <1>3
<1>5. VolumeOk(volume')
  <2>1. <<>> \in Seq(JournalRecords) /\ volume.events + 1 \in Nat
        /\ (IF again THEN volume.id + 1 ELSE volume.id) \in Nat
    BY <1>3
  <2>2. QED
    BY <1>1, <1>2, <1>3, <2>1 DEF VolumeOk
<1>6. JournalCarried(volume, tree, volume', tree')
  <2>1. ASSUME NEW cp, NEW files, NEW dirs, JournalOk(volume, tree, cp, dirs, files)
        PROVE  JournalOk(volume', tree', cp, dirs, files)
    BY <1>1, <1>2, <1>4, <2>1, JournalLost
  <2>2. QED
    BY <1>4, <2>1 DEF JournalCarried
<1>7. QED
  BY <1>1, <1>5, <1>6, FileSystemStep DEF PlanInv

-----------------------------------------------------------------------------
(* The steps of the operations *)

LEMMA PlanStarts == IncrementalBuildInit => PlanInv
<1>1. SUFFICES ASSUME IncrementalBuildInit PROVE PlanInv
  OBVIOUS
<1>2. Len(InputKinds) \in Nat /\ Inputs = 1..Len(InputKinds)
  BY InputsFinite
<1>3. VolumeOk(volume)
  <2>1. <<>> \in Seq(JournalRecords)
    OBVIOUS
  <2>2. QED
    BY <1>1, <1>2, <2>1 DEF VolumeOk, IncrementalBuildInit
<1>4. TreeOk(tree)
  BY <1>1, <1>2 DEF TreeOk, IncrementalBuildInit, FileFields
<1>5. SavedOk(volume, tree, saved)
  BY <1>1 DEF SavedOk, IncrementalBuildInit
<1>6. IdleWork(work)
  BY <1>1 DEF IdleWork, IncrementalBuildInit, Idle, IdleFields
<1>7. QED
  BY <1>3, <1>4, <1>5, <1>6 DEF PlanInv, OperationOk

\* Counting an operation leaves the journal alone.
LEMMA CountedCarries ==
  ASSUME VolumeOk(volume), tree' = tree, volume' = [volume EXCEPT !.operations = @ + 1]
  PROVE  VolumeOk(volume') /\ JournalCarried(volume, tree, volume', tree')
         /\ volume'.dir = volume.dir /\ volume'.id = volume.id /\ NextUsn(volume') = NextUsn(volume)
<1>1. /\ volume.operations \in Nat
      /\ DOMAIN volume = {"id", "first", "records", "dir", "refs", "events", "operations"}
  BY VolumeFacts
<1>2. /\ volume'.id = volume.id /\ volume'.first = volume.first /\ volume'.dir = volume.dir
      /\ volume'.records = volume.records
  BY <1>1
<1>3. VolumeOk(volume')
  <2>1. volume.operations + 1 \in Nat
    BY <1>1
  <2>2. QED
    BY <2>1 DEF VolumeOk
<1>4. ASSUME NEW cp, NEW files, NEW dirs, JournalOk(volume, tree, cp, dirs, files)
      PROVE  JournalOk(volume', tree', cp, dirs, files)
  BY <1>2, <1>4, JournalSame
<1>5. JournalCarried(volume, tree, volume', tree')
  BY <1>2, <1>4 DEF JournalCarried
<1>6. QED
  BY <1>2, <1>3, <1>5 DEF NextUsn

LEMMA RebuildBeginStep ==
  ASSUME PlanInv, NEW tracked \in BOOLEAN, RebuildBegin(tracked) PROVE PlanInv'
<1>1. /\ saved' = NoSave /\ tree' = tree /\ volume' = [volume EXCEPT !.operations = @ + 1]
      /\ work' = [op |-> "rebuild", phase |-> "acquire", result |-> "none", quiet |-> TRUE,
                  tracked |-> tracked, checkpoint |-> ChangeCheckpoint(tracked),
                  pending |-> {RootProject}, held |-> [f \in {} |-> 0]]
  BY DEF RebuildBegin
<1>2. VolumeOk(volume) /\ TreeOk(tree)
  BY DEF PlanInv
<1>3. VolumeOk(volume') /\ volume'.dir = volume.dir /\ volume'.id = volume.id
      /\ NextUsn(volume') = NextUsn(volume)
  BY <1>1, <1>2, CountedCarries
<1>4. SavedOk(volume', tree', saved')
  BY <1>1 DEF SavedOk
<1>5. /\ DOMAIN work' = RebuildFields /\ work'.phase = "acquire" /\ work'.op = "rebuild"
      /\ work'.tracked = tracked /\ work'.checkpoint = ChangeCheckpoint(tracked)
      /\ work'.pending = {RootProject} /\ work'.held = [f \in {} |-> 0]
  BY <1>1 DEF RebuildFields, IdleFields
<1>6. DOMAIN work'.held = {}
  BY <1>5
<1>7. ASSUME work'.checkpoint # NoCheckpoint
      PROVE  work'.tracked = TRUE /\ JournalOk(volume', tree', work'.checkpoint, {volume'.dir}, work'.held)
  <2>1. tracked = TRUE /\ work'.checkpoint = [id |-> volume.id, next |-> NextUsn(volume)]
    BY <1>5, <1>7 DEF ChangeCheckpoint
  <2>2. /\ work'.checkpoint.id = volume'.id /\ work'.checkpoint.next = NextUsn(volume')
        /\ volume'.id \in Nat /\ NextUsn(volume') \in Nat
    BY <1>3, <2>1, VolumeFacts
  <2>3. QED
    BY <1>5, <1>6, <2>1, <2>2 DEF JournalOk
<1>8. RebuildWork(volume', tree', work')
  BY <1>5, <1>6, <1>7 DEF RebuildWork, RebuildOk
<1>9. QED
  BY <1>1, <1>2, <1>3, <1>4, <1>8 DEF PlanInv, OperationOk

\* A file that is read now is as it is.
LEMMA HeldGrows ==
  ASSUME NEW v, NEW tr, NEW cp, NEW dirs, NEW files, JournalOk(v, tr, cp, dirs, files),
         NEW f, tr[f] # NoFile, NEW more, DOMAIN more = DOMAIN files \cup {f},
         \A g \in DOMAIN files : g # f => more[g] = files[g],
         more[f].content = tr[f].content, more[f].token.ref = tr[f].ref
  PROVE  JournalOk(v, tr, cp, dirs, more)
<1>1. Intact(tr, f, more[f])
  BY DEF Intact
<1>2. ASSUME \A g \in DOMAIN files : Touched(v, cp, files[g].token.ref) \/ Intact(tr, g, files[g])
      PROVE  \A g \in DOMAIN more : Touched(v, cp, more[g].token.ref) \/ Intact(tr, g, more[g])
  <2>1. ASSUME NEW g \in DOMAIN more, g # f
        PROVE  Touched(v, cp, more[g].token.ref) \/ Intact(tr, g, more[g])
    <3>1. g \in DOMAIN files /\ more[g] = files[g]
      BY <2>1
    <3>2. QED
      BY <1>2, <3>1
  <2>2. QED
    BY <1>1, <2>1
<1>3. QED
  BY <1>2 DEF JournalOk

LEMMA RebuildAcquireStep ==
  ASSUME PlanInv, NEW f \in Inputs, RebuildAcquire(f) PROVE PlanInv'
<1>1. work.op = "rebuild" /\ tree' = tree /\ volume' = volume /\ saved' = saved /\ f \in work.pending
  BY DEF RebuildAcquire
<1>2. /\ work.phase = "acquire" /\ DOMAIN work = RebuildFields /\ RebuildOk(volume, tree, work)
  BY <1>1 DEF PlanInv, OperationOk, IdleWork, RebuildWork, BuildWork
<1>3. CASE tree[f] = NoFile
  <2>1. work' = Idle("configuration_invalid")
    BY <1>3 DEF RebuildAcquire
  <2>2. IdleWork(work')
    BY <2>1 DEF IdleWork, Idle, IdleFields
  <2>3. QED
    BY <1>1, <2>2 DEF PlanInv, OperationOk
<1>4. CASE tree[f] # NoFile
  <2>1. PICK held : held = [g \in DOMAIN work.held \cup {f} |->
                               IF g = f THEN AcquireContent(f, work.tracked) ELSE work.held[g]]
    OBVIOUS
  <2>2. work' = [work EXCEPT !.held = held,
                    !.pending = (@ \cup Text(f, tree[f].content).includes) \ DOMAIN held]
    BY <1>4, <2>1 DEF RebuildAcquire
  <2>3. /\ DOMAIN held = DOMAIN work.held \cup {f} /\ held[f] = AcquireContent(f, work.tracked)
        /\ \A g \in DOMAIN work.held : g # f => held[g] = work.held[g]
    BY <2>1
  <2>4. /\ DOMAIN work' = RebuildFields /\ work'.phase = "acquire" /\ work'.op = "rebuild"
        /\ work'.held = held /\ work'.checkpoint = work.checkpoint /\ work'.tracked = work.tracked
        /\ work'.pending = (work.pending \cup Text(f, tree[f].content).includes) \ DOMAIN held
    BY <1>1, <1>2, <2>2 DEF RebuildFields, IdleFields
  <2>5. held[f].content = tree[f].content /\ (work.tracked = TRUE => held[f].token.ref = tree[f].ref)
    BY <2>3 DEF AcquireContent, ChangeToken
  <2>6. DOMAIN held \subseteq Inputs
    BY <1>2, <2>3 DEF RebuildOk
  <2>7. ASSUME NEW g \in DOMAIN held
        PROVE  Text(g, held[g].content).includes \subseteq DOMAIN held \cup work'.pending
    <3>1. CASE g = f
      BY <2>4, <2>5, <3>1
    <3>2. CASE g # f
      <4>1. g \in DOMAIN work.held /\ held[g] = work.held[g]
        BY <2>3, <3>2
      <4>2. Text(g, held[g].content).includes \subseteq DOMAIN work.held \cup work.pending
        BY <1>2, <4>1 DEF RebuildOk
      <4>3. QED
        BY <2>3, <2>4, <4>2
    <3>3. QED
      BY <3>1, <3>2
  <2>8. ASSUME work.checkpoint # NoCheckpoint
        PROVE  work.tracked = TRUE /\ JournalOk(volume, tree, work.checkpoint, {volume.dir}, held)
    <3>1. work.tracked = TRUE /\ JournalOk(volume, tree, work.checkpoint, {volume.dir}, work.held)
      BY <1>2, <2>8 DEF RebuildOk
    <3>2. QED
      BY <1>4, <2>3, <2>5, <3>1, HeldGrows
  <2>9. RebuildOk(volume', tree', work')
    BY <1>1, <2>4, <2>6, <2>7, <2>8 DEF RebuildOk
  <2>10. QED
    BY <1>1, <2>4, <2>9 DEF PlanInv, OperationOk, RebuildWork
<1>5. QED
  BY <1>3, <1>4

LEMMA RebuildCommitStep ==
  ASSUME PlanInv, RebuildCommit PROVE PlanInv'
<1>1. work.op = "rebuild" /\ work.pending = {} /\ tree' = tree /\ volume' = volume
  BY DEF RebuildCommit
<1>2. RebuildOk(volume, tree, work)
  BY <1>1 DEF PlanInv, OperationOk, IdleWork, RebuildWork, BuildWork
<1>3. PICK s : s = [files |-> work.held, tracking |-> TrackingCapture(work)]
  OBVIOUS
<1>4. \/ saved' = s /\ work' = Idle("committed")
      \/ saved' = NoSave /\ work' = Idle("configuration_invalid")
  BY <1>3 DEF RebuildCommit
<1>5. IdleWork(work')
  BY <1>4 DEF IdleWork, Idle, IdleFields
<1>6. s.files = work.held /\ s.tracking = TrackingCapture(work)
  BY <1>3
<1>7. SavedFiles(s)
  BY <1>1, <1>2, <1>6 DEF SavedFiles, Members, Topology, RebuildOk
<1>8. ASSUME s.tracking.checkpoint # NoCheckpoint
      PROVE  /\ s.tracking.references = [f \in Members(s) |-> s.files[f].token.ref]
             /\ JournalOk(volume, tree, s.tracking.checkpoint, s.tracking.directories, s.files)
  <2>1. /\ work.checkpoint # NoCheckpoint
        /\ s.tracking = [checkpoint |-> work.checkpoint, directories |-> {volume.dir},
                         references |-> [f \in DOMAIN work.held |-> work.held[f].token.ref]]
    BY <1>6, <1>8 DEF TrackingCapture
  <2>2. JournalOk(volume, tree, work.checkpoint, {volume.dir}, work.held)
    BY <1>2, <2>1 DEF RebuildOk
  <2>3. QED
    BY <1>6, <2>1, <2>2 DEF Members
<1>9. SavedOk(volume, tree, s)
  BY <1>7, <1>8 DEF SavedOk
<1>10. SavedOk(volume', tree', saved')
  BY <1>1, <1>4, <1>9 DEF SavedOk
<1>11. QED
  BY <1>1, <1>5, <1>10 DEF PlanInv, OperationOk

LEMMA BuildBeginStep ==
  ASSUME PlanInv, BuildBegin PROVE PlanInv'
<1>1. /\ saved # NoSave /\ saved' = saved /\ tree' = tree
      /\ volume' = [volume EXCEPT !.operations = @ + 1]
  BY DEF BuildBegin
<1>2. PICK phase : /\ phase \in {"scan", "compose"}
                   /\ work' = [Building(saved) EXCEPT !.phase = phase]
  BY DEF BuildBegin
<1>3. /\ DOMAIN work' = BuildFields /\ work'.phase = phase /\ work'.op = "build"
      /\ work'.identity = FALSE /\ work'.newTexts = FALSE /\ work'.oldRoots = {}
  BY <1>2 DEF Building, BuildFields, IdleFields
<1>4. BuildWork(tree', saved', work')
  BY <1>1, <1>2, <1>3 DEF BuildWork, BuildOk, Composed, Running
<1>5. VolumeOk(volume') /\ JournalCarried(volume, tree, volume', tree')
  BY <1>1, CountedCarries DEF PlanInv
<1>6. SavedOk(volume', tree', saved')
  BY <1>1, <1>5, SavedCarried DEF PlanInv
<1>7. QED
  BY <1>1, <1>4, <1>5, <1>6 DEF PlanInv, OperationOk

\* What a step of a BUILD leaves alone.
LEMMA BuildStepKeeps ==
  ASSUME PlanInv, tree' = tree, volume' = volume, saved' = saved, BuildWork(tree, saved, work')
  PROVE  PlanInv'
BY DEF PlanInv, OperationOk

LEMMA BuildRuns ==
  ASSUME PlanInv, work.op = "build"
  PROVE  BuildWork(tree, saved, work) /\ work.phase \in Running /\ DOMAIN work = BuildFields
         /\ saved # NoSave /\ Composed(saved, work) /\ BuildOk(tree, saved, work)
BY DEF PlanInv, OperationOk, IdleWork, RebuildWork, BuildWork, BuildOk

LEMMA FailStep ==
  ASSUME PlanInv, work.op = "build", NEW result, Fail(result), tree' = tree, volume' = volume, saved' = saved
  PROVE  PlanInv'
<1>1. saved # NoSave /\ Composed(saved, work) /\ DOMAIN work = BuildFields
  BY BuildRuns
<1>2. /\ DOMAIN work' = BuildFields /\ work'.phase = "failed" /\ work'.op = "idle"
      /\ work'.identity = work.identity /\ work'.newTexts = work.newTexts
      /\ work'.oldRoots = work.oldRoots
  BY <1>1 DEF Fail, BuildFields, IdleFields
<1>3. BuildWork(tree, saved, work')
  BY <1>1, <1>2 DEF BuildWork, BuildOk, Composed
<1>4. QED
  BY <1>3, BuildStepKeeps

LEMMA ComposeStep ==
  ASSUME PlanInv, Compose PROVE PlanInv'
<1>1. work.op = "build" /\ tree' = tree /\ volume' = volume /\ saved' = saved
  BY DEF Compose
<1>2. saved # NoSave /\ DOMAIN work = BuildFields
  BY <1>1, BuildRuns
<1>3. CASE Fail("configuration_invalid")
  BY <1>1, <1>3, FailStep
<1>4. CASE ~Fail("configuration_invalid")
  <2>1. PICK identity, context, roots, newTexts :
          /\ identity \in BOOLEAN /\ newTexts \in BOOLEAN /\ (newTexts => identity)
          /\ work' = [work EXCEPT
                  !.phase = "scan", !.loaded = TRUE, !.identity = identity,
                  !.context = context, !.roots = roots,
                  !.oldRoots = IF identity THEN CommittedRoots(saved) ELSE {},
                  !.newTexts = newTexts]
    <3>1. PICK files : files = ConfigurationFiles
      OBVIOUS
    <3>2. PICK identity : identity = IdentityChanged(saved, files)
      OBVIOUS
    <3>3. PICK newTexts : newTexts = (identity /\ PreprocessorChanged(saved))
      OBVIOUS
    <3>4. identity \in BOOLEAN
      BY <3>2 DEF IdentityChanged
    <3>5. newTexts \in BOOLEAN /\ (newTexts => identity)
      BY <3>3
    <3>6. work' = [work EXCEPT
                  !.phase = "scan", !.loaded = TRUE, !.identity = identity,
                  !.context = VisitedContext(work.context, files), !.roots = DeclaredRoots(files),
                  !.oldRoots = IF identity THEN CommittedRoots(saved) ELSE {},
                  !.newTexts = newTexts]
      BY <1>4, <3>1, <3>2, <3>3, Zenon DEF Compose
    <3>7. QED
      BY <3>4, <3>5, <3>6, Zenon
  <2>2. /\ DOMAIN work' = BuildFields /\ work'.phase = "scan" /\ work'.op = "build"
        /\ work'.identity = identity /\ work'.newTexts = newTexts
        /\ work'.oldRoots = IF identity THEN CommittedRoots(saved) ELSE {}
    BY <1>1, <1>2, <2>1 DEF BuildFields, IdleFields
  <2>3. Composed(saved, work')
    BY <2>1, <2>2 DEF Composed
  <2>4. BuildWork(tree, saved, work')
    BY <1>2, <2>2, <2>3 DEF BuildWork, BuildOk, Running
  <2>5. QED
    BY <1>1, <2>4, BuildStepKeeps
<1>5. QED
  BY <1>3, <1>4

\* The files the journal tells of hold every edit, when it can be used.
LEMMA DirtyCoverEdits ==
  ASSUME NEW s, SavedFiles(s), NEW t, t = s.tracking, t.checkpoint # NoCheckpoint,
         t.references = [f \in Members(s) |-> s.files[f].token.ref],
         VolumeOk(volume), JournalOk(volume, tree, t.checkpoint, t.directories, s.files),
         JournalUsable(t), ~TopologyChanged(t)
  PROVE  DirtyFiles(t) \subseteq Members(s) /\ Differing(tree, s) \subseteq DirtyFiles(t)
<1>1. DOMAIN t.references = Members(s) /\ \A f \in Members(s) : t.references[f] = s.files[f].token.ref
  OBVIOUS
<1>2. RecordsSince(t) = {volume.records[i] : i \in Since(volume, t.checkpoint)}
  BY DEF RecordsSince, Since
<1>3. Usable(volume, t.checkpoint)
  BY DEF JournalUsable, Usable
<1>4. ~Moved(volume, t.checkpoint, t.directories)
  BY <1>2 DEF TopologyChanged, Moved, Watched
<1>5. \A f \in DOMAIN s.files :
         Touched(volume, t.checkpoint, s.files[f].token.ref) \/ Intact(tree, f, s.files[f])
  BY <1>3, <1>4 DEF JournalOk
<1>6. DirtyFiles(t) \subseteq Members(s)
  BY <1>1 DEF DirtyFiles, FileOfReference
<1>7. ASSUME NEW f \in Differing(tree, s) PROVE f \in DirtyFiles(t)
  <2>1. f \in Members(s) /\ ~Intact(tree, f, s.files[f])
    BY DEF Differing, Intact
  <2>2. Touched(volume, t.checkpoint, s.files[f].token.ref)
    BY <1>5, <2>1 DEF Members
  <2>3. PICK r \in RecordsSince(t) : r.ref = s.files[f].token.ref
    BY <1>2, <2>2 DEF Touched
  <2>4. f \in FileOfReference(t, r.ref)
    BY <1>1, <2>1, <2>3 DEF FileOfReference
  <2>5. QED
    BY <2>4 DEF DirtyFiles
<1>8. QED
  BY <1>6, <1>7

LEMMA ScanStep ==
  ASSUME PlanInv, ScanCandidates PROVE PlanInv'
<1>1. PICK fast : fast = (JournalUsable(saved.tracking) /\ ~TopologyChanged(saved.tracking))
  OBVIOUS
<1>2. PICK S : S = IF fast THEN DirtyFiles(saved.tracking) ELSE FallbackCandidates(saved)
  OBVIOUS
<1>3. PICK backend : backend = IF fast THEN "journal" ELSE "fallback"
  OBVIOUS
<1>4. /\ work.op = "build" /\ tree' = tree /\ volume' = volume /\ saved' = saved
      /\ work' = [work EXCEPT !.phase = "classify", !.quiet = TRUE, !.backend = backend,
                              !.candidates = InFileOrder(S)]
  BY <1>1, <1>2, <1>3, Zenon DEF ScanCandidates
<1>5. saved # NoSave /\ DOMAIN work = BuildFields /\ Composed(saved, work)
  BY <1>4, BuildRuns
<1>6. SavedFiles(saved)
  BY <1>5 DEF PlanInv, SavedOk
<1>7. S \subseteq Members(saved) /\ Differing(tree, saved) \subseteq S
  <2>1. CASE fast
    <3>1. JournalUsable(saved.tracking) /\ ~TopologyChanged(saved.tracking) /\ S = DirtyFiles(saved.tracking)
      BY <1>1, <1>2, <2>1
    <3>2. saved.tracking.checkpoint # NoCheckpoint
      BY <3>1 DEF JournalUsable
    <3>3. /\ saved.tracking.references = [f \in Members(saved) |-> saved.files[f].token.ref]
          /\ JournalOk(volume, tree, saved.tracking.checkpoint, saved.tracking.directories, saved.files)
      BY <1>5, <3>2 DEF PlanInv, SavedOk
    <3>4. QED
      BY <1>6, <3>1, <3>2, <3>3, DirtyCoverEdits DEF PlanInv
  <2>2. CASE ~fast
    BY <1>2, <2>2 DEF FallbackCandidates, Differing
  <2>3. QED
    BY <2>1, <2>2
<1>8. Ascending(InFileOrder(S)) /\ Range(InFileOrder(S)) = S \cap Inputs
  BY InFileOrderLists
<1>9. Range(InFileOrder(S)) = S
  BY <1>6, <1>7, <1>8 DEF SavedFiles
<1>10. /\ DOMAIN work' = BuildFields /\ work'.phase = "classify" /\ work'.op = "build"
       /\ work'.identity = work.identity /\ work'.newTexts = work.newTexts
       /\ work'.oldRoots = work.oldRoots /\ work'.candidates = InFileOrder(S)
  BY <1>4, <1>5 DEF BuildFields, IdleFields
<1>11. BuildOk(tree, saved, work')
  BY <1>5, <1>7, <1>8, <1>9, <1>10 DEF BuildOk, Composed
<1>12. BuildWork(tree, saved, work')
  BY <1>10, <1>11 DEF BuildWork, Running
<1>13. QED
  BY <1>4, <1>12, BuildStepKeeps

LEMMA ClassifyStep ==
  ASSUME PlanInv, Classify PROVE PlanInv'
<1>1. work.op = "build" /\ work.phase = "classify" /\ tree' = tree /\ volume' = volume /\ saved' = saved
  BY DEF Classify
<1>2. saved # NoSave /\ DOMAIN work = BuildFields /\ Composed(saved, work) /\ BuildOk(tree, saved, work)
  BY <1>1, BuildRuns
<1>3. PICK files : files = ChangedFiles(work.candidates)
  OBVIOUS
<1>4. PICK applied : applied = ApplyChanges(work.context, files)
  OBVIOUS
<1>5. CASE applied.status # "success"
  <2>1. Fail(applied.status)
    BY <1>3, <1>4, <1>5, Zenon DEF Classify
  <2>2. QED
    BY <1>1, <2>1, FailStep
<1>6. CASE applied.status = "success"
  <2>1. work' = [work EXCEPT !.phase = "plan", !.changed = files, !.context = applied.context]
    BY <1>3, <1>4, <1>6, Zenon DEF Classify
  <2>2. /\ DOMAIN work' = BuildFields /\ work'.phase = "plan" /\ work'.op = "build"
        /\ work'.identity = work.identity /\ work'.newTexts = work.newTexts
        /\ work'.oldRoots = work.oldRoots /\ work'.changed = files /\ work'.quiet = work.quiet
    BY <1>1, <1>2, <2>1 DEF BuildFields, IdleFields
  <2>3. ASSUME work.quiet PROVE Ascending(files) /\ Range(files) = Differing(tree, saved)
    <3>1. PICK candidates : candidates = work.candidates
      OBVIOUS
    <3>2. /\ Ascending(candidates)
          /\ Differing(tree, saved) \subseteq Range(candidates) /\ Range(candidates) \subseteq Members(saved)
      BY <1>1, <1>2, <2>3, <3>1 DEF BuildOk
    <3>3. /\ Ascending(files)
          /\ \A f : f \in Range(files) <=> f \in Range(candidates) /\ Differs(saved, f)
      BY <1>3, <3>1, <3>2, ChangedFilesLists
    <3>4. \A f \in Members(saved) : f \in Differing(tree, saved) <=> Differs(saved, f)
      BY DEF Differing, Differs
    <3>5. QED
      BY <3>2, <3>3, <3>4
  <2>4. BuildOk(tree, saved, work')
    BY <1>2, <2>2, <2>3 DEF BuildOk, Composed
  <2>5. BuildWork(tree, saved, work')
    BY <2>2, <2>4 DEF BuildWork, Running
  <2>6. QED
    BY <1>1, <2>5, BuildStepKeeps
<1>7. QED
  BY <1>5, <1>6

LEMMA PlanStep ==
  ASSUME PlanInv, Plan PROVE PlanInv'
<1>1. work.op = "build" /\ work.phase = "plan" /\ tree' = tree /\ volume' = volume /\ saved' = saved
  BY DEF Plan
<1>2. saved # NoSave /\ DOMAIN work = BuildFields /\ Composed(saved, work) /\ BuildOk(tree, saved, work)
  BY <1>1, BuildRuns
<1>3. PICK affected : affected = SemanticRoots(saved, Affected(saved, Range(work.changed)))
  OBVIOUS
<1>4. PICK closure : closure = DependencyClosure(saved, InvalidatedRoots(work, affected))
  OBVIOUS
<1>5. PICK replay : replay = ReplayRoots(work, affected)
                      \cup (IF work.identity THEN closure \cap work.roots ELSE closure)
  OBVIOUS
<1>6. work' = [work EXCEPT !.phase = "replace", !.invalidated = closure, !.replay = replay,
                           !.lexical = LexicalReplacement(work)]
  BY <1>3, <1>4, <1>5, Zenon DEF Plan
<1>7. /\ DOMAIN work' = BuildFields /\ work'.phase = "replace" /\ work'.op = "build"
      /\ work'.identity = work.identity /\ work'.newTexts = work.newTexts
      /\ work'.oldRoots = work.oldRoots /\ work'.changed = work.changed /\ work'.quiet = work.quiet
      /\ work'.roots = work.roots /\ work'.invalidated = closure /\ work'.replay = replay
  BY <1>1, <1>2, <1>6 DEF BuildFields, IdleFields
<1>8. ASSUME work.quiet
      PROVE  /\ Ascending(work.changed) /\ Range(work.changed) = Differing(tree, saved)
             /\ Planned(tree, saved, work')
  <2>1. Ascending(work.changed) /\ Range(work.changed) = Differing(tree, saved)
    BY <1>1, <1>2, <1>8 DEF BuildOk
  <2>2. Differing(tree, saved) = Edited(saved)
    BY DEF Differing, Edited
  <2>3. SavedFiles(saved)
    BY <1>2 DEF PlanInv, SavedOk
  <2>4. affected = SemanticRoots(saved, Affected(saved, Edited(saved)))
    BY <1>3, <2>1, <2>2
  <2>5. /\ closure = StaleRoots(saved, work)
        /\ replay = (closure \cap DeclaredIn(saved, work)) \cup (DeclaredIn(saved, work) \ CommittedRoots(saved))
    BY <1>2, <1>4, <1>5, <2>3, <2>4, PlanTreatsStale DEF DeclaredIn
  <2>6. closure = DependencyClosure(saved, Outdated(saved, work))
    BY <2>3, <2>5, StaleIsClosure
  <2>7. Outdated(saved, work) = OutdatedIn(tree, saved, work')
    BY <1>7, <2>2 DEF Outdated, OutdatedIn
  <2>8. DeclaredIn(saved, work) = DeclaredIn(saved, work')
    BY <1>7 DEF DeclaredIn
  <2>9. QED
    BY <1>7, <2>1, <2>5, <2>6, <2>7, <2>8 DEF Planned
<1>9. BuildOk(tree, saved, work')
  BY <1>2, <1>7, <1>8 DEF BuildOk, Composed
<1>10. BuildWork(tree, saved, work')
  BY <1>7, <1>9 DEF BuildWork, Running
<1>11. QED
  BY <1>1, <1>10, BuildStepKeeps

LEMMA ReplaceLexicalStep ==
  ASSUME PlanInv, ReplaceLexicalState PROVE PlanInv'
<1>1. work.op = "build" /\ work.phase = "replace" /\ tree' = tree /\ volume' = volume /\ saved' = saved
  BY DEF ReplaceLexicalState
<1>2. saved # NoSave /\ DOMAIN work = BuildFields /\ Composed(saved, work) /\ BuildOk(tree, saved, work)
  BY <1>1, BuildRuns
<1>3. CASE Fail("configuration_invalid")
  BY <1>1, <1>3, FailStep
<1>4. CASE work' = [work EXCEPT !.op = "idle", !.phase = "done", !.result = "unsupported"]
  <2>1. /\ DOMAIN work' = BuildFields /\ work'.phase = "done" /\ work'.op = "idle"
        /\ work'.identity = work.identity /\ work'.newTexts = work.newTexts
        /\ work'.oldRoots = work.oldRoots /\ work'.changed = work.changed /\ work'.quiet = work.quiet
        /\ work'.roots = work.roots /\ work'.invalidated = work.invalidated
        /\ work'.replay = work.replay
    BY <1>2, <1>4 DEF BuildFields, IdleFields
  <2>2. ASSUME work.quiet
        PROVE  /\ Ascending(work.changed) /\ Range(work.changed) = Differing(tree, saved)
               /\ Planned(tree, saved, work)
    BY <1>1, <1>2, <2>2 DEF BuildOk
  <2>3. Planned(tree, saved, work) => Planned(tree, saved, work')
    <3>1. OutdatedIn(tree, saved, work) = OutdatedIn(tree, saved, work')
      BY <2>1 DEF OutdatedIn
    <3>2. DeclaredIn(saved, work) = DeclaredIn(saved, work')
      BY <2>1 DEF DeclaredIn
    <3>3. QED
      BY <2>1, <3>1, <3>2 DEF Planned
  <2>4. BuildOk(tree, saved, work')
    BY <1>2, <2>1, <2>2, <2>3 DEF BuildOk, Composed
  <2>5. BuildWork(tree, saved, work')
    BY <2>1, <2>4 DEF BuildWork
  <2>6. QED
    BY <1>1, <2>5, BuildStepKeeps
<1>5. QED
  BY <1>3, <1>4 DEF ReplaceLexicalState

LEMMA PlanNext == PlanInv /\ [IncrementalBuildNext]_buildVars => PlanInv'
<1>1. SUFFICES ASSUME PlanInv, [IncrementalBuildNext]_buildVars PROVE PlanInv'
  OBVIOUS
<1>2. CASE UNCHANGED buildVars
  BY <1>1, <1>2 DEF buildVars, PlanInv
<1>3. CASE FileSystem
  <2>1. ASSUME NEW w \in Writes, Write(w[1], w[2]) PROVE PlanInv'
    <3>1. w[1] \in Inputs
      BY IncrementalBuildConstants DEF Inputs
    <3>2. QED
      BY <1>1, <2>1, <3>1, WriteStep
  <2>2. ASSUME NEW r \in Replacements, Replace(r[1], r[2]) PROVE PlanInv'
    <3>1. r[1] \in Inputs
      BY IncrementalBuildConstants DEF Inputs
    <3>2. QED
      BY <1>1, <2>2, <3>1, ReplaceFileStep
  <2>3. ASSUME NEW f \in Deletions, Delete(f) PROVE PlanInv'
    <3>1. f \in Inputs
      BY IncrementalBuildConstants DEF Inputs
    <3>2. QED
      BY <1>1, <2>3, <3>1, DeleteStep
  <2>4. ASSUME NEW d \in DirectoryChanges, ExchangeDirectory(d[1], d[2]) PROVE PlanInv'
    BY <1>1, <2>4, ExchangeStep
  <2>5. ASSUME NEW again \in BOOLEAN, LoseJournal(again) PROVE PlanInv'
    BY <1>1, <2>5, LoseStep
  <2>6. QED
    BY <1>3, <2>1, <2>2, <2>3, <2>4, <2>5 DEF FileSystem
<1>4. ASSUME NEW tracked \in BOOLEAN, RebuildBegin(tracked) PROVE PlanInv'
  BY <1>1, <1>4, RebuildBeginStep
<1>5. ASSUME NEW f \in Inputs, RebuildAcquire(f) PROVE PlanInv'
  BY <1>1, <1>5, RebuildAcquireStep
<1>6. QED
  BY <1>1, <1>2, <1>3, <1>4, <1>5, RebuildCommitStep, BuildBeginStep, ComposeStep, ScanStep,
     ClassifyStep, PlanStep, ReplaceLexicalStep DEF IncrementalBuildNext

LEMMA PlanInvExact == PlanInv => PlanExact
<1>1. SUFFICES ASSUME PlanInv, work.phase = "done", work.quiet PROVE PlanExact
  BY DEF PlanExact
<1>2. BuildOk(tree, saved, work) /\ saved # NoSave
  BY <1>1 DEF PlanInv, OperationOk, IdleWork, RebuildWork, BuildWork, BuildOk
<1>3. Ascending(work.changed) /\ Range(work.changed) = Differing(tree, saved) /\ Planned(tree, saved, work)
  BY <1>1, <1>2 DEF BuildOk
<1>4. SavedFiles(saved)
  BY <1>1, <1>2 DEF PlanInv, SavedOk
<1>5. Differing(tree, saved) = Edited(saved)
  BY DEF Differing, Edited
<1>6. OutdatedIn(tree, saved, work) = Outdated(saved, work)
  BY <1>5 DEF Outdated, OutdatedIn
<1>7. StaleRoots(saved, work) = DependencyClosure(saved, Outdated(saved, work))
  BY <1>4, StaleIsClosure
<1>8. work.invalidated = StaleRoots(saved, work)
  BY <1>3, <1>6, <1>7 DEF Planned
<1>9. \A i, j \in DOMAIN work.changed : i < j => work.changed[i] < work.changed[j]
  <2>1. DOMAIN work.changed = 1..Len(work.changed)
    BY <1>3 DEF Ascending
  <2>2. QED
    BY <1>3, <2>1 DEF Ascending
<1>10. work.replay = (StaleRoots(saved, work) \cap DeclaredIn(saved, work))
                        \cup (DeclaredIn(saved, work) \ CommittedRoots(saved))
  BY <1>3, <1>8 DEF Planned
<1>11. QED
  BY <1>3, <1>5, <1>8, <1>9, <1>10, Zenon DEF PlanExact, DeclaredIn

\* No edit is lost and none is invented, for any project, any texts and any
\* number of changes of the file system under REBUILD and BUILD.
THEOREM PlanIsExact == IncrementalBuildSpec => []PlanExact
<1>1. IncrementalBuildInit => PlanInv
  BY PlanStarts
<1>2. PlanInv /\ [IncrementalBuildNext]_buildVars => PlanInv'
  BY PlanNext
<1>3. PlanInv => PlanExact
  BY PlanInvExact
<1>4. QED
  BY <1>1, <1>2, <1>3, PTL DEF IncrementalBuildSpec
=============================================================================
