---------------------------- MODULE CompactionProofs ----------------------------
(***************************************************************************)
(* What compact_context does with any conversation and any budget: which   *)
(* messages stay, in which order, at what cost.  The folds of Compaction   *)
(* are recursive functions, so these proofs first show that the functions  *)
(* exist and what they compute, by induction stated with sets of numbers.  *)
(***************************************************************************)
EXTENDS Compaction, Induction, FiniteSetTheorems, SequenceTheorems

-----------------------------------------------------------------------------
(* Sizes of subsets *)

\* Taking one element out of a subset of a finite set.
LEMMA SubsetFacts ==
    ASSUME NEW S, IsFiniteSet(S), NEW s \in SUBSET S
    PROVE  /\ IsFiniteSet(s) /\ Cardinality(s) \in Nat
           /\ Cardinality(s) = 0 <=> s = {}
           /\ \A x \in s : Cardinality(s \ {x}) = Cardinality(s) - 1
<1>1. IsFiniteSet(s)
  BY FS_Subset
<1> QED
  BY <1>1, FS_CardinalityType, FS_EmptySet, FS_RemoveElement

LEMMA IntervalsFinite ==
    ASSUME NEW n \in Nat, NEW S \in SUBSET (1 .. n)
    PROVE  IsFiniteSet(S)
<1>1. IsFiniteSet(1 .. n)
  BY FS_Interval
<1> QED
  BY <1>1, FS_Subset

-----------------------------------------------------------------------------
(* Folds over the subsets of a finite set *)

FoldStep(f, s, base, pick, op) ==
    IF s = {} THEN base ELSE op[pick[s], f[s \ {pick[s]}]]

IsFold(f, S, base, pick, op) ==
    f = [s \in SUBSET S |-> FoldStep(f, s, base, pick, op)]

Picks(pick, S) == \A s \in SUBSET S : s # {} => pick[s] \in s

Small(S, n) == {s \in SUBSET S : Cardinality(s) <= n}

\* The recursive function that takes the elements one after the other exists.
LEMMA FoldExists ==
    ASSUME NEW S, IsFiniteSet(S), NEW D, NEW base \in D, NEW pick,
           Picks(pick, S),
           NEW op \in [S \X D -> D]
    PROVE  \E f \in [SUBSET S -> D] : IsFold(f, S, base, pick, op)
<1> DEFINE Step(f, s) == FoldStep(f, s, base, pick, op)
           T == {n \in Nat : \E f \in [Small(S, n) -> D] :
                                \A s \in Small(S, n) : f[s] = Step(f, s)}
<1> HIDE DEF T
<1>0. ASSUME NEW s \in SUBSET S
      PROVE  /\ IsFiniteSet(s) /\ Cardinality(s) \in Nat
             /\ Cardinality(s) = 0 <=> s = {}
             /\ \A x \in s : Cardinality(s \ {x}) = Cardinality(s) - 1
  BY SubsetFacts
<1>1. 0 \in T
  <2> DEFINE f == [s \in Small(S, 0) |-> base]
  <2>1. \A s \in Small(S, 0) : s = {}
    BY <1>0 DEF Small
  <2>2. f \in [Small(S, 0) -> D] /\ \A s \in Small(S, 0) : f[s] = Step(f, s)
    BY <2>1 DEF FoldStep
  <2> QED
    BY <2>2 DEF T
<1>2. ASSUME NEW n \in Nat, n \in T PROVE n + 1 \in T
  <2>1. PICK f \in [Small(S, n) -> D] : \A s \in Small(S, n) : f[s] = Step(f, s)
    BY <1>2 DEF T
  <2> DEFINE g == [s \in Small(S, n + 1) |-> Step(f, s)]
  <2>2. ASSUME NEW s \in Small(S, n + 1), s # {}
        PROVE  pick[s] \in S /\ s \ {pick[s]} \in Small(S, n)
    BY <1>0, <2>2 DEF Small, Picks
  <2>3. \A s \in Small(S, n) : s \in Small(S, n + 1)
    BY <1>0 DEF Small
  <2> HIDE DEF Step
  <2>4. \A s \in Small(S, n) : g[s] = f[s]
    BY <2>1, <2>3
  <2>5. \A s \in Small(S, n + 1) : g[s] \in D
    BY <2>2 DEF FoldStep, Step
  <2>6. \A s \in Small(S, n + 1) : g[s] = Step(g, s)
    <3> SUFFICES ASSUME NEW s \in Small(S, n + 1) PROVE Step(f, s) = Step(g, s)
      OBVIOUS
    <3>1. s # {} => g[s \ {pick[s]}] = f[s \ {pick[s]}]
      BY <2>2, <2>4
    <3> HIDE DEF g
    <3> QED
      BY <3>1 DEF FoldStep, Step
  <2>7. g \in [Small(S, n + 1) -> D]
    BY <2>5
  <2> HIDE DEF g
  <2> QED
    BY <2>6, <2>7 DEF T
<1>3. \A n \in Nat : n \in T
  BY <1>1, <1>2, Ascend
<1>4. Cardinality(S) \in Nat /\ Small(S, Cardinality(S)) = SUBSET S
  BY <1>0, FS_Subset DEF Small
<1>5. PICK f \in [SUBSET S -> D] : \A s \in SUBSET S : f[s] = Step(f, s)
  <2>1. Cardinality(S) \in T
    BY <1>3, <1>4
  <2> QED
    BY <1>4, <2>1 DEF T
<1>6. f = [s \in SUBSET S |-> Step(f, s)]
  BY <1>5
<1> QED
  BY <1>6 DEF IsFold

-----------------------------------------------------------------------------
(* Sums *)

\* F is the sum of the weights w over any set of indices up to n.
IsSum(F, w, n) ==
    /\ F \in [SUBSET (1 .. n) -> Int]
    /\ F[{}] = 0
    /\ \A s \in SUBSET (1 .. n) : \A x \in s : F[s] = w[x] + F[s \ {x}]

LEMMA SumExists ==
    ASSUME NEW n \in Nat, NEW w \in [1 .. n -> Int]
    PROVE  \E F : IsSum(F, w, n)
<1> DEFINE T == {k \in Nat : k <= n => \E F : IsSum(F, w, k)}
<1>1. 0 \in T
  <2>1. IsSum([s \in SUBSET (1 .. 0) |-> 0], w, 0)
    BY DEF IsSum
  <2> QED
    BY <2>1
<1>2. ASSUME NEW k \in Nat, k \in T PROVE k + 1 \in T
  <2> SUFFICES ASSUME k + 1 <= n PROVE \E F : IsSum(F, w, k + 1)
    OBVIOUS
  <2>1. PICK F : IsSum(F, w, k)
    BY <1>2
  <2> DEFINE m == k + 1
             G == [s \in SUBSET (1 .. m) |->
                     IF m \in s THEN w[m] + F[s \ {m}] ELSE F[s]]
  <2>2. w[m] \in Int /\ \A s \in SUBSET (1 .. m) : s \ {m} \in SUBSET (1 .. k)
    OBVIOUS
  <2>3. G \in [SUBSET (1 .. m) -> Int]
    <3> SUFFICES ASSUME NEW s \in SUBSET (1 .. m) PROVE G[s] \in Int
      OBVIOUS
    <3>1. m \notin s => s \in SUBSET (1 .. k)
      OBVIOUS
    <3> QED
      BY <2>1, <2>2, <3>1 DEF IsSum
  <2>4. G[{}] = 0
    BY <2>1 DEF IsSum
  <2>5. ASSUME NEW s \in SUBSET (1 .. m), NEW x \in s PROVE G[s] = w[x] + G[s \ {x}]
    <3>1. CASE m \notin s
      <4>1. s \in SUBSET (1 .. k) /\ s \ {x} \in SUBSET (1 .. m) /\ m \notin s \ {x}
        BY <3>1
      <4> QED
        BY <2>1, <3>1, <4>1 DEF IsSum
    <3>2. CASE x = m
      <4>1. s \ {x} \in SUBSET (1 .. m) /\ m \notin s \ {x}
        BY <3>2
      <4> QED
        BY <3>2, <4>1
    <3>3. CASE m \in s /\ x # m
      <4>1. /\ s \ {x} \in SUBSET (1 .. m) /\ m \in s \ {x} /\ x \in s \ {m}
            /\ (s \ {x}) \ {m} = (s \ {m}) \ {x}
        BY <3>3
      <4>2. F[s \ {m}] = w[x] + F[(s \ {m}) \ {x}]
        BY <2>1, <2>2, <4>1 DEF IsSum
      <4>3. G[s] = w[m] + F[s \ {m}] /\ G[s \ {x}] = w[m] + F[(s \ {m}) \ {x}]
        BY <3>3, <4>1
      <4>4. w[x] \in Int /\ F[(s \ {m}) \ {x}] \in Int
        <5>1. (s \ {m}) \ {x} \in SUBSET (1 .. k) /\ x \in 1 .. n
          BY <2>2
        <5> QED
          BY <2>1, <5>1 DEF IsSum
      <4> HIDE DEF G, m
      <4> QED
        BY <2>2, <4>2, <4>3, <4>4
    <3> QED
      BY <3>1, <3>2, <3>3
  <2> HIDE DEF G
  <2>6. IsSum(G, w, k + 1)
    BY <2>3, <2>4, <2>5 DEF IsSum
  <2> QED
    BY <2>6
<1>3. n \in T
  <2> HIDE DEF T
  <2> QED
    BY <1>1, <1>2, Ascend
<1> QED
  BY <1>3

\* Two sums agree where the weights do.
LEMMA SumsAgree ==
    ASSUME NEW n \in Nat, NEW m \in Nat, NEW w, NEW v, NEW F, NEW G,
           IsSum(F, w, n), IsSum(G, v, m), NEW S \in SUBSET (1 .. n), S \subseteq 1 .. m,
           \A x \in S : w[x] = v[x]
    PROVE  F[S] = G[S]
<1> DEFINE Agree(k) == \A s \in SUBSET S : Cardinality(s) = k => F[s] = G[s]
           T == {k \in Nat : Agree(k)}
<1>0. ASSUME NEW s \in SUBSET S
      PROVE  /\ IsFiniteSet(s) /\ Cardinality(s) \in Nat
             /\ Cardinality(s) = 0 <=> s = {}
             /\ \A x \in s : Cardinality(s \ {x}) = Cardinality(s) - 1
  BY IntervalsFinite, SubsetFacts
<1>1. 0 \in T
  BY <1>0 DEF IsSum
<1>2. ASSUME NEW k \in Nat, k \in T PROVE k + 1 \in T
  <2>1. ASSUME NEW s \in SUBSET S, Cardinality(s) = k + 1 PROVE F[s] = G[s]
    <3>1. PICK x : x \in s
      BY <1>0, <2>1
    <3>2. F[s \ {x}] = G[s \ {x}]
      BY <1>0, <1>2, <2>1, <3>1
    <3>3. F[s] = w[x] + F[s \ {x}] /\ G[s] = v[x] + G[s \ {x}]
      BY <3>1 DEF IsSum
    <3> QED
      BY <3>1, <3>2, <3>3
  <2>2. Agree(k + 1)
    BY <2>1
  <2> HIDE DEF Agree
  <2> QED
    BY <2>2
<1>3. Cardinality(S) \in T
  <2> HIDE DEF T
  <2> QED
    BY <1>0, <1>1, <1>2, Ascend
<1> QED
  BY <1>3

\* What the community modules compute when they sum w over S.
SumStep(f, s, w) ==
    IF s = {} THEN 0
    ELSE w[CHOOSE x \in s : TRUE] + f[s \ {CHOOSE x \in s : TRUE}]

SumsUp(f, S, w) == \A s \in SUBSET S : f[s] = SumStep(f, s, w)

LEMMA SumFolds ==
    ASSUME NEW n \in Nat, NEW w \in [1 .. n -> Int], NEW F, IsSum(F, w, n),
           NEW S \in SUBSET (1 .. n)
    PROVE  \E f : f = [s \in SUBSET S |-> SumStep(f, s, w)]
<1> DEFINE f == [s \in SUBSET S |-> F[s]]
<1>1. ASSUME NEW s \in SUBSET S, s # {}
      PROVE  LET x == CHOOSE x \in s : TRUE IN x \in s /\ F[s] = w[x] + F[s \ {x}]
  <2>1. (CHOOSE x \in s : TRUE) \in s
    BY <1>1
  <2> QED
    BY <2>1 DEF IsSum
<1>2. \A s \in SUBSET S : F[s] = SumStep(f, s, w)
  BY <1>1 DEF SumStep, IsSum
<1>3. f = [s \in SUBSET S |-> SumStep(f, s, w)]
  BY <1>2
<1> HIDE DEF f
<1> QED
  BY <1>3

LEMMA FoldIsSum ==
    ASSUME NEW n \in Nat, NEW w \in [1 .. n -> Int], NEW F, IsSum(F, w, n),
           NEW S \in SUBSET (1 .. n),
           NEW f, SumsUp(f, S, w)
    PROVE  f[S] = F[S]
<1> DEFINE Agree(k) == \A s \in SUBSET S : Cardinality(s) = k => f[s] = F[s]
           T == {k \in Nat : Agree(k)}
<1>0. ASSUME NEW s \in SUBSET S
      PROVE  /\ IsFiniteSet(s) /\ Cardinality(s) \in Nat
             /\ Cardinality(s) = 0 <=> s = {}
             /\ \A x \in s : Cardinality(s \ {x}) = Cardinality(s) - 1
  BY IntervalsFinite, SubsetFacts
<1>1. 0 \in T
  BY <1>0 DEF IsSum, SumStep, SumsUp
<1>2. ASSUME NEW k \in Nat, k \in T PROVE k + 1 \in T
  <2>1. ASSUME NEW s \in SUBSET S, Cardinality(s) = k + 1 PROVE f[s] = F[s]
    <3> DEFINE x == CHOOSE x \in s : TRUE
    <3>1. s # {} /\ x \in s
      BY <1>0, <2>1
    <3>2. f[s] = w[x] + f[s \ {x}]
      BY <3>1 DEF SumStep, SumsUp
    <3> HIDE DEF x
    <3>3. F[s] = w[x] + F[s \ {x}]
      BY <3>1 DEF IsSum
    <3>4. s \ {x} \in SUBSET S /\ Cardinality(s \ {x}) = k
      BY <1>0, <2>1, <3>1
    <3>5. f[s \ {x}] = F[s \ {x}]
      BY <1>2, <3>4
    <3> QED
      BY <3>2, <3>3, <3>5
  <2>2. Agree(k + 1)
    BY <2>1
  <2> HIDE DEF Agree
  <2> QED
    BY <2>2
<1>3. Cardinality(S) \in T
  <2> HIDE DEF T
  <2> QED
    BY <1>0, <1>1, <1>2, Ascend
<1> QED
  BY <1>3

-----------------------------------------------------------------------------
(* What messages cost *)

Sizes(c) == [i \in DOMAIN c |-> c[i].size]

Sized(c) == \A i \in DOMAIN c : c[i].size \in Nat

LEMMA CostIsSum ==
    ASSUME NEW E, NEW c \in Seq(E), Sized(c), NEW F, IsSum(F, Sizes(c), Len(c)),
           NEW S \in SUBSET DOMAIN c
    PROVE  CostAt(c, S) = F[S]
<1> DEFINE w == Sizes(c)
           n == Len(c)
           Body(f) == [s \in SUBSET S |->
                         IF s = {} THEN 0
                         ELSE c[CHOOSE x \in s : TRUE].size
                              + f[s \ {CHOOSE x \in s : TRUE}]]
           iter == CHOOSE f : f = Body(f)
<1>1. /\ n \in Nat /\ w \in [1 .. n -> Int] /\ IsSum(F, w, n)
      /\ S \in SUBSET (1 .. n)
  BY DEF Sizes, Sized
<1>2. ASSUME NEW f PROVE Body(f) = [s \in SUBSET S |-> SumStep(f, s, w)]
  <2>1. \A s \in SUBSET S : s # {} => (CHOOSE x \in s : TRUE) \in DOMAIN c
    OBVIOUS
  <2>2. \A s \in SUBSET S : s # {} =>
           w[CHOOSE x \in s : TRUE] = c[CHOOSE x \in s : TRUE].size
    BY <2>1 DEF Sizes
  <2> QED
    BY <2>2 DEF SumStep
<1>3. CostAt(c, S) = iter[S]
  BY DEF CostAt, MapThenSumSet, MapThenFoldSet
<1> HIDE DEF Body, w, n
<1>4. iter = Body(iter)
  <2>1. \E f : f = Body(f)
    <3>1. \E f : f = [s \in SUBSET S |-> SumStep(f, s, w)]
      BY <1>1, SumFolds
    <3> QED
      BY <1>2, <3>1
  <2> QED
    BY <2>1
<1> HIDE DEF iter
<1>5. SumsUp(iter, S, w)
  BY <1>2, <1>4 DEF SumsUp
<1>6. iter[S] = F[S]
  BY <1>1, <1>5, FoldIsSum
<1> QED
  BY <1>3, <1>6

LEMMA CostFacts ==
    ASSUME NEW E, NEW c \in Seq(E), Sized(c)
    PROVE  /\ \A S \in SUBSET DOMAIN c : CostAt(c, S) \in Int
           /\ CostAt(c, {}) = 0
           /\ \A S \in SUBSET DOMAIN c : \A x \in S :
                 CostAt(c, S) = c[x].size + CostAt(c, S \ {x})
<1> DEFINE w == Sizes(c)
           n == Len(c)
<1>1. n \in Nat /\ DOMAIN c = 1 .. n /\ w \in [1 .. n -> Int]
      /\ \A i \in 1 .. n : w[i] = c[i].size
  BY DEF Sizes, Sized
<1>2. PICK F : IsSum(F, w, n)
  BY <1>1, SumExists
<1>3. \A S \in SUBSET DOMAIN c : CostAt(c, S) = F[S]
  BY <1>2, CostIsSum
<1> HIDE DEF w, n
<1>4. ASSUME NEW S \in SUBSET DOMAIN c, NEW x \in S
      PROVE  CostAt(c, S) = c[x].size + CostAt(c, S \ {x})
  <2>1. F[S] = w[x] + F[S \ {x}] /\ w[x] = c[x].size
    BY <1>1, <1>2 DEF IsSum
  <2>2. CostAt(c, S) = F[S] /\ CostAt(c, S \ {x}) = F[S \ {x}]
    BY <1>3
  <2> QED
    BY <2>1, <2>2
<1> QED
  BY <1>1, <1>2, <1>3, <1>4 DEF IsSum

\* Where two contexts agree, they cost the same.
LEMMA CostsAgree ==
    ASSUME NEW E, NEW c \in Seq(E), Sized(c), NEW d \in Seq(E), Sized(d),
           NEW S \in SUBSET DOMAIN c, S \subseteq DOMAIN d,
           \A i \in S : c[i].size = d[i].size
    PROVE  CostAt(c, S) = CostAt(d, S)
<1>1. /\ Len(c) \in Nat /\ DOMAIN c = 1 .. Len(c) /\ Sizes(c) \in [1 .. Len(c) -> Int]
      /\ Len(d) \in Nat /\ DOMAIN d = 1 .. Len(d) /\ Sizes(d) \in [1 .. Len(d) -> Int]
      /\ \A i \in S : Sizes(c)[i] = Sizes(d)[i]
  BY DEF Sizes, Sized
<1>2. PICK F : IsSum(F, Sizes(c), Len(c))
  BY <1>1, SumExists
<1>3. PICK G : IsSum(G, Sizes(d), Len(d))
  BY <1>1, SumExists
<1>4. CostAt(c, S) = F[S] /\ CostAt(d, S) = G[S]
  BY <1>2, <1>3, CostIsSum
<1>5. F[S] = G[S]
  <2> HIDE DEF Sizes
  <2> QED
    BY <1>1, <1>2, <1>3, SumsAgree
<1> QED
  BY <1>4, <1>5

\* One message more costs its size.
LEMMA CostAppend ==
    ASSUME NEW E, NEW c \in Seq(E), Sized(c), NEW m \in E, m.size \in Nat
    PROVE  /\ Sized(Append(c, m))
           /\ Cost(Append(c, m)) = Cost(c) + m.size
<1> DEFINE d == Append(c, m)
           k == Len(c) + 1
<1>1. /\ d \in Seq(E) /\ DOMAIN d = 1 .. k /\ DOMAIN c = 1 .. Len(c) /\ Len(c) \in Nat
      /\ d[k] = m /\ \A i \in DOMAIN c : d[i] = c[i]
  OBVIOUS
<1> HIDE DEF d
<1>2. Sized(d)
  BY <1>1 DEF Sized
<1>3. CostAt(d, DOMAIN d) = m.size + CostAt(d, (DOMAIN d) \ {k})
  BY <1>1, <1>2, CostFacts
<1>4. (DOMAIN d) \ {k} = DOMAIN c
  BY <1>1
<1>5. CostAt(c, DOMAIN c) = CostAt(d, DOMAIN c)
  BY <1>1, <1>2, CostsAgree
<1>6. CostAt(c, DOMAIN c) \in Int
  BY CostFacts
<1> QED
  BY <1>2, <1>3, <1>4, <1>5, <1>6 DEF d, Cost

-----------------------------------------------------------------------------
(* The two ends of a set of indices *)

LEMMA MinMax ==
    ASSUME NEW n \in Nat, NEW T \in SUBSET (1 .. n), T # {}
    PROVE  /\ Min(T) \in T /\ \A x \in T : Min(T) <= x
           /\ Max(T) \in T /\ \A x \in T : x <= Max(T)
<1>1. \E x \in T : \A y \in T : x <= y
  BY Least
<1>2. \E x \in T : \A y \in T : x >= y
  <2> DEFINE U == {n - x : x \in T}
  <2>1. U \in SUBSET Nat /\ U # {}
    <3>1. \A x \in T : n - x \in Nat
      OBVIOUS
    <3> QED
      BY <3>1
  <2>2. PICK u \in U : \A v \in U : u <= v
    <3> HIDE DEF U
    <3> QED
      BY <2>1, Least
  <2>3. PICK x \in T : u = n - x
    BY <2>2
  <2>4. \A y \in T : u <= n - y
    BY <2>2
  <2> QED
    BY <2>3, <2>4
<1> QED
  BY <1>1, <1>2 DEF Min, Max

LEMMA EndsOfIntervals ==
    ASSUME NEW n \in Nat, NEW k \in 1 .. n
    PROVE  /\ Max(1 .. k) = k /\ (1 .. k) \ {k} = 1 .. (k - 1)
           /\ Min(k .. n) = k /\ (k .. n) \ {k} = (k + 1) .. n
<1>1. Max(1 .. k) \in 1 .. k /\ k <= Max(1 .. k)
  <2>1. 1 .. k \in SUBSET (1 .. n) /\ 1 .. k # {} /\ k \in 1 .. k
    OBVIOUS
  <2> QED
    BY <2>1, MinMax
<1>2. Min(k .. n) \in k .. n /\ Min(k .. n) <= k
  <2>1. k .. n \in SUBSET (1 .. n) /\ k .. n # {} /\ k \in k .. n
    OBVIOUS
  <2> QED
    BY <2>1, MinMax
<1> QED
  BY <1>1, <1>2

-----------------------------------------------------------------------------
(* Picking messages *)

\* One message after the other is appended to what was picked before it.
Picking(g, c, S) ==
    /\ g[0] = <<>>
    /\ \A k \in DOMAIN c :
          g[k] = IF k \in S THEN Append(g[k - 1], c[k]) ELSE g[k - 1]

LEMMA PickSteps ==
    ASSUME NEW E, NEW c \in Seq(E), NEW S
    PROVE  \E g \in [0 .. Len(c) -> Seq(E)] :
              Picking(g, c, S) /\ g[Len(c)] = Pick(c, S)
<1> DEFINE D == Seq(E)
           n == Len(c)
           id == [i \in DOMAIN c |-> i]
           I == DOMAIN id
           Body(f, s) ==
              IF s = {} THEN <<>>
              ELSE IF id[Max(s)] \in S THEN Append(f[s \ {Max(s)}], c[id[Max(s)]])
              ELSE f[s \ {Max(s)}]
           pick == [s \in SUBSET I |-> Max(s)]
           op == [r \in I \X D |-> IF r[1] \in S THEN Append(r[2], c[r[1]]) ELSE r[2]]
           iter == CHOOSE f : f = [s \in SUBSET I |-> Body(f, s)]
<1>1. n \in Nat /\ I = 1 .. n /\ DOMAIN c = 1 .. n /\ \A i \in I : id[i] = i /\ c[i] \in E
  OBVIOUS
<1>2. Pick(c, S) = iter[I]
  BY DEF Pick, FoldLeftDomain, FoldLeft, MapThenFoldSet
<1> HIDE DEF I, id, n
<1>3. \E f : f = [s \in SUBSET I |-> Body(f, s)]
  <2>1. \A s \in SUBSET I : s # {} => Max(s) \in s /\ pick[s] = Max(s)
    BY <1>1, MinMax
  <2>2. op \in [I \X D -> D]
    <3>1. ASSUME NEW i \in I, NEW d \in D PROVE Append(d, c[i]) \in D
      BY <1>1
    <3> HIDE DEF D
    <3> QED
      BY <3>1
  <2>3. PICK f \in [SUBSET I -> D] : IsFold(f, I, <<>>, pick, op)
    <3>1. IsFiniteSet(I)
      BY <1>1, IntervalsFinite
    <3>2. <<>> \in D
      OBVIOUS
    <3> HIDE DEF D, pick, op
    <3>3. Picks(pick, I)
      BY <2>1 DEF Picks
    <3> QED
      BY <2>2, <3>1, <3>2, <3>3, FoldExists
  <2>4. ASSUME NEW s \in SUBSET I PROVE FoldStep(f, s, <<>>, pick, op) = Body(f, s)
    <3>1. s # {} => Max(s) \in I /\ f[s \ {Max(s)}] \in D
      BY <2>1
    <3> QED
      BY <1>1, <2>1, <3>1 DEF FoldStep
  <2>5. f = [s \in SUBSET I |-> Body(f, s)]
    <3> HIDE DEF pick, op, Body
    <3> QED
      BY <2>3, <2>4 DEF IsFold
  <2> QED
    BY <2>5
<1>4. \A s \in SUBSET I : iter[s] = Body(iter, s)
  <2> HIDE DEF Body
  <2>1. iter = [s \in SUBSET I |-> Body(iter, s)]
    BY <1>3
  <2> QED
    BY <2>1
<1> HIDE DEF iter
<1> DEFINE g == [k \in 0 .. n |-> iter[1 .. k]]
<1>5. g[0] = <<>>
  <2>1. 1 .. 0 = {} /\ 0 \in 0 .. n
    BY <1>1
  <2> QED
    BY <1>4, <2>1
<1>6. ASSUME NEW k \in 1 .. n
      PROVE  g[k] = IF k \in S THEN Append(g[k - 1], c[k]) ELSE g[k - 1]
  <2>1. /\ 1 .. k # {} /\ 1 .. k \in SUBSET I /\ k \in I
        /\ Max(1 .. k) = k /\ (1 .. k) \ {k} = 1 .. (k - 1)
    BY <1>1, EndsOfIntervals
  <2>2. iter[1 .. k] = IF k \in S THEN Append(iter[1 .. (k - 1)], c[k])
                       ELSE iter[1 .. (k - 1)]
    <3>1. iter[1 .. k] = Body(iter, 1 .. k) /\ id[k] = k
      BY <1>1, <1>4, <2>1
    <3> QED
      BY <2>1, <3>1
  <2>3. g[k] = iter[1 .. k] /\ g[k - 1] = iter[1 .. (k - 1)]
    BY <1>1
  <2> QED
    BY <2>2, <2>3
<1>7. \A k \in Nat : k <= n => g[k] \in D
  <2> DEFINE T == {k \in Nat : k <= n => g[k] \in D}
  <2> HIDE DEF g
  <2>1. 0 \in T
    <3>1. <<>> \in D
      OBVIOUS
    <3> QED
      BY <1>5, <3>1
  <2>2. ASSUME NEW k \in Nat, k \in T PROVE k + 1 \in T
    <3> SUFFICES ASSUME k + 1 <= n PROVE g[k + 1] \in D
      OBVIOUS
    <3>1. k + 1 \in 1 .. n /\ (k + 1) - 1 = k /\ g[k] \in D
      BY <1>1, <2>2
    <3>2. g[k + 1] = IF k + 1 \in S THEN Append(g[k], c[k + 1]) ELSE g[k]
      BY <1>6, <3>1
    <3>3. Append(g[k], c[k + 1]) \in D
      BY <1>1, <3>1
    <3> QED
      BY <3>1, <3>2, <3>3
  <2> HIDE DEF T
  <2>3. \A k \in Nat : k \in T
    BY <2>1, <2>2, Ascend
  <2> QED
    BY <2>3 DEF T
<1>8. g \in [0 .. n -> D] /\ g[n] = iter[I]
  BY <1>1, <1>7
<1> HIDE DEF g, D
<1>9. Picking(g, c, S)
  BY <1>1, <1>5, <1>6 DEF Picking
<1> QED
  BY <1>2, <1>8, <1>9 DEF n, D

\* d is made of the messages of c at S, each of them once and in order.
Picked(d, c, S) ==
    /\ Len(d) = Cardinality(S)
    /\ \E index \in [DOMAIN d -> S] :
          /\ \A i, j \in DOMAIN d : i < j => index[i] < index[j]
          /\ \A i \in DOMAIN d : d[i] = c[index[i]]
          /\ \A x \in S : \E i \in DOMAIN d : index[i] = x

LEMMA PickedNext ==
    ASSUME NEW E, NEW c \in Seq(E), NEW k \in DOMAIN c, NEW S \in SUBSET (1 .. (k - 1)),
           NEW d \in Seq(E), Picked(d, c, S)
    PROVE  Picked(Append(d, c[k]), c, S \cup {k})
<1> DEFINE e == Append(d, c[k])
           n == Len(d)
<1>1. /\ n \in Nat /\ DOMAIN d = 1 .. n /\ DOMAIN e = 1 .. (n + 1) /\ Len(e) = n + 1
      /\ e[n + 1] = c[k] /\ \A i \in DOMAIN d : e[i] = d[i]
  OBVIOUS
<1>2. k \in Nat /\ k - 1 \in Nat /\ \A x \in S : x < k
  OBVIOUS
<1>3. Len(e) = Cardinality(S \cup {k})
  <2>1. IsFiniteSet(S) /\ k \notin S
    <3>1. k \notin S
      BY <1>2
    <3>2. \A m \in Nat : S \in SUBSET (1 .. m) => IsFiniteSet(S)
      BY IntervalsFinite
    <3> QED
      BY <1>2, <3>1, <3>2
  <2>2. Cardinality(S \cup {k}) = Cardinality(S) + 1
    BY <2>1, FS_AddElement
  <2> QED
    BY <1>1, <2>2 DEF Picked
<1>4. PICK index \in [DOMAIN d -> S] :
         /\ \A i, j \in DOMAIN d : i < j => index[i] < index[j]
         /\ \A i \in DOMAIN d : d[i] = c[index[i]]
         /\ \A x \in S : \E i \in DOMAIN d : index[i] = x
  BY DEF Picked
<1> HIDE DEF e, n
<1> DEFINE f == [i \in DOMAIN e |-> IF i = n + 1 THEN k ELSE index[i]]
<1>5. /\ f \in [DOMAIN e -> S \cup {k}] /\ f[n + 1] = k
      /\ \A i \in DOMAIN d : i \in DOMAIN e /\ f[i] = index[i] /\ f[i] \in S
  BY <1>1, <1>4
<1> HIDE DEF f
<1>6. ASSUME NEW i \in DOMAIN e, NEW j \in DOMAIN e, i < j PROVE f[i] < f[j]
  <2>1. i \in DOMAIN d /\ (j \in DOMAIN d \/ j = n + 1)
    BY <1>1, <1>6
  <2> QED
    BY <1>2, <1>4, <1>5, <1>6, <2>1
<1>7. ASSUME NEW i \in DOMAIN e PROVE e[i] = c[f[i]]
  <2>1. i \in DOMAIN d \/ i = n + 1
    BY <1>1
  <2> QED
    BY <1>1, <1>4, <1>5, <2>1
<1>8. ASSUME NEW x \in S \cup {k} PROVE \E i \in DOMAIN e : f[i] = x
  <2>1. CASE x = k
    BY <1>1, <1>5, <2>1
  <2>2. CASE x \in S
    BY <1>4, <1>5, <2>2
  <2> QED
    BY <2>1, <2>2
<1> QED
  BY <1>3, <1>5, <1>6, <1>7, <1>8 DEF Picked, e

\* Pick returns the messages at S, in order and at their price.
LEMMA PickFacts ==
    ASSUME NEW E, NEW c \in Seq(E), Sized(c), NEW S \in SUBSET DOMAIN c
    PROVE  LET d == Pick(c, S)
           IN  d \in Seq(E) /\ Picked(d, c, S) /\ Sized(d) /\ Cost(d) = CostAt(c, S)
<1> DEFINE n == Len(c)
           upto(k) == S \cap (1 .. k)
<1>1. n \in Nat /\ DOMAIN c = 1 .. n
  OBVIOUS
<1>2. PICK g \in [0 .. n -> Seq(E)] : Picking(g, c, S) /\ g[n] = Pick(c, S)
  BY PickSteps
<1> HIDE DEF n
<1> DEFINE OK(k) == Picked(g[k], c, upto(k)) /\ Sized(g[k]) /\ Cost(g[k]) = CostAt(c, upto(k))
           T == {k \in Nat : k <= n => OK(k)}
<1>3. OK(0)
  <2>1. upto(0) = {} /\ g[0] = <<>>
    BY <1>2 DEF Picking
  <2>2. Picked(<<>>, c, {})
    <3> DEFINE f == [i \in DOMAIN <<>> |-> 0]
    <3>1. f \in [DOMAIN <<>> -> {}]
      OBVIOUS
    <3> QED
      BY <3>1, FS_EmptySet DEF Picked
  <2>3. Sized(<<>>)
    BY DEF Sized
  <2>4. Cost(<<>>) = 0 /\ CostAt(c, {}) = 0
    <3>1. <<>> \in Seq(E) /\ DOMAIN <<>> = {}
      OBVIOUS
    <3>2. CostAt(<<>>, {}) = 0 /\ CostAt(c, {}) = 0
      BY <2>3, <3>1, CostFacts
    <3> QED
      BY <3>1, <3>2 DEF Cost
  <2> QED
    BY <2>1, <2>2, <2>3, <2>4
<1>4. ASSUME NEW k \in Nat, k + 1 <= n, OK(k) PROVE OK(k + 1)
  <2> DEFINE j == k + 1
  <2>1. j \in DOMAIN c /\ k = j - 1 /\ g[k] \in Seq(E) /\ k \in 0 .. n /\ c[j] \in E
    BY <1>1, <1>2, <1>4
  <2>2. g[j] = IF j \in S THEN Append(g[k], c[j]) ELSE g[k]
    BY <1>2, <2>1 DEF Picking
  <2>3. CASE j \notin S
    <3>1. upto(j) = upto(k)
      BY <2>3
    <3> QED
      BY <1>4, <2>2, <2>3, <3>1
  <2>4. CASE j \in S
    <3>1. upto(j) = upto(k) \cup {j} /\ upto(k) = upto(j) \ {j} /\ j \in upto(j)
      BY <2>1, <2>4
    <3>2. upto(k) \in SUBSET (1 .. (j - 1)) /\ upto(j) \in SUBSET DOMAIN c
          /\ upto(k) \in SUBSET DOMAIN c
      BY <2>1
    <3> HIDE DEF upto, j
    <3>3. Picked(g[j], c, upto(j))
      BY <1>4, <2>1, <2>2, <2>4, <3>1, <3>2, PickedNext
    <3>4. c[j].size \in Nat
      BY <2>1 DEF Sized
    <3>5. Sized(g[j]) /\ Cost(g[j]) = Cost(g[k]) + c[j].size
      BY <1>4, <2>1, <2>2, <2>4, <3>4, CostAppend
    <3>6. CostAt(c, upto(j)) = c[j].size + CostAt(c, upto(k)) /\ CostAt(c, upto(k)) \in Int
      BY <3>1, <3>2, CostFacts
    <3> QED
      BY <1>4, <3>3, <3>4, <3>5, <3>6 DEF j
  <2> QED
    BY <2>3, <2>4
<1>5. OK(n)
  <2> HIDE DEF OK
  <2>1. 0 \in T
    BY <1>3
  <2>2. \A k \in Nat : k \in T => k + 1 \in T
    BY <1>1, <1>4
  <2>3. n \in T
    <3> HIDE DEF T
    <3> QED
      BY <1>1, <2>1, <2>2, Ascend
  <2> QED
    BY <1>1, <2>3
<1>6. upto(n) = S /\ g[n] \in Seq(E)
  BY <1>1, <1>2
<1> QED
  BY <1>2, <1>5, <1>6

-----------------------------------------------------------------------------
(* The greedy walk *)

Walks(c) == [kept : SUBSET DOMAIN c, budget : Int]

Admit(c, i, walk) ==
    IF i \in walk.kept \/ c[i].size > walk.budget THEN walk
    ELSE [kept |-> walk.kept \cup {i}, budget |-> walk.budget - c[i].size]

\* The walk goes from the newest message to the oldest.
Walking(w, c, max) ==
    /\ w[Len(c) + 1] = [kept |-> Protected(c), budget |-> max - CostAt(c, Protected(c))]
    /\ \A k \in DOMAIN c : w[k] = Admit(c, k, w[k + 1])

LEMMA KeepSteps ==
    ASSUME NEW E, NEW c \in Seq(E), Sized(c), NEW max \in Int
    PROVE  \E w \in [1 .. (Len(c) + 1) -> Walks(c)] :
              Walking(w, c, max) /\ w[1].kept = Keep(c, max)
<1> DEFINE D == Walks(c)
           n == Len(c)
           base == [kept |-> Protected(c), budget |-> max - CostAt(c, Protected(c))]
           id == [i \in DOMAIN c |-> i]
           I == DOMAIN id
           Body(f, s) ==
              IF s = {} THEN base ELSE Admit(c, id[Min(s)], f[s \ {Min(s)}])
           pick == [s \in SUBSET I |-> Min(s)]
           op == [r \in I \X D |-> Admit(c, r[1], r[2])]
           iter == CHOOSE f : f = [s \in SUBSET I |-> Body(f, s)]
<1>1. n \in Nat /\ I = 1 .. n /\ DOMAIN c = 1 .. n
      /\ \A i \in I : id[i] = i /\ c[i].size \in Nat
  BY DEF Sized
<1>2. Keep(c, max) = iter[I].kept
  BY DEF Keep, FoldRightDomain, FoldRight, MapThenFoldSet, Admit
<1>3. base \in D
  BY CostFacts DEF Walks, Protected
<1>4. ASSUME NEW i \in I, NEW walk \in D PROVE Admit(c, i, walk) \in D
  BY <1>1, <1>4 DEF Walks, Admit
<1> HIDE DEF I, id, n, base, D
<1>5. \E f : f = [s \in SUBSET I |-> Body(f, s)]
  <2>1. \A s \in SUBSET I : s # {} => Min(s) \in s /\ pick[s] = Min(s)
    BY <1>1, MinMax
  <2>2. op \in [I \X D -> D]
    BY <1>4
  <2>3. PICK f \in [SUBSET I -> D] : IsFold(f, I, base, pick, op)
    <3>1. IsFiniteSet(I)
      BY <1>1, IntervalsFinite
    <3> HIDE DEF pick, op
    <3>2. Picks(pick, I)
      BY <2>1 DEF Picks
    <3> QED
      BY <1>3, <2>2, <3>1, <3>2, FoldExists
  <2>4. ASSUME NEW s \in SUBSET I PROVE FoldStep(f, s, base, pick, op) = Body(f, s)
    <3>1. s # {} => Min(s) \in I /\ f[s \ {Min(s)}] \in D
      BY <2>1
    <3> QED
      BY <1>1, <2>1, <3>1 DEF FoldStep
  <2>5. f = [s \in SUBSET I |-> Body(f, s)]
    <3> HIDE DEF pick, op, Body
    <3> QED
      BY <2>3, <2>4 DEF IsFold
  <2> QED
    BY <2>5
<1>6. \A s \in SUBSET I : iter[s] = Body(iter, s)
  <2> HIDE DEF Body
  <2>1. iter = [s \in SUBSET I |-> Body(iter, s)]
    BY <1>5
  <2> QED
    BY <2>1
<1> HIDE DEF iter
<1> DEFINE w == [k \in 1 .. (n + 1) |-> iter[k .. n]]
<1>7. w[n + 1] = base
  <2>1. (n + 1) .. n = {} /\ n + 1 \in 1 .. (n + 1)
    BY <1>1
  <2> QED
    BY <1>6, <2>1
<1>8. ASSUME NEW k \in 1 .. n PROVE w[k] = Admit(c, k, w[k + 1])
  <2>0. k \in k .. n /\ k .. n \subseteq 1 .. n
    BY <1>1
  <2>1. /\ k .. n # {} /\ k .. n \in SUBSET I /\ k \in I
        /\ Min(k .. n) = k /\ (k .. n) \ {k} = (k + 1) .. n
    BY <1>1, <2>0, EndsOfIntervals
  <2>2. iter[k .. n] = Body(iter, k .. n) /\ id[k] = k
    BY <1>1, <1>6, <2>1
  <2>3. iter[k .. n] = Admit(c, k, iter[(k + 1) .. n])
    BY <2>1, <2>2
  <2>4. w[k] = iter[k .. n] /\ w[k + 1] = iter[(k + 1) .. n]
    BY <1>1
  <2> QED
    BY <2>3, <2>4
<1>9. \A k \in 1 .. (n + 1) : w[k] \in D
  <2> DEFINE T == {k \in 1 .. (n + 1) : w[k] \in D}
  <2> HIDE DEF w
  <2>1. n + 1 \in T
    BY <1>1, <1>3, <1>7
  <2>2. ASSUME NEW k \in 1 .. n, k + 1 \in T PROVE k \in T
    <3>1. k \in 1 .. (n + 1) /\ k \in I /\ w[k + 1] \in D
      BY <1>1, <2>2
    <3> QED
      BY <1>4, <1>8, <3>1
  <2> HIDE DEF T
  <2>3. \A k \in 1 .. (n + 1) : k \in T
    BY <1>1, <2>1, <2>2, Descend
  <2> QED
    BY <2>3 DEF T
<1>10. w \in [1 .. (n + 1) -> D] /\ w[1] = iter[I]
  BY <1>1, <1>9
<1> HIDE DEF w
<1>11. Walking(w, c, max)
  BY <1>1, <1>7, <1>8 DEF Walking, n, base
<1> QED
  BY <1>2, <1>10, <1>11 DEF n, D

\* What a message at i has to fit beside: what is protected and what is kept of
\* the messages newer than it.
Before(c, kept, i) == Protected(c) \cup {j \in kept : j > i}

\* The walk keeps what is protected, stays within the budget where what is
\* protected does, and leaves a message only where it does not fit beside what is
\* protected and the newer messages that are kept.
LEMMA KeepFacts ==
    ASSUME NEW E, NEW c \in Seq(E), Sized(c), NEW max \in Int
    PROVE  LET kept == Keep(c, max)
           IN /\ Protected(c) \subseteq kept /\ kept \subseteq DOMAIN c
              /\ CostAt(c, Protected(c)) <= max => CostAt(c, kept) <= max
              /\ \A i \in (DOMAIN c) \ kept :
                    CostAt(c, Before(c, kept, i)) + c[i].size > max
<1> DEFINE n == Len(c)
<1>1. n \in Nat /\ DOMAIN c = 1 .. n /\ \A i \in 1 .. n : c[i].size \in Nat
  BY DEF Sized
<1>2. PICK w \in [1 .. (n + 1) -> Walks(c)] : Walking(w, c, max) /\ w[1].kept = Keep(c, max)
  BY KeepSteps
<1> HIDE DEF n
<1> DEFINE Unfit(k) == \A i \in k .. n : i \notin w[k].kept =>
                          CostAt(c, Before(c, w[k].kept, i)) + c[i].size > max
           OK(k) ==
              /\ Protected(c) \subseteq w[k].kept
              /\ w[k].kept \subseteq Protected(c) \cup (k .. n)
              /\ CostAt(c, w[k].kept) + w[k].budget = max
              /\ CostAt(c, Protected(c)) <= max => w[k].budget >= 0
              /\ Unfit(k)
<1>3. OK(n + 1)
  <2>1. w[n + 1].kept = Protected(c) /\ w[n + 1].budget = max - CostAt(c, Protected(c))
    BY <1>2 DEF Walking, n
  <2>2. CostAt(c, Protected(c)) \in Int /\ (n + 1) .. n = {}
    BY <1>1, CostFacts DEF Protected
  <2> QED
    BY <2>1, <2>2
<1>4. ASSUME NEW k \in 1 .. n, OK(k + 1) PROVE OK(k)
  <2> DEFINE v == w[k + 1]
  <2>1. /\ w[k] = Admit(c, k, v) /\ v.kept \in SUBSET DOMAIN c /\ v.budget \in Int
        /\ c[k].size \in Nat /\ k \in DOMAIN c /\ v \in Walks(c)
    <3>1. v \in Walks(c)
      BY <1>1, <1>2
    <3> QED
      BY <1>1, <1>2, <3>1 DEF Walking, Walks
  <2>2. \A i \in k .. n : i = k \/ (i \in (k + 1) .. n /\ k < i)
    BY <1>1
  <2>3. v.kept \subseteq Protected(c) \cup (k .. n)
    BY <1>1, <1>4
  <2>4. CASE k \in v.kept \/ c[k].size > v.budget
    <3>1. w[k] = v
      BY <2>1, <2>4 DEF Admit
    <3>2. ASSUME k \notin v.kept
          PROVE  CostAt(c, Before(c, v.kept, k)) + c[k].size > max
      <4>1. Before(c, v.kept, k) = v.kept
        BY <1>1, <1>4, <3>2 DEF Before
      <4>2. CostAt(c, v.kept) \in Int /\ CostAt(c, v.kept) + v.budget = max
        BY <1>4, <2>1, CostFacts
      <4> QED
        BY <2>1, <2>4, <3>2, <4>1, <4>2
    <3>3. Unfit(k)
      BY <1>4, <2>2, <3>1, <3>2
    <3> HIDE DEF Unfit
    <3> QED
      BY <1>4, <2>3, <3>1, <3>3
  <2>5. CASE ~(k \in v.kept \/ c[k].size > v.budget)
    <3>1. w[k].kept = v.kept \cup {k} /\ w[k].budget = v.budget - c[k].size
      BY <2>1, <2>5 DEF Admit
    <3>2. /\ CostAt(c, v.kept \cup {k}) = c[k].size + CostAt(c, v.kept)
          /\ CostAt(c, v.kept) \in Int
      <4>1. v.kept \cup {k} \in SUBSET DOMAIN c /\ (v.kept \cup {k}) \ {k} = v.kept
        BY <2>1, <2>5
      <4>2. \A S \in SUBSET DOMAIN c : \A x \in S :
               CostAt(c, S) = c[x].size + CostAt(c, S \ {x})
        BY CostFacts
      <4>3. CostAt(c, v.kept) \in Int
        BY <2>1, CostFacts
      <4> QED
        BY <4>1, <4>2, <4>3
    <3>3. Unfit(k)
      <4> SUFFICES ASSUME NEW i \in k .. n, i \notin w[k].kept
                   PROVE  CostAt(c, Before(c, w[k].kept, i)) + c[i].size > max
        BY Zenon
      <4>1. i \in (k + 1) .. n /\ k < i /\ i \notin v.kept /\ i \in Nat /\ k \in Nat
        BY <1>1, <2>2, <3>1
      <4>2. Before(c, w[k].kept, i) = Before(c, v.kept, i)
        BY <1>1, <3>1, <4>1 DEF Before
      <4> QED
        BY <1>4, <4>1, <4>2
    <3> HIDE DEF v, Unfit
    <3>4. /\ Protected(c) \subseteq w[k].kept
          /\ w[k].kept \subseteq Protected(c) \cup (k .. n)
      BY <1>1, <1>4, <2>3, <3>1 DEF v
    <3>5. /\ CostAt(c, w[k].kept) + w[k].budget = max
          /\ CostAt(c, Protected(c)) <= max => w[k].budget >= 0
      BY <1>4, <2>1, <2>5, <3>1, <3>2 DEF v
    <3> QED
      BY <3>3, <3>4, <3>5
  <2> QED
    BY <2>4, <2>5
<1>5. OK(1)
  <2> DEFINE T == {k \in 1 .. (n + 1) : OK(k)}
  <2> HIDE DEF OK
  <2>1. n + 1 \in T
    BY <1>1, <1>3
  <2>2. ASSUME NEW k \in 1 .. n, k + 1 \in T PROVE k \in T
    BY <1>1, <1>4, <2>2
  <2>3. 1 \in T
    <3> HIDE DEF T
    <3>1. \A k \in 1 .. (n + 1) : k \in T
      BY <1>1, <2>1, <2>2, Descend
    <3> QED
      BY <1>1, <3>1
  <2> QED
    BY <2>3
<1>6. w[1].kept \in SUBSET DOMAIN c /\ w[1].budget \in Int /\ CostAt(c, w[1].kept) \in Int
  <2>1. w[1] \in Walks(c)
    BY <1>1, <1>2
  <2> QED
    BY <2>1, CostFacts DEF Walks
<1> QED
  BY <1>1, <1>2, <1>5, <1>6

-----------------------------------------------------------------------------
(* compact_context *)

\* What compaction does when it drops something.
Compacted(c, max, r) ==
    /\ r.context # c /\ r.dropped # <<>>
    /\ Sized(r.context) /\ Sized(r.dropped)
    /\ Len(c) = Len(r.context) + Len(r.dropped)
    /\ Cost(r.context) <= max
    /\ \E kept \in SUBSET DOMAIN c :
          /\ Protected(c) \subseteq kept
          /\ \A i \in (DOMAIN c) \ kept :
                CostAt(c, Before(c, kept, i)) + c[i].size > max
          /\ Picked(r.context, c, kept)
          /\ Picked(r.dropped, c, (DOMAIN c) \ kept)

\* Whatever the conversation and the budget, one of four things happens.
LEMMA CompactFacts ==
    ASSUME NEW E, NEW c \in Seq(E), Sized(c), NEW max \in Int
    PROVE  LET r == Compact(c, max)
           IN /\ r.outcome \in {"usage", "unchanged", "refused", "broken", "compacted"}
              /\ r.context \in Seq(E) /\ r.dropped \in Seq(E)
              /\ r.outcome # "compacted" => r.context = c /\ r.dropped = <<>>
              /\ r.outcome = "refused" => CostAt(c, Protected(c)) > max
              /\ r.outcome = "compacted" => ~Fits(c, max) /\ Compacted(c, max, r)
<1> DEFINE r == Compact(c, max)
           kept == Keep(c, max)
           lost == (DOMAIN c) \ kept
           d == Pick(c, kept)
           e == Pick(c, lost)
<1>1. /\ Protected(c) \subseteq kept /\ kept \in SUBSET DOMAIN c
      /\ CostAt(c, Protected(c)) <= max => CostAt(c, kept) <= max
      /\ \A i \in lost : CostAt(c, Before(c, kept, i)) + c[i].size > max
  BY KeepFacts
<1>2. lost \in SUBSET DOMAIN c
  OBVIOUS
<1> HIDE DEF kept
<1>3. d \in Seq(E) /\ Picked(d, c, kept) /\ Sized(d) /\ Cost(d) = CostAt(c, kept)
  BY <1>1, PickFacts
<1>4. e \in Seq(E) /\ Picked(e, c, lost) /\ Sized(e)
  BY <1>2, PickFacts
<1> HIDE DEF lost, d, e
<1>5. \/ /\ r.outcome \in {"usage", "unchanged", "broken"}
         /\ r.context = c /\ r.dropped = <<>>
      \/ /\ r.outcome = "refused" /\ r.context = c /\ r.dropped = <<>>
         /\ CostAt(c, Protected(c)) > max
      \/ /\ r.outcome = "compacted" /\ r.context = d /\ r.dropped = e
         /\ ~Fits(c, max) /\ ~(CostAt(c, Protected(c)) > max)
  <2>1. r = CASE max <= 0 -> Left("usage", c)
              [] max > 0 /\ Fits(c, max) -> Left("unchanged", c)
              [] /\ max > 0 /\ ~Fits(c, max)
                 /\ CostAt(c, Protected(c)) > max -> Left("refused", c)
              [] OTHER ->
                   IF Quotable(e)
                   THEN [outcome |-> "compacted", context |-> d, dropped |-> e]
                   ELSE Left("broken", c)
    BY DEF Compact, kept, lost, d, e
  <2> HIDE DEF r
  <2> QED
    BY <2>1 DEF Left
<1> HIDE DEF r
<1>6. CostAt(c, Protected(c)) \in Int
  BY CostFacts DEF Protected
<1>7. ASSUME r.outcome = "compacted" PROVE Compacted(c, max, r)
  <2>1. /\ r.context = d /\ r.dropped = e /\ ~Fits(c, max)
        /\ CostAt(c, Protected(c)) <= max
    BY <1>5, <1>6, <1>7
  <2>2. Cost(r.context) <= max
    BY <1>1, <1>3, <2>1
  <2>3. Len(c) = Len(d) + Len(e)
    <3>1. IsFiniteSet(DOMAIN c) /\ Cardinality(DOMAIN c) = Len(c)
      <4>1. DOMAIN c = 1 .. Len(c) /\ Len(c) \in Nat
        OBVIOUS
      <4> QED
        BY <4>1, FS_Interval
    <3>2. kept \cap lost = {} /\ kept \cup lost = DOMAIN c
      BY <1>1 DEF lost
    <3>3. IsFiniteSet(kept) /\ IsFiniteSet(lost)
      BY <1>1, <1>2, <3>1, FS_Subset DEF lost
    <3>4. Cardinality(DOMAIN c) = Cardinality(kept) + Cardinality(lost) - Cardinality({})
      <4>1. Cardinality(kept \cup lost)
              = Cardinality(kept) + Cardinality(lost) - Cardinality(kept \cap lost)
        BY <3>3, FS_Union
      <4> QED
        BY <3>2, <4>1, Zenon
    <3>5. Cardinality(kept) \in Nat /\ Cardinality(lost) \in Nat /\ Cardinality({}) = 0
      BY <3>3, FS_CardinalityType, FS_EmptySet
    <3>6. Len(d) = Cardinality(kept) /\ Len(e) = Cardinality(lost)
      BY <1>3, <1>4 DEF Picked
    <3> QED
      BY <3>1, <3>2, <3>4, <3>5, <3>6
  <2>4. e # <<>>
    <3> SUFFICES ASSUME e = <<>> PROVE FALSE
      OBVIOUS
    <3>1. lost = {}
      BY <1>4 DEF Picked
    <3>2. kept = DOMAIN c
      BY <1>1, <3>1 DEF lost
    <3> QED
      BY <1>1, <2>1, <3>2, <1>3, <2>2 DEF Fits, Cost
  <2>5. d # c
    BY <1>4, <2>3, <2>4
  <2> QED
    BY <1>1, <1>3, <1>4, <2>1, <2>2, <2>3, <2>4, <2>5 DEF Compacted, lost
<1>8. /\ r.outcome \in {"usage", "unchanged", "refused", "broken", "compacted"}
      /\ r.context \in Seq(E) /\ r.dropped \in Seq(E)
      /\ r.outcome # "compacted" => r.context = c /\ r.dropped = <<>>
      /\ r.outcome = "refused" => CostAt(c, Protected(c)) > max
      /\ r.outcome = "compacted" => ~Fits(c, max)
  <2>1. <<>> \in Seq(E)
    OBVIOUS
  <2>2. CASE r.outcome = "compacted"
    BY <1>3, <1>4, <1>5, <2>2
  <2>3. CASE r.outcome # "compacted"
    BY <1>5, <2>1, <2>3
  <2> QED
    BY <2>2, <2>3
<1> QED
  BY <1>7, <1>8 DEF r

=============================================================================
