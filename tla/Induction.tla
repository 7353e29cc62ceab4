------------------------------ MODULE Induction ------------------------------
(***************************************************************************)
(* The induction that the proofs about folds and walks rest on.  The       *)
(* theorems of the library take the formula to prove as an operator; these *)
(* take it as a set, the numbers or points for which it holds.             *)
(***************************************************************************)
EXTENDS Naturals, Sequences, WellFoundedInduction, TLAPS

\* A set of numbers has a least element.
LEMMA Least ==
    ASSUME NEW T \in SUBSET Nat, T # {}
    PROVE  \E n \in T : \A m \in T : n <= m
<1> DEFINE less == {r \in Nat \X Nat : r[1] < r[2]}
<1>1. IsWellFoundedOn(less, Nat)
  BY NatLessThanWellFounded DEF OpToRel
<1>2. PICK n \in T : \A m \in T : ~(<<m, n>> \in less)
  <2> HIDE DEF less
  <2> QED
    BY <1>1, WFMin
<1>3. ASSUME NEW m \in T PROVE n <= m
  <2>1. m \in Nat /\ n \in Nat /\ <<m, n>> \notin less
    BY <1>2
  <2> QED
    BY <2>1
<1> QED
  BY <1>3

\* A set with 0, and with the successor of each number in it, has every number.
LEMMA Ascend ==
    ASSUME NEW T, 0 \in T, \A n \in Nat : n \in T => n + 1 \in T
    PROVE  \A n \in Nat : n \in T
<1> SUFFICES ASSUME Nat \ T # {} PROVE FALSE
  OBVIOUS
<1>1. PICK n \in Nat \ T : \A m \in Nat \ T : n <= m
  BY Least
<1>2. n # 0 /\ n - 1 \in Nat
  BY <1>1
<1>3. n - 1 \in T
  BY <1>1, <1>2
<1> QED
  BY <1>1, <1>2, <1>3

\* The same downwards, from n + 1 to 1.
LEMMA Descend ==
    ASSUME NEW n \in Nat, NEW T, n + 1 \in T, \A k \in 1 .. n : k + 1 \in T => k \in T
    PROVE  \A k \in 1 .. (n + 1) : k \in T
<1> DEFINE U == {j \in Nat : j <= n => n + 1 - j \in T}
<1>1. 0 \in U
  OBVIOUS
<1>2. ASSUME NEW j \in Nat, j \in U PROVE j + 1 \in U
  <2> SUFFICES ASSUME j + 1 <= n PROVE n + 1 - (j + 1) \in T
    OBVIOUS
  <2>1. n - j \in 1 .. n /\ n + 1 - (j + 1) = n - j /\ n + 1 - j = (n - j) + 1
    OBVIOUS
  <2>2. n + 1 - j \in T
    BY <1>2
  <2> QED
    BY <2>1, <2>2
<1>3. \A j \in Nat : j \in U
  <2> HIDE DEF U
  <2> QED
    BY <1>1, <1>2, Ascend
<1>4. ASSUME NEW k \in 1 .. (n + 1) PROVE k \in T
  <2>1. n + 1 - k \in Nat /\ n + 1 - k <= n /\ n + 1 - (n + 1 - k) = k
    OBVIOUS
  <2> QED
    BY <1>3, <2>1
<1> QED
  BY <1>4

\* A nonempty set of numbers up to n has a greatest element.
LEMMA Greatest ==
    ASSUME NEW n \in Nat, NEW T \in SUBSET (0 .. n), T # {}
    PROVE  \E k \in T : \A i \in T : i <= k
<1> DEFINE Turned == {n - i : i \in T}
<1>1. Turned \in SUBSET Nat /\ Turned # {}
  <2>1. \A i \in T : n - i \in Nat
    OBVIOUS
  <2> QED
    BY <2>1
<1>2. PICK r \in Turned : \A q \in Turned : r <= q
  <2> HIDE DEF Turned
  <2> QED
    BY <1>1, Least
<1>3. PICK k \in T : r = n - k
  BY <1>2
<1>4. ASSUME NEW i \in T PROVE i <= k
  <2>1. n - k <= n - i
    BY <1>2, <1>3
  <2>2. i \in 0 .. n /\ k \in 0 .. n
    OBVIOUS
  <2> QED
    BY <2>1, <2>2
<1> QED
  BY <1>4

\* A set that has each point of D as soon as it has those of smaller measure.
LEMMA Descends ==
    ASSUME NEW D, NEW m \in [D -> Nat], NEW T,
           \A x \in D : (\A y \in D : m[y] < m[x] => y \in T) => x \in T
    PROVE  \A x \in D : x \in T
<1> SUFFICES ASSUME NEW z \in D, z \notin T PROVE FALSE
  OBVIOUS
<1> DEFINE W == {m[x] : x \in D \ T}
<1>1. W \in SUBSET Nat /\ W # {}
  OBVIOUS
<1>2. PICK n \in W : \A k \in W : n <= k
  <2> HIDE DEF W
  <2> QED
    BY <1>1, Least
<1>3. PICK x \in D \ T : n = m[x]
  BY <1>2
<1>4. ASSUME NEW y \in D, m[y] < m[x] PROVE y \in T
  <2>1. m[y] \in Nat /\ m[x] \in Nat
    OBVIOUS
  <2>2. y \notin T => m[y] \in W
    OBVIOUS
  <2> QED
    BY <1>2, <1>3, <1>4, <2>1, <2>2
<1> QED
  BY <1>3, <1>4

\* A set of numbers that has 0, and n + 1 as soon as n, up to N.
LEMMA Ascends ==
    ASSUME NEW N \in Nat, NEW T, 0 \in T, \A n \in 0 .. (N - 1) : n \in T => n + 1 \in T
    PROVE  \A n \in 0 .. N : n \in T
<1> DEFINE m == [n \in 0 .. N |-> n]
<1>1. m \in [0 .. N -> Nat]
  OBVIOUS
<1>2. ASSUME NEW x \in 0 .. N, \A y \in 0 .. N : m[y] < m[x] => y \in T
      PROVE  x \in T
  <2>1. CASE x = 0
    BY <2>1
  <2>2. CASE x # 0
    <3>1. x - 1 \in 0 .. (N - 1) /\ x - 1 \in 0 .. N /\ (x - 1) + 1 = x /\ m[x - 1] < m[x]
      BY <2>2
    <3> QED
      BY <1>2, <3>1
  <2> QED
    BY <2>1, <2>2
<1> HIDE DEF m
<1>3. \A x \in 0 .. N : (\A y \in 0 .. N : m[y] < m[x] => y \in T) => x \in T
  BY <1>2
<1> DEFINE D == 0 .. N
<1> HIDE DEF D
<1>4. m \in [D -> Nat] /\ \A x \in D : (\A y \in D : m[y] < m[x] => y \in T) => x \in T
  BY <1>1, <1>3 DEF D
<1>5. \A x \in D : x \in T
  BY <1>4, Descends
<1> QED
  BY <1>5 DEF D

\* A function that asks at most one point of smaller measure.
AsksFrom(f, D, stop, base, next, op) ==
    \A x \in D : f[x] = IF x \in stop THEN base[x] ELSE op[x, f[next[x]]]

LEMMA UnfoldsFrom ==
    ASSUME NEW D, NEW most \in Nat, NEW m \in [D -> 0 .. most], NEW V, NEW stop, NEW base \in [D -> V],
           NEW next,
           \A x \in D \ stop : next[x] \in D /\ m[next[x]] < m[x],
           NEW op \in [D \X V -> V]
    PROVE  \E f \in [D -> V] : AsksFrom(f, D, stop, base, next, op)
<1> DEFINE Under(n) == {x \in D : m[x] < n}
           Value(f, x) == IF x \in stop THEN base[x] ELSE op[x, f[next[x]]]
           T == {n \in Nat : \E f \in [Under(n) -> V] : AsksFrom(f, Under(n), stop, base, next, op)}
<1>1. 0 \in T
  <2>1. Under(0) = {}
    OBVIOUS
  <2>2. \E f : f \in [{} -> V]
    <3>1. [x \in {} |-> base] \in [{} -> V]
      OBVIOUS
    <3> QED
      BY <3>1
  <2> QED
    BY <2>1, <2>2 DEF AsksFrom
<1>2. ASSUME NEW n \in Nat, n \in T PROVE n + 1 \in T
  <2>1. PICK f \in [Under(n) -> V] : AsksFrom(f, Under(n), stop, base, next, op)
    BY <1>2
  <2> DEFINE g == [x \in Under(n + 1) |-> Value(f, x)]
  <2>2. ASSUME NEW x \in Under(n + 1), x \notin stop
        PROVE  x \in D /\ next[x] \in Under(n)
    <3>1. x \in D /\ m[x] \in Nat /\ m[x] < n + 1 /\ next[x] \in D /\ m[next[x]] \in Nat
          /\ m[next[x]] < m[x]
      BY <2>2
    <3> QED
      BY <3>1
  <2>3. \A x \in Under(n) : x \in Under(n + 1)
    <3> SUFFICES ASSUME NEW x \in Under(n) PROVE m[x] < n + 1
      OBVIOUS
    <3>1. m[x] \in Nat /\ m[x] < n
      OBVIOUS
    <3> QED
      BY <3>1
  <2> HIDE DEF Under
  <2>4. ASSUME NEW x \in Under(n) PROVE g[x] = f[x]
    BY <2>1, <2>3 DEF AsksFrom
  <2>5. ASSUME NEW x \in Under(n + 1) PROVE g[x] \in V
    <3>1. CASE x \in stop
      <4>1. x \in D
        BY DEF Under
      <4> QED
        BY <3>1, <4>1
    <3>2. CASE x \notin stop
      <4>1. x \in D /\ next[x] \in Under(n) /\ f[next[x]] \in V
        BY <2>2, <3>2
      <4> QED
        BY <3>2, <4>1
    <3> QED
      BY <3>1, <3>2
  <2>6. ASSUME NEW x \in Under(n + 1) PROVE g[x] = Value(g, x)
    <3>1. CASE x \in stop
      BY <3>1
    <3>2. CASE x \notin stop
      <4>1. g[next[x]] = f[next[x]]
        BY <2>2, <2>4, <3>2
      <4> HIDE DEF g
      <4>2. g[x] = Value(f, x)
        BY DEF g
      <4> QED
        BY <3>2, <4>1, <4>2
    <3> QED
      BY <3>1, <3>2
  <2>7. g \in [Under(n + 1) -> V]
    BY <2>5
  <2> HIDE DEF g
  <2>8. AsksFrom(g, Under(n + 1), stop, base, next, op)
    BY <2>6 DEF AsksFrom
  <2> QED
    BY <2>7, <2>8
<1>3. ASSUME NEW n \in Nat PROVE n \in T
  <2> HIDE DEF T
  <2>1. \A k \in 0 .. n : k \in T
    BY <1>1, <1>2, Ascends
  <2> QED
    BY <2>1
<1>4. Under(most + 1) = D
  <2>1. \A x \in D : m[x] \in 0 .. most
    OBVIOUS
  <2>2. \A k \in 0 .. most : k < most + 1
    OBVIOUS
  <2> QED
    BY <2>1, <2>2
<1>5. most + 1 \in T
  <2>1. most + 1 \in Nat
    OBVIOUS
  <2> HIDE DEF T
  <2> QED
    BY <1>3, <2>1
<1> HIDE DEF Under
<1> QED
  BY <1>4, <1>5

\* The same where the value at the stops is one.
Asks(f, D, stop, base, next, op) ==
    \A x \in D : f[x] = IF x \in stop THEN base ELSE op[x, f[next[x]]]

LEMMA Unfolds ==
    ASSUME NEW D, NEW most \in Nat, NEW m \in [D -> 0 .. most], NEW V, NEW stop, NEW base \in V,
           NEW next,
           \A x \in D \ stop : next[x] \in D /\ m[next[x]] < m[x],
           NEW op \in [D \X V -> V]
    PROVE  \E f \in [D -> V] : Asks(f, D, stop, base, next, op)
<1> DEFINE bases == [x \in D |-> base]
<1>1. bases \in [D -> V] /\ \A x \in D : bases[x] = base
  OBVIOUS
<1> HIDE DEF bases
<1>2. PICK f \in [D -> V] : AsksFrom(f, D, stop, bases, next, op)
  BY <1>1, UnfoldsFrom
<1>3. Asks(f, D, stop, base, next, op)
  BY <1>1, <1>2 DEF Asks, AsksFrom
<1> QED
  BY <1>3

-----------------------------------------------------------------------------
(* Sequences *)

\* A concatenation is as long as its parts together, and ends with the second.
LEMMA Joined ==
    ASSUME NEW E, NEW a \in Seq(E), NEW b \in Seq(E)
    PROVE  /\ Len(a \o b) = Len(a) + Len(b)
           /\ \A i \in 1 .. Len(b) : (a \o b)[Len(a) + i] = b[i]
OBVIOUS
=============================================================================
