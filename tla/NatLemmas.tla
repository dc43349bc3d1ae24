------------------------------ MODULE NatLemmas ------------------------------
(***************************************************************************)
(* Facts about natural numbers that the proofs of several components use.  *)
(***************************************************************************)
EXTENDS Integers, FiniteSetsExt, FiniteSetTheorems, WellFoundedInduction, TLAPS

\* Every nonempty set of naturals has a least element.
LEMMA LeastNat ==
    ASSUME NEW T, T \subseteq Nat, T # {}
    PROVE  \E x \in T : \A y \in T : x <= y
<1> DEFINE R == {ss \in Nat \X Nat : ss[1] < ss[2]}
<1>1. IsWellFoundedOn(R, Nat)
  BY NatLessThanWellFounded DEF OpToRel
<1>2. PICK x \in T : \A y \in T : ~(<<y, x>> \in R)
  <2> HIDE DEF R
  <2> QED BY <1>1, WFMin
<1>3. ASSUME NEW y \in T PROVE x <= y
  <2>1. ~(y < x)
    BY <1>2
  <2>2. QED
    BY <2>1
<1>4. QED
  BY <1>3

\* Min chooses that element.
LEMMA MinIsLeast ==
    ASSUME NEW T, T \subseteq Nat, T # {}
    PROVE  Min(T) \in T /\ \A y \in T : Min(T) <= y
BY LeastNat DEF Min

\* A finite set of naturals has an upper bound.
LEMMA FiniteBound ==
    ASSUME NEW S, S \subseteq Nat, IsFiniteSet(S)
    PROVE  \E b \in Nat : \A x \in S : x <= b
<1>0. PICK n \in Nat : \E f : f \in Surjection(1 .. n, S)
  BY FS_NatSurjection DEF ExistsSurjection
<1>1. PICK f : f \in Surjection(1 .. n, S)
  BY <1>0
<1> DEFINE Bounds(k) == {b \in Nat : \A i \in 1 .. k : f[i] <= b}
           T == {k \in 0 .. n : Bounds(k) = {}}
<1>2. f \in [1 .. n -> S] /\ \A x \in S : \E i \in 1 .. n : f[i] = x
  BY <1>1 DEF Surjection
<1>3. \A i \in 1 .. n : f[i] \in Nat
  BY <1>2
<1>4. T = {}
  <2>1. SUFFICES ASSUME T # {} PROVE FALSE
    OBVIOUS
  <2>2. PICK k \in T : \A y \in T : k <= y
    <3>1. T \subseteq Nat
      OBVIOUS
    <3> HIDE DEF T
    <3>2. QED
      BY <2>1, <3>1, LeastNat
  <2>3. k \in 0 .. n /\ Bounds(k) = {}
    OBVIOUS
  <2>4. CASE k = 0
    <3>1. 0 \in Bounds(k)
      BY <2>4
    <3>2. QED
      BY <2>3, <3>1
  <2>5. CASE k # 0
    <3>1. k - 1 \in 0 .. n /\ k - 1 \notin T
      BY <2>2, <2>3, <2>5
    <3>2. PICK b \in Nat : \A i \in 1 .. k - 1 : f[i] <= b
      BY <3>1
    <3> HIDE DEF Bounds, T
    <3>3. k \in 1 .. n /\ f[k] \in Nat
      BY <1>3, <2>3, <2>5
    <3>4. (IF f[k] <= b THEN b ELSE f[k]) \in Bounds(k)
      <4>1. ASSUME NEW i \in 1 .. k
            PROVE  f[i] <= IF f[k] <= b THEN b ELSE f[k]
        <5>1. f[i] \in Nat
          BY <1>3, <3>3
        <5>2. i = k \/ i \in 1 .. k - 1
          BY <3>3
        <5>3. QED
          BY <3>2, <3>3, <5>1, <5>2
      <4>2. QED
        BY <3>3, <4>1 DEF Bounds
    <3>5. QED
      BY <2>3, <3>4
  <2>6. QED
    BY <2>4, <2>5
<1>5. PICK b \in Nat : \A i \in 1 .. n : f[i] <= b
  <2>1. n \notin T
    BY <1>4
  <2> HIDE DEF Bounds
  <2>2. Bounds(n) # {}
    BY <2>1
  <2>3. QED
    BY <2>2 DEF Bounds
<1>6. QED
  BY <1>2, <1>5

\* Max chooses the greatest element.
LEMMA MaxIsGreatest ==
    ASSUME NEW S, S \subseteq Nat, IsFiniteSet(S), S # {}
    PROVE  Max(S) \in S /\ \A x \in S : x <= Max(S)
<1> DEFINE T == {b \in Nat : \A x \in S : x <= b}
<1>1. T # {} /\ T \subseteq Nat
  BY FiniteBound
<1>2. PICK b \in T : \A y \in T : b <= y
  <2> HIDE DEF T
  <2> QED BY <1>1, LeastNat
<1>3. b \in S
  <2>1. SUFFICES ASSUME b \notin S PROVE FALSE
    OBVIOUS
  <2>2. \A x \in S : x \in Nat /\ x < b
    BY <2>1
  <2>3. b - 1 \in T
    <3>1. b \in Nat /\ b # 0
      <4>1. PICK x \in S : x \in Nat /\ x < b
        BY <2>2
      <4>2. b \in Nat
        OBVIOUS
      <4> HIDE DEF T
      <4>3. QED
        BY <4>1, <4>2
    <3>2. b - 1 \in Nat /\ \A x \in S : x <= b - 1
      BY <2>2, <3>1
    <3>3. QED
      BY <3>2
  <2>4. QED
    BY <1>2, <2>3
<1>4. \A x \in S : b >= x
  OBVIOUS
<1>5. PICK c \in S : c = Max(S) /\ \A x \in S : c >= x
  BY <1>3, <1>4 DEF Max
<1>6. QED
  BY <1>5

-----------------------------------------------------------------------------
Recursion(f, D, G, a) ==
    /\ f \in [Nat -> D]
    /\ f[0] = a
    /\ \A k \in Nat : f[k + 1] = G[<<f[k], k>>]

\* A function on the naturals may be defined by recursion: from a first value
\* and from the value before.
LEMMA RecursionExists ==
    ASSUME NEW D, NEW G \in [D \X Nat -> D], NEW a \in D
    PROVE  \E f : Recursion(f, D, G, a)
<1> DEFINE Upto(n) == {g \in [0 .. n -> D] :
               g[0] = a /\ \A k \in 0 .. n - 1 : g[k + 1] = G[<<g[k], k>>]}
           T == {n \in Nat : Upto(n) = {}}
<1>1. T = {}
  <2>1. SUFFICES ASSUME T # {} PROVE FALSE
    OBVIOUS
  <2>2. PICK n \in T : \A y \in T : n <= y
    <3>1. T \subseteq Nat
      OBVIOUS
    <3> HIDE DEF T
    <3>2. QED
      BY <2>1, <3>1, LeastNat
  <2>3. n \in Nat /\ Upto(n) = {}
    OBVIOUS
  <2>4. CASE n = 0
    <3>1. [i \in 0 .. 0 |-> a] \in Upto(0)
      OBVIOUS
    <3>2. QED
      BY <2>3, <2>4, <3>1
  <2>5. CASE n # 0
    <3>1. n - 1 \in Nat /\ n - 1 \notin T
      BY <2>2, <2>3, <2>5
    <3>2. PICK g \in Upto(n - 1) : TRUE
      BY <3>1
    <3>3. g \in [0 .. n - 1 -> D] /\ g[0] = a
          /\ \A k \in 0 .. n - 2 : g[k + 1] = G[<<g[k], k>>]
      BY <3>2, <2>3, <2>5
    <3> DEFINE h == [i \in 0 .. n |-> IF i = n THEN G[<<g[n - 1], n - 1>>] ELSE g[i]]
    <3>4. h \in [0 .. n -> D] /\ h[0] = a
      BY <3>1, <3>3, <2>3, <2>5
    <3>5. ASSUME NEW k \in 0 .. n - 1 PROVE h[k + 1] = G[<<h[k], k>>]
      <4>1. h[k] = g[k] /\ k + 1 \in 0 .. n
        BY <2>3, <2>5
      <4>2. CASE k = n - 1
        <5>1. h[n] = G[<<g[n - 1], n - 1>>] /\ k + 1 = n
          BY <2>3, <4>2
        <5> HIDE DEF h
        <5>2. QED
          BY <4>1, <4>2, <5>1
      <4>3. CASE k # n - 1
        <5>1. k \in 0 .. n - 2 /\ k + 1 # n
          BY <2>3, <4>3
        <5>2. h[k + 1] = g[k + 1]
          BY <4>1, <5>1
        <5>3. QED
          BY <3>3, <4>1, <5>1, <5>2
      <4>4. QED
        BY <4>2, <4>3
    <3>6. h \in Upto(n)
      <4> HIDE DEF h
      <4> QED BY <3>4, <3>5
    <3>7. QED
      BY <2>3, <3>6
  <2>6. QED
    BY <2>4, <2>5
<1>2. ASSUME NEW n \in Nat, NEW m \in Nat, NEW g \in Upto(n), NEW h \in Upto(m),
             NEW i \in 0 .. n, i \in 0 .. m
      PROVE  g[i] = h[i]
  <2> DEFINE U == {k \in Nat : k <= n /\ k <= m /\ g[k] # h[k]}
  <2>1. SUFFICES ASSUME U # {} PROVE FALSE
    BY <1>2
  <2>2. PICK k \in U : \A y \in U : k <= y
    <3>1. U \subseteq Nat
      OBVIOUS
    <3> HIDE DEF U
    <3>2. QED
      BY <2>1, <3>1, LeastNat
  <2>3. k # 0
    BY <2>2
  <2>4. k - 1 \in Nat /\ k - 1 \notin U
    BY <2>2, <2>3
  <2>5. g[k - 1] = h[k - 1]
    BY <2>2, <2>4
  <2>6. g[(k - 1) + 1] = G[<<g[k - 1], k - 1>>] /\ h[(k - 1) + 1] = G[<<h[k - 1], k - 1>>]
    BY <2>2, <2>4
  <2>7. QED
    BY <2>2, <2>5, <2>6
<1> DEFINE App(n) == CHOOSE g : g \in Upto(n)
           f == [n \in Nat |-> App(n)[n]]
<1>3. \A n \in Nat : App(n) \in Upto(n)
  <2>1. \A n \in Nat : \E g : g \in Upto(n)
    BY <1>1
  <2> HIDE DEF Upto
  <2>2. QED
    BY <2>1
<1> HIDE DEF App
<1>4. f \in [Nat -> D] /\ f[0] = a
  BY <1>3
<1>5. ASSUME NEW k \in Nat PROVE f[k + 1] = G[<<f[k], k>>]
  <2>1. App(k + 1)[k + 1] = G[<<App(k + 1)[k], k>>]
    <3>1. App(k + 1) \in Upto(k + 1) /\ k \in 0 .. (k + 1) - 1
      BY <1>3
    <3>2. QED
      BY <3>1
  <2>2. App(k + 1)[k] = App(k)[k]
    <3>1. App(k + 1) \in Upto(k + 1) /\ App(k) \in Upto(k)
      BY <1>3
    <3>2. k \in 0 .. k /\ k \in 0 .. k + 1 /\ k + 1 \in Nat
      OBVIOUS
    <3> HIDE DEF Upto
    <3>3. QED
      BY <1>2, <3>1, <3>2
  <2>3. QED
    BY <2>1, <2>2
<1>6. QED
  <2> HIDE DEF f
  <2> QED BY <1>4, <1>5 DEF Recursion
=============================================================================
