----------------------------- MODULE SoundProofs ----------------------------
(***************************************************************************)
(* Theorems about SoundEnt and MonsterSenses, for any number of slots and  *)
(* clients.  What a walk along links meets is an induction on the walk;    *)
(* everything else is proved of rows, which name the slots of a list in    *)
(* order: a list in an array is a row of distinct slots, each linked to    *)
(* the one after it.                                                       *)
(***************************************************************************)
EXTENDS MonsterSenses, NatLemmas, SequenceTheorems

\* The list that begins at head has the n distinct slots A[1], ..., A[n].
Row(link, head, n, A) ==
    /\ A \in [1 .. n -> Slots]
    /\ head = IF n = 0 THEN EMPTY ELSE A[1]
    /\ \A i \in 1 .. n : link[A[i]] = IF i = n THEN EMPTY ELSE A[i + 1]
    /\ \A i \in 1 .. n : \A j \in 1 .. n : A[i] = A[j] => i = j

On(n, A) == {A[i] : i \in 1 .. n}
-----------------------------------------------------------------------------
(* Walks *)

\* There are no more distinct slots than the pool has.
LEMMA SlotsAreFew ==
    ASSUME NEW n \in Nat, NEW A \in [1 .. n -> Slots],
           \A i \in 1 .. n : \A j \in 1 .. n : A[i] = A[j] => i = j
    PROVE  n <= MaxWorldSounds
<1>1. MaxWorldSounds \in Nat
  BY SoundAssumption
<1>2. IsFiniteSet(Slots) /\ Cardinality(Slots) = MaxWorldSounds
  <2>1. 0 \in Int /\ MaxWorldSounds - 1 \in Int
    BY <1>1
  <2>2. /\ IsFiniteSet(0 .. MaxWorldSounds - 1)
        /\ Cardinality(0 .. MaxWorldSounds - 1)
             = IF 0 > MaxWorldSounds - 1 THEN 0 ELSE (MaxWorldSounds - 1) - 0 + 1
    BY <2>1, FS_Interval
  <2>3. (IF 0 > MaxWorldSounds - 1 THEN 0 ELSE (MaxWorldSounds - 1) - 0 + 1) = MaxWorldSounds
    BY <1>1
  <2>4. QED
    BY <2>2, <2>3 DEF Slots
<1>3. A \in Injection(1 .. n, Slots)
  BY DEF Injection, IsInjective
<1>4. Cardinality(1 .. n) <= Cardinality(Slots)
  BY <1>2, <1>3, FS_Injection
<1>5. Cardinality(1 .. n) = n
  <2>1. 1 \in Int /\ n \in Int
    OBVIOUS
  <2>2. Cardinality(1 .. n) = IF 1 > n THEN 0 ELSE n - 1 + 1
    BY <2>1, FS_Interval
  <2>3. (IF 1 > n THEN 0 ELSE n - 1 + 1) = n
    OBVIOUS
  <2>4. QED
    BY <2>2, <2>3
<1>6. QED
  BY <1>2, <1>4, <1>5

\* What <<s>> \o t consists of.
LEMMA ConsFacts ==
    ASSUME NEW S, NEW s \in S, NEW t \in Seq(S)
    PROVE  /\ <<s>> \o t \in Seq(S)
           /\ Len(<<s>> \o t) = Len(t) + 1
           /\ (<<s>> \o t)[1] = s
           /\ \A i \in 1 .. Len(t) : (<<s>> \o t)[i + 1] = t[i]
<1> DEFINE u == <<s>>
<1>1. u \in Seq(S) /\ Len(u) = 1 /\ u[1] = s
  OBVIOUS
<1> HIDE DEF u
<1>2. /\ u \o t \in Seq(S)
      /\ Len(u \o t) = 1 + Len(t)
      /\ \A i \in 1 .. 1 + Len(t) : (u \o t)[i] = IF i <= 1 THEN u[i] ELSE t[i - 1]
  <2>1. /\ u \o t \in Seq(S)
        /\ Len(u \o t) = Len(u) + Len(t)
        /\ \A i \in 1 .. Len(u) + Len(t) :
               (u \o t)[i] = IF i <= Len(u) THEN u[i] ELSE t[i - Len(u)]
    BY <1>1, ConcatProperties, Zenon
  <2>2. QED
    BY <1>1, <2>1, Zenon
<1>3. Len(t) \in Nat
  OBVIOUS
<1>4. \A i \in 1 .. Len(t) : (u \o t)[i + 1] = t[i]
  <2> TAKE i \in 1 .. Len(t)
  <2>1. i + 1 \in 1 .. 1 + Len(t) /\ ~(i + 1 <= 1) /\ (i + 1) - 1 = i
    BY <1>3
  <2>2. QED
    BY <1>2, <2>1
<1>5. (u \o t)[1] = s
  BY <1>1, <1>2, <1>3
<1>6. Len(u \o t) = Len(t) + 1
  BY <1>2, <1>3
<1>7. QED
  BY <1>2, <1>4, <1>5, <1>6 DEF u

WalkRule(f, link) ==
    /\ \A s \in Links : f[0][s] = <<>>
    /\ \A n \in Nat : f[n][EMPTY] = <<>>
    /\ \A n \in Nat, s \in Slots : f[n + 1][s] = <<s>> \o f[n][link[s]]

EmptyIsNoSlot == EMPTY \notin Slots

\* A link leads to a slot, or to EMPTY, which is none.
LEMMA LinkFacts == Links = Slots \cup {EMPTY} /\ EmptyIsNoSlot /\ Slots \subseteq Nat
BY SoundAssumption DEF Links, Slots, EMPTY, EmptyIsNoSlot

\* Walk is defined by recursion.
LEMMA WalkRecursion ==
    ASSUME NEW link \in [Slots -> Links]
    PROVE  \E f : WalkRule(f, link) /\ \A head : Walk(link, head) = f[MaxWorldSounds + 1][head]
<1> DEFINE D == [Links -> Seq(Slots)]
           G == [p \in D \X Nat |->
                   [s \in Links |-> IF s = EMPTY THEN <<>> ELSE <<s>> \o p[1][link[s]]]]
           start == [s \in Links |-> <<>>]
           Body(f) == [n \in Nat |->
                         [s \in Links |->
                            IF n = 0 \/ s = EMPTY THEN <<>> ELSE <<s>> \o f[n - 1][link[s]]]]
           from == CHOOSE f : f = Body(f)
<1>1. start \in D
  OBVIOUS
<1>2. G \in [D \X Nat -> D]
  <2>1. ASSUME NEW g \in D, NEW s \in Links, s # EMPTY
        PROVE  <<s>> \o g[link[s]] \in Seq(Slots)
    <3>1. s \in Slots
      BY <2>1, LinkFacts
    <3>2. g[link[s]] \in Seq(Slots)
      BY <3>1
    <3>3. QED
      BY <3>1, <3>2, ConsFacts
  <2>2. ASSUME NEW g \in D
        PROVE  [s \in Links |-> IF s = EMPTY THEN <<>> ELSE <<s>> \o g[link[s]]] \in D
    BY <2>1
  <2>3. ASSUME NEW p \in D \X Nat PROVE p[1] \in D
    OBVIOUS
  <2> HIDE DEF D
  <2>4. QED
    BY <2>2, <2>3
<1>3. PICK h \in [Nat -> D] : h[0] = start /\ \A k \in Nat : h[k + 1] = G[<<h[k], k>>]
  <2> HIDE DEF D, G, start
  <2>1. \E h : Recursion(h, D, G, start)
    BY <1>1, <1>2, RecursionExists
  <2>2. QED
    BY <2>1 DEF Recursion
<1>4. h = Body(h)
  <2>1. ASSUME NEW n \in Nat
        PROVE  h[n] = [s \in Links |->
                         IF n = 0 \/ s = EMPTY THEN <<>> ELSE <<s>> \o h[n - 1][link[s]]]
    <3>1. CASE n = 0
      BY <1>3, <3>1
    <3>2. CASE n # 0
      <4>1. n - 1 \in Nat /\ n = (n - 1) + 1
        BY <3>2
      <4>2. h[n - 1] \in D /\ h[n] = G[<<h[n - 1], n - 1>>]
        <5> HIDE DEF G, D, start
        <5> QED BY <1>3, <4>1
      <4>3. G[<<h[n - 1], n - 1>>]
              = [s \in Links |-> IF s = EMPTY THEN <<>> ELSE <<s>> \o h[n - 1][link[s]]]
        <5> HIDE DEF D
        <5> QED BY <4>1, <4>2
      <4> HIDE DEF G, D, start
      <4>4. QED
        BY <3>2, <4>2, <4>3
    <3>3. QED
      BY <3>1, <3>2
  <2>2. h = [n \in Nat |-> h[n]]
    <3> HIDE DEF D, G, start
    <3> QED BY <1>3
  <2> HIDE DEF D, G, start
  <2>3. QED
    BY <2>1, <2>2
<1>5. from = Body(from)
  <2> HIDE DEF Body
  <2> QED BY <1>4
<1>6. WalkRule(from, link)
  <2> HIDE DEF from, D, G, start
  <2>1. \A s \in Links : from[0][s] = <<>>
    BY <1>5
  <2>2. \A n \in Nat : from[n][EMPTY] = <<>>
    BY <1>5, LinkFacts
  <2>3. ASSUME NEW n \in Nat, NEW s \in Slots
        PROVE  from[n + 1][s] = <<s>> \o from[n][link[s]]
    <3>1. s \in Links /\ s # EMPTY /\ n + 1 \in Nat /\ n + 1 # 0 /\ (n + 1) - 1 = n
      BY LinkFacts DEF EmptyIsNoSlot
    <3>2. from[n + 1] = [x \in Links |-> IF n + 1 = 0 \/ x = EMPTY THEN <<>>
                                         ELSE <<x>> \o from[(n + 1) - 1][link[x]]]
      BY <1>5, <3>1
    <3>3. from[n + 1][s] = <<s>> \o from[(n + 1) - 1][link[s]]
      <4> HIDE DEF Body
      <4> QED BY <3>1, <3>2
    <3>4. QED
      BY <3>1, <3>3
  <2>4. QED
    BY <2>1, <2>2, <2>3 DEF WalkRule
<1>7. \A head : Walk(link, head) = from[MaxWorldSounds + 1][head]
  BY DEF Walk
<1> HIDE DEF from
<1>8. QED
  BY <1>6, <1>7

\* A walk along a list meets the slots of its row, and ends.
LEMMA RowWalk ==
    ASSUME NEW link \in [Slots -> Links], NEW head, NEW n \in Nat, NEW A,
           Row(link, head, n, A)
    PROVE  /\ Ends(link, head)
           /\ ToSet(Walk(link, head)) = On(n, A)
<1>1. PICK f : WalkRule(f, link) /\ \A x : Walk(link, x) = f[MaxWorldSounds + 1][x]
  BY WalkRecursion
<1>2. A \in [1 .. n -> Slots] /\ n <= MaxWorldSounds
  BY SlotsAreFew DEF Row
<1> DEFINE At(i) == IF i \in 1 .. n THEN A[i] ELSE EMPTY
           Found(k, t) == t \in Seq(Slots) /\ Len(t) = k /\ \A j \in 1 .. k : t[j] = A[n - k + j]
           P(k) == \A m \in Nat : m >= k => Found(k, f[m][At(n - k + 1)])
           T == {k \in Nat : k <= n /\ ~P(k)}
<1>3. T = {}
  <2>1. SUFFICES ASSUME T # {} PROVE FALSE
    OBVIOUS
  <2>2. PICK k \in T : \A y \in T : k <= y
    <3>1. T \subseteq Nat
      OBVIOUS
    <3> HIDE DEF T
    <3>2. QED
      BY <2>1, <3>1, LeastNat
  <2>3. k \in Nat /\ k <= n /\ ~P(k)
    OBVIOUS
  <2>4. PICK m \in Nat : m >= k /\ ~Found(k, f[m][At(n - k + 1)])
    BY <2>3
  <2>5. CASE k = 0
    <3>1. n - k + 1 \notin 1 .. n
      BY <2>5
    <3>2. At(n - k + 1) = EMPTY
      BY <3>1
    <3>3. f[m][EMPTY] = <<>>
      BY <1>1 DEF WalkRule
    <3>4. Found(0, <<>>)
      OBVIOUS
    <3> HIDE DEF Found, At
    <3>5. QED
      BY <2>4, <2>5, <3>2, <3>3, <3>4
  <2>6. CASE k # 0
    <3>1. k - 1 \in Nat /\ k - 1 <= n /\ k - 1 \notin T
      <4>1. k - 1 \in Nat /\ k - 1 <= n /\ ~(k <= k - 1)
        BY <2>3, <2>6
      <4> HIDE DEF T
      <4>2. QED
        BY <2>2, <4>1
    <3>2. P(k - 1)
      <4> HIDE DEF P
      <4> QED BY <3>1
    <3>3. m - 1 \in Nat /\ m - 1 >= k - 1 /\ (m - 1) + 1 = m
      BY <2>3, <2>4, <2>6
    <3> DEFINE s == A[n - k + 1]
               t == f[m - 1][At(n - (k - 1) + 1)]
    <3>4. Found(k - 1, t)
      <4> HIDE DEF Found, At
      <4> QED BY <3>2, <3>3
    <3>5. n - k + 1 \in 1 .. n /\ (n - k + 1) + 1 = n - (k - 1) + 1
      BY <2>3, <2>6
    <3>6. At(n - k + 1) = s /\ s \in Slots
      BY <1>2, <3>5
    <3>7. link[s] = At(n - (k - 1) + 1)
      <4>1. link[s] = IF n - k + 1 = n THEN EMPTY ELSE A[(n - k + 1) + 1]
        BY <3>5 DEF Row
      <4>2. CASE n - k + 1 = n
        <5>1. n - (k - 1) + 1 \notin 1 .. n
          BY <2>3, <4>2
        <5>2. QED
          BY <4>1, <4>2, <5>1
      <4>3. CASE n - k + 1 # n
        <5>1. n - (k - 1) + 1 \in 1 .. n
          BY <2>3, <3>5, <4>3
        <5>2. QED
          BY <3>5, <4>1, <4>3, <5>1
      <4>4. QED
        BY <4>2, <4>3
    <3>8. f[m][s] = <<s>> \o t
      <4>1. f[(m - 1) + 1][s] = <<s>> \o f[m - 1][link[s]]
        BY <1>1, <3>3, <3>6 DEF WalkRule
      <4> HIDE DEF At, s
      <4>2. QED
        BY <3>3, <3>7, <4>1
    <3>9. t \in Seq(Slots) /\ Len(t) = k - 1 /\ \A j \in 1 .. k - 1 : t[j] = A[n - (k - 1) + j]
      BY <3>4
    <3> DEFINE u == <<s>> \o t
    <3>10. /\ u \in Seq(Slots) /\ Len(u) = (k - 1) + 1 /\ u[1] = s
           /\ \A i \in 1 .. k - 1 : u[i + 1] = t[i]
      <4> HIDE DEF s, t
      <4> QED BY <3>6, <3>9, ConsFacts
    <3> HIDE DEF u, t
    <3>11. ASSUME NEW j \in 1 .. k PROVE u[j] = A[n - k + j]
      <4>1. CASE j = 1
        BY <3>10, <4>1
      <4>2. CASE j # 1
        <5>1. j - 1 \in 1 .. k - 1 /\ (j - 1) + 1 = j /\ n - (k - 1) + (j - 1) = n - k + j
          BY <2>3, <4>2
        <5>2. u[(j - 1) + 1] = t[j - 1] /\ t[j - 1] = A[n - (k - 1) + (j - 1)]
          BY <3>9, <3>10, <5>1
        <5>3. QED
          BY <5>1, <5>2
      <4>3. QED
        BY <4>1, <4>2
    <3>12. Found(k, u)
      <4>1. (k - 1) + 1 = k
        BY <2>3
      <4>2. QED
        BY <3>10, <3>11, <4>1
    <3> HIDE DEF Found, At, s
    <3>13. QED
      BY <2>4, <3>6, <3>8, <3>12 DEF u
  <2>7. QED
    BY <2>5, <2>6
<1>4. P(n)
  <2>1. n \notin T
    <3> HIDE DEF T
    <3> QED BY <1>3
  <2> HIDE DEF P
  <2>2. QED
    BY <2>1
<1>5. MaxWorldSounds \in Nat /\ MaxWorldSounds + 1 \in Nat /\ MaxWorldSounds + 1 >= n
  BY <1>2, SoundAssumption
<1>6. head = At(n - n + 1)
  <2>1. head = IF n = 0 THEN EMPTY ELSE A[1]
    BY DEF Row
  <2>2. n - n + 1 = 1 /\ (1 \in 1 .. n <=> n # 0)
    OBVIOUS
  <2>3. QED
    BY <2>1, <2>2
<1> DEFINE w == Walk(link, head)
<1>7. Found(n, w)
  <2>1. Found(n, f[MaxWorldSounds + 1][At(n - n + 1)])
    <3> HIDE DEF Found, At
    <3> QED BY <1>4, <1>5
  <2>2. w = f[MaxWorldSounds + 1][At(n - n + 1)]
    <3> HIDE DEF At
    <3> QED BY <1>1, <1>6
  <2> HIDE DEF Found, At, w
  <2>3. QED
    BY <2>1, <2>2
<1> HIDE DEF w
<1>8. w \in Seq(Slots) /\ Len(w) = n /\ \A j \in 1 .. n : w[j] = A[j]
  <2>1. \A j \in 1 .. n : n - n + j = j
    OBVIOUS
  <2>2. QED
    BY <1>7, <2>1
<1>9. ToSet(w) = On(n, A)
  <2>1. DOMAIN w = 1 .. n
    BY <1>8
  <2>2. ToSet(w) = {w[j] : j \in 1 .. n}
    BY <2>1 DEF ToSet
  <2>3. QED
    BY <1>8, <2>2 DEF On
<1>10. QED
  BY <1>2, <1>8, <1>9 DEF w, Ends

\* A walk along links that lead down in some order ends, wherever it starts.
LEMMA DownWalk ==
    ASSUME NEW link \in [Slots -> Links], NEW W, W \subseteq Slots,
           NEW rank \in [Slots -> Nat],
           \A s \in W : link[s] = EMPTY \/ (link[s] \in W /\ rank[link[s]] < rank[s]),
           NEW head \in W
    PROVE  Ends(link, head)
<1>1. PICK f : WalkRule(f, link) /\ \A x : Walk(link, x) = f[MaxWorldSounds + 1][x]
  BY WalkRecursion
<1> DEFINE Down(t, s) == /\ t \in Seq(W)
                         /\ \A i \in 1 .. Len(t) : rank[t[i]] <= rank[s]
                         /\ \A i \in 1 .. Len(t) : \A j \in 1 .. Len(t) :
                                i < j => rank[t[j]] < rank[t[i]]
           P(k) == \A s \in W : Down(f[k][s], s)
           T == {k \in Nat : ~P(k)}
<1>2. T = {}
  <2>1. SUFFICES ASSUME T # {} PROVE FALSE
    OBVIOUS
  <2>2. PICK k \in T : \A y \in T : k <= y
    <3>1. T \subseteq Nat
      OBVIOUS
    <3> HIDE DEF T
    <3>2. QED
      BY <2>1, <3>1, LeastNat
  <2>3. k \in Nat /\ ~P(k)
    OBVIOUS
  <2>4. PICK s \in W : ~Down(f[k][s], s)
    BY <2>3
  <2>5. s \in Links /\ s \in Slots
    BY LinkFacts
  <2>6. \A x : Down(<<>>, x)
    OBVIOUS
  <2>7. CASE k = 0
    <3>1. f[0][s] = <<>>
      BY <1>1, <2>5 DEF WalkRule
    <3> HIDE DEF Down
    <3>2. QED
      BY <2>4, <2>6, <2>7, <3>1
  <2>8. CASE k # 0
    <3>1. k - 1 \in Nat /\ (k - 1) + 1 = k /\ k - 1 \notin T
      <4>1. k - 1 \in Nat /\ (k - 1) + 1 = k /\ ~(k <= k - 1)
        BY <2>3, <2>8
      <4> HIDE DEF T
      <4>2. QED
        BY <2>2, <4>1
    <3>2. P(k - 1)
      <4> HIDE DEF P
      <4> QED BY <3>1
    <3> DEFINE t == f[k - 1][link[s]]
               u == <<s>> \o t
    <3>3. f[k][s] = u
      <4>1. f[(k - 1) + 1][s] = u
        BY <1>1, <2>5, <3>1 DEF WalkRule
      <4> HIDE DEF u
      <4>2. QED
        BY <3>1, <4>1
    <3>4. t \in Seq(W) /\ \A i \in 1 .. Len(t) : rank[t[i]] < rank[s]
      <4>1. CASE link[s] = EMPTY
        <5>1. t = <<>>
          BY <1>1, <3>1, <4>1 DEF WalkRule
        <5>2. QED
          BY <5>1
      <4>2. CASE link[s] \in W /\ rank[link[s]] < rank[s]
        <5>1. Down(t, link[s])
          <6> HIDE DEF Down
          <6> QED BY <3>2, <4>2
        <5>2. ASSUME NEW i \in 1 .. Len(t) PROVE rank[t[i]] < rank[s]
          <6>1. t \in Seq(W) /\ rank[t[i]] <= rank[link[s]]
            BY <5>1
          <6>2. t[i] \in W /\ link[s] \in W
            <7> HIDE DEF t
            <7> QED BY <4>2, <6>1
          <6>3. rank[t[i]] \in Nat /\ rank[link[s]] \in Nat /\ rank[s] \in Nat
            <7> HIDE DEF t
            <7> QED BY <2>5, <6>2
          <6> HIDE DEF t
          <6>4. QED
            BY <4>2, <6>1, <6>3
        <5>3. QED
          BY <5>1, <5>2
      <4>3. QED
        BY <4>1, <4>2
    <3>5. \A i \in 1 .. Len(t) : \A j \in 1 .. Len(t) : i < j => rank[t[j]] < rank[t[i]]
      <4>1. CASE link[s] = EMPTY
        <5>1. t = <<>>
          BY <1>1, <3>1, <4>1 DEF WalkRule
        <5>2. QED
          BY <5>1
      <4>2. CASE link[s] \in W
        <5>1. Down(t, link[s])
          <6> HIDE DEF Down
          <6> QED BY <3>2, <4>2
        <5>2. QED
          BY <5>1
      <4>3. QED
        BY <4>1, <4>2
    <3> HIDE DEF t
    <3>6. /\ u \in Seq(W) /\ Len(u) = Len(t) + 1 /\ u[1] = s
          /\ \A i \in 1 .. Len(t) : u[i + 1] = t[i]
      BY <3>4, ConsFacts
    <3> HIDE DEF u
    <3>7. Len(t) \in Nat /\ \A i \in 1 .. Len(u) :
            \/ i = 1
            \/ i - 1 \in 1 .. Len(t) /\ u[i] = t[i - 1]
      <4>1. Len(t) \in Nat
        BY <3>4
      <4>2. ASSUME NEW i \in 1 .. Len(u), i # 1
            PROVE  i - 1 \in 1 .. Len(t) /\ u[i] = t[i - 1]
        <5>1. i - 1 \in 1 .. Len(t) /\ (i - 1) + 1 = i
          BY <3>6, <4>1, <4>2
        <5>2. QED
          BY <3>6, <5>1
      <4>3. QED
        BY <4>1, <4>2
    <3>8. ASSUME NEW i \in 1 .. Len(u) PROVE rank[u[i]] <= rank[s]
      <4>1. u[i] \in Slots
        BY <3>6
      <4>2. rank[u[i]] \in Nat /\ rank[s] \in Nat
        BY <2>5, <4>1
      <4>3. rank[u[i]] = rank[s] \/ rank[u[i]] < rank[s]
        BY <3>4, <3>6, <3>7
      <4>4. QED
        BY <4>2, <4>3
    <3>9. ASSUME NEW i \in 1 .. Len(u), NEW j \in 1 .. Len(u), i < j
          PROVE  rank[u[j]] < rank[u[i]]
      <4>1. j # 1 /\ j - 1 \in 1 .. Len(t) /\ u[j] = t[j - 1]
        <5>1. j # 1
          BY <3>9
        <5>2. QED
          BY <3>7, <5>1
      <4>2. CASE i = 1
        BY <3>4, <3>6, <4>1, <4>2
      <4>3. CASE i # 1
        <5>1. i - 1 \in 1 .. Len(t) /\ u[i] = t[i - 1]
          BY <3>7, <4>3
        <5>2. i - 1 < j - 1
          BY <3>9
        <5>3. QED
          BY <3>5, <4>1, <5>1, <5>2
      <4>4. QED
        BY <4>2, <4>3
    <3>10. Down(u, s)
      BY <3>6, <3>8, <3>9
    <3> HIDE DEF Down
    <3>11. QED
      BY <2>4, <3>3, <3>10
  <2>9. QED
    BY <2>7, <2>8
<1>3. P(MaxWorldSounds + 1)
  <2>1. MaxWorldSounds + 1 \in Nat
    BY SoundAssumption
  <2> HIDE DEF P
  <2>2. QED
    BY <1>2, <2>1
<1> DEFINE w == Walk(link, head)
<1>4. Down(w, head)
  <2>1. w = f[MaxWorldSounds + 1][head]
    BY <1>1
  <2> HIDE DEF Down, w
  <2>2. QED
    BY <1>3, <2>1
<1> HIDE DEF w
<1>5. w \in Seq(W) /\ Len(w) \in Nat
  BY <1>4
<1>6. ASSUME NEW i \in 1 .. Len(w), NEW j \in 1 .. Len(w), w[i] = w[j] PROVE i = j
  <2>1. w[i] \in Slots
    BY <1>5
  <2>2. rank[w[i]] \in Nat /\ rank[w[j]] = rank[w[i]]
    BY <1>6, <2>1
  <2>3. ~(rank[w[j]] < rank[w[i]]) /\ ~(rank[w[i]] < rank[w[j]])
    BY <2>2
  <2>4. ~(i < j) /\ ~(j < i)
    BY <1>4, <2>3
  <2>5. QED
    BY <1>5, <2>4
<1>7. w \in [1 .. Len(w) -> Slots]
  BY <1>5
<1>8. Len(w) <= MaxWorldSounds
  BY <1>5, <1>6, <1>7, SlotsAreFew
<1>9. QED
  BY <1>8 DEF w, Ends

-----------------------------------------------------------------------------
(* Rows whose links change *)

Pushed(s, n, A) == [i \in 1 .. n + 1 |-> IF i = 1 THEN s ELSE A[i - 1]]
Dropped(k, n, A) == [i \in 1 .. n - 1 |-> IF i < k THEN A[i] ELSE A[i + 1]]
\* In link2 the slot before A[k] takes over the link of A[k].
Skips(link, link2, k, n, A) ==
    /\ \A i \in 1 .. n : i # k /\ i + 1 # k => link2[A[i]] = link[A[i]]
    /\ \A i \in 1 .. n : i + 1 = k => link2[A[i]] = link[A[k]]

\* The head of the list when A[k] has left it.
HeadWithout(k, link, head, A) == IF k = 1 THEN link[A[k]] ELSE head

Cut(k, A) == [i \in 1 .. k |-> A[i]]

\* A slot that is linked to the head of a list becomes its head.
LEMMA RowPush ==
    ASSUME NEW link, NEW link2, NEW head, NEW n \in Nat, NEW A, Row(link, head, n, A),
           NEW s \in Slots, s \notin On(n, A), link2[s] = head,
           \A x \in On(n, A) : link2[x] = link[x]
    PROVE  /\ Row(link2, s, n + 1, Pushed(s, n, A))
           /\ On(n + 1, Pushed(s, n, A)) = On(n, A) \cup {s}
<1> DEFINE B == Pushed(s, n, A)
<1>1. A \in [1 .. n -> Slots] /\ n + 1 \in Nat /\ n + 1 # 0 /\ 1 \in 1 .. n + 1
  BY DEF Row
<1>2. ASSUME NEW i \in 1 .. n + 1, i # 1 PROVE i - 1 \in 1 .. n /\ (i - 1) + 1 = i
  BY <1>2
<1>3. B[1] = s /\ \A i \in 1 .. n + 1 : i # 1 => B[i] = A[i - 1]
  BY <1>1 DEF Pushed
<1>4. B \in [1 .. n + 1 -> Slots]
  BY <1>1, <1>2 DEF Pushed
<1>5. ASSUME NEW i \in 1 .. n PROVE A[i] \in On(n, A) /\ A[i] # s
  BY DEF On
<1> HIDE DEF B
<1>6. ASSUME NEW i \in 1 .. n + 1 PROVE link2[B[i]] = IF i = n + 1 THEN EMPTY ELSE B[i + 1]
  <2>1. CASE i = 1
    <3>1. link2[B[i]] = IF n = 0 THEN EMPTY ELSE A[1]
      BY <1>3, <2>1 DEF Row
    <3>2. CASE n = 0
      BY <2>1, <3>1, <3>2
    <3>3. CASE n # 0
      <4>1. i + 1 \in 1 .. n + 1 /\ i + 1 # 1 /\ (i + 1) - 1 = 1 /\ i # n + 1
        BY <2>1, <3>3
      <4>2. QED
        BY <1>3, <3>1, <3>3, <4>1
    <3>4. QED
      BY <3>2, <3>3
  <2>2. CASE i # 1
    <3>1. i - 1 \in 1 .. n /\ B[i] = A[i - 1]
      BY <1>2, <1>3, <2>2
    <3>2. link2[B[i]] = link[A[i - 1]]
      BY <1>5, <3>1
    <3>3. link[A[i - 1]] = IF i - 1 = n THEN EMPTY ELSE A[(i - 1) + 1]
      BY <3>1 DEF Row
    <3>4. CASE i - 1 = n
      <4>1. i = n + 1
        BY <3>4
      <4>2. QED
        BY <3>2, <3>3, <3>4, <4>1
    <3>5. CASE i - 1 # n
      <4>1. /\ i # n + 1 /\ i + 1 \in 1 .. n + 1 /\ i + 1 # 1
            /\ (i + 1) - 1 = (i - 1) + 1
        BY <2>2, <3>5
      <4>2. B[i + 1] = A[(i - 1) + 1]
        BY <1>3, <4>1
      <4>3. QED
        BY <3>2, <3>3, <3>5, <4>1, <4>2
    <3>6. QED
      BY <3>4, <3>5
  <2>3. QED
    BY <2>1, <2>2
<1>7. ASSUME NEW i \in 1 .. n + 1, NEW j \in 1 .. n + 1, B[i] = B[j] PROVE i = j
  <2>1. CASE i = 1 \/ j = 1
    BY <1>2, <1>3, <1>5, <1>7, <2>1
  <2>2. CASE i # 1 /\ j # 1
    <3>1. A[i - 1] = A[j - 1] /\ i - 1 \in 1 .. n /\ j - 1 \in 1 .. n
      BY <1>2, <1>3, <1>7, <2>2
    <3>2. i - 1 = j - 1
      BY <3>1 DEF Row
    <3>3. QED
      BY <3>2
  <2>3. QED
    BY <2>1, <2>2
<1>8. Row(link2, s, n + 1, B)
  BY <1>1, <1>3, <1>4, <1>6, <1>7 DEF Row
<1>9. On(n + 1, B) = On(n, A) \cup {s}
  <2>1. ASSUME NEW i \in 1 .. n + 1 PROVE B[i] \in On(n, A) \cup {s}
    BY <1>2, <1>3, <1>5
  <2>2. ASSUME NEW i \in 1 .. n PROVE A[i] \in On(n + 1, B)
    <3>1. i + 1 \in 1 .. n + 1 /\ i + 1 # 1 /\ (i + 1) - 1 = i
      OBVIOUS
    <3>2. B[i + 1] = A[i]
      BY <1>3, <3>1
    <3>3. QED
      BY <3>1, <3>2 DEF On
  <2>3. s \in On(n + 1, B)
    BY <1>1, <1>3 DEF On
  <2>4. QED
    BY <2>1, <2>2, <2>3 DEF On
<1>10. QED
  BY <1>8, <1>9 DEF B

\* A slot leaves a list when the one before it, or the head, takes over its link.
LEMMA RowDrop ==
    ASSUME NEW link, NEW link2, NEW head, NEW n \in Nat, NEW A, Row(link, head, n, A),
           NEW k \in 1 .. n,
           Skips(link, link2, k, n, A)
    PROVE  /\ Row(link2, HeadWithout(k, link, head, A), n - 1, Dropped(k, n, A))
           /\ On(n - 1, Dropped(k, n, A)) = On(n, A) \ {A[k]}
<1> DEFINE B == Dropped(k, n, A)
           first == HeadWithout(k, link, head, A)
<1>1. A \in [1 .. n -> Slots] /\ n - 1 \in Nat /\ n # 0
  BY DEF Row
<1>2. ASSUME NEW i \in 1 .. n - 1
      PROVE  /\ i \in 1 .. n /\ i + 1 \in 1 .. n /\ i # n
             /\ B[i] = IF i < k THEN A[i] ELSE A[i + 1]
  BY <1>1 DEF Dropped
<1>3. B \in [1 .. n - 1 -> Slots]
  BY <1>1, <1>2 DEF Dropped
<1>4. \A i \in 1 .. n : link[A[i]] = IF i = n THEN EMPTY ELSE A[i + 1]
  BY DEF Row
<1>5. \A i, j \in 1 .. n : A[i] = A[j] => i = j
  BY DEF Row
<1> HIDE DEF B
<1>6. ASSUME NEW i \in 1 .. n - 1 PROVE link2[B[i]] = IF i = n - 1 THEN EMPTY ELSE B[i + 1]
  <2>1. CASE i < k /\ i + 1 # k
    <3>1. i # n - 1 /\ i + 1 < k /\ i + 1 \in 1 .. n - 1 /\ i # k
      BY <2>1
    <3>2. B[i] = A[i] /\ B[i + 1] = A[i + 1]
      BY <1>2, <2>1, <3>1
    <3>3. link2[A[i]] = link[A[i]]
      BY <1>2, <2>1, <3>1 DEF Skips
    <3>4. link[A[i]] = A[i + 1]
      BY <1>2, <1>4
    <3>5. QED
      BY <3>1, <3>2, <3>3, <3>4
  <2>2. CASE i + 1 = k
    <3>1. i < k /\ i # k
      BY <2>2
    <3>2. B[i] = A[i] /\ link2[A[i]] = link[A[k]]
      BY <1>2, <2>2, <3>1 DEF Skips
    <3>3. link[A[k]] = IF k = n THEN EMPTY ELSE A[k + 1]
      BY <1>4
    <3>4. CASE k = n
      <4>1. i = n - 1
        BY <2>2, <3>4
      <4>2. QED
        BY <3>2, <3>3, <3>4, <4>1
    <3>5. CASE k # n
      <4>1. i # n - 1 /\ i + 1 \in 1 .. n - 1 /\ ~(i + 1 < k) /\ (i + 1) + 1 = k + 1
        BY <2>2, <3>5
      <4>2. B[i + 1] = A[k + 1]
        BY <1>2, <4>1
      <4>3. QED
        BY <3>2, <3>3, <3>5, <4>1, <4>2
    <3>6. QED
      BY <3>4, <3>5
  <2>3. CASE ~(i < k)
    <3>1. i + 1 # k /\ (i + 1) + 1 # k /\ i + 1 \in 1 .. n
      BY <2>3
    <3>2. B[i] = A[i + 1] /\ link2[A[i + 1]] = link[A[i + 1]]
      BY <1>2, <2>3, <3>1 DEF Skips
    <3>3. link[A[i + 1]] = IF i + 1 = n THEN EMPTY ELSE A[(i + 1) + 1]
      BY <1>4, <3>1
    <3>4. CASE i + 1 = n
      <4>1. i = n - 1
        BY <3>4
      <4>2. QED
        BY <3>2, <3>3, <3>4, <4>1
    <3>5. CASE i + 1 # n
      <4>1. i # n - 1 /\ i + 1 \in 1 .. n - 1 /\ ~(i + 1 < k)
        BY <2>3, <3>5
      <4>2. B[i + 1] = A[(i + 1) + 1]
        BY <1>2, <4>1
      <4>3. QED
        BY <3>2, <3>3, <3>5, <4>1, <4>2
    <3>6. QED
      BY <3>4, <3>5
  <2>4. QED
    BY <2>1, <2>2, <2>3
<1>7. ASSUME NEW i \in 1 .. n - 1, NEW j \in 1 .. n - 1, B[i] = B[j] PROVE i = j
  <2>1. (IF i < k THEN A[i] ELSE A[i + 1]) = (IF j < k THEN A[j] ELSE A[j + 1])
    BY <1>2, <1>7
  <2>2. (IF i < k THEN i ELSE i + 1) = (IF j < k THEN j ELSE j + 1)
    <3>1. CASE i < k /\ j < k
      BY <1>2, <1>5, <2>1, <3>1
    <3>2. CASE i < k /\ ~(j < k)
      <4>1. i \in 1 .. n /\ j + 1 \in 1 .. n /\ A[i] = A[j + 1]
        BY <1>2, <2>1, <3>2
      <4>2. i = j + 1
        BY <1>5, <4>1
      <4>3. QED
        BY <3>2, <4>2
    <3>3. CASE ~(i < k) /\ j < k
      <4>1. j \in 1 .. n /\ i + 1 \in 1 .. n /\ A[i + 1] = A[j]
        BY <1>2, <2>1, <3>3
      <4>2. i + 1 = j
        BY <1>5, <4>1
      <4>3. QED
        BY <3>3, <4>2
    <3>4. CASE ~(i < k) /\ ~(j < k)
      <4>1. i + 1 \in 1 .. n /\ j + 1 \in 1 .. n /\ A[i + 1] = A[j + 1]
        BY <1>2, <2>1, <3>4
      <4>2. i + 1 = j + 1
        BY <1>5, <4>1
      <4>3. QED
        BY <3>4, <4>2
    <3>5. QED
      BY <3>1, <3>2, <3>3, <3>4
  <2>3. QED
    BY <2>2
<1>8. first = IF n - 1 = 0 THEN EMPTY ELSE B[1]
  <2>0. (k = 1 => first = link[A[k]]) /\ (k # 1 => first = head)
    BY DEF HeadWithout
  <2> HIDE DEF first
  <2>1. CASE k = 1
    <3>1. link[A[k]] = IF k = n THEN EMPTY ELSE A[k + 1]
      BY <1>4
    <3>2. CASE n = 1
      BY <2>0, <2>1, <3>1, <3>2
    <3>3. CASE n # 1
      <4>1. 1 \in 1 .. n - 1 /\ n - 1 # 0 /\ ~(1 < k) /\ k # n /\ k + 1 = 1 + 1
        BY <2>1, <3>3
      <4>2. B[1] = A[1 + 1]
        BY <1>2, <4>1
      <4>3. QED
        BY <2>0, <2>1, <3>1, <4>1, <4>2
    <3>4. QED
      BY <3>2, <3>3
  <2>2. CASE k # 1
    <3>1. 1 \in 1 .. n - 1 /\ n - 1 # 0 /\ 1 < k
      BY <2>2
    <3>2. B[1] = A[1]
      BY <1>2, <3>1
    <3>3. head = A[1]
      BY <1>1 DEF Row
    <3>4. QED
      BY <2>0, <2>2, <3>1, <3>2, <3>3
  <2>3. QED
    BY <2>1, <2>2
<1> HIDE DEF first
<1>9. Row(link2, first, n - 1, B)
  BY <1>3, <1>6, <1>7, <1>8 DEF Row
<1>10. On(n - 1, B) = On(n, A) \ {A[k]}
  <2>1. ASSUME NEW i \in 1 .. n - 1 PROVE B[i] \in On(n, A) \ {A[k]}
    <3>1. CASE i < k
      <4>1. B[i] = A[i] /\ i \in 1 .. n /\ i # k
        BY <1>2, <3>1
      <4>2. QED
        BY <1>5, <4>1 DEF On
    <3>2. CASE ~(i < k)
      <4>1. B[i] = A[i + 1] /\ i + 1 \in 1 .. n /\ i + 1 # k
        BY <1>2, <3>2
      <4>2. QED
        BY <1>5, <4>1 DEF On
    <3>3. QED
      BY <3>1, <3>2
  <2>2. ASSUME NEW i \in 1 .. n, A[i] # A[k] PROVE A[i] \in On(n - 1, B)
    <3>1. i # k
      BY <2>2
    <3>2. CASE i < k
      <4>1. i \in 1 .. n - 1
        BY <3>2
      <4>2. B[i] = A[i]
        BY <1>2, <3>2, <4>1
      <4>3. QED
        BY <4>1, <4>2 DEF On
    <3>3. CASE ~(i < k)
      <4>1. i - 1 \in 1 .. n - 1 /\ ~(i - 1 < k) /\ (i - 1) + 1 = i
        BY <3>1, <3>3
      <4>2. B[i - 1] = A[i]
        BY <1>2, <4>1
      <4>3. QED
        BY <4>1, <4>2 DEF On
    <3>4. QED
      BY <3>2, <3>3
  <2>3. QED
    BY <2>1, <2>2 DEF On
<1>11. QED
  BY <1>9, <1>10 DEF B, first

\* The same in one piece: what it takes to unlink the k-th slot of a list, and
\* what comes of it.
Unlinks(link, link2, head, n, A, k) ==
    /\ n \in Nat /\ k \in 1 .. n
    /\ Row(link, head, n, A)
    /\ Skips(link, link2, k, n, A)

Unlinked(link, link2, head, n, A, k) ==
    /\ Row(link2, HeadWithout(k, link, head, A), n - 1, Dropped(k, n, A))
    /\ On(n - 1, Dropped(k, n, A)) = On(n, A) \ {A[k]}

\* RowDrop, with its hypotheses and its conclusions put together.
LEMMA RowUnlink ==
    ASSUME NEW link, NEW link2, NEW head, NEW n, NEW A, NEW k,
           Unlinks(link, link2, head, n, A, k)
    PROVE  Unlinked(link, link2, head, n, A, k)
<1>1. n \in Nat /\ k \in 1 .. n /\ Row(link, head, n, A) /\ Skips(link, link2, k, n, A)
  BY DEF Unlinks
<1> HIDE DEF Unlinks
<1>2. QED
  BY <1>1, RowDrop DEF Unlinked

\* Links of other slots do not matter to a list.
LEMMA RowKeep ==
    ASSUME NEW link, NEW link2, NEW head, NEW n \in Nat, NEW A, Row(link, head, n, A),
           \A x \in On(n, A) : link2[x] = link[x]
    PROVE  Row(link2, head, n, A)
BY DEF Row, On

\* A list ends at the slot whose link is cleared.
LEMMA RowCut ==
    ASSUME NEW link, NEW link2, NEW head, NEW n \in Nat, NEW A, Row(link, head, n, A),
           NEW k \in 1 .. n, link2[A[k]] = EMPTY,
           \A i \in 1 .. n : i # k => link2[A[i]] = link[A[i]]
    PROVE  Row(link2, head, k, Cut(k, A))
<1> DEFINE B == Cut(k, A)
<1>1. A \in [1 .. n -> Slots] /\ n # 0 /\ k # 0 /\ head = A[1] /\ 1 \in 1 .. k
  BY DEF Row
<1>2. \A i \in 1 .. k : i \in 1 .. n /\ B[i] = A[i]
  BY DEF Cut
<1>3. B \in [1 .. k -> Slots]
  BY <1>1, <1>2 DEF Cut
<1> HIDE DEF B
<1>4. ASSUME NEW i \in 1 .. k PROVE link2[B[i]] = IF i = k THEN EMPTY ELSE B[i + 1]
  <2>1. CASE i = k
    BY <1>2, <2>1
  <2>2. CASE i # k
    <3>1. i # n /\ i + 1 \in 1 .. k
      BY <2>2
    <3>2. link2[B[i]] = link[A[i]] /\ B[i + 1] = A[i + 1]
      BY <1>2, <2>2, <3>1
    <3>3. link[A[i]] = A[i + 1]
      BY <1>2, <3>1 DEF Row
    <3>4. QED
      BY <2>2, <3>2, <3>3
  <2>3. QED
    BY <2>1, <2>2
<1>5. \A i \in 1 .. k : \A j \in 1 .. k : B[i] = B[j] => i = j
  BY <1>2 DEF Row
<1>6. QED
  BY <1>1, <1>2, <1>3, <1>4, <1>5 DEF Row, B

-----------------------------------------------------------------------------
(* The pool: two rows that share it *)

\* A is the row of the active list and F that of the free list: they have no
\* slot in common, only reserved slots are in neither or behind a reserved one,
\* and none is free.
Partition(l, a, A, f, F) ==
    /\ l \in Lists /\ a \in Nat /\ f \in Nat
    /\ Row(l.next, l.active, a, A)
    /\ Row(l.next, l.free, f, F)
    /\ On(a, A) \cap On(f, F) = {}
    /\ Slots \ Reserved \subseteq On(a, A) \cup On(f, F)
    /\ On(f, F) \cap Reserved = {}
    /\ \A i \in 1 .. a : \A j \in 1 .. a :
          i < j /\ A[i] \in Reserved => A[j] \in Reserved

\* What a partition means for the walks.
LEMMA PartitionWalks ==
    ASSUME NEW l, NEW a, NEW A, NEW f, NEW F, Partition(l, a, A, f, F)
    PROVE  /\ Ends(l.next, l.active) /\ ToSet(Walk(l.next, l.active)) = On(a, A)
           /\ Ends(l.next, l.free) /\ ToSet(Walk(l.next, l.free)) = On(f, F)
<1>1. /\ l.next \in [Slots -> Links] /\ a \in Nat /\ f \in Nat
      /\ Row(l.next, l.active, a, A) /\ Row(l.next, l.free, f, F)
  BY DEF Partition, Lists
<1>2. Ends(l.next, l.active) /\ ToSet(Walk(l.next, l.active)) = On(a, A)
  BY <1>1, RowWalk
<1>3. Ends(l.next, l.free) /\ ToSet(Walk(l.next, l.free)) = On(f, F)
  BY <1>1, RowWalk
<1>4. QED
  BY <1>2, <1>3

\* The rows of a partition name slots.
LEMMA PartitionFacts ==
    ASSUME NEW l, NEW a, NEW A, NEW f, NEW F, Partition(l, a, A, f, F)
    PROVE  /\ a \in Nat /\ l \in Lists
           /\ On(a, A) \subseteq Slots
           /\ \A i \in 1 .. a : A[i] \in On(a, A) /\ A[i] \in Slots
           /\ \A i \in 1 .. a : l.next[A[i]] = IF i = a THEN EMPTY ELSE A[i + 1]
           /\ l.active = IF a = 0 THEN EMPTY ELSE A[1]
<1>1. a \in Nat /\ l \in Lists /\ Row(l.next, l.active, a, A)
  BY DEF Partition
<1>2. /\ A \in [1 .. a -> Slots] /\ l.active = IF a = 0 THEN EMPTY ELSE A[1]
      /\ \A i \in 1 .. a : l.next[A[i]] = IF i = a THEN EMPTY ELSE A[i + 1]
  BY <1>1 DEF Row
<1>3. QED
  BY <1>1, <1>2 DEF On

\* Reserved slots are slots.
LEMMA ReservedFacts ==
    /\ Reserved \subseteq Slots
    /\ Reserved = 0 .. MaxClients - 1
    /\ \A c \in Clients : ClientSoundIndex(c) \in Reserved
    /\ \A c \in Clients : \A d \in Clients : ClientSoundIndex(c) = ClientSoundIndex(d) => c = d
<1>1. MaxWorldSounds \in Nat /\ MaxClients \in Nat /\ MaxClients < MaxWorldSounds
  BY SoundAssumption
<1>2. \A c \in Clients : c - 1 \in 0 .. MaxClients - 1
  BY <1>1 DEF Clients
<1>3. ASSUME NEW s \in 0 .. MaxClients - 1 PROVE s \in Reserved
  <2>1. s + 1 \in Clients /\ (s + 1) - 1 = s
    BY <1>1 DEF Clients
  <2>2. QED
    BY <2>1 DEF Reserved, ClientSoundIndex
<1>4. Reserved \subseteq 0 .. MaxClients - 1
  BY <1>2 DEF Reserved, ClientSoundIndex
<1>5. 0 .. MaxClients - 1 \subseteq Slots
  BY <1>1 DEF Slots
<1>6. \A c \in Clients : ClientSoundIndex(c) \in Reserved
  BY DEF Reserved
<1>7. \A c \in Clients : \A d \in Clients : ClientSoundIndex(c) = ClientSoundIndex(d) => c = d
  BY <1>1 DEF Clients, ClientSoundIndex
<1>8. QED
  BY <1>3, <1>4, <1>5, <1>6, <1>7

\* A row names slots.
LEMMA OnFacts ==
    ASSUME NEW link, NEW head, NEW n \in Nat, NEW A, Row(link, head, n, A)
    PROVE  /\ On(n, A) \subseteq Slots
           /\ \A i \in 1 .. n : A[i] \in On(n, A) /\ A[i] \in Slots
           /\ head = EMPTY <=> n = 0
           /\ n # 0 => head = A[1] /\ 1 \in 1 .. n
<1>1. A \in [1 .. n -> Slots] /\ head = IF n = 0 THEN EMPTY ELSE A[1]
  BY DEF Row
<1>2. \A i \in 1 .. n : A[i] \in On(n, A) /\ A[i] \in Slots
  BY <1>1 DEF On
<1>3. n # 0 => 1 \in 1 .. n
  OBVIOUS
<1>4. QED
  BY <1>1, <1>2, <1>3, LinkFacts DEF On, EmptyIsNoSlot

\* IAllocSound moves the first free slot to the active list.
LEMMA AllocPartition ==
    ASSUME NEW l, NEW a, NEW A, NEW f, NEW F, l.free # EMPTY
    PROVE  Partition(l, a, A, f, F) =>
           /\ l.free \in On(f, F)
           /\ Partition(IAllocSound(l), a + 1, Pushed(l.free, a, A), f - 1, Dropped(1, f, F))
           /\ On(a + 1, Pushed(l.free, a, A)) = On(a, A) \cup {l.free}
           /\ On(f - 1, Dropped(1, f, F)) = On(f, F) \ {l.free}
<1> DEFINE s == l.free
           newNext == [l.next EXCEPT ![s] = l.active]
           B == Pushed(s, a, A)
           G == Dropped(1, f, F)
<1>0. SUFFICES ASSUME Partition(l, a, A, f, F)
             PROVE  /\ l.free \in On(f, F)
                    /\ Partition(IAllocSound(l), a + 1, B, f - 1, G)
                    /\ On(a + 1, B) = On(a, A) \cup {l.free}
                    /\ On(f - 1, G) = On(f, F) \ {l.free}
  OBVIOUS
<1>1. /\ l \in Lists /\ a \in Nat /\ f \in Nat
      /\ Row(l.next, l.active, a, A) /\ Row(l.next, l.free, f, F)
      /\ On(a, A) \cap On(f, F) = {} /\ On(f, F) \cap Reserved = {}
      /\ Slots \ Reserved \subseteq On(a, A) \cup On(f, F)
  BY <1>0 DEF Partition
<1>2. f # 0 /\ 1 \in 1 .. f /\ s = F[1] /\ s \in On(f, F) /\ s \in Slots /\ f - 1 \in Nat
  <2>1. f # 0
    BY <1>1, OnFacts
  <2>2. s = F[1] /\ 1 \in 1 .. f
    BY <1>1, <2>1, OnFacts
  <2>3. F[1] \in On(f, F) /\ F[1] \in Slots
    BY <1>1, <2>2, OnFacts
  <2>4. QED
    BY <1>1, <2>1, <2>2, <2>3
<1>3. l.next \in [Slots -> Links] /\ l.active \in Links
  BY <1>1 DEF Lists
<1>4. newNext \in [Slots -> Links] /\ newNext[s] = l.active /\ \A x \in Slots : x # s => newNext[x] = l.next[x]
  BY <1>2, <1>3
<1> HIDE DEF newNext
<1>5. s \notin On(a, A) /\ \A x \in On(a, A) : newNext[x] = l.next[x]
  <2>1. s \notin On(a, A)
    BY <1>1, <1>2
  <2>2. On(a, A) \subseteq Slots
    BY <1>1, OnFacts
  <2>3. QED
    BY <1>4, <2>1, <2>2
<1>6. Row(newNext, s, a + 1, B) /\ On(a + 1, B) = On(a, A) \cup {s}
  <2> HIDE DEF s
  <2> QED BY <1>1, <1>2, <1>4, <1>5, RowPush
<1>7. /\ \A i \in 1 .. f : i + 1 # 1
      /\ \A i \in 1 .. f : i # 1 => newNext[F[i]] = l.next[F[i]]
  <2> SUFFICES ASSUME NEW i \in 1 .. f
               PROVE  i + 1 # 1 /\ (i # 1 => newNext[F[i]] = l.next[F[i]])
    OBVIOUS
  <2>1. F[i] \in Slots
    BY <1>1, OnFacts
  <2>2. i # 1 => F[i] # s
    BY <1>1, <1>2 DEF Row
  <2>3. i + 1 # 1
    OBVIOUS
  <2>4. QED
    BY <1>4, <2>1, <2>2, <2>3
<1>8. Row(newNext, l.next[s], f - 1, G) /\ On(f - 1, G) = On(f, F) \ {s}
  <2>1. Skips(l.next, newNext, 1, f, F)
    BY <1>7 DEF Skips
  <2>2. f \in Nat /\ Row(l.next, l.free, f, F) /\ 1 \in 1 .. f
    BY <1>1, <1>2
  <2>3. /\ Row(newNext, HeadWithout(1, l.next, l.free, F), f - 1, Dropped(1, f, F))
        /\ On(f - 1, Dropped(1, f, F)) = On(f, F) \ {F[1]}
    <3>1. Unlinks(l.next, newNext, l.free, f, F, 1)
      BY <2>1, <2>2 DEF Unlinks
    <3>2. Unlinked(l.next, newNext, l.free, f, F, 1)
      BY <3>1, RowUnlink
    <3>3. QED
      BY <3>2 DEF Unlinked
  <2>4. HeadWithout(1, l.next, l.free, F) = l.next[s]
    BY <1>2 DEF HeadWithout
  <2>5. QED
    BY <1>2, <2>3, <2>4
<1>9. ASSUME NEW i \in 1 .. a + 1, NEW j \in 1 .. a + 1, i < j, B[i] \in Reserved
      PROVE  B[j] \in Reserved
  <2>1. j # 1 /\ j - 1 \in 1 .. a /\ B[j] = A[j - 1]
    BY <1>1, <1>9 DEF Pushed
  <2>2. CASE i = 1
    <3>1. B[i] = s
      BY <2>2 DEF Pushed
    <3>2. QED
      BY <1>1, <1>2, <1>9, <3>1
  <2>3. CASE i # 1
    <3>1. i - 1 \in 1 .. a /\ i - 1 < j - 1 /\ B[i] = A[i - 1]
      BY <1>1, <1>9, <2>3 DEF Pushed
    <3>2. QED
      BY <1>0, <1>9, <2>1, <3>1 DEF Partition
  <2>4. QED
    BY <2>2, <2>3
<1> DEFINE l2 == [next |-> newNext, active |-> s, free |-> l.next[s]]
<1>10. l2 \in Lists /\ l2.next = newNext /\ l2.active = s /\ l2.free = l.next[s]
  <2>1. s \in Links /\ l.next[s] \in Links
    BY <1>2, <1>3, LinkFacts
  <2>2. QED
    BY <1>4, <2>1 DEF Lists
<1>11. IAllocSound(l) = l2
  BY DEF IAllocSound, newNext
<1> HIDE DEF l2, B, G, s
<1>12. Partition(l2, a + 1, B, f - 1, G)
  <2>1. On(a + 1, B) \cap On(f - 1, G) = {}
    BY <1>1, <1>6, <1>8
  <2>2. Slots \ Reserved \subseteq On(a + 1, B) \cup On(f - 1, G)
    BY <1>1, <1>6, <1>8
  <2>3. On(f - 1, G) \cap Reserved = {}
    BY <1>1, <1>8
  <2>4. a + 1 \in Nat /\ f - 1 \in Nat
    BY <1>1, <1>2
  <2>5. QED
    BY <1>6, <1>8, <1>9, <1>10, <2>1, <2>2, <2>3, <2>4 DEF Partition
<1>13. QED
  BY <1>2, <1>6, <1>8, <1>11, <1>12 DEF B, G, s

\* FreeSound moves the k-th active slot to the free list, if that is not reserved
\* and iPrevious is the one before it.
LEMMA FreePartition ==
    ASSUME NEW l, NEW a, NEW A, NEW f, NEW F, NEW k \in 1 .. a, A[k] \notin Reserved,
           NEW iPrevious, iPrevious = IF k = 1 THEN EMPTY ELSE A[k - 1]
    PROVE  Partition(l, a, A, f, F) =>
           /\ Partition(FreeSound(l, A[k], iPrevious),
                        a - 1, Dropped(k, a, A), f + 1, Pushed(A[k], f, F))
           /\ On(a - 1, Dropped(k, a, A)) = On(a, A) \ {A[k]}
<1> DEFINE s == A[k]
           newNext == IF iPrevious = EMPTY THEN [l.next EXCEPT ![s] = l.free]
                   ELSE [l.next EXCEPT ![iPrevious] = l.next[s], ![s] = l.free]
           first == IF iPrevious = EMPTY THEN l.next[s] ELSE l.active
           B == Dropped(k, a, A)
           G == Pushed(s, f, F)
<1>0. SUFFICES ASSUME Partition(l, a, A, f, F)
             PROVE  /\ Partition(FreeSound(l, s, iPrevious), a - 1, B, f + 1, G)
                    /\ On(a - 1, B) = On(a, A) \ {s}
  OBVIOUS
<1>1. /\ l \in Lists /\ a \in Nat /\ f \in Nat
      /\ Row(l.next, l.active, a, A) /\ Row(l.next, l.free, f, F)
      /\ On(a, A) \cap On(f, F) = {} /\ On(f, F) \cap Reserved = {}
      /\ Slots \ Reserved \subseteq On(a, A) \cup On(f, F)
  BY <1>0 DEF Partition
<1>2. s \in Slots /\ s \in On(a, A) /\ a - 1 \in Nat
  <2>1. A[k] \in Slots /\ A[k] \in On(a, A)
    BY <1>1, OnFacts
  <2>2. a - 1 \in Nat
    BY <1>1
  <2>3. QED
    BY <2>1, <2>2
<1>3. l.next \in [Slots -> Links] /\ l.active \in Links /\ l.free \in Links
  BY <1>1 DEF Lists
<1>4. IF k = 1 THEN iPrevious = EMPTY
      ELSE k - 1 \in 1 .. a /\ iPrevious = A[k - 1] /\ iPrevious \in Slots /\ iPrevious # EMPTY
           /\ iPrevious # s /\ iPrevious \in On(a, A)
  <2>1. CASE k = 1
    BY <2>1
  <2>2. CASE k # 1
    <3>1. k - 1 \in 1 .. a /\ k - 1 # k
      BY <1>1, <2>2
    <3>2. iPrevious = A[k - 1] /\ iPrevious \in Slots /\ iPrevious \in On(a, A)
      BY <1>1, <2>2, <3>1, OnFacts
    <3>3. iPrevious # s
      BY <1>1, <3>1, <3>2 DEF Row
    <3>4. QED
      BY <2>2, <3>1, <3>2, <3>3, LinkFacts DEF EmptyIsNoSlot
  <2>3. QED
    BY <2>1, <2>2
<1>5. /\ newNext \in [Slots -> Links] /\ newNext[s] = l.free
      /\ \A x \in Slots : x # s /\ x # iPrevious => newNext[x] = l.next[x]
      /\ k # 1 => newNext[iPrevious] = l.next[s]
  <2> HIDE DEF s
  <2>1. CASE k = 1
    <3>1. newNext = [l.next EXCEPT ![s] = l.free]
      BY <1>4, <2>1
    <3> HIDE DEF newNext
    <3>2. QED
      BY <1>2, <1>3, <2>1, <3>1
  <2>2. CASE k # 1
    <3>1. newNext = [l.next EXCEPT ![iPrevious] = l.next[s], ![s] = l.free]
      BY <1>4, <2>2
    <3> HIDE DEF newNext
    <3>2. iPrevious \in Slots /\ iPrevious # s
      BY <1>4, <2>2
    <3>3. QED
      BY <1>2, <1>3, <3>1, <3>2
  <2>3. QED
    BY <2>1, <2>2
<1>6. first = IF k = 1 THEN l.next[s] ELSE l.active
  BY <1>4
<1> HIDE DEF newNext, first
<1>7. ASSUME NEW i \in 1 .. a, i # k
      PROVE  newNext[A[i]] = l.next[IF i + 1 = k THEN A[k] ELSE A[i]]
  <2>1. A[i] \in Slots /\ A[i] # s
    BY <1>1, <1>7, OnFacts DEF Row
  <2>2. CASE i + 1 = k
    <3>1. k # 1 /\ i = k - 1
      BY <2>2
    <3>2. newNext[A[i]] = l.next[s]
      BY <1>4, <1>5, <3>1
    <3>3. QED
      BY <2>2, <3>2
  <2>3. CASE i + 1 # k
    <3>1. A[i] # iPrevious
      <4>1. CASE k = 1
        BY <1>4, <2>1, <4>1, LinkFacts DEF EmptyIsNoSlot
      <4>2. CASE k # 1
        <5>1. i # k - 1
          BY <2>3
        <5>2. QED
          BY <1>1, <1>4, <4>2, <5>1 DEF Row
      <4>3. QED
        BY <4>1, <4>2
    <3>2. QED
      BY <1>5, <2>1, <2>3, <3>1
  <2>4. QED
    BY <2>2, <2>3
<1>8. Row(newNext, first, a - 1, B) /\ On(a - 1, B) = On(a, A) \ {s}
  <2>1. /\ \A i \in 1 .. a : i # k /\ i + 1 # k => newNext[A[i]] = l.next[A[i]]
        /\ \A i \in 1 .. a : i + 1 = k => newNext[A[i]] = l.next[A[k]]
    <3>1. \A i \in 1 .. a : i + 1 = k => i # k
      BY <1>1
    <3>2. QED
      BY <1>7, <3>1
  <2>2. Skips(l.next, newNext, k, a, A)
    BY <2>1 DEF Skips
  <2>3. a \in Nat /\ Row(l.next, l.active, a, A)
    BY <1>1
  <2>4. first = HeadWithout(k, l.next, l.active, A)
    BY <1>6 DEF HeadWithout
  <2>5. /\ Row(newNext, HeadWithout(k, l.next, l.active, A), a - 1, Dropped(k, a, A))
        /\ On(a - 1, Dropped(k, a, A)) = On(a, A) \ {A[k]}
    <3>1. Unlinks(l.next, newNext, l.active, a, A, k)
      BY <2>2, <2>3 DEF Unlinks
    <3>2. Unlinked(l.next, newNext, l.active, a, A, k)
      BY <3>1, RowUnlink
    <3>3. QED
      BY <3>2 DEF Unlinked
  <2>6. QED
    BY <2>4, <2>5
<1>9. s \notin On(f, F) /\ \A x \in On(f, F) : newNext[x] = l.next[x]
  <2>1. ASSUME NEW x \in On(f, F) PROVE x \in Slots /\ x # s /\ x # iPrevious
    <3>1. x \in Slots
      BY <1>1, OnFacts
    <3>2. x # s
      BY <1>1, <1>2
    <3>3. x # iPrevious
      <4>1. CASE k = 1
        BY <1>4, <3>1, <4>1, LinkFacts DEF EmptyIsNoSlot
      <4>2. CASE k # 1
        BY <1>1, <1>4, <4>2
      <4>3. QED
        BY <4>1, <4>2
    <3>4. QED
      BY <3>1, <3>2, <3>3
  <2>2. QED
    BY <1>5, <2>1
<1>10. Row(newNext, s, f + 1, G) /\ On(f + 1, G) = On(f, F) \cup {s}
  <2> HIDE DEF s
  <2> QED BY <1>1, <1>2, <1>5, <1>9, RowPush
<1>11. ASSUME NEW i \in 1 .. a - 1, NEW j \in 1 .. a - 1, i < j, B[i] \in Reserved
       PROVE  B[j] \in Reserved
  <2> DEFINE i2 == IF i < k THEN i ELSE i + 1
             j2 == IF j < k THEN j ELSE j + 1
  <2>1. i2 \in 1 .. a /\ j2 \in 1 .. a /\ i2 < j2
    BY <1>1, <1>11
  <2>2. B[i] = A[i2] /\ B[j] = A[j2]
    BY DEF Dropped
  <2> HIDE DEF i2, j2
  <2>3. QED
    BY <1>0, <1>11, <2>1, <2>2 DEF Partition
<1> DEFINE l2 == [next |-> newNext, active |-> first, free |-> s]
<1>12. l2 \in Lists /\ l2.next = newNext /\ l2.active = first /\ l2.free = s
  <2>1. s \in Links /\ l.next[s] \in Links
    BY <1>2, <1>3, LinkFacts
  <2>2. first \in Links
    BY <1>3, <1>6, <2>1
  <2>3. QED
    BY <1>5, <2>1, <2>2 DEF Lists
<1>13. FreeSound(l, s, iPrevious) = l2
  BY DEF FreeSound, newNext, first
<1> HIDE DEF l2, B, G
<1>14. Partition(l2, a - 1, B, f + 1, G)
  <2>1. On(a - 1, B) \cap On(f + 1, G) = {}
    BY <1>1, <1>8, <1>10
  <2>2. Slots \ Reserved \subseteq On(a - 1, B) \cup On(f + 1, G)
    BY <1>1, <1>8, <1>10
  <2>3. On(f + 1, G) \cap Reserved = {}
    BY <1>1, <1>10
  <2>4. a - 1 \in Nat /\ f + 1 \in Nat
    BY <1>1, <1>2
  <2> HIDE DEF s
  <2>5. QED
    BY <1>8, <1>10, <1>11, <1>12, <2>1, <2>2, <2>3, <2>4 DEF Partition
<1>15. QED
  BY <1>8, <1>13, <1>14 DEF B, G

\* Reset cuts the active list behind a reserved slot, which only other reserved
\* slots follow; a slot that was cut off already makes no difference.
LEMMA ResetPartition ==
    ASSUME NEW l, NEW a, NEW A, NEW f, NEW F, Partition(l, a, A, f, F), NEW s \in Reserved
    PROVE  \E b, B : /\ Partition([l EXCEPT !.next[s] = EMPTY], b, B, f, F)
                     /\ On(b, B) \subseteq On(a, A)
                     /\ On(b, B) \ Reserved = On(a, A) \ Reserved
<1> DEFINE newNext == [l.next EXCEPT ![s] = EMPTY]
           l2 == [l EXCEPT !.next[s] = EMPTY]
<1>1. /\ l \in Lists /\ a \in Nat /\ f \in Nat
      /\ Row(l.next, l.active, a, A) /\ Row(l.next, l.free, f, F)
      /\ On(a, A) \cap On(f, F) = {} /\ On(f, F) \cap Reserved = {}
      /\ Slots \ Reserved \subseteq On(a, A) \cup On(f, F)
  BY DEF Partition
<1>2. s \in Slots /\ EMPTY \in Links
  BY ReservedFacts, LinkFacts
<1>3. /\ newNext \in [Slots -> Links] /\ newNext[s] = EMPTY
      /\ \A x \in Slots : x # s => newNext[x] = l.next[x]
  <2>1. l.next \in [Slots -> Links]
    BY <1>1 DEF Lists
  <2>2. QED
    BY <1>2, <2>1
<1>4. l2 \in Lists /\ l2.next = newNext /\ l2.active = l.active /\ l2.free = l.free
  BY <1>1, <1>2 DEF Lists
<1> HIDE DEF newNext, l2
<1>5. Row(newNext, l.free, f, F)
  <2>1. On(f, F) \subseteq Slots
    BY <1>1, OnFacts
  <2>2. \A x \in On(f, F) : newNext[x] = l.next[x]
    BY <1>1, <1>3, <2>1
  <2>3. QED
    BY <1>1, <2>2, RowKeep
<1>6. CASE s \in On(a, A)
  <2>1. PICK k \in 1 .. a : A[k] = s
    BY <1>6 DEF On
  <2>2. \A i \in 1 .. a : i # k => newNext[A[i]] = l.next[A[i]]
    <3>1. ASSUME NEW i \in 1 .. a, i # k PROVE A[i] \in Slots /\ A[i] # s
      BY <1>1, <2>1, <3>1, OnFacts DEF Row
    <3>2. QED
      BY <1>3, <3>1
  <2> DEFINE B == Cut(k, A)
  <2>3. Row(newNext, l.active, k, B)
    BY <1>1, <1>3, <2>1, <2>2, RowCut
  <2>4. k \in Nat /\ \A i \in 1 .. k : i \in 1 .. a /\ B[i] = A[i]
    BY <1>1 DEF Cut
  <2> HIDE DEF B
  <2>5. On(k, B) \subseteq On(a, A)
    BY <2>4 DEF On
  <2>6. ASSUME NEW i \in 1 .. a, A[i] \notin Reserved PROVE A[i] \in On(k, B)
    <3>1. ~(k < i)
      BY <2>1, <2>6 DEF Partition
    <3>2. i \in 1 .. k
      BY <1>1, <3>1
    <3>3. QED
      BY <2>4, <3>2 DEF On
  <2>7. On(k, B) \ Reserved = On(a, A) \ Reserved
    BY <2>5, <2>6 DEF On
  <2>8. \A i \in 1 .. k : \A j \in 1 .. k : i < j /\ B[i] \in Reserved => B[j] \in Reserved
    BY <2>4 DEF Partition
  <2>9. Partition(l2, k, B, f, F)
    <3>1. On(k, B) \cap On(f, F) = {} /\ Slots \ Reserved \subseteq On(k, B) \cup On(f, F)
      BY <1>1, <2>5, <2>7
    <3>2. QED
      BY <1>1, <1>4, <1>5, <2>3, <2>4, <2>8, <3>1 DEF Partition
  <2>10. QED
    BY <2>5, <2>7, <2>9 DEF l2
<1>7. CASE s \notin On(a, A)
  <2>1. Row(newNext, l.active, a, A)
    <3>1. On(a, A) \subseteq Slots
      BY <1>1, OnFacts
    <3>2. \A x \in On(a, A) : newNext[x] = l.next[x]
      BY <1>3, <1>7, <3>1
    <3>3. QED
      BY <1>1, <3>2, RowKeep
  <2>2. Partition(l2, a, A, f, F)
    BY <1>1, <1>4, <1>5, <2>1 DEF Partition
  <2>3. QED
    BY <2>2 DEF l2
<1>8. QED
  BY <1>6, <1>7

-----------------------------------------------------------------------------
(* CSoundEnt::Initialize *)

\* The lists when the first n slots have been taken, one after the other.
Taken(n) ==
    [next |-> [s \in Slots |-> IF s < n THEN s - 1
                               ELSE IF s = MaxWorldSounds - 1 THEN EMPTY ELSE s + 1],
     active |-> n - 1,
     free |-> n]

\* IAllocSound keeps to the lists' types.
LEMMA AllocTypes ==
    ASSUME NEW l \in Lists
    PROVE  IAllocSound(l) \in Lists
<1>1. l.next \in [Slots -> Links] /\ l.active \in Links /\ l.free \in Links
  BY DEF Lists
<1>2. CASE l.free = EMPTY
  BY <1>2 DEF IAllocSound
<1>3. CASE l.free # EMPTY
  <2>1. l.free \in Slots
    BY <1>1, <1>3, LinkFacts
  <2>2. /\ [l.next EXCEPT ![l.free] = l.active] \in [Slots -> Links]
        /\ l.next[l.free] \in Links
    BY <1>1, <2>1
  <2>3. QED
    BY <1>1, <1>3, <2>2 DEF IAllocSound, Lists
<1>4. QED
  BY <1>2, <1>3

\* The links of Taken(n).
LEMMA TakenFacts ==
    ASSUME NEW n \in Nat, n < MaxWorldSounds
    PROVE  /\ Taken(n) \in Lists
           /\ Taken(n).active = n - 1 /\ Taken(n).free = n
           /\ \A s \in Slots : Taken(n).next[s] =
                  IF s < n THEN s - 1 ELSE IF s = MaxWorldSounds - 1 THEN EMPTY ELSE s + 1
<1>1. MaxWorldSounds \in Nat
  BY SoundAssumption
<1>2. ASSUME NEW s \in Slots
      PROVE  (IF s < n THEN s - 1 ELSE IF s = MaxWorldSounds - 1 THEN EMPTY ELSE s + 1) \in Links
  BY <1>1 DEF Slots, Links, EMPTY
<1>3. n - 1 \in Links /\ n \in Links
  BY <1>1 DEF Slots, Links, EMPTY
<1>4. QED
  BY <1>2, <1>3 DEF Taken, Lists

\* One slot more is taken.
LEMMA TakeNext ==
    ASSUME NEW n \in Nat, n + 1 < MaxWorldSounds
    PROVE  IAllocSound(Taken(n)) = Taken(n + 1)
<1>1. MaxWorldSounds \in Nat /\ n + 1 \in Nat /\ n < MaxWorldSounds /\ n \in Slots
  BY SoundAssumption DEF Slots
<1> DEFINE l == Taken(n)
<1>2. /\ l \in Lists /\ l.active = n - 1 /\ l.free = n
      /\ \A s \in Slots : l.next[s] =
             IF s < n THEN s - 1 ELSE IF s = MaxWorldSounds - 1 THEN EMPTY ELSE s + 1
  BY <1>1, TakenFacts
<1> HIDE DEF l
<1>3. l.next \in [Slots -> Links]
  BY <1>2 DEF Lists
<1>4. l.next[n] = n + 1
  BY <1>1, <1>2
<1>5. ASSUME NEW s \in Slots
      PROVE  [l.next EXCEPT ![n] = n - 1][s] =
                 IF s < n + 1 THEN s - 1 ELSE IF s = MaxWorldSounds - 1 THEN EMPTY ELSE s + 1
  <2>1. CASE s = n
    BY <1>3, <2>1
  <2>2. CASE s # n
    <3>1. [l.next EXCEPT ![n] = n - 1][s] = l.next[s]
      BY <1>3, <2>2
    <3>2. s < n + 1 <=> s < n
      BY <1>1, <2>2 DEF Slots
    <3>3. QED
      BY <1>2, <3>1, <3>2
  <2>3. QED
    BY <2>1, <2>2
<1>6. [l.next EXCEPT ![n] = n - 1]
        = [s \in Slots |-> IF s < n + 1 THEN s - 1
                           ELSE IF s = MaxWorldSounds - 1 THEN EMPTY ELSE s + 1]
  BY <1>3, <1>5
<1>7. l.free # EMPTY
  BY <1>1, <1>2, LinkFacts DEF EmptyIsNoSlot
<1>8. IAllocSound(l) = [next |-> [l.next EXCEPT ![n] = n - 1], active |-> n, free |-> n + 1]
  BY <1>2, <1>4, <1>7 DEF IAllocSound
<1>9. (n + 1) - 1 = n
  OBVIOUS
<1>10. QED
  BY <1>6, <1>8, <1>9 DEF Taken, l

\* Initialize takes the first slots for the clients.
LEMMA ReserveTakes == ClientReserve = Taken(MaxClients)
<1> DEFINE G == [p \in Lists \X Nat |-> IAllocSound(p[1])]
           Body(f) == [n \in Nat |-> IF n = 0 THEN AllFree ELSE IAllocSound(f[n - 1])]
           taken == CHOOSE f : f = Body(f)
<1>0. MaxWorldSounds \in Nat /\ MaxClients \in Nat /\ MaxClients < MaxWorldSounds
  BY SoundAssumption
<1>1. AllFree = Taken(0)
  <2>1. \A s \in Slots : ~(s < 0)
    BY DEF Slots
  <2>2. 0 - 1 = EMPTY
    BY DEF EMPTY
  <2>3. QED
    BY <2>1, <2>2 DEF AllFree, Taken
<1>2. AllFree \in Lists
  BY <1>0, <1>1, TakenFacts
<1>3. G \in [Lists \X Nat -> Lists]
  BY AllocTypes
<1>4. PICK h \in [Nat -> Lists] : h[0] = AllFree /\ \A k \in Nat : h[k + 1] = G[<<h[k], k>>]
  <2> HIDE DEF G
  <2>1. \E h : Recursion(h, Lists, G, AllFree)
    BY <1>2, <1>3, RecursionExists
  <2>2. QED
    BY <2>1 DEF Recursion
<1>5. h = Body(h)
  <2>1. ASSUME NEW n \in Nat
        PROVE  h[n] = IF n = 0 THEN AllFree ELSE IAllocSound(h[n - 1])
    <3>1. CASE n = 0
      BY <1>4, <3>1
    <3>2. CASE n # 0
      <4>1. n - 1 \in Nat /\ n = (n - 1) + 1
        BY <3>2
      <4>2. h[n - 1] \in Lists /\ h[n] = G[<<h[n - 1], n - 1>>]
        <5> HIDE DEF G
        <5> QED BY <1>4, <4>1
      <4>3. G[<<h[n - 1], n - 1>>] = IAllocSound(h[n - 1])
        BY <4>1, <4>2
      <4>4. QED
        BY <3>2, <4>2, <4>3
    <3>3. QED
      BY <3>1, <3>2
  <2>2. h = [n \in Nat |-> h[n]]
    BY <1>4
  <2> HIDE DEF G
  <2>3. QED
    BY <2>1, <2>2
<1>6. taken = Body(taken)
  <2> HIDE DEF Body
  <2> QED BY <1>5
<1>7. ClientReserve = taken[MaxClients]
  BY DEF ClientReserve
<1> HIDE DEF taken
<1> DEFINE T == {n \in Nat : n <= MaxClients /\ taken[n] # Taken(n)}
<1>8. T = {}
  <2>1. SUFFICES ASSUME T # {} PROVE FALSE
    OBVIOUS
  <2>2. PICK k \in T : \A y \in T : k <= y
    <3>1. T \subseteq Nat
      OBVIOUS
    <3> HIDE DEF T
    <3>2. QED
      BY <2>1, <3>1, LeastNat
  <2>3. k \in Nat /\ k <= MaxClients /\ taken[k] # Taken(k)
    BY <2>2
  <2>4. CASE k = 0
    <3>1. taken[0] = AllFree
      BY <1>6
    <3>2. QED
      BY <1>1, <2>3, <2>4, <3>1
  <2>5. CASE k # 0
    <3>1. k - 1 \in Nat /\ k - 1 <= MaxClients /\ (k - 1) + 1 = k /\ k < MaxWorldSounds
          /\ ~(k <= k - 1)
      BY <1>0, <2>3, <2>5
    <3>2. taken[k - 1] = Taken(k - 1)
      BY <2>2, <3>1
    <3>3. taken[k] = IAllocSound(taken[k - 1])
      BY <1>6, <2>3, <2>5
    <3>4. IAllocSound(Taken(k - 1)) = Taken((k - 1) + 1)
      BY <3>1, TakeNext
    <3>5. QED
      BY <2>3, <3>1, <3>2, <3>3, <3>4
  <2>6. QED
    BY <2>4, <2>5
<1>9. MaxClients \notin T
  <2> HIDE DEF T
  <2> QED BY <1>8
<1>10. QED
  BY <1>0, <1>7, <1>9

\* At first only the reserved slots are active, the last one first.
LEMMA InitPartition ==
    \E a, A, f, F : Partition(ClientReserve, a, A, f, F) /\ On(a, A) = Reserved
<1> DEFINE l == ClientReserve
           a == MaxClients
           A == [i \in 1 .. MaxClients |-> MaxClients - i]
           f == MaxWorldSounds - MaxClients
           F == [j \in 1 .. f |-> MaxClients + j - 1]
<1>1. MaxWorldSounds \in Nat /\ MaxClients \in Nat /\ MaxClients < MaxWorldSounds
  BY SoundAssumption
<1>2. /\ l \in Lists /\ l.active = MaxClients - 1 /\ l.free = MaxClients
      /\ \A s \in Slots : l.next[s] =
             IF s < MaxClients THEN s - 1 ELSE IF s = MaxWorldSounds - 1 THEN EMPTY ELSE s + 1
  <2>1. l = Taken(MaxClients)
    BY ReserveTakes
  <2> HIDE DEF l
  <2>2. QED
    BY <1>1, <2>1, TakenFacts
<1> HIDE DEF l
<1>3. f \in Nat /\ f # 0 /\ a \in Nat
  BY <1>1
<1>4. \A i \in 1 .. a : A[i] = MaxClients - i /\ A[i] \in 0 .. MaxClients - 1 /\ A[i] \in Slots
  BY <1>1 DEF Slots
<1>5. \A j \in 1 .. f : F[j] = MaxClients + j - 1 /\ F[j] \in Slots /\ ~(F[j] < MaxClients)
  BY <1>1 DEF Slots
<1>6. A \in [1 .. a -> Slots] /\ F \in [1 .. f -> Slots]
  BY <1>4, <1>5
<1> HIDE DEF A, F
<1>7. Row(l.next, l.active, a, A)
  <2>1. l.active = IF a = 0 THEN EMPTY ELSE A[1]
    <3>1. CASE a = 0
      BY <1>2, <3>1 DEF EMPTY
    <3>2. CASE a # 0
      <4>1. 1 \in 1 .. a
        BY <1>3, <3>2
      <4>2. QED
        BY <1>2, <1>4, <3>2, <4>1
    <3>3. QED
      BY <3>1, <3>2
  <2>2. ASSUME NEW i \in 1 .. a PROVE l.next[A[i]] = IF i = a THEN EMPTY ELSE A[i + 1]
    <3>1. A[i] < MaxClients /\ A[i] = MaxClients - i
      BY <1>1, <1>4
    <3>2. l.next[A[i]] = A[i] - 1
      BY <1>2, <1>4, <3>1
    <3>3. CASE i = a
      BY <1>1, <3>1, <3>2, <3>3 DEF EMPTY
    <3>4. CASE i # a
      <4>1. i + 1 \in 1 .. a
        BY <1>1, <3>4
      <4>2. A[i + 1] = MaxClients - (i + 1)
        BY <1>4, <4>1
      <4>3. QED
        BY <1>1, <3>1, <3>2, <3>4, <4>2
    <3>5. QED
      BY <3>3, <3>4
  <2>3. \A i \in 1 .. a : \A j \in 1 .. a : A[i] = A[j] => i = j
    BY <1>1, <1>4
  <2>4. QED
    BY <1>6, <2>1, <2>2, <2>3 DEF Row
<1>8. Row(l.next, l.free, f, F)
  <2>1. l.free = IF f = 0 THEN EMPTY ELSE F[1]
    <3>1. 1 \in 1 .. f
      BY <1>3
    <3>2. F[1] = MaxClients + 1 - 1
      BY <1>5, <3>1
    <3>3. QED
      BY <1>1, <1>2, <1>3, <3>2
  <2>2. ASSUME NEW j \in 1 .. f PROVE l.next[F[j]] = IF j = f THEN EMPTY ELSE F[j + 1]
    <3>1. F[j] = MaxClients + j - 1 /\ F[j] \in Slots /\ ~(F[j] < MaxClients)
      BY <1>5
    <3>2. l.next[F[j]] = IF F[j] = MaxWorldSounds - 1 THEN EMPTY ELSE F[j] + 1
      BY <1>2, <3>1
    <3>3. CASE j = f
      <4>1. F[j] = MaxWorldSounds - 1
        BY <1>1, <3>1, <3>3
      <4>2. QED
        BY <3>2, <3>3, <4>1
    <3>4. CASE j # f
      <4>1. F[j] # MaxWorldSounds - 1 /\ j + 1 \in 1 .. f
        BY <1>1, <3>1, <3>4
      <4>2. F[j + 1] = MaxClients + (j + 1) - 1
        BY <1>5, <4>1
      <4>3. MaxClients + (j + 1) - 1 = F[j] + 1
        BY <1>1, <3>1
      <4>4. QED
        BY <3>2, <3>4, <4>1, <4>2, <4>3
    <3>5. QED
      BY <3>3, <3>4
  <2>3. \A i \in 1 .. f : \A j \in 1 .. f : F[i] = F[j] => i = j
    BY <1>1, <1>5
  <2>4. QED
    BY <1>6, <2>1, <2>2, <2>3 DEF Row
<1>9. On(a, A) = 0 .. MaxClients - 1
  <2>1. ASSUME NEW s \in 0 .. MaxClients - 1 PROVE s \in On(a, A)
    <3>1. MaxClients - s \in 1 .. a /\ MaxClients - (MaxClients - s) = s
      BY <1>1
    <3>2. A[MaxClients - s] = s
      BY <1>4, <3>1
    <3>3. QED
      BY <3>1, <3>2 DEF On
  <2>2. QED
    BY <1>4, <2>1 DEF On
<1>10. On(f, F) = Slots \ Reserved
  <2>1. ASSUME NEW s \in Slots, s \notin 0 .. MaxClients - 1 PROVE s \in On(f, F)
    <3>1. s - MaxClients + 1 \in 1 .. f /\ MaxClients + (s - MaxClients + 1) - 1 = s
      BY <1>1, <2>1 DEF Slots
    <3>2. F[s - MaxClients + 1] = s
      BY <1>5, <3>1
    <3>3. QED
      BY <3>1, <3>2 DEF On
  <2>2. \A j \in 1 .. f : F[j] \notin 0 .. MaxClients - 1
    BY <1>1, <1>5
  <2>3. QED
    BY <1>5, <2>1, <2>2, ReservedFacts DEF On
<1>11. \A i \in 1 .. a : \A j \in 1 .. a : i < j /\ A[i] \in Reserved => A[j] \in Reserved
  BY <1>4, ReservedFacts
<1>12. On(a, A) = Reserved /\ On(a, A) \cap On(f, F) = {}
       /\ Slots \ Reserved \subseteq On(a, A) \cup On(f, F) /\ On(f, F) \cap Reserved = {}
  BY <1>9, <1>10, ReservedFacts
<1> HIDE DEF f, a
<1>13. Partition(l, a, A, f, F)
  BY <1>2, <1>3, <1>7, <1>8, <1>11, <1>12 DEF Partition
<1>14. QED
  BY <1>12, <1>13 DEF l

-----------------------------------------------------------------------------
(* CSoundEnt::Think *)

\* FreeSound keeps to the lists' types.
LEMMA FreeTypes ==
    ASSUME NEW l \in Lists, NEW s \in Slots, NEW p \in Links
    PROVE  FreeSound(l, s, p) \in Lists
<1>1. l.next \in [Slots -> Links] /\ l.active \in Links /\ l.free \in Links /\ l.next[s] \in Links
  BY DEF Lists
<1>2. s \in Links
  BY LinkFacts
<1>3. [l.next EXCEPT ![s] = l.free] \in [Slots -> Links]
  BY <1>1
<1>4. [l.next EXCEPT ![p] = l.next[s], ![s] = l.free] \in [Slots -> Links]
  BY <1>1
<1>5. QED
  BY <1>1, <1>2, <1>3, <1>4 DEF FreeSound, Lists

\* What a round of the loop does to each part.
LEMMA CheckedFacts ==
    ASSUME NEW w \in Checks, w.at # EMPTY
    PROVE  /\ Checked(w) \in Checks
           /\ Checked(w).at = w.lists.next[w.at]
           /\ expire[w.at] = "due" => /\ Checked(w).lists = FreeSound(w.lists, w.at, w.previous)
                                     /\ Checked(w).previous = w.previous
           /\ expire[w.at] # "due" => /\ Checked(w).lists = w.lists
                                     /\ Checked(w).previous = w.at
<1> DEFINE l2 == FreeSound(w.lists, w.at, w.previous)
           next == w.lists.next[w.at]
<1>1. /\ w.lists \in Lists /\ w.previous \in Links /\ w.at \in Links /\ w.at \in Slots
      /\ w \in [lists : Lists, previous : Links, at : Links]
  BY LinkFacts DEF Checks
<1>2. l2 \in Lists
  BY <1>1, FreeTypes
<1>3. next \in Links
  BY <1>1 DEF Lists
<1> HIDE DEF l2, next
<1>4. CASE expire[w.at] = "due"
  <2> DEFINE v == [w EXCEPT !.lists = l2, !.at = next]
  <2>1. Checked(w) = v
    BY <1>4 DEF Checked, l2, next
  <2>2. v \in [lists : Lists, previous : Links, at : Links]
    BY <1>1, <1>2, <1>3
  <2>3. v.lists = l2 /\ v.previous = w.previous /\ v.at = next
    BY <1>1
  <2> HIDE DEF v
  <2>4. QED
    BY <1>4, <2>1, <2>2, <2>3 DEF Checks, l2, next
<1>5. CASE expire[w.at] # "due"
  <2> DEFINE v == [w EXCEPT !.previous = w.at, !.at = next]
  <2>1. Checked(w) = v
    BY <1>5 DEF Checked, next
  <2>2. v \in [lists : Lists, previous : Links, at : Links]
    BY <1>1, <1>3
  <2>3. v.lists = w.lists /\ v.previous = w.at /\ v.at = next
    BY <1>1
  <2> HIDE DEF v
  <2>4. QED
    BY <1>5, <2>1, <2>2, <2>3 DEF Checks, next
<1>6. QED
  BY <1>4, <1>5

ThinkRule(f) ==
    /\ \A w \in Checks : w.at = EMPTY => \A n \in Nat : f[n][w] = w.lists
    /\ \A w \in Checks : w.at # EMPTY => \A n \in Nat : f[n + 1][w] = f[n][Checked(w)]

\* Think's loop is defined by recursion.
LEMMA ThinkRecursion ==
    ASSUME Think
    PROVE  \E f : /\ ThinkRule(f)
                  /\ lists' = f[MaxWorldSounds][[lists |-> lists, previous |-> EMPTY,
                                                 at |-> lists.active]]
<1> DEFINE D == [Checks -> Lists]
           G == [p \in D \X Nat |->
                   [w \in Checks |-> IF w.at = EMPTY THEN w.lists ELSE p[1][Checked(w)]]]
           start == [w \in Checks |-> w.lists]
           Body(f) == [n \in Nat |->
                         [w \in Checks |->
                            IF n = 0 \/ w.at = EMPTY THEN w.lists ELSE f[n - 1][Checked(w)]]]
           from == CHOOSE f : f = Body(f)
<1>1. \A w \in Checks : w.lists \in Lists
  BY DEF Checks
<1>2. start \in D
  BY <1>1
<1>3. G \in [D \X Nat -> D]
  <2>1. ASSUME NEW g \in D
        PROVE  [w \in Checks |-> IF w.at = EMPTY THEN w.lists ELSE g[Checked(w)]] \in D
    BY <1>1, CheckedFacts
  <2>2. ASSUME NEW p \in D \X Nat PROVE p[1] \in D
    OBVIOUS
  <2> HIDE DEF D
  <2>3. QED
    BY <2>1, <2>2
<1>4. PICK h \in [Nat -> D] : h[0] = start /\ \A k \in Nat : h[k + 1] = G[<<h[k], k>>]
  <2> HIDE DEF D, G, start
  <2>1. \E h : Recursion(h, D, G, start)
    BY <1>2, <1>3, RecursionExists
  <2>2. QED
    BY <2>1 DEF Recursion
<1>5. h = Body(h)
  <2>1. ASSUME NEW n \in Nat
        PROVE  h[n] = [w \in Checks |->
                         IF n = 0 \/ w.at = EMPTY THEN w.lists ELSE h[n - 1][Checked(w)]]
    <3>1. CASE n = 0
      BY <1>4, <3>1
    <3>2. CASE n # 0
      <4>1. n - 1 \in Nat /\ n = (n - 1) + 1
        BY <3>2
      <4>2. h[n - 1] \in D /\ h[n] = G[<<h[n - 1], n - 1>>]
        <5> HIDE DEF G, D, start
        <5> QED BY <1>4, <4>1
      <4>3. G[<<h[n - 1], n - 1>>]
              = [w \in Checks |-> IF w.at = EMPTY THEN w.lists ELSE h[n - 1][Checked(w)]]
        <5> HIDE DEF D
        <5> QED BY <4>1, <4>2
      <4> HIDE DEF G, D, start
      <4>4. QED
        BY <3>2, <4>2, <4>3
    <3>3. QED
      BY <3>1, <3>2
  <2>2. h = [n \in Nat |-> h[n]]
    <3> HIDE DEF D, G, start
    <3> QED BY <1>4
  <2> HIDE DEF D, G, start
  <2>3. QED
    BY <2>1, <2>2
<1>6. from = Body(from)
  <2> HIDE DEF Body
  <2> QED BY <1>5
<1>7. lists' = from[MaxWorldSounds][[lists |-> lists, previous |-> EMPTY, at |-> lists.active]]
  BY DEF Think
<1> HIDE DEF from, D, G, start
<1>8. ASSUME NEW w \in Checks, w.at = EMPTY, NEW n \in Nat PROVE from[n][w] = w.lists
  BY <1>6, <1>8
<1>9. ASSUME NEW w \in Checks, w.at # EMPTY, NEW n \in Nat
      PROVE  from[n + 1][w] = from[n][Checked(w)]
  <2>1. n + 1 \in Nat /\ n + 1 # 0 /\ (n + 1) - 1 = n
    OBVIOUS
  <2>2. from[n + 1] = [x \in Checks |-> IF n + 1 = 0 \/ x.at = EMPTY THEN x.lists
                                        ELSE from[(n + 1) - 1][Checked(x)]]
    BY <1>6, <2>1
  <2>3. from[n + 1][w] = from[(n + 1) - 1][Checked(w)]
    <3> HIDE DEF Body
    <3> QED BY <1>9, <2>1, <2>2
  <2>4. QED
    BY <2>1, <2>3
<1>10. ThinkRule(from)
  BY <1>8, <1>9 DEF ThinkRule
<1> HIDE DEF Body
<1>11. QED
  BY <1>7, <1>10

\* Where the loop is: the i-th sound of the active list comes next, what is before
\* it stays, what has left the set up of sounds that were active was due, and at
\* most n rounds are left.
ThinkAt(w, up, n, a, A, f, F, i) ==
    /\ Partition(w.lists, a, A, f, F)
    /\ i \in 1 .. a + 1 /\ a + 1 - i <= n
    /\ w.at = (IF i = a + 1 THEN EMPTY ELSE A[i])
    /\ w.previous = (IF i = 1 THEN EMPTY ELSE A[i - 1])
    /\ \A j \in 1 .. a : j < i => expire[A[j]] # "due"
    /\ On(a, A) \subseteq up
    /\ \A s \in up \ On(a, A) : expire[s] = "due"

\* What the loop leaves: the sounds of up that are not due.
ThinkDone(l, up) ==
    \E a, A, f, F : Partition(l, a, A, f, F) /\ On(a, A) = {s \in up : expire[s] # "due"}

\* At the end of the list the loop is done.
LEMMA ThinkEnds ==
    ASSUME NEW w, NEW up, NEW n, NEW a, NEW A, NEW f, NEW F, NEW i,
           ThinkAt(w, up, n, a, A, f, F, i), w.at = EMPTY \/ n = 0
    PROVE  w.at = EMPTY /\ ThinkDone(w.lists, up)
<1>1. /\ Partition(w.lists, a, A, f, F) /\ i \in 1 .. a + 1 /\ a + 1 - i <= n
      /\ w.at = IF i = a + 1 THEN EMPTY ELSE A[i]
      /\ \A j \in 1 .. a : j < i => expire[A[j]] # "due"
      /\ On(a, A) \subseteq up
      /\ \A s \in up \ On(a, A) : expire[s] = "due"
  BY DEF ThinkAt
<1>2. a \in Nat /\ \A j \in 1 .. a : A[j] \in Slots
  BY <1>1, PartitionFacts
<1>3. i = a + 1
  <2>1. CASE w.at = EMPTY
    <3>1. i \in 1 .. a => A[i] # EMPTY
      BY <1>2, LinkFacts DEF EmptyIsNoSlot
    <3>2. QED
      BY <1>1, <1>2, <2>1, <3>1
  <2>2. CASE n = 0
    BY <1>1, <1>2, <2>2
  <2>3. QED
    BY <2>1, <2>2
<1>4. \A j \in 1 .. a : expire[A[j]] # "due"
  BY <1>1, <1>2, <1>3
<1>5. On(a, A) = {s \in up : expire[s] # "due"}
  BY <1>1, <1>4 DEF On
<1>6. QED
  BY <1>1, <1>3, <1>5 DEF ThinkDone

\* A round that frees a sound: the list is shorter, and the next sound has come
\* to the place of the one that has left.
LEMMA ThinkFrees ==
    ASSUME NEW w \in Checks, NEW up, NEW n \in Nat, NEW a, NEW A, NEW f, NEW F, NEW i,
           ThinkAt(w, up, n + 1, a, A, f, F, i), w.at # EMPTY,
           expire[w.at] = "due", \A s \in Reserved : expire[s] = "never"
    PROVE  ThinkAt(Checked(w), up, n, a - 1, Dropped(i, a, A), f + 1, Pushed(A[i], f, F), i)
<1> DEFINE B == Dropped(i, a, A)
           G == Pushed(A[i], f, F)
           w2 == Checked(w)
<1>1. /\ Partition(w.lists, a, A, f, F) /\ i \in 1 .. a + 1 /\ a + 1 - i <= n + 1
      /\ w.at = (IF i = a + 1 THEN EMPTY ELSE A[i])
      /\ w.previous = (IF i = 1 THEN EMPTY ELSE A[i - 1])
      /\ \A j \in 1 .. a : j < i => expire[A[j]] # "due"
      /\ On(a, A) \subseteq up
      /\ \A s \in up \ On(a, A) : expire[s] = "due"
  BY DEF ThinkAt
<1>2. a \in Nat /\ i \in 1 .. a /\ w.at = A[i]
  <2>1. a \in Nat
    BY <1>1, PartitionFacts
  <2>2. i # a + 1
    BY <1>1
  <2>3. QED
    BY <1>1, <2>1, <2>2
<1>3. A[i] \in On(a, A) /\ w.lists.next[A[i]] = IF i = a THEN EMPTY ELSE A[i + 1]
  BY <1>1, <1>2, PartitionFacts
<1>4. A[i] \notin Reserved
  BY <1>2
<1>5. w2.at = w.lists.next[A[i]] /\ w2.previous = w.previous
      /\ w2.lists = FreeSound(w.lists, A[i], w.previous)
  BY <1>2, CheckedFacts
<1> HIDE DEF w2, G
<1>6. Partition(w2.lists, a - 1, B, f + 1, G) /\ On(a - 1, B) = On(a, A) \ {A[i]}
  <2>1. /\ Partition(FreeSound(w.lists, A[i], w.previous), a - 1, B, f + 1, Pushed(A[i], f, F))
        /\ On(a - 1, B) = On(a, A) \ {A[i]}
    BY <1>1, <1>2, <1>4, FreePartition
  <2>2. QED
    BY <1>5, <2>1 DEF G
<1>7. \A j \in 1 .. a - 1 : B[j] = IF j < i THEN A[j] ELSE A[j + 1]
  BY DEF Dropped
<1> HIDE DEF B
<1>8. i \in 1 .. (a - 1) + 1 /\ (a - 1) + 1 - i <= n
  BY <1>1, <1>2
<1>9. w2.at = (IF i = (a - 1) + 1 THEN EMPTY ELSE B[i])
  <2>1. CASE i = a
    <3>1. i = (a - 1) + 1
      BY <1>2, <2>1
    <3>2. QED
      BY <1>3, <1>5, <2>1, <3>1
  <2>2. CASE i # a
    <3>1. i # (a - 1) + 1 /\ i \in 1 .. a - 1 /\ ~(i < i)
      BY <1>2, <2>2
    <3>2. B[i] = A[i + 1]
      BY <1>7, <3>1
    <3>3. QED
      BY <1>3, <1>5, <2>2, <3>1, <3>2
  <2>3. QED
    BY <2>1, <2>2
<1>10. w2.previous = (IF i = 1 THEN EMPTY ELSE B[i - 1])
  <2>1. CASE i = 1
    BY <1>1, <1>5, <2>1
  <2>2. CASE i # 1
    <3>1. i - 1 \in 1 .. a - 1 /\ i - 1 < i
      BY <1>2, <2>2
    <3>2. B[i - 1] = A[i - 1]
      BY <1>7, <3>1
    <3>3. QED
      BY <1>1, <1>5, <2>2, <3>2
  <2>3. QED
    BY <2>1, <2>2
<1>11. ASSUME NEW j \in 1 .. a - 1, j < i PROVE expire[B[j]] # "due"
  <2>1. B[j] = A[j] /\ j \in 1 .. a
    BY <1>2, <1>7, <1>11
  <2>2. QED
    BY <1>1, <1>11, <2>1
<1>12. On(a - 1, B) \subseteq up /\ \A s \in up \ On(a - 1, B) : expire[s] = "due"
  BY <1>1, <1>2, <1>6
<1>13. QED
  BY <1>6, <1>8, <1>9, <1>10, <1>11, <1>12 DEF ThinkAt, B, G, w2

\* A round that keeps a sound goes on to the next one.
LEMMA ThinkKeeps ==
    ASSUME NEW w \in Checks, NEW up, NEW n \in Nat, NEW a, NEW A, NEW f, NEW F, NEW i,
           ThinkAt(w, up, n + 1, a, A, f, F, i), w.at # EMPTY, expire[w.at] # "due"
    PROVE  ThinkAt(Checked(w), up, n, a, A, f, F, i + 1)
<1> DEFINE w2 == Checked(w)
<1>1. /\ Partition(w.lists, a, A, f, F) /\ i \in 1 .. a + 1 /\ a + 1 - i <= n + 1
      /\ w.at = (IF i = a + 1 THEN EMPTY ELSE A[i])
      /\ \A j \in 1 .. a : j < i => expire[A[j]] # "due"
      /\ On(a, A) \subseteq up
      /\ \A s \in up \ On(a, A) : expire[s] = "due"
  BY DEF ThinkAt
<1>2. a \in Nat /\ i \in 1 .. a /\ w.at = A[i]
  <2>1. a \in Nat
    BY <1>1, PartitionFacts
  <2>2. i # a + 1
    BY <1>1
  <2>3. QED
    BY <1>1, <2>1, <2>2
<1>3. w.lists.next[A[i]] = IF i = a THEN EMPTY ELSE A[i + 1]
  BY <1>1, <1>2, PartitionFacts
<1>4. w2.at = w.lists.next[A[i]] /\ w2.previous = A[i] /\ w2.lists = w.lists
  BY <1>2, CheckedFacts
<1> HIDE DEF w2
<1>5. i + 1 \in 1 .. a + 1 /\ a + 1 - (i + 1) <= n /\ i + 1 # 1 /\ (i + 1) - 1 = i
      /\ (i + 1 = a + 1 <=> i = a)
  BY <1>1, <1>2
<1>6. w2.at = (IF i + 1 = a + 1 THEN EMPTY ELSE A[i + 1])
  BY <1>3, <1>4, <1>5
<1>7. w2.previous = (IF i + 1 = 1 THEN EMPTY ELSE A[(i + 1) - 1])
  BY <1>4, <1>5
<1>8. ASSUME NEW j \in 1 .. a, j < i + 1 PROVE expire[A[j]] # "due"
  <2>1. j < i \/ j = i
    BY <1>2, <1>8
  <2>2. QED
    BY <1>1, <1>2, <2>1
<1>9. QED
  BY <1>1, <1>4, <1>5, <1>6, <1>7, <1>8 DEF ThinkAt, w2

\* From wherever the loop is, it comes to its end.
LEMMA ThinkWalk ==
    ASSUME NEW f, ThinkRule(f), NEW up, NEW m \in Nat, NEW v \in Checks,
           \A s \in Reserved : expire[s] = "never",
           \E a, A, g, F, i : ThinkAt(v, up, m, a, A, g, F, i)
    PROVE  ThinkDone(f[m][v], up)
<1> DEFINE At(w, n) == \E a, A, g, F, i : ThinkAt(w, up, n, a, A, g, F, i)
           T == {n \in Nat : \E w \in Checks : At(w, n) /\ ~ThinkDone(f[n][w], up)}
<1>1. T = {}
  <2>1. SUFFICES ASSUME T # {} PROVE FALSE
    OBVIOUS
  <2>2. PICK k \in T : \A y \in T : k <= y
    <3>1. T \subseteq Nat
      OBVIOUS
    <3> HIDE DEF T
    <3>2. QED
      BY <2>1, <3>1, LeastNat
  <2>3. k \in Nat
    OBVIOUS
  <2>4. PICK w \in Checks : At(w, k) /\ ~ThinkDone(f[k][w], up)
    <3> HIDE DEF At
    <3> QED BY <2>2
  <2>5. PICK a, A, g, F, i : ThinkAt(w, up, k, a, A, g, F, i)
    BY <2>4
  <2>6. CASE w.at = EMPTY \/ k = 0
    <3>1. w.at = EMPTY /\ ThinkDone(w.lists, up)
      BY <2>5, <2>6, ThinkEnds
    <3>2. f[k][w] = w.lists
      BY <2>3, <3>1 DEF ThinkRule
    <3>3. QED
      BY <2>4, <3>1, <3>2
  <2>7. CASE w.at # EMPTY /\ k # 0
    <3>1. k - 1 \in Nat /\ (k - 1) + 1 = k /\ ~(k <= k - 1)
      BY <2>3, <2>7
    <3>2. k - 1 \notin T
      <4> HIDE DEF T
      <4> QED BY <2>2, <3>1
    <3>3. Checked(w) \in Checks
      BY <2>7, CheckedFacts
    <3>4. f[k][w] = f[k - 1][Checked(w)]
      <4>1. f[(k - 1) + 1][w] = f[k - 1][Checked(w)]
        BY <2>7, <3>1 DEF ThinkRule
      <4>2. QED
        BY <3>1, <4>1
    <3>5. ThinkAt(w, up, (k - 1) + 1, a, A, g, F, i)
      BY <2>5, <3>1
    <3>6. At(Checked(w), k - 1)
      <4>1. CASE expire[w.at] = "due"
        <5>1. ThinkAt(Checked(w), up, k - 1, a - 1, Dropped(i, a, A), g + 1, Pushed(A[i], g, F), i)
          BY <2>7, <3>1, <3>5, <4>1, ThinkFrees
        <5>2. QED
          BY <5>1
      <4>2. CASE expire[w.at] # "due"
        <5>1. ThinkAt(Checked(w), up, k - 1, a, A, g, F, i + 1)
          BY <2>7, <3>1, <3>5, <4>2, ThinkKeeps
        <5>2. QED
          BY <5>1
      <4>3. QED
        BY <4>1, <4>2
    <3> HIDE DEF At
    <3>7. ThinkDone(f[k - 1][Checked(w)], up)
      BY <3>1, <3>2, <3>3, <3>6
    <3>8. QED
      BY <2>4, <3>4, <3>7
  <2>8. QED
    BY <2>6, <2>7
<1>2. At(v, m)
  OBVIOUS
<1> HIDE DEF At
<1>3. QED
  BY <1>1, <1>2

\* Think leaves the active sounds that are not due.
LEMMA ThinkPartition ==
    ASSUME Think, NEW a, NEW A, NEW f, NEW F, Partition(lists, a, A, f, F),
           \A s \in Reserved : expire[s] = "never"
    PROVE  ThinkDone(lists', On(a, A))
<1> DEFINE w == [lists |-> lists, previous |-> EMPTY, at |-> lists.active]
           up == On(a, A)
<1>1. PICK g : ThinkRule(g) /\ lists' = g[MaxWorldSounds][w]
  BY ThinkRecursion
<1>2. lists \in Lists /\ lists.active \in Links /\ EMPTY \in Links
  BY PartitionFacts, LinkFacts DEF Lists
<1>3. w \in Checks /\ w.lists = lists /\ w.previous = EMPTY /\ w.at = lists.active
  BY <1>2 DEF Checks
<1> HIDE DEF w
<1>4. a \in Nat /\ a <= MaxWorldSounds /\ MaxWorldSounds \in Nat
  <2>1. a \in Nat /\ Row(lists.next, lists.active, a, A)
    BY DEF Partition
  <2>2. A \in [1 .. a -> Slots] /\ \A i \in 1 .. a : \A j \in 1 .. a : A[i] = A[j] => i = j
    BY <2>1 DEF Row
  <2>3. a <= MaxWorldSounds
    BY <2>1, <2>2, SlotsAreFew
  <2>4. QED
    BY <2>1, <2>3, SoundAssumption
<1>5. lists.active = IF a = 0 THEN EMPTY ELSE A[1]
  BY PartitionFacts
<1>6. ThinkAt(w, up, MaxWorldSounds, a, A, f, F, 1)
  <2>1. 1 \in 1 .. a + 1 /\ a + 1 - 1 <= MaxWorldSounds /\ (1 = a + 1 <=> a = 0)
        /\ \A j \in 1 .. a : ~(j < 1)
    BY <1>4
  <2>2. w.at = (IF 1 = a + 1 THEN EMPTY ELSE A[1])
    BY <1>3, <1>5, <2>1
  <2>3. QED
    BY <1>3, <2>1, <2>2 DEF ThinkAt
<1> HIDE DEF up
<1>7. \E b, B, h, H, i : ThinkAt(w, up, MaxWorldSounds, b, B, h, H, i)
  BY <1>6
<1>8. ThinkDone(g[MaxWorldSounds][w], up)
  BY <1>1, <1>3, <1>4, <1>7, ThinkWalk
<1>9. QED
  BY <1>1, <1>8 DEF up

-----------------------------------------------------------------------------
(* The pool's invariant *)

Parted(l) == \E a, A, f, F : Partition(l, a, A, f, F)

SoundTypes ==
    /\ type \in [Slots -> Kinds \cup {"none", "player"}]
    /\ expire \in [Slots -> {"never", "later", "due"}]
    /\ player \in [Clients -> {"out", "alive", "dead"}]
    /\ \A s \in Reserved : expire[s] = "never"

\* Other slots than the reserved ones hold a sound while they are active.
ActiveHoldSounds == \A s \in Active \ Reserved : type[s] \in Kinds

SoundInv ==
    /\ SoundTypes
    /\ Parted(lists)
    /\ ActiveHoldSounds
    /\ AbsentPlayersSilent

\* The active sounds are slots.
LEMMA ActiveFacts ==
    ASSUME Parted(lists)
    PROVE  Active \subseteq Slots
BY PartitionWalks, PartitionFacts DEF Parted, Active, ActiveList

\* The active sounds are those of the active list's row, before a step and after it.
LEMMA ActiveRow ==
    ASSUME NEW a, NEW A, NEW f, NEW F
    PROVE  /\ Partition(lists, a, A, f, F) => Active = On(a, A)
           /\ Partition(lists', a, A, f, F) => Active' = On(a, A)
<1>1. Partition(lists, a, A, f, F) => Active = On(a, A)
  BY PartitionWalks DEF Active, ActiveList
<1>2. Partition(lists', a, A, f, F) => Active' = On(a, A)
  BY PartitionWalks DEF Active, ActiveList
<1>3. QED
  BY <1>1, <1>2

\* A new sound takes a slot that is neither active nor reserved.
LEMMA InsertEffect ==
    ASSUME Parted(lists), NEW t, InsertSound(t)
    PROVE  /\ Parted(lists') /\ Active' = Active \cup {lists.free}
           /\ lists.free \in Slots \ Reserved /\ lists.free \notin Active
<1>1. PICK a, A, f, F : Partition(lists, a, A, f, F)
  BY DEF Parted
<1>2. lists.free # EMPTY /\ lists' = IAllocSound(lists)
  BY DEF InsertSound
<1>3. /\ lists.free \in On(f, F)
      /\ Partition(IAllocSound(lists), a + 1, Pushed(lists.free, a, A), f - 1, Dropped(1, f, F))
      /\ On(a + 1, Pushed(lists.free, a, A)) = On(a, A) \cup {lists.free}
  BY <1>1, <1>2, AllocPartition
<1>4. Partition(lists', a + 1, Pushed(lists.free, a, A), f - 1, Dropped(1, f, F))
  BY <1>2, <1>3
<1>5. Active = On(a, A) /\ Active' = On(a + 1, Pushed(lists.free, a, A))
  <2>1. Active = On(a, A)
    BY <1>1, ActiveRow
  <2>2. Active' = On(a + 1, Pushed(lists.free, a, A))
    BY <1>4, ActiveRow
  <2>3. QED
    BY <2>1, <2>2
<1>6. On(a, A) \cap On(f, F) = {} /\ On(f, F) \cap Reserved = {}
  BY <1>1 DEF Partition
<1>7. On(f, F) \subseteq Slots
  <2>1. f \in Nat /\ Row(lists.next, lists.free, f, F)
    BY <1>1 DEF Partition
  <2>2. F \in [1 .. f -> Slots]
    BY <2>1 DEF Row
  <2>3. QED
    BY <2>2 DEF On
<1>8. QED
  BY <1>3, <1>4, <1>5, <1>6, <1>7 DEF Parted

\* Think takes down what is due, and nothing else.
LEMMA ThinkEffect ==
    ASSUME Parted(lists), Think, \A s \in Reserved : expire[s] = "never"
    PROVE  Parted(lists') /\ Active' = {s \in Active : expire[s] # "due"}
<1>1. PICK a, A, f, F : Partition(lists, a, A, f, F)
  BY DEF Parted
<1>2. ThinkDone(lists', On(a, A))
  BY <1>1, ThinkPartition
<1>3. PICK b, B, g, G : /\ Partition(lists', b, B, g, G)
                        /\ On(b, B) = {s \in On(a, A) : expire[s] # "due"}
  BY <1>2 DEF ThinkDone
<1>4. Active = On(a, A)
  BY <1>1, ActiveRow
<1>5. Active' = On(b, B)
  BY <1>3, ActiveRow
<1>6. QED
  BY <1>3, <1>4, <1>5 DEF Parted

\* Reset touches no sound but the clients' own.
LEMMA ResetEffect ==
    ASSUME Parted(lists), NEW s \in Reserved, lists' = [lists EXCEPT !.next[s] = EMPTY]
    PROVE  Parted(lists') /\ Active' \ Reserved = Active \ Reserved
<1>1. PICK a, A, f, F : Partition(lists, a, A, f, F)
  BY DEF Parted
<1>2. PICK b, B : /\ Partition([lists EXCEPT !.next[s] = EMPTY], b, B, f, F)
                  /\ On(b, B) \ Reserved = On(a, A) \ Reserved
  BY <1>1, ResetPartition
<1>3. Partition(lists', b, B, f, F)
  BY <1>2
<1>4. Active = On(a, A)
  BY <1>1, ActiveRow
<1>5. Active' = On(b, B)
  BY <1>3, ActiveRow
<1>6. QED
  BY <1>2, <1>3, <1>4, <1>5 DEF Parted

\* What keeps the lists keeps what is active.
LEMMA SameLists ==
    ASSUME lists' = lists
    PROVE  Active' = Active /\ (Parted(lists) => Parted(lists'))
BY DEF Active, ActiveList

\* The invariant holds at first.
LEMMA SoundInvInit == SoundInit => SoundInv
<1> SUFFICES ASSUME SoundInit PROVE SoundInv
  OBVIOUS
<1>1. PICK a, A, f, F : Partition(lists, a, A, f, F) /\ On(a, A) = Reserved
  BY InitPartition DEF SoundInit
<1>2. Active = Reserved
  BY <1>1, ActiveRow
<1>3. Parted(lists) /\ ActiveHoldSounds
  BY <1>1, <1>2 DEF Parted, ActiveHoldSounds
<1>4. SoundTypes
  BY ReservedFacts DEF SoundTypes, SoundInit
<1>5. AbsentPlayersSilent
  BY ReservedFacts DEF AbsentPlayersSilent, SoundInit
<1>6. QED
  BY <1>3, <1>4, <1>5 DEF SoundInv

\* A client's sound is silent unless he is alive, died thinking or left in the
\* intermission.
Silent(c) ==
    \/ player[c] = "alive"
    \/ c \in diedThinking
    \/ gameOver /\ player[c] = "out"
    \/ type[ClientSoundIndex(c)] = "none"

\* An action that leaves a client and the type of his sound alone leaves him silent.
LEMMA SilentKeeps ==
    ASSUME NEW d, Silent(d), player'[d] = player[d],
           gameOver => gameOver',
           d \in diedThinking => d \in diedThinking',
           type'[ClientSoundIndex(d)] = type[ClientSoundIndex(d)]
    PROVE  Silent(d)'
BY DEF Silent

\* A new sound preserves the invariant.
LEMMA InsertInv ==
    ASSUME SoundInv, NEW t \in Kinds, InsertSound(t)
    PROVE  SoundInv'
<1> DEFINE s == lists.free
<1>1. /\ Parted(lists') /\ Active' = Active \cup {s}
      /\ s \in Slots \ Reserved /\ s \notin Active
  BY InsertEffect DEF SoundInv
<1>2. /\ type' = [type EXCEPT ![s] = t] /\ expire' = [expire EXCEPT ![s] = "later"]
      /\ player' = player /\ gameOver' = gameOver /\ diedThinking' = diedThinking
  BY DEF InsertSound, players
<1> HIDE DEF s
<1>3. SoundTypes /\ ActiveHoldSounds /\ Parted(lists) /\ \A d \in Clients : Silent(d)
  BY DEF SoundInv, AbsentPlayersSilent, Silent
<1>4. Active \subseteq Slots
  BY <1>3, ActiveFacts
<1>5. SoundTypes'
  BY <1>1, <1>2, <1>3, ReservedFacts DEF SoundTypes
<1>6. \A x \in Slots : type'[x] = IF x = s THEN t ELSE type[x]
  BY <1>2, <1>3 DEF SoundTypes
<1>7. ActiveHoldSounds'
  <2>1. ASSUME NEW x \in Active' \ Reserved PROVE type'[x] \in Kinds
    BY <1>1, <1>3, <1>4, <1>6 DEF ActiveHoldSounds
  <2>2. QED
    BY <2>1 DEF ActiveHoldSounds
<1>8. ASSUME NEW d \in Clients PROVE Silent(d)'
  <2>1. ClientSoundIndex(d) \in Slots /\ ClientSoundIndex(d) # s
    BY <1>1, ReservedFacts
  <2>2. type'[ClientSoundIndex(d)] = type[ClientSoundIndex(d)]
    BY <1>6, <2>1
  <2>3. QED
    BY <1>2, <1>3, <2>2, SilentKeeps
<1>9. QED
  BY <1>1, <1>5, <1>7, <1>8 DEF SoundInv, AbsentPlayersSilent, Silent

\* Time preserves the invariant.
LEMMA ElapseInv ==
    ASSUME SoundInv, NEW s \in Slots, Elapse(s)
    PROVE  SoundInv'
<1>1. /\ expire[s] = "later" /\ expire' = [expire EXCEPT ![s] = "due"]
      /\ lists' = lists /\ type' = type
      /\ player' = player /\ gameOver' = gameOver /\ diedThinking' = diedThinking
  BY DEF Elapse, players
<1>2. SoundTypes'
  BY <1>1, ReservedFacts DEF SoundInv, SoundTypes
<1>3. Parted(lists') /\ Active' = Active
  BY <1>1, SameLists DEF SoundInv
<1>4. ActiveHoldSounds'
  BY <1>1, <1>3 DEF SoundInv, ActiveHoldSounds
<1>5. AbsentPlayersSilent'
  BY <1>1 DEF SoundInv, AbsentPlayersSilent
<1>6. QED
  BY <1>2, <1>3, <1>4, <1>5 DEF SoundInv

\* Think preserves the invariant.
LEMMA ThinkInv ==
    ASSUME SoundInv, Think
    PROVE  SoundInv'
<1>1. /\ type' = type /\ expire' = expire
      /\ player' = player /\ gameOver' = gameOver /\ diedThinking' = diedThinking
  BY DEF Think, players
<1>2. SoundTypes'
  BY <1>1 DEF SoundInv, SoundTypes
<1>3. Parted(lists') /\ Active' = {s \in Active : expire[s] # "due"}
  BY ThinkEffect DEF SoundInv, SoundTypes
<1>4. ActiveHoldSounds'
  BY <1>1, <1>3 DEF SoundInv, ActiveHoldSounds
<1>5. AbsentPlayersSilent'
  BY <1>1 DEF SoundInv, AbsentPlayersSilent
<1>6. QED
  BY <1>2, <1>3, <1>4, <1>5 DEF SoundInv

\* What happens to a client and his slot: his own types and links may change, the
\* others' do not.
LEMMA ClientInv ==
    ASSUME SoundInv, NEW c \in Clients,
           \/ lists' = lists
           \/ lists' = [lists EXCEPT !.next[ClientSoundIndex(c)] = EMPTY],
           NEW k \in {"none", "player"},
           \/ type' = type
           \/ type' = [type EXCEPT ![ClientSoundIndex(c)] = k],
           NEW p \in {"out", "alive", "dead"}, player' = [player EXCEPT ![c] = p],
           expire' = expire, gameOver' = gameOver,
           diedThinking \ {c} \subseteq diedThinking',
           Silent(c)'
    PROVE  SoundInv'
<1> DEFINE s == ClientSoundIndex(c)
<1>1. s \in Reserved /\ s \in Slots
  BY ReservedFacts
<1>2. SoundTypes /\ ActiveHoldSounds /\ Parted(lists) /\ \A d \in Clients : Silent(d)
  BY DEF SoundInv, AbsentPlayersSilent, Silent
<1>3. Parted(lists') /\ Active' \ Reserved = Active \ Reserved
  <2>1. CASE lists' = lists
    BY <1>2, <2>1, SameLists
  <2>2. CASE lists' = [lists EXCEPT !.next[s] = EMPTY]
    BY <1>1, <1>2, <2>2, ResetEffect
  <2>3. QED
    BY <2>1, <2>2
<1>4. SoundTypes'
  BY <1>1, <1>2 DEF SoundTypes
<1>5. \A x \in Slots : x # s => type'[x] = type[x]
  BY <1>1, <1>2 DEF SoundTypes
<1>6. ActiveHoldSounds'
  <2>1. Active \subseteq Slots
    BY <1>2, ActiveFacts
  <2>2. ASSUME NEW x \in Active' \ Reserved PROVE type'[x] \in Kinds
    <3>1. x \in Active \ Reserved /\ x \in Slots /\ x # s
      BY <1>1, <1>3, <2>1
    <3>2. QED
      BY <1>2, <1>5, <3>1 DEF ActiveHoldSounds
  <2>3. QED
    BY <2>2 DEF ActiveHoldSounds
<1>7. ASSUME NEW d \in Clients, d # c PROVE Silent(d)'
  <2>1. ClientSoundIndex(d) \in Slots /\ ClientSoundIndex(d) # s
    BY <1>7, ReservedFacts
  <2>2. type'[ClientSoundIndex(d)] = type[ClientSoundIndex(d)]
    BY <1>5, <2>1
  <2>3. player'[d] = player[d]
    BY <1>2, <1>7 DEF SoundTypes
  <2>4. QED
    BY <1>2, <1>7, <2>2, <2>3, SilentKeeps
<1>8. AbsentPlayersSilent'
  BY <1>7 DEF AbsentPlayersSilent, Silent
<1>9. QED
  BY <1>3, <1>4, <1>6, <1>8 DEF SoundInv

\* The intermission preserves the invariant.
LEMMA IntermissionInv ==
    ASSUME SoundInv, GoToIntermission
    PROVE  SoundInv'
<1>1. /\ lists' = lists /\ type' = type /\ expire' = expire
      /\ player' = player /\ gameOver' /\ diedThinking' = diedThinking
  BY DEF GoToIntermission, pool
<1>2. SoundTypes'
  BY <1>1 DEF SoundInv, SoundTypes
<1>3. Parted(lists') /\ Active' = Active
  BY <1>1, SameLists DEF SoundInv
<1>4. ActiveHoldSounds'
  BY <1>1, <1>3 DEF SoundInv, ActiveHoldSounds
<1>5. ASSUME NEW d \in Clients PROVE Silent(d)'
  <2>1. Silent(d)
    BY DEF SoundInv, AbsentPlayersSilent, Silent
  <2>2. QED
    BY <1>1, <2>1, SilentKeeps
<1>6. AbsentPlayersSilent'
  BY <1>5 DEF AbsentPlayersSilent, Silent
<1>7. QED
  BY <1>2, <1>3, <1>4, <1>6 DEF SoundInv

\* Each event of a client preserves the invariant.
LEMMA ClientEventInv ==
    ASSUME SoundInv, NEW c \in Clients,
           \/ PutInServer(c) \/ Respawn(c) \/ Killed(c)
           \/ ClientDisconnect(c) \/ PostThink(c) \/ PostThinkFatal(c)
    PROVE  SoundInv'
<1> DEFINE s == ClientSoundIndex(c)
<1>1. s \in Slots /\ type \in [Slots -> Kinds \cup {"none", "player"}]
      /\ player \in [Clients -> {"out", "alive", "dead"}]
  BY ReservedFacts DEF SoundInv, SoundTypes
<1> HIDE DEF s
<1>2. CASE PutInServer(c)
  <2>1. /\ lists' = lists /\ type' = type /\ expire' = expire
        /\ player' = [player EXCEPT ![c] = "alive"] /\ gameOver' = gameOver
        /\ diedThinking' = diedThinking
    BY <1>2 DEF PutInServer, pool
  <2>2. Silent(c)'
    BY <1>1, <2>1 DEF Silent
  <2>3. QED
    BY <2>1, <2>2, ClientInv
<1>3. CASE Respawn(c)
  <2>1. /\ lists' = lists /\ type' = type /\ expire' = expire
        /\ player' = [player EXCEPT ![c] = "alive"] /\ gameOver' = gameOver
        /\ diedThinking' = diedThinking \ {c}
    BY <1>3 DEF Respawn, pool
  <2>2. Silent(c)'
    BY <1>1, <2>1 DEF Silent
  <2>3. QED
    BY <2>1, <2>2, ClientInv
<1>4. CASE Killed(c)
  <2>1. /\ lists' = [lists EXCEPT !.next[s] = EMPTY] /\ type' = [type EXCEPT ![s] = "none"]
        /\ expire' = expire /\ gameOver' = gameOver /\ diedThinking' = diedThinking
        /\ player' = [player EXCEPT ![c] = "dead"]
    BY <1>4 DEF Killed, Reset, s
  <2>2. Silent(c)'
    BY <1>1, <2>1 DEF Silent, s
  <2>3. QED
    BY <2>1, <2>2, ClientInv DEF s
<1>5. CASE ClientDisconnect(c)
  <2>1. /\ gameOver' = gameOver /\ diedThinking' = diedThinking \ {c}
        /\ player' = [player EXCEPT ![c] = "out"]
    BY <1>5 DEF ClientDisconnect
  <2>2. CASE gameOver
    <3>1. lists' = lists /\ type' = type /\ expire' = expire
      BY <1>5, <2>2 DEF ClientDisconnect, pool
    <3>2. Silent(c)'
      BY <1>1, <2>1, <2>2 DEF Silent
    <3>3. QED
      BY <2>1, <3>1, <3>2, ClientInv
  <2>3. CASE ~gameOver
    <3>1. /\ lists' = [lists EXCEPT !.next[s] = EMPTY] /\ expire' = expire
          /\ type' = [type EXCEPT ![s] = "none"]
      BY <1>5, <2>3 DEF ClientDisconnect, Reset, s
    <3>2. Silent(c)'
      BY <1>1, <3>1 DEF Silent, s
    <3>3. QED
      BY <2>1, <3>1, <3>2, ClientInv DEF s
  <2>4. QED
    BY <2>2, <2>3
<1>6. CASE PostThink(c)
  <2>1. /\ lists' = lists /\ expire' = expire /\ type' = [type EXCEPT ![s] = "player"]
        /\ player' = player /\ player[c] = "alive" /\ gameOver' = gameOver
        /\ diedThinking' = diedThinking
    BY <1>6 DEF PostThink, players, s
  <2>2. player' = [player EXCEPT ![c] = "alive"]
    BY <1>1, <2>1
  <2>3. Silent(c)'
    BY <2>1 DEF Silent
  <2>4. QED
    BY <2>1, <2>2, <2>3, ClientInv DEF s
<1>7. CASE PostThinkFatal(c)
  <2>1. /\ lists' = [lists EXCEPT !.next[s] = EMPTY] /\ expire' = expire
        /\ type' = [type EXCEPT ![s] = "player"]
        /\ player' = [player EXCEPT ![c] = "dead"] /\ gameOver' = gameOver
        /\ diedThinking' = diedThinking \cup {c}
    BY <1>7 DEF PostThinkFatal, s
  <2>2. Silent(c)'
    BY <2>1 DEF Silent
  <2>3. QED
    BY <2>1, <2>2, ClientInv DEF s
<1>8. QED
  BY <1>2, <1>3, <1>4, <1>5, <1>6, <1>7

\* Every step preserves the invariant.
LEMMA SoundInvNext == SoundInv /\ [SoundNext]_soundVars => SoundInv'
<1> SUFFICES ASSUME SoundInv, [SoundNext]_soundVars PROVE SoundInv'
  OBVIOUS
<1>1. ASSUME NEW t \in Kinds, InsertSound(t) PROVE SoundInv'
  BY <1>1, InsertInv
<1>2. ASSUME NEW s \in Slots, Elapse(s) PROVE SoundInv'
  BY <1>2, ElapseInv
<1>3. ASSUME Think PROVE SoundInv'
  BY <1>3, ThinkInv
<1>4. ASSUME NEW c \in Clients,
             \/ PutInServer(c) \/ Respawn(c) \/ Killed(c)
             \/ ClientDisconnect(c) \/ PostThink(c) \/ PostThinkFatal(c)
      PROVE  SoundInv'
  BY <1>4, ClientEventInv
<1>5. ASSUME GoToIntermission PROVE SoundInv'
  BY <1>5, IntermissionInv
<1>6. CASE UNCHANGED soundVars
  <2>1. /\ lists' = lists /\ type' = type /\ expire' = expire
        /\ player' = player /\ gameOver' = gameOver /\ diedThinking' = diedThinking
    BY <1>6 DEF soundVars, pool, players
  <2>2. Parted(lists') /\ Active' = Active
    BY <2>1, SameLists DEF SoundInv
  <2>3. SoundTypes'
    BY <2>1 DEF SoundInv, SoundTypes
  <2>4. ActiveHoldSounds'
    BY <2>1, <2>2 DEF SoundInv, ActiveHoldSounds
  <2>5. AbsentPlayersSilent'
    BY <2>1 DEF SoundInv, AbsentPlayersSilent
  <2>6. QED
    BY <2>2, <2>3, <2>4, <2>5 DEF SoundInv
<1>7. CASE SoundNext
  BY <1>1, <1>2, <1>3, <1>4, <1>5, <1>7 DEF SoundNext
<1>8. QED
  BY <1>6, <1>7

\* What the rows of a partition are for.
LEMMA SoundInvParts == SoundInv => ListsPartition
<1> SUFFICES ASSUME SoundInv PROVE ListsPartition
  OBVIOUS
<1>1. PICK a, A, f, F : Partition(lists, a, A, f, F)
  BY DEF SoundInv, Parted
<1>2. /\ Ends(lists.next, lists.active) /\ Active = On(a, A)
      /\ Ends(lists.next, lists.free) /\ Free = On(f, F)
  BY <1>1, PartitionWalks DEF Active, ActiveList, Free, FreeList
<1>3. /\ lists \in Lists /\ On(a, A) \cap On(f, F) = {}
      /\ Slots \ Reserved \subseteq On(a, A) \cup On(f, F)
      /\ On(f, F) \cap Reserved = {}
  BY <1>1 DEF Partition
<1>4. QED
  BY <1>2, <1>3 DEF ListsPartition

\* The invariant of CSoundEnt: the two rows of slots, the types of the sounds that
\* are up, and the clients' silence.
THEOREM SoundInvariant == SoundSpec => []SoundInv
<1>1. SoundInit => SoundInv
  BY SoundInvInit
<1>2. SoundInv /\ [SoundNext]_soundVars => SoundInv'
  BY SoundInvNext
<1>3. QED
  BY <1>1, <1>2, PTL DEF SoundSpec

\* The pool's accounts are always right: both lists end, no slot is in both, and
\* only reserved slots, which are never free, can be lost from them.
THEOREM ListsStayPartitioned == SoundSpec => []ListsPartition
<1>1. SoundSpec => []SoundInv
  BY SoundInvariant
<1>2. SoundInv => ListsPartition
  BY SoundInvParts
<1>3. QED
  BY <1>1, <1>2, PTL

\* Players who are dead or gone make no sound, with the two exceptions that
\* AbsentPlayersSilent names.
THEOREM AbsentStaySilent == SoundSpec => []AbsentPlayersSilent
<1>1. SoundSpec => []SoundInv
  BY SoundInvariant
<1>2. SoundInv => AbsentPlayersSilent
  BY DEF SoundInv
<1>3. QED
  BY <1>1, <1>2, PTL

-----------------------------------------------------------------------------
(* The board *)

Note(k, e) == [kind |-> k, due |-> e = "due"]

\* Notes, apart from each other and from none.
LEMMA NoteFacts ==
    /\ \A k : Note(k, "later") = [kind |-> k, due |-> FALSE]
    /\ \A k : [Note(k, "later") EXCEPT !.due = TRUE] = Note(k, "due")
    /\ \A k : Note(k, "later") # Note(k, "due")
    /\ \A k, e : k # "none" => Note(k, e) # NoSound
    /\ \A k, e : Note(k, e).due <=> e = "due"
<1>1. \A k : Note(k, "later") = [kind |-> k, due |-> FALSE]
  BY DEF Note
<1>2. \A k : Note(k, "due") = [kind |-> k, due |-> TRUE]
  BY DEF Note
<1>3. \A k : [Note(k, "later") EXCEPT !.due = TRUE] = Note(k, "due")
  BY <1>1, <1>2
<1>4. \A k : Note(k, "later") # Note(k, "due")
  <2> SUFFICES ASSUME NEW k, Note(k, "later") = Note(k, "due") PROVE FALSE
    OBVIOUS
  <2>1. Note(k, "later").due = FALSE /\ Note(k, "due").due = TRUE
    BY <1>1, <1>2
  <2>2. QED
    BY <2>1
<1>5. ASSUME NEW k, NEW e, k # "none" PROVE Note(k, e) # NoSound
  <2>1. Note(k, e).kind = k /\ NoSound.kind = "none"
    BY DEF Note, NoSound
  <2>2. QED
    BY <1>5, <2>1
<1>6. \A k, e : Note(k, e).due <=> e = "due"
  BY DEF Note
<1>7. QED
  BY <1>1, <1>3, <1>4, <1>5, <1>6

\* What is posted, before a step and after it.
LEMMA PostedFacts ==
    /\ Posted = [s \in Slots \ Reserved |->
                    IF s \in Active THEN Note(type[s], expire[s]) ELSE NoSound]
    /\ Posted' = [s \in Slots \ Reserved |->
                    IF s \in Active' THEN Note(type'[s], expire'[s]) ELSE NoSound]
BY DEF Posted, Note, NoSound, Slots, Reserved, Clients, ClientSoundIndex

\* Nothing is posted at first.
LEMMA BoardInitially == SoundInit => Board!BoardInit
<1> SUFFICES ASSUME SoundInit PROVE Posted = [p \in Slots \ Reserved |-> NoSound]
  BY DEF Board!BoardInit
<1>1. PICK a, A, f, F : Partition(lists, a, A, f, F) /\ On(a, A) = Reserved
  BY InitPartition DEF SoundInit
<1>2. Active = Reserved
  BY <1>1, ActiveRow
<1>3. QED
  BY <1>2, PostedFacts

\* A sound inserted is put up.
LEMMA InsertPosts ==
    ASSUME SoundInv, NEW t \in Kinds, InsertSound(t)
    PROVE  Board!BoardNext
<1> DEFINE s == lists.free
<1>1. /\ Active' = Active \cup {s}
      /\ s \in Slots \ Reserved /\ s \notin Active
  BY InsertEffect DEF SoundInv
<1>2. type' = [type EXCEPT ![s] = t] /\ expire' = [expire EXCEPT ![s] = "later"]
  BY DEF InsertSound
<1>3. type \in [Slots -> Kinds \cup {"none", "player"}] /\ expire \in [Slots -> {"never", "later", "due"}]
  BY DEF SoundInv, SoundTypes
<1>4. t # "none"
  BY SoundAssumption
<1> HIDE DEF s
<1>5. Posted[s] = NoSound
  BY <1>1, PostedFacts
<1>6. Posted'[s] = Note(t, "later")
  <2>1. s \in Active' /\ type'[s] = t /\ expire'[s] = "later"
    BY <1>1, <1>2, <1>3
  <2>2. QED
    BY <1>1, <2>1, PostedFacts
<1>7. ASSUME NEW x \in Slots \ Reserved, x # s PROVE Posted'[x] = Posted[x]
  <2>1. (x \in Active' <=> x \in Active) /\ type'[x] = type[x] /\ expire'[x] = expire[x]
    BY <1>1, <1>2, <1>3, <1>7
  <2>2. Posted'[x] = IF x \in Active' THEN Note(type'[x], expire'[x]) ELSE NoSound
    BY PostedFacts
  <2>3. Posted[x] = IF x \in Active THEN Note(type[x], expire[x]) ELSE NoSound
    BY PostedFacts
  <2>4. QED
    BY <2>1, <2>2, <2>3
<1>8. Posted' = [Posted EXCEPT ![s] = [kind |-> t, due |-> FALSE]]
  <2>1. Posted' = [Posted EXCEPT ![s] = Note(t, "later")]
    <3>1. /\ Posted = [x \in Slots \ Reserved |-> Posted[x]]
          /\ Posted' = [x \in Slots \ Reserved |-> Posted'[x]]
      BY PostedFacts
    <3>2. QED
      BY <1>1, <1>6, <1>7, <3>1
  <2>2. QED
    BY <2>1, NoteFacts
<1>9. Board!Put(t)
  BY <1>1, <1>5, <1>8 DEF Board!Put
<1>10. Posted' # Posted
  BY <1>4, <1>5, <1>6, NoteFacts
<1>11. QED
  BY <1>9, <1>10 DEF Board!BoardNext

\* The time of a sound that is up gets over; other sounds do not show.
LEMMA ElapsePosts ==
    ASSUME SoundInv, NEW s \in Slots, Elapse(s)
    PROVE  Board!BoardNext \/ Posted' = Posted
<1>1. /\ expire[s] = "later" /\ expire' = [expire EXCEPT ![s] = "due"]
      /\ lists' = lists /\ type' = type
  BY DEF Elapse
<1>2. Active' = Active
  BY <1>1, SameLists
<1>3. expire \in [Slots -> {"never", "later", "due"}]
  BY DEF SoundInv, SoundTypes
<1>4. ASSUME NEW x \in Slots \ Reserved, x # s \/ s \notin Active PROVE Posted'[x] = Posted[x]
  <2>1. Posted'[x] = IF x \in Active THEN Note(type[x], expire'[x]) ELSE NoSound
    BY <1>1, <1>2, PostedFacts
  <2>2. Posted[x] = IF x \in Active THEN Note(type[x], expire[x]) ELSE NoSound
    BY PostedFacts
  <2>3. x # s => expire'[x] = expire[x]
    BY <1>1, <1>3
  <2>4. QED
    BY <1>4, <2>1, <2>2, <2>3
<1>5. /\ Posted = [x \in Slots \ Reserved |-> Posted[x]]
      /\ Posted' = [x \in Slots \ Reserved |-> Posted'[x]]
  BY PostedFacts
<1>6. CASE s \in Active /\ s \notin Reserved
  <2>1. type[s] # "none"
    BY <1>6, SoundAssumption DEF SoundInv, ActiveHoldSounds
  <2>2. Posted[s] = Note(type[s], "later")
    BY <1>1, <1>6, PostedFacts
  <2>3. Posted'[s] = Note(type[s], "due")
    <3>1. expire'[s] = "due"
      BY <1>1, <1>3
    <3>2. QED
      BY <1>1, <1>2, <1>6, <3>1, PostedFacts
  <2>4. Posted[s] # NoSound /\ Posted' # Posted
    BY <2>1, <2>2, <2>3, NoteFacts
  <2>5. Posted' = [Posted EXCEPT ![s].due = TRUE]
    <3>1. Posted' = [Posted EXCEPT ![s] = Note(type[s], "due")]
      BY <1>4, <1>5, <1>6, <2>3
    <3>2. Note(type[s], "due") = [Posted[s] EXCEPT !.due = TRUE]
      BY <2>2, NoteFacts
    <3>3. Posted' = [Posted EXCEPT ![s] = [Posted[s] EXCEPT !.due = TRUE]]
      BY <3>1, <3>2
    <3>4. QED
      BY <3>3
  <2>6. Board!TimeOver(s)
    BY <2>4, <2>5 DEF Board!TimeOver
  <2>7. QED
    BY <1>6, <2>4, <2>6 DEF Board!BoardNext
<1>7. CASE ~(s \in Active /\ s \notin Reserved)
  <2>1. \A x \in Slots \ Reserved : Posted'[x] = Posted[x]
    BY <1>4, <1>7
  <2>2. QED
    BY <1>5, <2>1
<1>8. QED
  BY <1>6, <1>7

\* Think takes down the sounds whose time is over.
LEMMA ThinkPosts ==
    ASSUME SoundInv, Think
    PROVE  Board!BoardNext \/ Posted' = Posted
<1>1. type' = type /\ expire' = expire
  BY DEF Think
<1>2. Active' = {s \in Active : expire[s] # "due"}
  BY ThinkEffect DEF SoundInv, SoundTypes
<1> DEFINE due == {p \in Slots \ Reserved : Posted[p] # NoSound /\ Posted[p].due}
<1>3. ASSUME NEW p \in Slots \ Reserved
      PROVE  Posted'[p] = IF p \in due THEN NoSound ELSE Posted[p]
  <2>1. Posted'[p] = IF p \in Active' THEN Note(type[p], expire[p]) ELSE NoSound
    BY <1>1, PostedFacts
  <2>2. Posted[p] = IF p \in Active THEN Note(type[p], expire[p]) ELSE NoSound
    BY PostedFacts
  <2>3. CASE p \notin Active
    BY <1>2, <2>1, <2>2, <2>3
  <2>4. CASE p \in Active
    <3>1. type[p] # "none"
      BY <2>4, SoundAssumption DEF SoundInv, ActiveHoldSounds
    <3>2. Posted[p] # NoSound /\ (Posted[p].due <=> expire[p] = "due")
      BY <2>2, <2>4, <3>1, NoteFacts
    <3>3. p \in due <=> expire[p] = "due"
      BY <3>2
    <3> HIDE DEF due
    <3>4. QED
      BY <1>2, <2>1, <2>2, <2>4, <3>3
  <2>5. QED
    BY <2>3, <2>4
<1>4. Posted' = [p \in Slots \ Reserved |-> IF p \in due THEN NoSound ELSE Posted[p]]
  <2>1. Posted' = [p \in Slots \ Reserved |-> Posted'[p]]
    BY PostedFacts
  <2> HIDE DEF due
  <2>2. QED
    BY <1>3, <2>1
<1>5. Board!TakeDown
  BY <1>4 DEF Board!TakeDown
<1>6. QED
  BY <1>5 DEF Board!BoardNext

\* What happens to the clients and their slots does not show.
LEMMA ClientPosts ==
    ASSUME SoundInv, NEW c \in Clients,
           \/ PutInServer(c) \/ Respawn(c) \/ Killed(c)
           \/ ClientDisconnect(c) \/ PostThink(c) \/ PostThinkFatal(c)
    PROVE  Posted' = Posted
<1> DEFINE s == ClientSoundIndex(c)
<1>1. s \in Reserved /\ s \in Slots /\ type \in [Slots -> Kinds \cup {"none", "player"}]
      /\ Parted(lists)
  BY ReservedFacts DEF SoundInv, SoundTypes
<1>2. /\ lists' = lists \/ lists' = [lists EXCEPT !.next[s] = EMPTY]
      /\ \/ type' = type
         \/ type' = [type EXCEPT ![s] = "none"]
         \/ type' = [type EXCEPT ![s] = "player"]
      /\ expire' = expire
  <2> HIDE DEF s
  <2>1. CASE PutInServer(c)
    BY <2>1 DEF PutInServer, pool
  <2>2. CASE Respawn(c)
    BY <2>2 DEF Respawn, pool
  <2>3. CASE Killed(c)
    BY <2>3 DEF Killed, Reset, s
  <2>4. CASE ClientDisconnect(c)
    BY <2>4 DEF ClientDisconnect, Reset, pool, s
  <2>5. CASE PostThink(c)
    BY <2>5 DEF PostThink, s
  <2>6. CASE PostThinkFatal(c)
    BY <2>6 DEF PostThinkFatal, s
  <2>7. QED
    BY <2>1, <2>2, <2>3, <2>4, <2>5, <2>6
<1> HIDE DEF s
<1>3. Active' \ Reserved = Active \ Reserved
  <2>1. CASE lists' = lists
    BY <2>1, SameLists
  <2>2. CASE lists' = [lists EXCEPT !.next[s] = EMPTY]
    BY <1>1, <2>2, ResetEffect
  <2>3. QED
    BY <1>2, <2>1, <2>2
<1>4. \A x \in Slots \ Reserved : type'[x] = type[x]
  BY <1>1, <1>2
<1>5. ASSUME NEW x \in Slots \ Reserved PROVE Posted'[x] = Posted[x]
  <2>1. (x \in Active' <=> x \in Active) /\ type'[x] = type[x] /\ expire'[x] = expire[x]
    BY <1>2, <1>3, <1>4
  <2>2. Posted'[x] = IF x \in Active' THEN Note(type'[x], expire'[x]) ELSE NoSound
    BY PostedFacts
  <2>3. Posted[x] = IF x \in Active THEN Note(type[x], expire[x]) ELSE NoSound
    BY PostedFacts
  <2>4. QED
    BY <2>1, <2>2, <2>3
<1>6. /\ Posted = [x \in Slots \ Reserved |-> Posted[x]]
      /\ Posted' = [x \in Slots \ Reserved |-> Posted'[x]]
  BY PostedFacts
<1>7. QED
  BY <1>5, <1>6

\* What changes neither the pool nor the sounds does not show.
LEMMA SamePosted ==
    ASSUME lists' = lists, type' = type, expire' = expire
    PROVE  Posted' = Posted
BY DEF Posted, Active, ActiveList

\* Every step of the pool is one of the board, or does not show on it.
LEMMA BoardStep ==
    SoundInv /\ [SoundNext]_soundVars => [Board!BoardNext]_Board!boardVars
<1> SUFFICES ASSUME SoundInv, [SoundNext]_soundVars
             PROVE  Board!BoardNext \/ Posted' = Posted
  BY DEF Board!boardVars
<1>1. ASSUME NEW t \in Kinds, InsertSound(t) PROVE Board!BoardNext
  BY <1>1, InsertPosts
<1>2. ASSUME NEW s \in Slots, Elapse(s) PROVE Board!BoardNext \/ Posted' = Posted
  BY <1>2, ElapsePosts
<1>3. ASSUME Think PROVE Board!BoardNext \/ Posted' = Posted
  BY <1>3, ThinkPosts
<1>4. ASSUME NEW c \in Clients,
             \/ PutInServer(c) \/ Respawn(c) \/ Killed(c)
             \/ ClientDisconnect(c) \/ PostThink(c) \/ PostThinkFatal(c)
      PROVE  Posted' = Posted
  BY <1>4, ClientPosts
<1>5. ASSUME GoToIntermission \/ UNCHANGED soundVars PROVE Posted' = Posted
  <2>1. lists' = lists /\ type' = type /\ expire' = expire
    BY <1>5 DEF GoToIntermission, soundVars, pool
  <2>2. QED
    BY <2>1, SamePosted
<1>6. QED
  BY <1>1, <1>2, <1>3, <1>4, <1>5 DEF SoundNext

\* The pool, its lists and Think's loop over them implement the board: whatever
\* happens to the players and their slots, a sound stays up, unchanged, until its
\* time is over, and is gone at the first Think after that.
THEOREM PoolImplementsBoard == SoundSpec => ImplementsBoard
<1>1. SoundSpec => []SoundInv
  BY SoundInvariant
<1>2. SoundInit => Board!BoardInit
  BY BoardInitially
<1>3. SoundInv /\ [SoundNext]_soundVars => [Board!BoardNext]_Board!boardVars
  BY BoardStep
<1>4. QED
  BY <1>1, <1>2, <1>3, PTL DEF SoundSpec, ImplementsBoard, Board!BoardSpec

-----------------------------------------------------------------------------
(* CBaseMonster::Listen *)

\* What a round of the loop does to each part.
LEMMA CollectedFacts ==
    ASSUME lists \in Lists, NEW heard, NEW w \in Hearings, w.at # EMPTY
    PROVE  /\ Collected(w, heard) \in Hearings
           /\ Collected(w, heard).at = lists.next[w.at]
           /\ w.at \in heard => /\ Collected(w, heard).link = [w.link EXCEPT ![w.at] = w.head]
                                /\ Collected(w, heard).head = w.at
           /\ w.at \notin heard => /\ Collected(w, heard).link = w.link
                                   /\ Collected(w, heard).head = w.head
<1> DEFINE next == lists.next[w.at]
           link2 == [w.link EXCEPT ![w.at] = w.head]
<1>1. /\ w.link \in [Slots -> Links] /\ w.head \in Links /\ w.at \in Links /\ w.at \in Slots
      /\ w \in [link : [Slots -> Links], head : Links, at : Links]
  BY LinkFacts DEF Hearings
<1>2. next \in Links
  BY <1>1 DEF Lists
<1>3. link2 \in [Slots -> Links]
  BY <1>1
<1> HIDE DEF next, link2
<1>4. CASE w.at \in heard
  <2> DEFINE v == [link |-> link2, head |-> w.at, at |-> next]
  <2>1. Collected(w, heard) = v
    BY <1>4 DEF Collected, link2, next
  <2>2. v \in [link : [Slots -> Links], head : Links, at : Links]
    BY <1>1, <1>2, <1>3
  <2>3. v.link = link2 /\ v.head = w.at /\ v.at = next
    OBVIOUS
  <2> HIDE DEF v
  <2>4. QED
    BY <1>4, <2>1, <2>2, <2>3 DEF Hearings, link2, next
<1>5. CASE w.at \notin heard
  <2> DEFINE v == [w EXCEPT !.at = next]
  <2>1. Collected(w, heard) = v
    BY <1>5 DEF Collected, next
  <2>2. v \in [link : [Slots -> Links], head : Links, at : Links]
    BY <1>1, <1>2
  <2>3. v.link = w.link /\ v.head = w.head /\ v.at = next
    BY <1>1
  <2> HIDE DEF v
  <2>4. QED
    BY <1>5, <2>1, <2>2, <2>3 DEF Hearings, next
<1>6. QED
  BY <1>4, <1>5

ListenRule(f, heard) ==
    /\ \A w \in Hearings : w.at = EMPTY => \A n \in Nat : f[n][w] = w
    /\ \A w \in Hearings : w.at # EMPTY => \A n \in Nat : f[n + 1][w] = f[n][Collected(w, heard)]

\* Listen's loop is defined by recursion.
LEMMA ListenRecursion ==
    ASSUME lists \in Lists, NEW heard, Listen(heard)
    PROVE  \E f, end :
               /\ ListenRule(f, heard)
               /\ end = f[MaxWorldSounds][[link |-> iNextAudible, head |-> EMPTY,
                                           at |-> lists.active]]
               /\ iNextAudible' = end.link /\ heads' = heads \cup ({end.head} \ {EMPTY})
<1> DEFINE D == [Hearings -> Hearings]
           G == [p \in D \X Nat |->
                   [w \in Hearings |-> IF w.at = EMPTY THEN w ELSE p[1][Collected(w, heard)]]]
           start == [w \in Hearings |-> w]
           Body(f) == [n \in Nat |->
                         [w \in Hearings |->
                            IF n = 0 \/ w.at = EMPTY THEN w ELSE f[n - 1][Collected(w, heard)]]]
           from == CHOOSE f : f = Body(f)
<1>1. start \in D
  OBVIOUS
<1>2. G \in [D \X Nat -> D]
  <2>1. ASSUME NEW g \in D
        PROVE  [w \in Hearings |-> IF w.at = EMPTY THEN w ELSE g[Collected(w, heard)]] \in D
    BY CollectedFacts
  <2>2. ASSUME NEW p \in D \X Nat PROVE p[1] \in D
    OBVIOUS
  <2> HIDE DEF D
  <2>3. QED
    BY <2>1, <2>2
<1>3. PICK h \in [Nat -> D] : h[0] = start /\ \A k \in Nat : h[k + 1] = G[<<h[k], k>>]
  <2> HIDE DEF D, G, start
  <2>1. \E h : Recursion(h, D, G, start)
    BY <1>1, <1>2, RecursionExists
  <2>2. QED
    BY <2>1 DEF Recursion
<1>4. h = Body(h)
  <2>1. ASSUME NEW n \in Nat
        PROVE  h[n] = [w \in Hearings |->
                         IF n = 0 \/ w.at = EMPTY THEN w ELSE h[n - 1][Collected(w, heard)]]
    <3>1. CASE n = 0
      BY <1>3, <3>1
    <3>2. CASE n # 0
      <4>1. n - 1 \in Nat /\ n = (n - 1) + 1
        BY <3>2
      <4>2. h[n - 1] \in D /\ h[n] = G[<<h[n - 1], n - 1>>]
        <5> HIDE DEF G, D, start
        <5> QED BY <1>3, <4>1
      <4>3. G[<<h[n - 1], n - 1>>]
              = [w \in Hearings |-> IF w.at = EMPTY THEN w ELSE h[n - 1][Collected(w, heard)]]
        <5> HIDE DEF D
        <5> QED BY <4>1, <4>2
      <4> HIDE DEF G, D, start
      <4>4. QED
        BY <3>2, <4>2, <4>3
    <3>3. QED
      BY <3>1, <3>2
  <2>2. h = [n \in Nat |-> h[n]]
    <3> HIDE DEF D, G, start
    <3> QED BY <1>3
  <2> HIDE DEF D, G, start
  <2>3. QED
    BY <2>1, <2>2
<1>5. from = Body(from)
  <2> HIDE DEF Body
  <2> QED BY <1>4
<1> DEFINE end == from[MaxWorldSounds][[link |-> iNextAudible, head |-> EMPTY,
                                        at |-> lists.active]]
<1>6. iNextAudible' = end.link /\ heads' = heads \cup ({end.head} \ {EMPTY})
  BY DEF Listen
<1> HIDE DEF from, D, G, start
<1>7. ASSUME NEW w \in Hearings, w.at = EMPTY, NEW n \in Nat PROVE from[n][w] = w
  BY <1>5, <1>7
<1>8. ASSUME NEW w \in Hearings, w.at # EMPTY, NEW n \in Nat
      PROVE  from[n + 1][w] = from[n][Collected(w, heard)]
  <2>1. n + 1 \in Nat /\ n + 1 # 0 /\ (n + 1) - 1 = n
    OBVIOUS
  <2>2. from[n + 1] = [x \in Hearings |-> IF n + 1 = 0 \/ x.at = EMPTY THEN x
                                          ELSE from[(n + 1) - 1][Collected(x, heard)]]
    BY <1>5, <2>1
  <2>3. from[n + 1][w] = from[(n + 1) - 1][Collected(w, heard)]
    <3> HIDE DEF Body
    <3> QED BY <1>8, <2>1, <2>2
  <2>4. QED
    BY <2>1, <2>3
<1>9. ListenRule(from, heard)
  BY <1>7, <1>8 DEF ListenRule
<1> HIDE DEF Body
<1>10. QED
  BY <1>6, <1>9

\* x is the end of a list, or a sound heard before the i-th one of the row A.
HeardBefore(x, heard, a, A, i) ==
    x = EMPTY \/ \E m \in 1 .. a : m < i /\ A[m] = x /\ x \in heard

\* Where the loop is: the i-th sound of the active list comes next, the sounds heard
\* so far are linked to earlier ones, other links are as they were, and at most n
\* rounds are left.
ListenAt(w, heard, n, a, A, i) ==
    /\ i \in 1 .. a + 1 /\ a + 1 - i <= n
    /\ w.at = (IF i = a + 1 THEN EMPTY ELSE A[i])
    /\ HeardBefore(w.head, heard, a, A, i)
    /\ \A j \in 1 .. a : j < i /\ A[j] \in heard => HeardBefore(w.link[A[j]], heard, a, A, j)
    /\ \A s \in Slots : (\A j \in 1 .. a : j < i /\ A[j] = s => s \notin heard)
                           => w.link[s] = iNextAudible[s]

\* The active list while Listen walks it: a row of a distinct slots.
Heard(a, A) ==
    /\ lists \in Lists /\ a \in Nat
    /\ \A i \in 1 .. a : A[i] \in Slots
    /\ \A i \in 1 .. a : lists.next[A[i]] = IF i = a THEN EMPTY ELSE A[i + 1]
    /\ \A i \in 1 .. a : \A j \in 1 .. a : A[i] = A[j] => i = j

\* A round goes on to the next sound.
LEMMA ListenStep ==
    ASSUME NEW a, NEW A, Heard(a, A), NEW heard, NEW w \in Hearings, NEW n \in Nat, NEW i,
           ListenAt(w, heard, n + 1, a, A, i), w.at # EMPTY
    PROVE  ListenAt(Collected(w, heard), heard, n, a, A, i + 1)
<1> DEFINE w2 == Collected(w, heard)
<1>1. /\ i \in 1 .. a + 1 /\ a + 1 - i <= n + 1
      /\ w.at = (IF i = a + 1 THEN EMPTY ELSE A[i])
      /\ HeardBefore(w.head, heard, a, A, i)
      /\ \A j \in 1 .. a : j < i /\ A[j] \in heard => HeardBefore(w.link[A[j]], heard, a, A, j)
      /\ \A s \in Slots : (\A j \in 1 .. a : j < i /\ A[j] = s => s \notin heard)
                             => w.link[s] = iNextAudible[s]
  BY DEF ListenAt
<1>2. /\ lists \in Lists /\ a \in Nat
      /\ \A k \in 1 .. a : A[k] \in Slots
      /\ \A k \in 1 .. a : lists.next[A[k]] = IF k = a THEN EMPTY ELSE A[k + 1]
      /\ \A k \in 1 .. a : \A j \in 1 .. a : A[k] = A[j] => k = j
  BY DEF Heard
<1>3. i \in 1 .. a /\ w.at = A[i]
  <2>1. i # a + 1
    BY <1>1
  <2>2. QED
    BY <1>1, <1>2, <2>1
<1>4. i + 1 \in 1 .. a + 1 /\ a + 1 - (i + 1) <= n /\ (i + 1 = a + 1 <=> i = a)
  BY <1>1, <1>2, <1>3
<1>5. /\ w2.at = lists.next[A[i]]
      /\ A[i] \in heard => w2.link = [w.link EXCEPT ![A[i]] = w.head] /\ w2.head = A[i]
      /\ A[i] \notin heard => w2.link = w.link /\ w2.head = w.head
  <2>1. lists \in Lists
    BY <1>2
  <2>2. /\ w2.at = lists.next[w.at]
        /\ w.at \in heard => w2.link = [w.link EXCEPT ![w.at] = w.head] /\ w2.head = w.at
        /\ w.at \notin heard => w2.link = w.link /\ w2.head = w.head
    BY <2>1, CollectedFacts
  <2> HIDE DEF w2
  <2>3. QED
    BY <1>3, <2>2
<1>6. w.link \in [Slots -> Links] /\ A[i] \in Slots
  BY <1>2, <1>3 DEF Hearings
<1> HIDE DEF w2
<1>7. w2.at = (IF i + 1 = a + 1 THEN EMPTY ELSE A[i + 1])
  BY <1>2, <1>3, <1>4, <1>5
<1>8. HeardBefore(w2.head, heard, a, A, i + 1)
  <2>1. CASE A[i] \in heard
    <3>1. i < i + 1
      BY <1>3
    <3>2. QED
      BY <1>3, <1>5, <2>1, <3>1 DEF HeardBefore
  <2>2. CASE A[i] \notin heard
    <3>1. \A m \in 1 .. a : m < i => m < i + 1
      BY <1>3
    <3>2. QED
      BY <1>1, <1>5, <2>2, <3>1 DEF HeardBefore
  <2>3. QED
    BY <2>1, <2>2
<1>9. ASSUME NEW j \in 1 .. a, j < i + 1, A[j] \in heard
      PROVE  HeardBefore(w2.link[A[j]], heard, a, A, j)
  <2>1. CASE j = i
    <3>1. w2.link[A[j]] = w.head
      BY <1>5, <1>6, <1>9, <2>1
    <3>2. QED
      BY <1>1, <2>1, <3>1
  <2>2. CASE j # i
    <3>1. j < i
      BY <1>3, <1>9, <2>2
    <3>2. A[j] # A[i] /\ A[j] \in Slots
      BY <1>2, <1>3, <2>2
    <3>3. w2.link[A[j]] = w.link[A[j]]
      BY <1>5, <1>6, <3>2
    <3>4. QED
      BY <1>1, <1>9, <3>1, <3>3
  <2>3. QED
    BY <2>1, <2>2
<1>10. ASSUME NEW s \in Slots, \A j \in 1 .. a : j < i + 1 /\ A[j] = s => s \notin heard
       PROVE  w2.link[s] = iNextAudible[s]
  <2>1. \A j \in 1 .. a : j < i /\ A[j] = s => s \notin heard
    <3>1. \A m \in 1 .. a : m < i => m < i + 1
      BY <1>3
    <3>2. QED
      BY <1>10, <3>1
  <2>2. w.link[s] = iNextAudible[s]
    BY <1>1, <2>1
  <2>3. s = A[i] => A[i] \notin heard
    <3>1. i < i + 1
      BY <1>3
    <3>2. QED
      BY <1>3, <1>10, <3>1
  <2>4. w2.link[s] = w.link[s]
    BY <1>5, <1>6, <2>3
  <2>5. QED
    BY <2>2, <2>4
<1>11. QED
  BY <1>4, <1>7, <1>8, <1>9, <1>10 DEF ListenAt, w2

\* From wherever the loop is, it comes to its end.
LEMMA ListenWalk ==
    ASSUME NEW a, NEW A, Heard(a, A), NEW heard, NEW f, ListenRule(f, heard),
           NEW m \in Nat, NEW v \in Hearings, \E i : ListenAt(v, heard, m, a, A, i)
    PROVE  f[m][v] \in Hearings /\ ListenAt(f[m][v], heard, 0, a, A, a + 1)
<1> DEFINE Done(w) == w \in Hearings /\ ListenAt(w, heard, 0, a, A, a + 1)
           At(w, n) == \E i : ListenAt(w, heard, n, a, A, i)
           T == {n \in Nat : \E w \in Hearings : At(w, n) /\ ~Done(f[n][w])}
<1>0. lists \in Lists /\ a \in Nat /\ \A j \in 1 .. a : A[j] \in Slots
  BY DEF Heard
<1>1. T = {}
  <2>1. SUFFICES ASSUME T # {} PROVE FALSE
    OBVIOUS
  <2>2. PICK k \in T : \A y \in T : k <= y
    <3>1. T \subseteq Nat
      OBVIOUS
    <3> HIDE DEF T
    <3>2. QED
      BY <2>1, <3>1, LeastNat
  <2>3. k \in Nat
    OBVIOUS
  <2>4. PICK w \in Hearings : At(w, k) /\ ~Done(f[k][w])
    <3> HIDE DEF At, Done
    <3> QED BY <2>2
  <2>5. PICK i : ListenAt(w, heard, k, a, A, i)
    BY <2>4
  <2>6. CASE w.at = EMPTY \/ k = 0
    <3>1. /\ i \in 1 .. a + 1 /\ a + 1 - i <= k
          /\ w.at = (IF i = a + 1 THEN EMPTY ELSE A[i])
      BY <2>5 DEF ListenAt
    <3>2. i = a + 1
      <4>1. i \in 1 .. a => A[i] # EMPTY
        BY <1>0, LinkFacts DEF EmptyIsNoSlot
      <4>2. QED
        BY <1>0, <2>3, <2>6, <3>1, <4>1
    <3>3. w.at = EMPTY
      BY <3>1, <3>2
    <3>4. f[k][w] = w
      BY <2>3, <3>3 DEF ListenRule
    <3>5. ListenAt(w, heard, 0, a, A, a + 1)
      <4>1. a + 1 - (a + 1) <= 0
        BY <1>0
      <4>2. QED
        BY <2>5, <3>2, <4>1 DEF ListenAt
    <3>6. QED
      BY <2>4, <3>4, <3>5
  <2>7. CASE w.at # EMPTY /\ k # 0
    <3>1. k - 1 \in Nat /\ (k - 1) + 1 = k /\ ~(k <= k - 1)
      BY <2>3, <2>7
    <3>2. k - 1 \notin T
      <4> HIDE DEF T
      <4> QED BY <2>2, <3>1
    <3>3. Collected(w, heard) \in Hearings
      BY <1>0, <2>7, CollectedFacts
    <3>4. f[k][w] = f[k - 1][Collected(w, heard)]
      <4>1. f[(k - 1) + 1][w] = f[k - 1][Collected(w, heard)]
        BY <2>7, <3>1 DEF ListenRule
      <4>2. QED
        BY <3>1, <4>1
    <3>5. At(Collected(w, heard), k - 1)
      <4>1. ListenAt(w, heard, (k - 1) + 1, a, A, i)
        BY <2>5, <3>1
      <4>2. ListenAt(Collected(w, heard), heard, k - 1, a, A, i + 1)
        BY <2>7, <3>1, <4>1, ListenStep
      <4>3. QED
        BY <4>2
    <3> HIDE DEF At, Done
    <3>6. Done(f[k - 1][Collected(w, heard)])
      BY <3>1, <3>2, <3>3, <3>5
    <3>7. QED
      BY <2>4, <3>4, <3>6
  <2>8. QED
    BY <2>6, <2>7
<1>2. At(v, m)
  OBVIOUS
<1> HIDE DEF At
<1>3. QED
  BY <1>1, <1>2

-----------------------------------------------------------------------------
(* Every list of audible sounds comes to an end *)

\* The slots of W, which hs belongs to, are linked to slots of W of lower rank.
RankedBy(link, hs, W, rank) ==
    /\ W \subseteq Slots /\ hs \subseteq W
    /\ rank \in [Slots -> Nat]
    /\ \A s \in W : link[s] = EMPTY \/ (link[s] \in W /\ rank[link[s]] < rank[s])

Ranked(link, hs) == \E W, rank : RankedBy(link, hs, W, rank)

\* A list that has just been collected ranks below all older ones: its sounds are
\* linked in the order of the active list, and no sound outside it is linked anew.
LEMMA RankAnew ==
    ASSUME NEW a, NEW A, Heard(a, A), NEW heard, heard \subseteq On(a, A),
           iNextAudible \in [Slots -> Links], NEW hs, Ranked(iNextAudible, hs),
           NEW w \in Hearings, ListenAt(w, heard, 0, a, A, a + 1)
    PROVE  Ranked(w.link, hs \cup ({w.head} \ {EMPTY}))
<1>1. PICK W, rank : RankedBy(iNextAudible, hs, W, rank)
  BY DEF Ranked
<1>2. /\ W \subseteq Slots /\ hs \subseteq W /\ rank \in [Slots -> Nat]
      /\ \A s \in W : \/ iNextAudible[s] = EMPTY
                      \/ iNextAudible[s] \in W /\ rank[iNextAudible[s]] < rank[s]
  BY <1>1 DEF RankedBy
<1>3. /\ a \in Nat /\ \A k \in 1 .. a : A[k] \in Slots
      /\ \A k \in 1 .. a : \A j \in 1 .. a : A[k] = A[j] => k = j
  BY DEF Heard
<1>4. /\ HeardBefore(w.head, heard, a, A, a + 1)
      /\ \A j \in 1 .. a : A[j] \in heard => HeardBefore(w.link[A[j]], heard, a, A, j)
      /\ \A s \in Slots : s \notin heard => w.link[s] = iNextAudible[s]
  <2>1. \A j \in 1 .. a : j < a + 1
    BY <1>3
  <2>2. QED
    BY <2>1 DEF ListenAt
<1> DEFINE At(s) == CHOOSE k \in 1 .. a : A[k] = s
           V == W \cup heard
           new == [s \in Slots |-> IF s \in heard THEN At(s) ELSE rank[s] + a + 1]
<1>5. \A s \in heard : At(s) \in 1 .. a /\ A[At(s)] = s /\ s \in Slots
  <2>1. \A s \in heard : \E k \in 1 .. a : A[k] = s
    BY DEF On
  <2>2. QED
    BY <1>3, <2>1
<1> HIDE DEF At
<1>6. /\ \A s \in heard : new[s] = At(s)
      /\ \A s \in Slots \ heard : new[s] = rank[s] + a + 1 /\ rank[s] \in Nat
  BY <1>2, <1>5
<1>7. new \in [Slots -> Nat]
  BY <1>2, <1>3, <1>5
<1> HIDE DEF new
<1>8. V \subseteq Slots /\ hs \subseteq V
  BY <1>2, <1>5
<1>9. hs \cup ({w.head} \ {EMPTY}) \subseteq V
  BY <1>4, <1>8 DEF HeardBefore
<1>10. ASSUME NEW s \in V
       PROVE  w.link[s] = EMPTY \/ (w.link[s] \in V /\ new[w.link[s]] < new[s])
  <2>1. CASE s \in heard
    <3>1. At(s) \in 1 .. a /\ A[At(s)] = s /\ HeardBefore(w.link[s], heard, a, A, At(s))
      BY <1>4, <1>5, <2>1
    <3>2. CASE w.link[s] = EMPTY
      BY <3>2
    <3>3. CASE w.link[s] # EMPTY
      <4>1. PICK m \in 1 .. a : m < At(s) /\ A[m] = w.link[s] /\ w.link[s] \in heard
        BY <3>1, <3>3 DEF HeardBefore
      <4>2. At(w.link[s]) = m
        BY <1>3, <1>5, <4>1
      <4>3. QED
        BY <1>6, <2>1, <4>1, <4>2
    <3>4. QED
      BY <3>2, <3>3
  <2>2. CASE s \notin heard
    <3>1. s \in W /\ s \in Slots /\ w.link[s] = iNextAudible[s]
      BY <1>2, <1>4, <2>2
    <3>2. CASE iNextAudible[s] = EMPTY
      BY <3>1, <3>2
    <3>3. CASE iNextAudible[s] # EMPTY
      <4> DEFINE t == iNextAudible[s]
      <4>1. t \in W /\ t \in Slots /\ rank[t] < rank[s] /\ rank[t] \in Nat /\ rank[s] \in Nat
        BY <1>2, <3>1, <3>3
      <4>2. new[s] = rank[s] + a + 1
        BY <1>6, <2>2, <3>1
      <4> HIDE DEF t
      <4>3. new[t] < new[s]
        <5>1. CASE t \in heard
          <6>1. new[t] \in 1 .. a
            BY <1>5, <1>6, <5>1
          <6>2. QED
            BY <1>3, <4>1, <4>2, <6>1
        <5>2. CASE t \notin heard
          <6>1. new[t] = rank[t] + a + 1
            BY <1>6, <4>1, <5>2
          <6>2. QED
            BY <1>3, <4>1, <4>2, <6>1
        <5>3. QED
          BY <5>1, <5>2
      <4>4. QED
        BY <3>1, <4>1, <4>3 DEF t
    <3>4. QED
      BY <3>2, <3>3
  <2>3. QED
    BY <2>1, <2>2
<1>11. RankedBy(w.link, hs \cup ({w.head} \ {EMPTY}), V, new)
  BY <1>7, <1>8, <1>9, <1>10 DEF RankedBy
<1>12. QED
  BY <1>11 DEF Ranked

SensesInv ==
    /\ SoundInv
    /\ iNextAudible \in [Slots -> Links]
    /\ Ranked(iNextAudible, heads)

\* Listen keeps every list that a monster may hold ranked.
LEMMA ListenInv ==
    ASSUME SensesInv, NEW heard, Listen(heard)
    PROVE  iNextAudible' \in [Slots -> Links] /\ Ranked(iNextAudible', heads')
<1>1. iNextAudible \in [Slots -> Links] /\ Ranked(iNextAudible, heads) /\ Parted(lists)
  BY DEF SensesInv, SoundInv
<1>2. PICK a, A, f, F : Partition(lists, a, A, f, F)
  BY <1>1 DEF Parted
<1>3. heard \subseteq Active /\ Active = On(a, A)
  <2>1. heard \subseteq Active
    BY DEF Listen
  <2>2. Active = On(a, A)
    BY <1>2, ActiveRow
  <2>3. QED
    BY <2>1, <2>2
<1>4. Heard(a, A) /\ a <= MaxWorldSounds
  <2>1. /\ lists \in Lists /\ a \in Nat /\ \A i \in 1 .. a : A[i] \in Slots
        /\ \A i \in 1 .. a : lists.next[A[i]] = IF i = a THEN EMPTY ELSE A[i + 1]
    BY <1>2, PartitionFacts
  <2>2. /\ A \in [1 .. a -> Slots]
        /\ \A i \in 1 .. a : \A j \in 1 .. a : A[i] = A[j] => i = j
    BY <1>2 DEF Partition, Row
  <2>3. a <= MaxWorldSounds
    BY <2>1, <2>2, SlotsAreFew
  <2>4. QED
    BY <2>1, <2>2, <2>3 DEF Heard
<1>5. lists \in Lists /\ a \in Nat /\ MaxWorldSounds \in Nat
      /\ lists.active = IF a = 0 THEN EMPTY ELSE A[1]
  BY <1>2, PartitionFacts, SoundAssumption
<1> DEFINE start == [link |-> iNextAudible, head |-> EMPTY, at |-> lists.active]
<1>6. PICK g, end : /\ ListenRule(g, heard) /\ end = g[MaxWorldSounds][start]
                    /\ iNextAudible' = end.link
                    /\ heads' = heads \cup ({end.head} \ {EMPTY})
  BY <1>5, ListenRecursion
<1>7. start \in Hearings
  BY <1>1, <1>5, LinkFacts DEF Hearings, Lists
<1>8. start.link = iNextAudible /\ start.head = EMPTY /\ start.at = lists.active
  OBVIOUS
<1> HIDE DEF start
<1>9. ListenAt(start, heard, MaxWorldSounds, a, A, 1)
  <2>1. 1 \in 1 .. a + 1 /\ a + 1 - 1 <= MaxWorldSounds /\ (1 = a + 1 <=> a = 0)
        /\ \A j \in 1 .. a : ~(j < 1)
    BY <1>4, <1>5
  <2>2. start.at = (IF 1 = a + 1 THEN EMPTY ELSE A[1])
    BY <1>5, <1>8, <2>1
  <2>3. HeardBefore(start.head, heard, a, A, 1)
    BY <1>8 DEF HeardBefore
  <2>4. QED
    BY <1>8, <2>1, <2>2, <2>3 DEF ListenAt
<1>10. end \in Hearings /\ ListenAt(end, heard, 0, a, A, a + 1)
  <2>1. \E i : ListenAt(start, heard, MaxWorldSounds, a, A, i)
    BY <1>9
  <2>2. /\ g[MaxWorldSounds][start] \in Hearings
        /\ ListenAt(g[MaxWorldSounds][start], heard, 0, a, A, a + 1)
    BY <1>4, <1>5, <1>6, <1>7, <2>1, ListenWalk
  <2>3. QED
    BY <1>6, <2>2
<1>11. end.link \in [Slots -> Links]
  BY <1>10 DEF Hearings
<1>12. Ranked(end.link, heads \cup ({end.head} \ {EMPTY}))
  BY <1>1, <1>3, <1>4, <1>10, RankAnew
<1>13. QED
  BY <1>6, <1>11, <1>12

\* In ranked lists every walk from a head ends.
LEMMA RankedEnds == SensesInv => AudibleListEnds
<1> SUFFICES ASSUME SensesInv, NEW s \in heads PROVE Ends(iNextAudible, s)
  BY DEF AudibleListEnds
<1>1. iNextAudible \in [Slots -> Links]
  BY DEF SensesInv
<1>2. PICK W, rank : RankedBy(iNextAudible, heads, W, rank)
  BY DEF SensesInv, Ranked
<1>3. /\ W \subseteq Slots /\ s \in W /\ rank \in [Slots -> Nat]
      /\ \A x \in W : \/ iNextAudible[x] = EMPTY
                      \/ iNextAudible[x] \in W /\ rank[iNextAudible[x]] < rank[x]
  BY <1>2 DEF RankedBy
<1>4. QED
  BY <1>1, <1>3, DownWalk

\* The invariant of the monsters' senses: beside the pool's, there is an order in
\* which every list that some monster may still hold leads down, whenever it was
\* collected.
THEOREM SensesInvariant == SensesSpec => []SensesInv
<1>1. SensesInit => SensesInv
  <2> SUFFICES ASSUME SensesInit PROVE SensesInv
    OBVIOUS
  <2>1. SoundInv
    BY SoundInvInit DEF SensesInit
  <2>2. 0 \in Slots
    BY SoundAssumption DEF Slots
  <2>3. iNextAudible \in [Slots -> Links] /\ heads = {}
    BY <2>2, LinkFacts DEF SensesInit
  <2>4. RankedBy(iNextAudible, {}, {}, [s \in Slots |-> 0])
    BY DEF RankedBy
  <2>5. QED
    BY <2>1, <2>3, <2>4 DEF SensesInv, Ranked
<1>2. SensesInv /\ [SensesNext]_sensesVars => SensesInv'
  <2> SUFFICES ASSUME SensesInv, [SensesNext]_sensesVars PROVE SensesInv'
    OBVIOUS
  <2>1. CASE SoundNext /\ UNCHANGED senses
    <3>1. SoundInv'
      BY <2>1, SoundInvNext DEF SensesInv
    <3>2. iNextAudible' = iNextAudible /\ heads' = heads
      BY <2>1 DEF senses
    <3>3. QED
      BY <3>1, <3>2 DEF SensesInv
  <2>2. ASSUME NEW heard \in SUBSET Slots, Listen(heard) PROVE SensesInv'
    <3>1. SoundInv'
      BY <2>2, SoundInvNext DEF SensesInv, Listen
    <3>2. QED
      BY <2>2, <3>1, ListenInv DEF SensesInv
  <2>3. CASE UNCHANGED sensesVars
    <3>1. SoundInv'
      BY <2>3, SoundInvNext DEF SensesInv, sensesVars
    <3>2. iNextAudible' = iNextAudible /\ heads' = heads
      BY <2>3 DEF sensesVars, senses
    <3>3. QED
      BY <3>1, <3>2 DEF SensesInv
  <2>4. QED
    BY <2>1, <2>2, <2>3 DEF SensesNext
<1>3. QED
  BY <1>1, <1>2, PTL DEF SensesSpec

\* Every list of audible sounds comes to an end, for any number of monsters and
\* whenever they last listened.
THEOREM AudibleListsEnd == SensesSpec => []AudibleListEnds
<1>1. SensesSpec => []SensesInv
  BY SensesInvariant
<1>2. SensesInv => AudibleListEnds
  BY RankedEnds
<1>3. QED
  BY <1>1, <1>2, PTL

=============================================================================
